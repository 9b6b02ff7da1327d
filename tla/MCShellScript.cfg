\* A session on a script whose startup command sources another one, and pushes that may fail.
CONSTANTS
  File = {t, a, b}
  Session = stdin
  Tty = {}
  v1 = v1
  v2 = v2
  None = None
  View <- MCView
  Command <- MCCommand
  StartupCommand <- MCStartupSource
  MaxLines = 2
  AllocFails = TRUE
  Path <- MCPath
SPECIFICATION Spec
PROPERTY ScriptSessionEnds
