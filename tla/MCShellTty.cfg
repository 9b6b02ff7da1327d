\* An interactive session: the terminal, reopened as t, and scripts a and b.
CONSTANTS
  File = {t, a, b}
  Session = stdin
  Tty = {stdin, t}
  v1 = v1
  v2 = v2
  None = None
  View <- MCView
  Command <- MCCommand
  StartupCommand <- MCStartup
  MaxLines = 2
  AllocFails = FALSE
  Path <- MCPath
SPECIFICATION Spec
INVARIANTS TypeOK InputStack NothingLeft RawOnlyWhileReading OnlyParsedCommandsRun
PROPERTIES FilesLeftForAReason ErrorStopsParents SessionEnds ImplementsSession
