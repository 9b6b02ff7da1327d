\* A session on the terminal while others run on files.
CONSTANTS
  Session = {s1, s2}
  Op = {"spawn", "spawn_from_file"}
  MaxFd = 6
  MaxSource = 2
  MaxLoad = 2
  None = None
  CreateFails = FALSE
SPECIFICATION Spec
INVARIANT ScriptsStayOpen
CHECK_DEADLOCK FALSE
