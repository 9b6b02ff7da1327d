\* Sessions on stdin or on files, one after the other.
CONSTANTS
  Session = {s1, s2}
  Op = {"spawn_and_wait", "spawn_from_file"}
  MaxFd = 6
  MaxSource = 2
  MaxLoad = 2
  None = None
  CreateFails = TRUE
SPECIFICATION Spec
INVARIANTS FilesStayOpen WaitsForSession NothingLeftOpen
PROPERTIES FileCallReturns CancelledExits
CHECK_DEADLOCK FALSE
