SPECIFICATION Spec
CONSTANTS
  Servers = {s1, s2, s3}
  Fds = {f1, f2}
  NoFd = nofd
  PipeCap = 2
  MAX_MONITOR_CONNECTIONS = 2
  JtagMayFail = TRUE
  PipeMayFail = TRUE
INVARIANTS
  TypeOK
  TableExact
  ListenersAgree
CHECK_DEADLOCK FALSE
SYMMETRY Perms
