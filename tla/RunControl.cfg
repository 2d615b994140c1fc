SPECIFICATION Spec
CONSTANTS
  Servers = {rsp, jsp}
  Rsp = rsp
  IdleListeners = {}
  Fds = {f1, f2}
  NoFd = nofd
  PipeCap = 6
  MAX_MONITOR_CONNECTIONS = 5
  JtagMayFail = FALSE
  PipeMayFail = FALSE
INVARIANTS
  TypeOK
  StoppedMeansStalled
  MonitorBelief
  NoUnsolicitedStop
  StepModeInSync
  RspBacklogBounded
