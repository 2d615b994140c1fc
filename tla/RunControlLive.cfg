SPECIFICATION Spec
CONSTANTS
  Servers = {rsp}
  Rsp = rsp
  IdleListeners = {}
  Fds = {f1}
  NoFd = nofd
  PipeCap = 6
  MAX_MONITOR_CONNECTIONS = 5
  JtagMayFail = FALSE
  PipeMayFail = FALSE
PROPERTIES
  NoLostStop
  StepStops
  InterruptStops
  MonitorServes
  ClientServed
