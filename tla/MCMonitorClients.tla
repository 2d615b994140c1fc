-------------------------- MODULE MCMonitorClients --------------------------
(* MonitorClients for TLC: servers are alike, and so are descriptors.      *)
EXTENDS MonitorClients, TLC

Perms == Permutations(Servers) \cup Permutations(Fds)
=============================================================================
