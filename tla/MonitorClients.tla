--------------------------- MODULE MonitorClients ---------------------------
(***************************************************************************)
(* The target monitor with servers that call its interface in any order:   *)
(* what hardware_monitor.c promises to every server, however the others    *)
(* behave.  A server may register, send any command, read its notices and  *)
(* unregister, again and again.                                            *)
(***************************************************************************)
EXTENDS TargetMonitor

VARIABLE
  seen    \* the last notice each server read since it registered, or "none"

vars == <<tmVars, seen>>

Init ==
  /\ MonitorInit
  /\ stalled \in BOOLEAN
  /\ seen = [s \in Servers |-> "none"]

ServerRegister(s) ==
  /\ pipe_fds[s] = NoFd
  /\ Register(s)
  /\ seen' = [seen EXCEPT ![s] = "none"]

ServerUnregister(s) ==
  /\ Unregister(s)
  /\ UNCHANGED seen

ServerCommand(s) ==
  /\ pipe_fds[s] # NoFd
  /\ \E c \in Commands : Command(s, c)
  /\ UNCHANGED <<stalled, monVars, connections, pipe_fds, toSrv, pipes_mutex, seen>>

ServerRead(s) ==
  /\ \E n \in Notices :
       /\ TakeNotice(s, n)
       /\ seen' = [seen EXCEPT ![s] = n]
  /\ UNCHANGED <<stalled, monVars, connections, pipe_fds, toMon, pipes_mutex>>

\* The running CPU hits a breakpoint.
CpuBreak ==
  /\ ~stalled
  /\ stalled' = TRUE
  /\ UNCHANGED <<monVars, linkVars, pipes_mutex, seen>>

Next ==
  \/ MonitorStep /\ UNCHANGED seen
  \/ CpuBreak
  \/ \E s \in Servers :
       \/ ServerRegister(s)
       \/ ServerUnregister(s)
       \/ ServerCommand(s)
       \/ ServerRead(s)

Spec == Init /\ [][Next]_vars

-----------------------------------------------------------------------------
\* Every variable of the monitor and of its servers has its type.
TypeOK ==
  /\ stalled \in BOOLEAN
  /\ target_is_running \in BOOLEAN
  /\ connections \in Seq(Fds)
  /\ pipe_fds \in [Servers -> Fds \cup {NoFd}]
  /\ toMon \in [Fds -> Seq(Commands)]
  /\ toSrv \in [Fds -> Seq(Notices)]
  /\ pipes_mutex \in {"free", "monitor", "leaked"}
  /\ mpc \in MonitorSteps
  /\ readset \subseteq Fds
  /\ idx \in Nat \ {0}
  /\ nidx \in Nat \ {0}
  /\ notice \in [msg : Notices, back : {"scan", "build"}]
  /\ seen \in [Servers -> Notices \cup {"none"}]

\* The table of connections holds the pipes of the registered servers, each
\* once, whatever order they come and go in (unregistering moves the last
\* entry into the gap).
TableExact ==
  /\ Open = {pipe_fds[s] : s \in Servers} \ {NoFd}
  /\ \A j, k \in 1..Len(connections) : connections[j] = connections[k] => j = k
  /\ \A s, t \in Servers : pipe_fds[s] = pipe_fds[t] /\ pipe_fds[s] # NoFd => s = t

\* The latest notice sent to a server, read or not.
LastNotice(s) ==
  LET sent == toSrv[pipe_fds[s]] IN
  IF sent = <<>> THEN seen[s] ELSE sent[Len(sent)]

\* The monitor has yet to tell the k-th connection of its latest decision.
Untold(k) == mpc = "lock_halt" \/ (mpc = "notify" /\ nidx <= k)

\* Every server that was ever told anything was last told what the monitor
\* believes now, unless it is just about to be told.
ListenersAgree ==
  \A s \in Servers : \A k \in 1..Len(connections) :
    connections[k] = pipe_fds[s] /\ ~Untold(k) /\ LastNotice(s) # "none"
      => (LastNotice(s) = "R") = target_is_running

=============================================================================
