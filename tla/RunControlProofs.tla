-------------------------- MODULE RunControlProofs --------------------------
(***************************************************************************)
(* Proofs about run control, for any number of servers and descriptors.    *)
(***************************************************************************)
EXTENDS RunControl, TargetMonitorProofs, SequenceTheorems, FiniteSets, FiniteSetTheorems, TLAPS

(***************************************************************************)
(* Type correctness.  The monitor's part of TypeOK is disturbed by the     *)
(* monitor's operations only, the rest by the RSP server, GDB and the CPU. *)
(***************************************************************************)
RspTypes ==
  /\ gdb \in {"off", "stopped", "running", "interrupting"}
  /\ sock \in Seq(Requests)
  /\ rpc \in RspSteps
  /\ started \subseteq Servers
  /\ detaching \in BOOLEAN
  /\ target_running \in BOOLEAN
  /\ client_waiting \in BOOLEAN
  /\ single_step_mode \in BOOLEAN
  /\ dsr \in BOOLEAN
  /\ dmr1_st \in BOOLEAN

\* set_stall_state puts a command, and nothing else, into a pipe.
LEMMA StallStateTypes ==
  ASSUME NEW b \in BOOLEAN, MonitorTypes, SetStallState(b)
  PROVE  MonitorTypes'
<1> DEFINE c == IF b THEN "S" ELSE "U"
<1>1. c \in Commands
      BY DEF Commands
<1>2. \/ UNCHANGED toMon
      \/ /\ pipe_fds[Rsp] # NoFd
         /\ toMon' = [toMon EXCEPT ![pipe_fds[Rsp]] = Append(@, c)]
      BY DEF SetStallState, Command
<1> HIDE DEF c
<1>3. CASE pipe_fds[Rsp] # NoFd
  <2>1. pipe_fds[Rsp] \in Fds
        BY <1>3, RunAssumption DEF MonitorTypes
  <2>2. Append(toMon[pipe_fds[Rsp]], c) \in Seq(Commands)
        BY <1>1, <2>1 DEF MonitorTypes
  <2>3. toMon' \in [Fds -> Seq(Commands)]
        BY <1>2, <2>1, <2>2 DEF MonitorTypes
  <2> QED BY <2>3 DEF SetStallState, MonitorTypes, monVars
<1> QED BY <1>2, <1>3 DEF SetStallState, MonitorTypes, monVars

\* The types hold when the threads start.
LEMMA TypesInit == Init => TypeOK
<1> SUFFICES ASSUME Init PROVE MonitorTypes /\ RspTypes
    BY DEF TypeOK, MonitorTypes, RspTypes
<1>1. MonitorTypes
      BY DEF Init, MonitorInit, MonitorTypes, MonitorSteps, Notices
<1>2. rpc \in RspSteps /\ sock \in Seq(Requests)
      BY DEF Init, RspSteps
<1>3. RspTypes
      BY <1>2, Zenon DEF Init, RspTypes
<1> QED BY <1>1, <1>3

\* A step that leaves the monitor alone keeps its types.
LEMMA FrameTypes ==
  ASSUME MonitorTypes, UNCHANGED tmVars
  PROVE  MonitorTypes'
BY DEF MonitorTypes, tmVars, monVars, linkVars

\* Every step of every thread, of GDB and of the CPU keeps the types.
LEMMA TypesNext == TypeOK /\ [Next]_vars => TypeOK'
<1> SUFFICES ASSUME MonitorTypes, RspTypes, [Next]_vars
             PROVE  MonitorTypes' /\ RspTypes'
    BY DEF TypeOK, MonitorTypes, RspTypes
<1>1. CASE Monitor
      BY <1>1, MonitorStepTypes DEF Monitor, RspTypes, rspVars, cpuVars, gdbVars
<1>2. CASE RspThread
  <2>1. ASSUME NEW s \in Listeners, ListenerInit(s)
        PROVE  MonitorTypes' /\ RspTypes'
        BY <2>1, RegisterTypes DEF ListenerInit, Listeners, RspTypes, rspVars, cpuVars, gdbVars
  <2>2. CASE MainLoop
        BY <2>2 DEF MainLoop, tmVars, monVars, linkVars, MonitorTypes, RspTypes, RspSteps, cpuVars, gdbVars
  <2>3. CASE RspAccept
        BY <2>3, RegisterTypes, RunAssumption DEF RspAccept, RspTypes, RspSteps, cpuVars, gdbVars
  <2>4. CASE RspStall
        BY <2>4, StallStateTypes DEF RspStall, RspTypes, RspSteps, cpuVars, gdbVars
  <2>5. CASE RspSetup
    <3>1. MonitorTypes'
          BY <2>5, FrameTypes DEF RspSetup
    <3>2. dsr' \in BOOLEAN /\ client_waiting' \in BOOLEAN
          BY <2>5, Zenon DEF RspSetup
    <3> QED BY <2>5, <3>1, <3>2 DEF RspSetup, RspTypes, RspSteps, gdbVars
  <2>6. CASE RspRequest
    <3> USE <2>6 DEF RspRequest
    <3>1. sock' \in Seq(Requests) /\ UNCHANGED <<gdb, started>>
          BY DEF RspTypes
    <3>2. ASSUME NEW d \in BOOLEAN, RspClose(d)
          PROVE  MonitorTypes' /\ RspTypes'
          BY <3>1, <3>2 DEF RspClose, tmVars, monVars, linkVars, MonitorTypes, RspTypes, RspSteps, cpuVars
    <3>3. CASE RspBreak
          BY <3>1, <3>3, StallStateTypes DEF RspBreak, RspTypes, rspVars, cpuVars
    <3>4. CASE RspReply
          BY <3>1, <3>4 DEF RspReply, tmVars, monVars, linkVars, MonitorTypes, RspTypes, rspVars, cpuVars
    <3>5. CASE RspContinue
          BY <3>1, <3>5, StallStateTypes DEF RspContinue, RspTypes
    <3>6. CASE RspStep
      <4>1. MonitorTypes'
            BY <3>6, StallStateTypes DEF RspStep
      <4>2. dmr1_st' \in BOOLEAN /\ dsr' \in BOOLEAN
            BY <3>6, Zenon DEF RspStep, RspTypes, cpuVars
      <4> QED BY <3>1, <3>6, <4>1, <4>2 DEF RspStep, RspTypes
    <3> QED BY <3>2, <3>3, <3>4, <3>5, <3>6
  <2>7. ASSUME NEW n \in Notices, RspNotice(n)
        PROVE  MonitorTypes' /\ RspTypes'
        BY <2>7, NoticeTypes, RunAssumption DEF RspNotice, RspTypes, cpuVars
  <2>8. CASE CloseStall
    <3>1. MonitorTypes'
          BY <2>8, StallStateTypes, FrameTypes DEF CloseStall
    <3> QED BY <2>8, <3>1 DEF CloseStall, RspTypes, RspSteps, cpuVars, gdbVars
  <2>9. CASE CloseDsr
    <3>1. MonitorTypes'
          BY <2>9, FrameTypes DEF CloseDsr
    <3>2. dsr' \in BOOLEAN
          BY <2>9, Zenon DEF CloseDsr
    <3> QED BY <2>9, <3>1, <3>2 DEF CloseDsr, RspTypes, RspSteps, gdbVars
  <2>10. CASE CloseRestart
    <3>1. MonitorTypes'
          BY <2>10, StallStateTypes, FrameTypes DEF CloseRestart
    <3> QED BY <2>10, <3>1 DEF CloseRestart, RspTypes, RspSteps, cpuVars, gdbVars
  <2>11. CASE CloseUnregister
        BY <2>11, UnregisterTypes, RunAssumption DEF CloseUnregister, RspTypes, RspSteps, cpuVars, gdbVars
  <2>12. CASE DetachRestart
        BY <2>12, StallStateTypes DEF DetachRestart, RspTypes, RspSteps, cpuVars, gdbVars
  <2> QED BY <1>2, <2>1, <2>2, <2>3, <2>4, <2>5, <2>6, <2>7, <2>8, <2>9, <2>10, <2>11, <2>12
          DEF RspThread
<1>3. CASE GdbConnect
      BY <1>3 DEF GdbConnect, tmVars, monVars, linkVars, MonitorTypes, RspTypes, rspVars, cpuVars
<1>4. CASE GdbRequest
  <2> USE <1>4 DEF GdbRequest
  <2>1. PICK r \in {"c", "s", "D", "q"} : sock' = Append(sock, r)
        OBVIOUS
  <2>2. sock' \in Seq(Requests)
        BY <2>1 DEF RspTypes, Requests
  <2>3. gdb' \in {"off", "stopped", "running", "interrupting"}
        OBVIOUS
  <2> QED BY <2>2, <2>3 DEF tmVars, monVars, linkVars, MonitorTypes, RspTypes, rspVars, cpuVars
<1>5. CASE GdbInterrupt
      BY <1>5 DEF GdbInterrupt, tmVars, monVars, linkVars, MonitorTypes, RspTypes, rspVars, cpuVars, Requests
<1>6. CASE GdbQuit
  <2>1. <<"EOF">> \in Seq(Requests) /\ <<"q", "EOF">> \in Seq(Requests)
        BY DEF Requests
  <2>2. sock' \in Seq(Requests)
        BY <1>6, <2>1, ConcatProperties DEF GdbQuit, RspTypes
  <2> QED BY <1>6, <2>2 DEF GdbQuit, tmVars, monVars, linkVars, MonitorTypes, RspTypes, rspVars, cpuVars
<1>7. CASE CpuBreak
      BY <1>7 DEF CpuBreak, monVars, linkVars, MonitorTypes, RspTypes, rspVars, cpuVars, gdbVars
<1>8. ASSUME NEW s \in Listeners, ListenerRead(s)
      PROVE  MonitorTypes' /\ RspTypes'
      BY <1>8, NoticeTypes DEF ListenerRead, Listeners, RspTypes, rspVars, cpuVars, gdbVars
<1>9. CASE UNCHANGED vars
      BY <1>9 DEF vars, tmVars, monVars, linkVars, MonitorTypes, RspTypes, rspVars, cpuVars, gdbVars
<1> QED BY <1>1, <1>2, <1>3, <1>4, <1>5, <1>6, <1>7, <1>8, <1>9 DEF Next

(***************************************************************************)
(* The stop reply.  GDB may rely on a stop reply because of an argument    *)
(* about both threads and everything under way between them:               *)
(*   - a 'U' on its way to the monitor, or the 'R' that answers it, belongs*)
(*     to the one continue or step GDB waits for; there is at most one, and*)
(*     until it has been read the RSP server takes no 'H' for a stop;      *)
(*   - the last notice for the RSP server says what the monitor believes,  *)
(*     so the 'H' that is taken for a stop is not out of date.             *)
(***************************************************************************)
Session == rpc \in {"stall", "setup", "poll"}

\* The monitor still has to write its current notice to the RSP server, which
\* registered last and so comes last.
Owing == mpc = "notify" /\ nidx <= Len(connections)

\* Notices and commands of the RSP server that are on their way.
AtMostOne(seq, x) == \A j, k \in 1..Len(seq) : seq[j] = x /\ seq[k] = x => j = k
PendingR == Holds(RspPipe(toSrv), "R") \/ (Owing /\ notice.msg = "R")
PendingU == Holds(RspPipe(toMon), "U")

\* Where the descriptors are.  The other servers have registered before.
TableInv ==
  /\ rpc = "init" => pipe_fds[Rsp] = NoFd
  /\ Session => pipe_fds[Rsp] # NoFd
  /\ rpc \in {"accept", "detach"} => pipe_fds[Rsp] = NoFd
  /\ rpc # "init" => started = Listeners
  /\ pipe_fds[Rsp] # NoFd =>
       /\ connections # <<>>
       /\ connections[Len(connections)] = pipe_fds[Rsp]
       /\ \A j \in 1..(Len(connections) - 1) : connections[j] # pipe_fds[Rsp]
  /\ \A s \in Listeners : pipe_fds[s] # NoFd =>
       /\ pipe_fds[s] \in Open
       /\ pipe_fds[s] # pipe_fds[Rsp]
  /\ \A f \in Fds : toMon[f] # <<>> => f = pipe_fds[Rsp]
  /\ started \subseteq Listeners
  /\ Len(connections) <= Cardinality(started) + (IF pipe_fds[Rsp] = NoFd THEN 0 ELSE 1)

\* The monitor's own bookkeeping.
MonitorInv ==
  /\ MonitorBelief
  /\ mpc \in {"scan", "notify"} => pipes_mutex = "monitor"
  /\ mpc # "notify" => nidx = 1
  /\ mpc = "notify" => (notice.msg = "R") = target_is_running
  /\ mpc = "lock_halt" => ~target_is_running

\* The last notice the RSP server was sent.
LastNoticeInv ==
  LET sent == RspPipe(toSrv) IN
  ~Owing /\ sent # <<>> /\ sent[Len(sent)] = "H" => ~target_is_running

\* What GDB may ask for, and when.
GdbInv ==
  /\ \A k \in 2..Len(sock) : sock[k] \notin {"c", "s"}
  /\ gdb = "stopped" /\ sock # <<>> => sock[1] \notin {"c", "s"}
  /\ rpc = "poll" /\ client_waiting => (sock # <<>> => sock[1] \notin {"c", "s"})
  /\ NoUnsolicitedStop

\* One 'U' or 'R' under way, and only for a GDB that waits.
UnstallInv ==
  Session =>
    /\ AtMostOne(RspPipe(toMon), "U")
    /\ AtMostOne(RspPipe(toSrv), "R")
    /\ Holds(RspPipe(toSrv), "R") => ~(Owing /\ notice.msg = "R")
    /\ ~(PendingU /\ PendingR)
    /\ PendingU \/ PendingR => rpc = "poll" /\ ~target_running /\ client_waiting

\* GDB's target is stalled, and the monitor knows it.
StoppedInv ==
  /\ rpc = "setup" => ~target_is_running \/ Holds(RspPipe(toMon), "S")
  /\ rpc = "poll" /\ gdb = "stopped" =>
       ~target_is_running \/ Holds(RspPipe(toMon), "S")

StopInv ==
  /\ TypeOK
  /\ TableInv
  /\ MonitorInv
  /\ LastNoticeInv
  /\ GdbInv
  /\ UnstallInv
  /\ StoppedInv

\* The cable works, there are descriptors, and the table has room for every
\* server (the bridge has three servers and room for five).
Reliable ==
  /\ ~JtagMayFail
  /\ ~PipeMayFail
  /\ IsFiniteSet(Servers)
  /\ Cardinality(Servers) <= MAX_MONITOR_CONNECTIONS

\* A byte leaves a pipe, or enters it.
LEMMA TailHolds ==
  ASSUME NEW S, NEW q \in Seq(S), q # <<>>, NEW x
  PROVE  /\ Holds(Tail(q), x) => Holds(q, x)
         /\ Holds(q, x) => Head(q) = x \/ Holds(Tail(q), x)
         /\ Head(q) = x => Holds(q, x)
         /\ AtMostOne(q, x) => AtMostOne(Tail(q), x)
         /\ AtMostOne(q, x) /\ Head(q) = x => ~Holds(Tail(q), x)
<1>1. /\ Tail(q) \in Seq(S)
      /\ Len(Tail(q)) = Len(q) - 1
      /\ \A j \in 1..Len(Tail(q)) : Tail(q)[j] = q[j + 1]
      /\ Head(q) = q[1]
      /\ Len(q) \in Nat /\ Len(q) > 0
      OBVIOUS
<1>2. \A j \in 1..Len(q) : j # 1 => j - 1 \in 1..Len(Tail(q)) /\ q[j] = Tail(q)[j - 1]
      BY <1>1
<1>3. \A j \in 1..Len(Tail(q)) : j + 1 \in 1..Len(q) /\ j + 1 # 1 /\ Tail(q)[j] = q[j + 1]
      BY <1>1
<1>4. 1 \in 1..Len(q)
      BY <1>1
<1>5. Holds(Tail(q), x) => Holds(q, x)
      BY <1>3, Zenon DEF Holds
<1>6. Holds(q, x) => Head(q) = x \/ Holds(Tail(q), x)
      BY <1>1, <1>2, Zenon DEF Holds
<1>7. Head(q) = x => Holds(q, x)
      BY <1>1, <1>4, Zenon DEF Holds
<1>8. AtMostOne(q, x) => AtMostOne(Tail(q), x)
  <2> SUFFICES ASSUME AtMostOne(q, x),
                      NEW j \in 1..Len(Tail(q)), NEW k \in 1..Len(Tail(q)),
                      Tail(q)[j] = x, Tail(q)[k] = x
               PROVE  j = k
      BY Zenon DEF AtMostOne
  <2>1. j + 1 = k + 1
        BY <1>3, Zenon DEF AtMostOne
  <2> QED BY <1>1, <2>1
<1>9. AtMostOne(q, x) /\ Head(q) = x => ~Holds(Tail(q), x)
      BY <1>1, <1>3, <1>4, Zenon DEF Holds, AtMostOne
<1> QED BY <1>5, <1>6, <1>7, <1>8, <1>9

\* What a pipe holds after a byte was written to it.
LEMMA AppendHolds ==
  ASSUME NEW S, NEW q \in Seq(S), NEW y \in S, NEW x
  PROVE  /\ Holds(Append(q, y), x) <=> Holds(q, x) \/ x = y
         /\ AtMostOne(q, x) /\ (x = y => ~Holds(q, x)) => AtMostOne(Append(q, y), x)
<1>1. /\ Append(q, y) \in Seq(S)
      /\ Len(Append(q, y)) = Len(q) + 1
      /\ \A j \in 1..Len(q) : Append(q, y)[j] = q[j]
      /\ Append(q, y)[Len(q) + 1] = y
      /\ Len(q) \in Nat
      OBVIOUS
<1> QED BY <1>1 DEF Holds, AtMostOne

\* Steps of the monitor that neither read a command nor write a notice.
QuietStep ==
  \/ BuildReadset
  \/ SelectReady
  \/ SelectTimeout
  \/ LockScan
  \/ ScanSkip
  \/ ScanDone
  \/ NotifyDone
  \/ Poll
  \/ LockHalt

\* The steps of target_handler that execute no command and write no notice.
LEMMA QuietMonitorSteps ==
  ASSUME Reliable, StopInv, TypeOK', QuietStep,
         UNCHANGED <<started, rspVars, cpuVars, gdbVars>>
  PROVE  StopInv'
<1> USE DEF StopInv, rspVars, cpuVars, gdbVars, linkVars, QuietStep
<1>1. UNCHANGED linkVars
      BY DEF BuildReadset, SelectReady, SelectTimeout, LockScan, ScanSkip, ScanDone,
             NotifyDone, Poll, LockHalt
<1>2. ~Owing
  <2>1. CASE NotifyDone
        BY <2>1 DEF NotifyDone, Owing, TypeOK
  <2>2. CASE ~NotifyDone
    <3>1. mpc # "notify"
          BY <2>2 DEF BuildReadset, SelectReady, SelectTimeout, LockScan, ScanSkip, ScanDone,
                      Poll, LockHalt
    <3> QED BY <3>1 DEF Owing
  <2> QED BY <2>1, <2>2
<1>3. target_is_running' => target_is_running
      BY DEF BuildReadset, SelectReady, SelectTimeout, LockScan, ScanSkip, ScanDone,
             NotifyDone, Poll, LockHalt
<1>4. Owing' => notice'.msg = "H"
      BY DEF BuildReadset, SelectReady, SelectTimeout, LockScan, ScanSkip, ScanDone,
             NotifyDone, Poll, LockHalt, Owing, TypeOK
<1>5. MonitorInv'
      BY DEF MonitorInv, MonitorBelief, TypeOK, BuildReadset, SelectReady, SelectTimeout,
             LockScan, ScanSkip, ScanDone, NotifyDone, Poll, LockHalt
<1> HIDE DEF QuietStep
<1>6. TableInv'
      BY <1>1 DEF TableInv, Session, Open
<1>7. LastNoticeInv'
      BY <1>1, <1>2, <1>3 DEF LastNoticeInv, RspPipe
<1>8. GdbInv'
      BY DEF GdbInv, NoUnsolicitedStop
<1>9. UnstallInv'
      BY <1>1, <1>2, <1>4 DEF UnstallInv, AtMostOne, PendingU, PendingR, RspPipe, Session, Holds
<1>10. StoppedInv'
      BY <1>1, <1>3 DEF StoppedInv, Holds, RspPipe
<1> QED BY <1>5, <1>6, <1>7, <1>8, <1>9, <1>10

\* The monitor writes a notice.  It reaches the RSP server as the last of all,
\* and it says what the monitor believes.
LEMMA NotifyStep ==
  ASSUME StopInv, TypeOK', Notify, UNCHANGED <<started, rspVars, cpuVars, gdbVars>>
  PROVE  StopInv'
<1> USE DEF StopInv, rspVars, cpuVars, gdbVars, Notify
<1>1. connections[nidx] \in Fds /\ notice.msg \in Notices /\ Owing
      BY DEF TypeOK, Owing
<1>2. TableInv'
      BY DEF TableInv, Session, Open
<1>3. MonitorInv'
      BY DEF MonitorInv, MonitorBelief
<1>4. GdbInv'
      BY DEF GdbInv, NoUnsolicitedStop
<1>5. StoppedInv'
      BY DEF StoppedInv, Holds, RspPipe
<1>6. CASE pipe_fds[Rsp] = NoFd
      BY <1>2, <1>3, <1>4, <1>5, <1>6 DEF LastNoticeInv, UnstallInv, RspPipe, TableInv, Session
<1>7. CASE pipe_fds[Rsp] # NoFd /\ nidx # Len(connections)
  <2>0. nidx \in 1..(Len(connections) - 1)
        BY <1>7 DEF TypeOK
  <2>1. connections[nidx] # pipe_fds[Rsp]
        BY <1>7, <2>0, Zenon DEF TableInv
  <2>2. RspPipe(toSrv)' = RspPipe(toSrv) /\ RspPipe(toMon)' = RspPipe(toMon)
        BY <1>1, <1>7, <2>1, RunAssumption DEF RspPipe, TypeOK
  <2>3. Owing'
        BY <1>7 DEF Owing, TypeOK
  <2>4. LastNoticeInv'
        BY <2>3 DEF LastNoticeInv
  <2>5. UnstallInv'
        BY <1>1, <2>2, <2>3 DEF UnstallInv, PendingU, PendingR, Session
  <2> QED BY <1>2, <1>3, <1>4, <1>5, <2>4, <2>5
<1>8. CASE pipe_fds[Rsp] # NoFd /\ nidx = Len(connections)
  <2>1. connections[nidx] = pipe_fds[Rsp]
        BY <1>8 DEF TableInv
  <2>2. /\ RspPipe(toSrv) \in Seq(Notices)
        /\ RspPipe(toSrv)' = Append(RspPipe(toSrv), notice.msg)
        /\ RspPipe(toMon)' = RspPipe(toMon)
        BY <1>1, <1>8, <2>1, RunAssumption DEF RspPipe, TypeOK
  <2>3. ~Owing'
        BY <1>8 DEF Owing, TypeOK
  <2>4. LastNoticeInv'
    <3>1. RspPipe(toSrv)'[Len(RspPipe(toSrv)')] = notice.msg
          BY <1>1, <2>2
    <3>2. notice.msg = "H" => ~target_is_running
          BY DEF MonitorInv
    <3> QED BY <3>1, <3>2 DEF LastNoticeInv
  <2>5. /\ Holds(RspPipe(toSrv)', "R") <=> Holds(RspPipe(toSrv), "R") \/ "R" = notice.msg
        /\ AtMostOne(RspPipe(toSrv), "R") /\ ("R" = notice.msg => ~Holds(RspPipe(toSrv), "R"))
             => AtMostOne(RspPipe(toSrv)', "R")
    <3> HIDE DEF StopInv, Notify
    <3>1. /\ Holds(Append(RspPipe(toSrv), notice.msg), "R")
               <=> Holds(RspPipe(toSrv), "R") \/ "R" = notice.msg
          /\ AtMostOne(RspPipe(toSrv), "R") /\ ("R" = notice.msg => ~Holds(RspPipe(toSrv), "R"))
               => AtMostOne(Append(RspPipe(toSrv), notice.msg), "R")
          BY <1>1, <2>2, AppendHolds, Zenon
    <3> QED BY <2>2, <3>1, Zenon
  <2>6. UnstallInv'
        BY <1>1, <2>2, <2>3, <2>5 DEF UnstallInv, PendingU, PendingR, Session
  <2> QED BY <1>2, <1>3, <1>4, <1>5, <2>4, <2>6
<1> QED BY <1>6, <1>7, <1>8

\* The monitor executes a command.  It can only be one of the RSP server.
LEMMA ScanReadStep ==
  ASSUME Reliable, StopInv, TypeOK', ScanRead, UNCHANGED <<started, rspVars, cpuVars, gdbVars>>
  PROVE  StopInv'
<1> USE DEF StopInv, rspVars, cpuVars, gdbVars
<1> DEFINE cmds == RspPipe(toMon)
           stall == Head(cmds) = "S"
<1>1. connections[idx] = pipe_fds[Rsp] /\ pipe_fds[Rsp] \in Fds /\ pipe_fds[Rsp] # NoFd
      BY MonitorAssumption DEF ScanRead, TableInv, TypeOK
<1>2. /\ cmds \in Seq(Commands) /\ cmds # <<>>
      /\ cmds' = Tail(cmds)
      /\ RspPipe(toSrv)' = RspPipe(toSrv)
      /\ \A f \in Fds : f # pipe_fds[Rsp] => toMon'[f] = toMon[f]
      BY <1>1 DEF ScanRead, RspPipe, TypeOK
<1>3. /\ UNCHANGED <<connections, pipe_fds, toSrv, pipes_mutex, nidx>>
      /\ mpc = "scan" /\ mpc' = "notify"
      /\ notice' = [msg |-> IF stall THEN "H" ELSE "R", back |-> "scan"]
      BY <1>1 DEF ScanRead, RspPipe
<1>4. target_is_running' = ~stall /\ (stall => stalled')
      BY <1>1 DEF ScanRead, RspPipe, StallCpu, Outcomes, Reliable, MonitorInv, MonitorBelief, TypeOK
<1>5. Head(cmds) \in {"S", "U"} /\ (~stall => Head(cmds) = "U")
      BY <1>2 DEF Commands
<1>6. ~Owing /\ Owing'
      BY <1>1, <1>3 DEF Owing, TableInv, MonitorInv, TypeOK
<1>7. TableInv'
      BY <1>1, <1>2, <1>3 DEF TableInv, Session, Open
<1>8. MonitorInv'
      BY <1>3, <1>4 DEF MonitorInv, MonitorBelief
<1>9. LastNoticeInv'
      BY <1>6 DEF LastNoticeInv
<1>10. GdbInv'
      BY DEF GdbInv, NoUnsolicitedStop
<1> HIDE DEF cmds
<1>11. UnstallInv'
      BY <1>2, <1>3, <1>5, <1>6, TailHolds DEF UnstallInv, PendingU, PendingR, Session, cmds
<1>12. StoppedInv'
  <2>1. CASE stall
        BY <1>4, <2>1 DEF StoppedInv
  <2>2. CASE ~stall
    <3>1. PendingU
          BY <1>2, <1>5, <2>2, TailHolds DEF PendingU, cmds
    <3>2. Session => rpc = "poll" /\ gdb # "stopped"
          BY <3>1 DEF UnstallInv, GdbInv, NoUnsolicitedStop
    <3> QED BY <3>2 DEF StoppedInv, Session
  <2> QED BY <2>1, <2>2
<1> QED BY <1>7, <1>8, <1>9, <1>10, <1>11, <1>12

\* set_stall_state changes one thing: what is on its way to the monitor.
LEMMA StallStateEffect ==
  ASSUME TypeOK, NEW b \in BOOLEAN, SetStallState(b)
  PROVE  /\ UNCHANGED <<stalled, monVars, connections, pipe_fds, toSrv, pipes_mutex>>
         /\ pipe_fds[Rsp] = NoFd => UNCHANGED toMon
         /\ pipe_fds[Rsp] # NoFd =>
              /\ RspPipe(toMon) \in Seq(Commands)
              /\ (IF b THEN "S" ELSE "U") \in Commands
              /\ RspPipe(toMon)' = Append(RspPipe(toMon), IF b THEN "S" ELSE "U")
         /\ \A f \in Fds : f # pipe_fds[Rsp] => toMon'[f] = toMon[f]
         /\ RspPipe(toSrv)' = RspPipe(toSrv)
<1>1. UNCHANGED <<stalled, monVars, connections, pipe_fds, toSrv, pipes_mutex>>
      BY DEF SetStallState
<1>2. (IF b THEN "S" ELSE "U") \in Commands
      BY DEF Commands
<1>3. CASE pipe_fds[Rsp] = NoFd
      BY <1>1, <1>3 DEF SetStallState, Command, RspPipe
<1>4. CASE pipe_fds[Rsp] # NoFd
  <2> DEFINE c == IF b THEN "S" ELSE "U"
  <2>1. pipe_fds[Rsp] \in Fds
        BY <1>4, RunAssumption DEF TypeOK
  <2>2. toMon' = [toMon EXCEPT ![pipe_fds[Rsp]] = Append(@, c)]
        BY <1>4 DEF SetStallState, Command
  <2> HIDE DEF c
  <2>3. /\ RspPipe(toMon)' = Append(RspPipe(toMon), c)
        /\ RspPipe(toMon) \in Seq(Commands)
        /\ \A f \in Fds : f # pipe_fds[Rsp] => toMon'[f] = toMon[f]
        BY <1>1, <1>4, <2>1, <2>2 DEF RspPipe, TypeOK
  <2> QED BY <1>1, <1>2, <1>4, <2>3 DEF RspPipe, c
<1> QED BY <1>3, <1>4

\* A 'S' sent in a session adds no 'U'.
LEMMA SendStall ==
  ASSUME TypeOK, pipe_fds[Rsp] # NoFd, SetStallState(TRUE)
  PROVE  /\ Holds(RspPipe(toMon)', "S")
         /\ PendingU' <=> PendingU
         /\ AtMostOne(RspPipe(toMon), "U") => AtMostOne(RspPipe(toMon)', "U")
         /\ Owing' <=> Owing
         /\ PendingR' <=> PendingR
<1>1. /\ RspPipe(toMon) \in Seq(Commands)
      /\ "S" \in Commands
      /\ RspPipe(toMon)' = Append(RspPipe(toMon), "S")
      BY StallStateEffect
<1>2. "S" # "U"
      OBVIOUS
<1>3. UNCHANGED <<mpc, nidx, notice, connections>> /\ RspPipe(toSrv)' = RspPipe(toSrv)
      BY StallStateEffect DEF monVars
<1>4. (Owing' <=> Owing) /\ (PendingR' <=> PendingR)
      BY <1>3 DEF Owing, PendingR
<1>5. /\ Holds(Append(RspPipe(toMon), "S"), "S") <=> Holds(RspPipe(toMon), "S") \/ "S" = "S"
      /\ Holds(Append(RspPipe(toMon), "S"), "U") <=> Holds(RspPipe(toMon), "U") \/ "U" = "S"
      /\ AtMostOne(RspPipe(toMon), "U") /\ ("U" = "S" => ~Holds(RspPipe(toMon), "U"))
           => AtMostOne(Append(RspPipe(toMon), "S"), "U")
      BY <1>1, AppendHolds, Zenon
<1> QED BY <1>1, <1>2, <1>4, <1>5, Zenon DEF PendingU

\* A 'U' may be sent when nothing is under way.
LEMMA SendUnstall ==
  ASSUME TypeOK, pipe_fds[Rsp] # NoFd, SetStallState(FALSE)
  PROVE  /\ ~PendingU => AtMostOne(RspPipe(toMon)', "U")
         /\ Owing' <=> Owing
         /\ PendingR' <=> PendingR
<1>1. /\ RspPipe(toMon) \in Seq(Commands)
      /\ "U" \in Commands
      /\ RspPipe(toMon)' = Append(RspPipe(toMon), "U")
      BY StallStateEffect
<1>2. UNCHANGED <<mpc, nidx, notice, connections>> /\ RspPipe(toSrv)' = RspPipe(toSrv)
      BY StallStateEffect DEF monVars
<1>3. (Owing' <=> Owing) /\ (PendingR' <=> PendingR)
      BY <1>2 DEF Owing, PendingR
<1>4. ~PendingU => AtMostOne(RspPipe(toMon), "U")
      BY Zenon DEF PendingU, Holds, AtMostOne
<1>5. AtMostOne(RspPipe(toMon), "U") /\ ("U" = "U" => ~Holds(RspPipe(toMon), "U"))
           => AtMostOne(Append(RspPipe(toMon), "U"), "U")
      BY <1>1, AppendHolds, Zenon
<1> QED BY <1>1, <1>3, <1>4, <1>5, Zenon DEF PendingU

\* No command disturbs the monitor, the table or the last notice.
LEMMA SendKeepsMonitor ==
  ASSUME StopInv, NEW b \in BOOLEAN, SetStallState(b), UNCHANGED started,
         pipe_fds[Rsp] # NoFd => rpc' \notin {"init", "accept", "detach"},
         pipe_fds[Rsp] = NoFd => rpc' = "accept",
         rpc' # "init" => rpc # "init"
  PROVE  TableInv' /\ MonitorInv' /\ LastNoticeInv'
<1>1. /\ UNCHANGED <<stalled, monVars, connections, pipe_fds, pipes_mutex>>
      /\ \A f \in Fds : f # pipe_fds[Rsp] => toMon'[f] = toMon[f]
      /\ pipe_fds[Rsp] = NoFd => UNCHANGED toMon
      /\ RspPipe(toSrv)' = RspPipe(toSrv)
      BY StallStateEffect DEF StopInv
<1>2. TableInv'
      BY <1>1 DEF StopInv, TableInv, Session, Open
<1>3. MonitorInv'
      BY <1>1 DEF StopInv, MonitorInv, MonitorBelief, monVars
<1>4. LastNoticeInv'
      BY <1>1 DEF StopInv, LastNoticeInv, Owing, monVars
<1> QED BY <1>2, <1>3, <1>4

\* The entries of the table after a registration.
LEMMA AppendEntries ==
  ASSUME NEW S, NEW q \in Seq(S), NEW y \in S, NEW r, r = Append(q, y)
  PROVE  /\ Len(q) \in Nat
         /\ Len(r) = Len(q) + 1
         /\ r[Len(q) + 1] = y
         /\ \A j \in 1..Len(q) : r[j] = q[j]
         /\ {r[k] : k \in 1..Len(r)} = {q[k] : k \in 1..Len(q)} \cup {y}
<1>1. /\ Len(q) \in Nat
      /\ Len(r) = Len(q) + 1
      /\ r[Len(q) + 1] = y
      /\ \A j \in 1..Len(q) : r[j] = q[j]
      OBVIOUS
<1>2. \A k \in 1..(Len(q) + 1) : k = Len(q) + 1 \/ k \in 1..Len(q)
      BY <1>1
<1>3. 1..Len(q) \subseteq 1..(Len(q) + 1) /\ Len(q) + 1 \in 1..(Len(q) + 1)
      BY <1>1
<1> QED BY <1>1, <1>2, <1>3

\* What a successful registration does; the lock it needs keeps the monitor
\* from being in the middle of a scan or a notification.
LEMMA RegisterEffect ==
  ASSUME Reliable, StopInv, NEW s \in Servers, Register(s),
         Len(connections) < MAX_MONITOR_CONNECTIONS
  PROVE  /\ UNCHANGED <<stalled, monVars, pipes_mutex>>
         /\ mpc \notin {"scan", "notify"}
         /\ \E f \in Fds \ Open :
              /\ connections' = Append(connections, f)
              /\ pipe_fds' = [pipe_fds EXCEPT ![s] = f]
              /\ toMon' = [toMon EXCEPT ![f] = <<>>]
              /\ toSrv' = [toSrv EXCEPT ![f] = <<>>]
<1>1. Len(connections) \in Nat /\ MAX_MONITOR_CONNECTIONS \in Nat
      BY MonitorAssumption DEF StopInv, TypeOK
<1>2. ~(Len(connections) >= MAX_MONITOR_CONNECTIONS)
      BY <1>1
<1>3. pipes_mutex = "free" /\ UNCHANGED <<stalled, monVars, pipes_mutex>>
      BY <1>2, Zenon DEF Register, Reliable
<1>4. mpc \notin {"scan", "notify"}
      BY <1>3 DEF StopInv, MonitorInv
<1> QED BY <1>2, <1>3, <1>4, Zenon DEF Register, Reliable

\* jsp_init or hwp_init registers a server before any client exists.
LEMMA ListenerInitStep ==
  ASSUME Reliable, StopInv, TypeOK', NEW s \in Listeners, ListenerInit(s)
  PROVE  StopInv'
<1> USE DEF StopInv
<1>1. /\ s \in Servers /\ s # Rsp /\ s \notin started
      /\ Register(s) /\ started' = started \cup {s}
      /\ rpc = "init" /\ UNCHANGED <<rspVars, cpuVars, gdbVars>>
      /\ pipe_fds[Rsp] = NoFd
      BY DEF ListenerInit, Listeners, TableInv
<1>2. /\ GdbInv' /\ UnstallInv' /\ StoppedInv'
      BY <1>1 DEF GdbInv, NoUnsolicitedStop, UnstallInv, Session, StoppedInv, rspVars, gdbVars
<1>3. IsFiniteSet(started) /\ started' \subseteq Listeners
      BY <1>1, FS_Subset DEF TableInv, Listeners, Reliable
<1>4. /\ Cardinality(started') = Cardinality(started) + 1
      /\ Cardinality(started) \in Nat
      BY <1>1, <1>3, FS_AddElement, FS_CardinalityType
<1>5. CASE Len(connections) < MAX_MONITOR_CONNECTIONS
  <2>1. UNCHANGED <<stalled, monVars, pipes_mutex>>
        BY <1>1, <1>5, RegisterEffect
  <2>2. PICK f \in Fds \ Open :
          /\ connections' = Append(connections, f)
          /\ pipe_fds' = [pipe_fds EXCEPT ![s] = f]
          /\ toMon' = [toMon EXCEPT ![f] = <<>>]
          /\ toSrv' = [toSrv EXCEPT ![f] = <<>>]
        BY <1>1, <1>5, RegisterEffect
  <2>3. pipe_fds'[Rsp] = NoFd
        BY <1>1, <2>2, RunAssumption DEF TypeOK
  <2>4. Open' = Open \cup {f} /\ Len(connections') = Len(connections) + 1 /\ Len(connections) \in Nat
    <3>1. connections \in Seq(Fds) /\ f \in Fds
          BY DEF TypeOK
    <3>2. connections' = Append(connections, f)
          BY <2>2
    <3> HIDE DEF StopInv
    <3>3. /\ {connections'[k] : k \in 1..Len(connections')}
               = {connections[k] : k \in 1..Len(connections)} \cup {f}
          /\ Len(connections') = Len(connections) + 1
          /\ Len(connections) \in Nat
          BY ONLY <3>1, <3>2, AppendEntries
    <3> QED BY <3>3 DEF Open
  <2>5. \A t \in Listeners : pipe_fds'[t] # NoFd => pipe_fds'[t] \in Open' /\ pipe_fds'[t] # NoFd
        BY <1>1, <2>2, <2>4 DEF TableInv, TypeOK, Listeners
  <2>6. \A g \in Fds : toMon'[g] # <<>> => g = pipe_fds'[Rsp]
        BY <1>1, <2>2, <2>3 DEF TableInv, TypeOK
  <2>7. Len(connections') <= Cardinality(started') + 0
    <3>1. Len(connections) <= Cardinality(started) + 0
          BY <1>1 DEF TableInv
    <3> QED BY <1>4, <2>4, <3>1
  <2>8. TableInv'
        BY <1>1, <1>3, <2>3, <2>5, <2>6, <2>7 DEF TableInv, Session, rspVars
  <2>9. MonitorInv' /\ LastNoticeInv'
        BY <2>1, <2>3 DEF MonitorInv, MonitorBelief, LastNoticeInv, RspPipe, monVars
  <2> QED BY <1>2, <2>8, <2>9
<1>6. CASE ~(Len(connections) < MAX_MONITOR_CONNECTIONS)
  <2>1. UNCHANGED <<stalled, monVars, linkVars, pipes_mutex>>
        BY <1>1, <1>6, Zenon DEF Register
  <2>2. TableInv'
        BY <1>1, <1>3, <1>4, <2>1 DEF TableInv, Session, rspVars, linkVars, Open, TypeOK
  <2>3. MonitorInv' /\ LastNoticeInv'
        BY <1>1, <2>1 DEF MonitorInv, MonitorBelief, LastNoticeInv, RspPipe, monVars, linkVars
  <2> QED BY <1>2, <2>2, <2>3
<1> QED BY <1>5, <1>6

\* The table has room for the RSP server: every entry is another server's.
LEMMA RspAcceptStep ==
  ASSUME Reliable, StopInv, TypeOK', RspAccept
  PROVE  StopInv'
<1> USE DEF StopInv
<1>1. /\ Register(Rsp) /\ rpc = "accept" /\ rpc' = "stall"
      /\ UNCHANGED <<started, detaching, target_running, client_waiting, gdbVars>>
      /\ pipe_fds[Rsp] = NoFd /\ started = Listeners
      BY DEF RspAccept, TableInv
<1>2. Len(connections) < MAX_MONITOR_CONNECTIONS
  <2>1. /\ Cardinality(Listeners) = Cardinality(Servers) - 1
        /\ Cardinality(Servers) \in Nat
        BY FS_RemoveElement, FS_CardinalityType, RunAssumption DEF Listeners, Reliable
  <2>2. Len(connections) <= Cardinality(Listeners)
    <3>1. Len(connections) <= Cardinality(Listeners) + 0
          BY <1>1 DEF TableInv
    <3> QED BY <2>1, <3>1 DEF TypeOK
  <2> QED BY <2>1, <2>2, MonitorAssumption DEF Reliable, TypeOK
<1>3. UNCHANGED <<stalled, monVars, pipes_mutex>> /\ mpc \notin {"scan", "notify"}
      BY <1>1, <1>2, RegisterEffect, RunAssumption
<1>4. PICK f \in Fds \ Open :
        /\ connections' = Append(connections, f)
        /\ pipe_fds' = [pipe_fds EXCEPT ![Rsp] = f]
        /\ toMon' = [toMon EXCEPT ![f] = <<>>]
        /\ toSrv' = [toSrv EXCEPT ![f] = <<>>]
      BY <1>1, <1>2, RegisterEffect, RunAssumption
<1>5. /\ pipe_fds'[Rsp] = f /\ f # NoFd /\ f \in Fds
      /\ \A t \in Listeners : pipe_fds'[t] = pipe_fds[t]
      BY <1>4, RunAssumption, MonitorAssumption DEF TypeOK, Listeners
<1>6. /\ Len(connections') = Len(connections) + 1
      /\ connections'[Len(connections) + 1] = f
      /\ \A j \in 1..Len(connections) : connections'[j] = connections[j] /\ connections[j] # f
      /\ Open' = Open \cup {f} /\ Len(connections) \in Nat
  <2>1. connections \in Seq(Fds) /\ f \in Fds
        BY DEF TypeOK
  <2> HIDE DEF StopInv
  <2>2. \A j \in 1..Len(connections) : connections[j] # f
        BY <1>4, Zenon DEF Open
  <2>3. connections' = Append(connections, f)
        BY <1>4
  <2>4. /\ {connections'[k] : k \in 1..Len(connections')}
             = {connections[k] : k \in 1..Len(connections)} \cup {f}
        /\ Len(connections') = Len(connections) + 1
        /\ connections'[Len(connections) + 1] = f
        /\ \A j \in 1..Len(connections) : connections'[j] = connections[j]
        /\ Len(connections) \in Nat
        BY ONLY <2>1, <2>3, AppendEntries
  <2> QED BY <2>2, <2>4 DEF Open
<1>7. RspPipe(toMon)' = <<>> /\ RspPipe(toSrv)' = <<>> /\ ~Owing'
      BY <1>3, <1>4, <1>5 DEF RspPipe, Owing, TypeOK, monVars
<1>8. TableInv'
  <2>1. connections' # <<>> /\ connections'[Len(connections')] = f
        BY <1>6 DEF TypeOK
  <2>2. \A j \in 1..(Len(connections') - 1) : connections'[j] # f
    <3>1. Len(connections') - 1 = Len(connections)
          BY <1>6
    <3> QED BY <1>6, <3>1, Zenon
  <2>3. \A t \in Listeners : pipe_fds'[t] # NoFd => pipe_fds'[t] \in Open' /\ pipe_fds'[t] # f
        BY <1>4, <1>5, <1>6 DEF TableInv
  <2>4. \A g \in Fds : toMon'[g] # <<>> => g = f
    <3>1. \A g \in Fds : g # f => toMon'[g] = toMon[g]
          BY <1>4 DEF TypeOK
    <3>2. \A g \in Fds : toMon[g] = <<>>
          BY <1>1, MonitorAssumption DEF TableInv
    <3> QED BY <3>1, <3>2
  <2>5. Len(connections') <= Cardinality(started') + 1
    <3>1. Len(connections) <= Cardinality(started) + 0 /\ Cardinality(started) \in Nat
          BY <1>1, FS_Subset, FS_CardinalityType DEF TableInv, Reliable, Listeners
    <3> QED BY <1>1, <1>6, <3>1 DEF TypeOK
  <2>6. rpc' = "stall" /\ started' = Listeners
        BY <1>1
  <2> QED BY <1>5, <2>1, <2>2, <2>3, <2>4, <2>5, <2>6 DEF TableInv, Session
<1>9. MonitorInv'
      BY <1>3 DEF MonitorInv, MonitorBelief, monVars
<1>10. LastNoticeInv'
      BY <1>7 DEF LastNoticeInv
<1>11. GdbInv' /\ StoppedInv'
      BY <1>1 DEF GdbInv, NoUnsolicitedStop, StoppedInv, gdbVars
<1>12. UnstallInv'
      BY <1>7 DEF UnstallInv, PendingU, PendingR, Holds, AtMostOne
<1> QED BY <1>8, <1>9, <1>10, <1>11, <1>12

\* Steps that leave the monitor, its table and its pipes alone.
LEMMA FrameTable ==
  ASSUME StopInv, UNCHANGED <<tmVars, started>>,
         rpc' = rpc \/ <<rpc, rpc'>> \in {<<"setup", "poll">>, <<"poll", "close">>,
           <<"close", "close_dsr">>, <<"close_dsr", "close_restart">>,
           <<"close_restart", "close_unreg">>}
           \/ (rpc = "init" /\ rpc' = "accept" /\ started = Listeners)
           \/ (rpc = "detach" /\ rpc' = "accept")
  PROVE  /\ TableInv' /\ MonitorInv' /\ LastNoticeInv'
         /\ RspPipe(toMon)' = RspPipe(toMon)
         /\ RspPipe(toSrv)' = RspPipe(toSrv)
         /\ Owing' = Owing /\ PendingU' = PendingU /\ PendingR' = PendingR
         /\ UNCHANGED <<target_is_running, notice>>
<1>1. UNCHANGED <<connections, pipe_fds, toMon, toSrv, pipes_mutex, stalled,
                  target_is_running, mpc, nidx, notice>>
      BY DEF tmVars, monVars, linkVars
<1>2. TableInv'
      BY <1>1 DEF StopInv, TableInv, Session, Open
<1>3. MonitorInv'
      BY <1>1 DEF StopInv, MonitorInv, MonitorBelief
<1>4. LastNoticeInv'
      BY <1>1 DEF StopInv, LastNoticeInv, Owing, RspPipe
<1>5. RspPipe(toMon)' = RspPipe(toMon) /\ RspPipe(toSrv)' = RspPipe(toSrv)
      BY <1>1 DEF RspPipe
<1>6. Owing' = Owing
      BY <1>1 DEF Owing
<1>7. PendingU' = PendingU /\ PendingR' = PendingR
      BY <1>1, <1>5, <1>6 DEF PendingU, PendingR
<1> QED BY <1>1, <1>2, <1>3, <1>4, <1>5, <1>6, <1>7

\* A new session: the stall is requested, then the setup is done.
LEMMA RspStallStep ==
  ASSUME StopInv, TypeOK', RspStall
  PROVE  StopInv'
<1> USE DEF StopInv
<1>1. /\ SetStallState(TRUE) /\ rpc = "stall" /\ rpc' = "setup"
      /\ UNCHANGED <<started, gdbVars>> /\ pipe_fds[Rsp] # NoFd
      BY DEF RspStall, TableInv, Session
<1>2. TableInv' /\ MonitorInv' /\ LastNoticeInv'
      BY <1>1, SendKeepsMonitor
<1>3. GdbInv'
      BY <1>1 DEF GdbInv, NoUnsolicitedStop, gdbVars
<1>4. /\ Holds(RspPipe(toMon)', "S")
      /\ PendingU' <=> PendingU
      /\ AtMostOne(RspPipe(toMon), "U") => AtMostOne(RspPipe(toMon)', "U")
      /\ Owing' <=> Owing
      /\ PendingR' <=> PendingR
      BY <1>1, SendStall
<1>5. RspPipe(toSrv)' = RspPipe(toSrv) /\ UNCHANGED notice
      BY <1>1, StallStateEffect DEF monVars
<1>6. UnstallInv'
      BY <1>1, <1>4, <1>5 DEF UnstallInv, Session
<1>7. StoppedInv'
      BY <1>1, <1>4 DEF StoppedInv
<1> QED BY <1>2, <1>3, <1>6, <1>7

\* The DSR is written and the client is not waiting for anything.
LEMMA RspSetupStep ==
  ASSUME StopInv, TypeOK', RspSetup
  PROVE  StopInv'
<1> USE DEF StopInv
<1>1. /\ rpc = "setup" /\ rpc' = "poll" /\ UNCHANGED <<tmVars, started, gdbVars>>
      /\ client_waiting' = FALSE
      BY DEF RspSetup
<1>2. /\ TableInv' /\ MonitorInv' /\ LastNoticeInv'
      /\ RspPipe(toMon)' = RspPipe(toMon)
      /\ RspPipe(toSrv)' = RspPipe(toSrv)
      /\ Owing' = Owing /\ PendingU' = PendingU /\ PendingR' = PendingR
      /\ UNCHANGED <<target_is_running, notice>>
      BY <1>1, FrameTable
<1>3. GdbInv'
      BY <1>1 DEF GdbInv, NoUnsolicitedStop, gdbVars
<1>4. UnstallInv'
      BY <1>1, <1>2 DEF UnstallInv, Session
<1>5. StoppedInv'
      BY <1>1, <1>2 DEF StoppedInv
<1> QED BY <1>2, <1>3, <1>4, <1>5

\* The RSP server reads a notice.
LEMMA RspNoticeStep ==
  ASSUME StopInv, TypeOK', NEW n \in Notices, RspNotice(n)
  PROVE  StopInv'
<1> USE DEF StopInv
<1> DEFINE sent == RspPipe(toSrv)
<1>1. /\ rpc = "poll" /\ rpc' = "poll" /\ Session /\ sock = <<>>
      /\ TakeNotice(Rsp, n) /\ target_running' = (n = "R")
      /\ UNCHANGED <<stalled, monVars, connections, pipe_fds, toMon, pipes_mutex, started, sock>>
      BY DEF RspNotice, Session
<1>2. /\ pipe_fds[Rsp] # NoFd /\ pipe_fds[Rsp] \in Fds
      /\ sent \in Seq(Notices) /\ sent # <<>> /\ n = Head(sent)
      /\ sent' = Tail(sent) /\ RspPipe(toMon)' = RspPipe(toMon)
      BY <1>1, RunAssumption DEF TakeNotice, TypeOK, RspPipe
<1>3. Owing' = Owing /\ PendingU' = PendingU /\ UNCHANGED <<target_is_running, notice>>
      BY <1>1, <1>2 DEF Owing, PendingU, monVars
<1>4. TableInv' /\ MonitorInv'
      BY <1>1 DEF TableInv, Session, Open, MonitorInv, MonitorBelief, monVars
<1> HIDE DEF sent
<1>5. LastNoticeInv'
  <2>1. sent' # <<>> => sent'[Len(sent')] = sent[Len(sent)]
        BY <1>2
  <2> QED BY <1>2, <1>3, <2>1 DEF LastNoticeInv, sent
<1>6. /\ Holds(sent', "R") => Holds(sent, "R")
      /\ Head(sent) = "R" => Holds(sent, "R")
      /\ AtMostOne(sent, "R") => AtMostOne(sent', "R")
      /\ AtMostOne(sent, "R") /\ Head(sent) = "R" => ~Holds(sent', "R")
      BY <1>2, TailHolds
<1>7. CASE n = "H" /\ target_running /\ client_waiting
  <2>1. client_waiting' = FALSE /\ target_running' = FALSE
        BY <1>7 DEF RspNotice
  <2>2. ~PendingU /\ ~PendingR
        BY <1>1, <1>7 DEF UnstallInv
  <2>3. ~target_is_running
    <3>1. CASE Owing
      <4>1. notice.msg # "R"
            BY <2>2, <3>1 DEF PendingR
      <4> QED BY <3>1, <4>1 DEF MonitorInv, Owing
    <3>2. CASE ~Owing
      <4>1. sent[Len(sent)] \in Notices /\ sent[Len(sent)] # "R"
            BY <1>2, <2>2 DEF PendingR, Holds, sent
      <4> QED BY <1>2, <3>2, <4>1 DEF LastNoticeInv, Notices, sent
    <3> QED BY <3>1, <3>2
  <2>4. ~PendingU' /\ ~PendingR'
        BY <1>2, <1>3, <1>6, <2>2 DEF PendingU, PendingR, sent
  <2>5. UnstallInv'
        BY <1>1, <1>2, <1>3, <1>6, <2>4 DEF UnstallInv, PendingR, sent
  <2>6. GdbInv'
        BY <1>1, <2>1 DEF GdbInv, NoUnsolicitedStop
  <2>7. StoppedInv'
        BY <1>1, <1>3, <2>3 DEF StoppedInv
  <2> QED BY <1>4, <1>5, <2>5, <2>6, <2>7
<1>8. CASE ~(n = "H" /\ target_running /\ client_waiting)
  <2>1. UNCHANGED <<client_waiting, gdb>>
        BY <1>8 DEF RspNotice
  <2>2. GdbInv'
        BY <1>1, <2>1 DEF GdbInv, NoUnsolicitedStop
  <2>3. StoppedInv'
        BY <1>1, <1>2, <1>3, <2>1 DEF StoppedInv
  <2>4. n = "R" => ~PendingU' /\ ~PendingR'
        BY <1>1, <1>2, <1>3, <1>6 DEF UnstallInv, PendingR, sent
  <2>5. PendingR' => PendingR
        BY <1>3, <1>6 DEF PendingR, sent
  <2>6. UnstallInv'
        BY <1>1, <1>2, <1>3, <1>6, <2>1, <2>4, <2>5 DEF UnstallInv, PendingR, sent
  <2> QED BY <1>4, <1>5, <2>2, <2>3, <2>6
<1> QED BY <1>7, <1>8

\* The RSP server handles a request.  Only a continue or a step, which GDB
\* sends when nothing is under way, adds a 'U'.
LEMMA RspRequestStep ==
  ASSUME StopInv, TypeOK', RspRequest
  PROVE  StopInv'
<1> USE DEF StopInv
<1> DEFINE r == Head(sock)
<1>1. /\ rpc = "poll" /\ Session /\ pipe_fds[Rsp] # NoFd
      /\ sock # <<>> /\ sock' = Tail(sock) /\ UNCHANGED <<gdb, started>>
      BY DEF RspRequest, Session, TableInv
<1>2. /\ r = sock[1]
      /\ \A k \in 1..Len(sock') : k + 1 \in 2..Len(sock) /\ sock'[k] = sock[k + 1]
      /\ Len(sock') \in Nat /\ (sock' # <<>> => 1 \in 1..Len(sock'))
      BY <1>1 DEF TypeOK
<1>3. \A k \in 1..Len(sock') : sock'[k] \notin {"c", "s"}
      BY <1>2 DEF GdbInv
<1>4. /\ \A k \in 2..Len(sock') : sock'[k] \notin {"c", "s"}
      /\ sock' # <<>> => sock'[1] \notin {"c", "s"}
      BY <1>2, <1>3
<1> HIDE DEF r
<1>5. CASE RspReply
  <2>1. UNCHANGED <<tmVars, rspVars>>
        BY <1>5 DEF RspReply
  <2>2. rpc' = "poll" /\ UNCHANGED <<client_waiting, target_running>>
        BY <1>1, <2>1 DEF rspVars
  <2>3. /\ TableInv' /\ MonitorInv' /\ LastNoticeInv'
        /\ RspPipe(toMon)' = RspPipe(toMon)
        /\ RspPipe(toSrv)' = RspPipe(toSrv)
        /\ Owing' = Owing /\ PendingU' = PendingU /\ PendingR' = PendingR
        /\ UNCHANGED <<target_is_running, notice>>
        BY <1>1, <2>1, <2>2, FrameTable
  <2>4. GdbInv'
        BY <1>1, <1>4, <2>2 DEF GdbInv, NoUnsolicitedStop
  <2>5. UnstallInv' /\ StoppedInv'
        BY <1>1, <2>2, <2>3 DEF UnstallInv, Session, StoppedInv
  <2> QED BY <2>3, <2>4, <2>5
<1>6. ASSUME NEW d \in BOOLEAN, RspClose(d)
      PROVE  StopInv'
  <2>1. rpc' = "close" /\ UNCHANGED tmVars
        BY <1>6 DEF RspClose
  <2>2. TableInv' /\ MonitorInv' /\ LastNoticeInv'
        BY <1>1, <2>1, FrameTable
  <2>3. GdbInv' /\ UnstallInv' /\ StoppedInv'
        BY <1>1, <1>4, <2>1 DEF GdbInv, NoUnsolicitedStop, UnstallInv, Session, StoppedInv
  <2> QED BY <2>2, <2>3
<1>7. CASE SetStallState(TRUE) /\ UNCHANGED <<rspVars, cpuVars>>
  <2>1. rpc' = "poll" /\ UNCHANGED <<client_waiting, target_running>>
        BY <1>1, <1>7 DEF rspVars
  <2>2. TableInv' /\ MonitorInv' /\ LastNoticeInv'
        BY <1>1, <1>7, <2>1, SendKeepsMonitor
  <2>3. GdbInv'
        BY <1>1, <1>4, <2>1 DEF GdbInv, NoUnsolicitedStop
  <2>4. /\ Holds(RspPipe(toMon)', "S")
        /\ PendingU' <=> PendingU
        /\ AtMostOne(RspPipe(toMon), "U") => AtMostOne(RspPipe(toMon)', "U")
        /\ Owing' <=> Owing
        /\ PendingR' <=> PendingR
        BY <1>1, <1>7, SendStall
  <2>5. RspPipe(toSrv)' = RspPipe(toSrv) /\ UNCHANGED notice
        BY <1>7, StallStateEffect DEF monVars
  <2>6. UnstallInv'
        BY <1>1, <2>1, <2>4, <2>5 DEF UnstallInv, Session
  <2>7. StoppedInv'
        BY <2>1, <2>4 DEF StoppedInv
  <2> QED BY <2>2, <2>3, <2>6, <2>7
<1>8. CASE (r \in {"c", "s"}) /\ ~target_running /\ (RspContinue \/ RspStep)
  <2>1. /\ SetStallState(FALSE) /\ rpc' = "poll" /\ client_waiting' = TRUE
        /\ UNCHANGED target_running
        BY <1>1, <1>8 DEF RspContinue, RspStep
  <2>2. ~client_waiting /\ gdb # "stopped"
        BY <1>1, <1>2, <1>8 DEF GdbInv
  <2>3. ~PendingU /\ ~PendingR
        BY <1>1, <2>2 DEF UnstallInv
  <2>4. TableInv' /\ MonitorInv' /\ LastNoticeInv'
        BY <1>1, <2>1, SendKeepsMonitor
  <2>5. GdbInv'
        BY <1>1, <1>4, <2>1, <2>2 DEF GdbInv, NoUnsolicitedStop
  <2>6. AtMostOne(RspPipe(toMon)', "U") /\ (Owing' <=> Owing) /\ ~PendingR'
        BY <1>1, <2>1, <2>3, SendUnstall
  <2>7. RspPipe(toSrv)' = RspPipe(toSrv) /\ UNCHANGED notice
        BY <2>1, StallStateEffect DEF monVars
  <2>8. UnstallInv'
        BY <1>1, <1>8, <2>1, <2>6, <2>7 DEF UnstallInv, Session
  <2>9. StoppedInv'
        BY <1>1, <2>1, <2>2 DEF StoppedInv
  <2> QED BY <2>4, <2>5, <2>8, <2>9
<1> QED BY <1>5, <1>6, <1>7, <1>8 DEF RspRequest, RspBreak, r

\* The client is closed.  What was under way no longer matters: the next
\* session starts with new pipes.
LEMMA CloseSteps ==
  ASSUME StopInv, TypeOK', CloseStall \/ CloseDsr \/ CloseRestart \/ DetachRestart
  PROVE  StopInv'
<1> USE DEF StopInv
<1>1. /\ rpc' \in {"close_dsr", "close_restart", "close_unreg", "accept"}
      /\ UNCHANGED <<started, gdbVars>>
      BY DEF CloseStall, CloseDsr, CloseRestart, DetachRestart
<1>2. GdbInv' /\ UnstallInv' /\ StoppedInv'
      BY <1>1 DEF GdbInv, NoUnsolicitedStop, UnstallInv, Session, StoppedInv, gdbVars
<1>3. CASE UNCHANGED tmVars
      BY <1>1, <1>2, <1>3, FrameTable
         DEF CloseStall, CloseDsr, CloseRestart, DetachRestart
<1>4. ASSUME NEW b \in BOOLEAN, SetStallState(b)
      PROVE  StopInv'
  <2>1. CASE pipe_fds[Rsp] = NoFd
    <3>1. UNCHANGED tmVars
          BY <1>4, <2>1, StallStateEffect DEF tmVars, linkVars
    <3> QED BY <1>3, <3>1
  <2>2. CASE pipe_fds[Rsp] # NoFd
    <3>1. rpc # "detach" /\ rpc # "init"
          BY <2>2 DEF TableInv
    <3>2. rpc' # "accept"
          BY <3>1 DEF CloseStall, CloseDsr, CloseRestart, DetachRestart
    <3> QED BY <1>1, <1>2, <1>4, <2>2, <3>1, <3>2, SendKeepsMonitor
  <2> QED BY <2>1, <2>2
<1> QED BY <1>3, <1>4 DEF CloseStall, CloseDsr, CloseRestart, DetachRestart

\* The last entry of the table goes, and no other entry moves.
LEMMA CloseUnregisterStep ==
  ASSUME Reliable, StopInv, TypeOK', CloseUnregister
  PROVE  StopInv'
<1> USE DEF StopInv
<1>1. /\ rpc = "close_unreg" /\ rpc' \in {"accept", "detach"} /\ Unregister(Rsp)
      /\ UNCHANGED <<started, gdbVars>> /\ started = Listeners
      BY DEF CloseUnregister, TableInv
<1>2. GdbInv' /\ UnstallInv' /\ StoppedInv'
      BY <1>1 DEF GdbInv, NoUnsolicitedStop, UnstallInv, Session, StoppedInv, gdbVars
<1>3. UNCHANGED <<stalled, monVars, pipes_mutex>>
      BY <1>1 DEF Unregister
<1>4. MonitorInv'
      BY <1>3 DEF MonitorInv, MonitorBelief, monVars
<1>5. CASE pipe_fds[Rsp] = NoFd
  <2>1. UNCHANGED linkVars
        BY <1>1, <1>5 DEF Unregister
  <2>2. TableInv'
        BY <1>1, <1>5, <2>1 DEF TableInv, Session, linkVars, Open
  <2>3. LastNoticeInv'
        BY <1>5, <2>1 DEF LastNoticeInv, RspPipe, linkVars
  <2> QED BY <1>2, <1>4, <2>2, <2>3
<1>6. CASE pipe_fds[Rsp] # NoFd
  <2>1. PICK k \in 1..Len(connections) :
          /\ connections[k] = pipe_fds[Rsp]
          /\ connections' = SwapRemove(connections, k)
        BY <1>1, <1>6 DEF Unregister
  <2>2. /\ toMon' = [toMon EXCEPT ![pipe_fds[Rsp]] = <<>>]
        /\ pipe_fds' = [pipe_fds EXCEPT ![Rsp] = NoFd]
        /\ pipe_fds[Rsp] \in Fds
        BY <1>1, <1>6, RunAssumption DEF Unregister, TypeOK
  <2>3. /\ pipe_fds'[Rsp] = NoFd
        /\ \A t \in Listeners : pipe_fds'[t] = pipe_fds[t]
        BY <2>2, RunAssumption DEF TypeOK, Listeners
  <2>4. Len(connections) \in Nat /\ Len(connections) > 0 /\ k = Len(connections)
        BY <1>6, <2>1, SMTT(30) DEF TableInv, TypeOK
  <2>5. /\ Len(connections') = Len(connections) - 1
        /\ \A j \in 1..(Len(connections) - 1) : connections'[j] = connections[j]
        BY <2>1, <2>4 DEF SwapRemove
  <2>6. \A t \in Listeners : pipe_fds'[t] # NoFd => pipe_fds'[t] \in Open' /\ pipe_fds'[t] # NoFd
    <3> SUFFICES ASSUME NEW t \in Listeners, pipe_fds[t] # NoFd
                 PROVE  pipe_fds[t] \in Open'
        BY <2>3
    <3>1. PICK j \in 1..Len(connections) : connections[j] = pipe_fds[t]
          BY DEF TableInv, Open
    <3>2. j # Len(connections)
          BY <1>6, <3>1 DEF TableInv
    <3>3. j \in 1..Len(connections') /\ connections'[j] = pipe_fds[t]
          BY <2>4, <2>5, <3>1, <3>2
    <3> QED BY <3>3, Zenon DEF Open
  <2>7. \A g \in Fds : toMon'[g] = <<>>
        BY <2>2 DEF TableInv, TypeOK
  <2>8. Len(connections') <= Cardinality(started) + 0
    <3>1. Len(connections) <= Cardinality(started) + 1
          BY <1>6 DEF TableInv
    <3>2. Cardinality(started) \in Nat
          BY FS_Subset, FS_CardinalityType DEF TableInv, Reliable, Listeners
    <3> QED BY <2>4, <2>5, <3>1, <3>2
  <2>9. TableInv'
        BY <1>1, <2>3, <2>6, <2>7, <2>8 DEF TableInv, Session
  <2>10. LastNoticeInv'
        BY <2>3 DEF LastNoticeInv, RspPipe
  <2> QED BY <1>2, <1>4, <2>9, <2>10
<1> QED BY <1>5, <1>6

\* GDB writes to its socket.
LEMMA GdbSteps ==
  ASSUME StopInv, TypeOK', GdbConnect \/ GdbRequest \/ GdbInterrupt \/ GdbQuit
  PROVE  StopInv'
<1> USE DEF StopInv
<1>1. UNCHANGED <<tmVars, started, rspVars>>
      BY DEF GdbConnect, GdbRequest, GdbInterrupt, GdbQuit
<1>2. UNCHANGED <<rpc, client_waiting, target_running>>
      BY <1>1 DEF rspVars
<1>3. /\ TableInv' /\ MonitorInv' /\ LastNoticeInv'
      /\ RspPipe(toMon)' = RspPipe(toMon)
      /\ RspPipe(toSrv)' = RspPipe(toSrv)
      /\ Owing' = Owing /\ PendingU' = PendingU /\ PendingR' = PendingR
      /\ UNCHANGED <<target_is_running, notice>>
      BY <1>1, <1>2, FrameTable
<1>4. UnstallInv'
      BY <1>2, <1>3 DEF UnstallInv, Session
<1>5. StoppedInv'
      BY <1>2, <1>3 DEF StoppedInv, GdbConnect, GdbRequest, GdbInterrupt, GdbQuit
<1>6. GdbInv'
  <2>1. CASE GdbConnect
        BY <1>2, <2>1 DEF GdbConnect, GdbInv, NoUnsolicitedStop
  <2>2. CASE GdbRequest
    <3>1. PICK r \in {"c", "s", "D", "q"} :
            /\ gdb = "stopped" /\ sock = <<>> /\ sock' = Append(sock, r)
            /\ r \in {"c", "s"} => gdb' = "running"
          BY <2>2 DEF GdbRequest
    <3>2. Len(sock') = 1 /\ sock'[1] = r
          BY <3>1
    <3>3. rpc = "poll" => ~client_waiting
          BY <3>1 DEF GdbInv, NoUnsolicitedStop
    <3> QED BY <1>2, <3>1, <3>2, <3>3 DEF GdbInv, NoUnsolicitedStop
  <2>3. CASE GdbInterrupt
    <3>1. sock' = Append(sock, "brk") /\ gdb' = "interrupting" /\ sock \in Seq(Requests)
          BY <2>3 DEF GdbInterrupt, TypeOK
    <3>2. /\ Len(sock) \in Nat /\ Len(sock') = Len(sock) + 1 /\ sock'[Len(sock) + 1] = "brk"
          /\ \A k \in 1..Len(sock) : sock'[k] = sock[k]
          /\ sock = <<>> <=> Len(sock) = 0
          BY <3>1
    <3> QED BY <1>2, <3>1, <3>2 DEF GdbInv, NoUnsolicitedStop
  <2>4. CASE GdbQuit
    <3>1. PICK more \in {<<"EOF">>, <<"q", "EOF">>} : sock' = sock \o more
          BY <2>4 DEF GdbQuit
    <3>2. /\ more \in Seq(Requests) /\ sock \in Seq(Requests) /\ gdb' = "off"
          /\ \A k \in 1..Len(more) : more[k] \notin {"c", "s"}
          /\ Len(more) \in Nat /\ Len(more) > 0
      <4>1. sock \in Seq(Requests) /\ gdb' = "off"
            BY <2>4 DEF GdbQuit, TypeOK
      <4>2. CASE more = <<"EOF">>
            BY <4>1, <4>2 DEF Requests
      <4>3. CASE more = <<"q", "EOF">>
        <5>1. Len(more) = 2 /\ more[1] = "q" /\ more[2] = "EOF" /\ more \in Seq(Requests)
              BY <4>3 DEF Requests
        <5>2. \A k \in 1..Len(more) : k = 1 \/ k = 2
              BY <5>1
        <5> QED BY <4>1, <5>1, <5>2
      <4> QED BY <4>2, <4>3
    <3>3. /\ Len(sock') = Len(sock) + Len(more)
          /\ \A k \in 1..(Len(sock) + Len(more)) :
               sock'[k] = IF k <= Len(sock) THEN sock[k] ELSE more[k - Len(sock)]
          BY <3>1, <3>2, ConcatProperties
    <3>4. \A k \in 1..Len(sock') : k > Len(sock) => sock'[k] \notin {"c", "s"}
          BY <3>2, <3>3
    <3>5. \A k \in 1..Len(sock') : k <= Len(sock) => sock'[k] = sock[k]
          BY <3>2, <3>3
    <3>6. Len(sock) \in Nat /\ Len(sock') \in Nat /\ Len(sock') > 0 /\ (sock # <<>> => Len(sock) > 0)
          BY <3>2, <3>3
    <3>7. \A k \in 2..Len(sock') : sock'[k] \notin {"c", "s"}
          BY <3>4, <3>5, <3>6 DEF GdbInv
    <3>8. rpc = "poll" /\ client_waiting => sock'[1] \notin {"c", "s"}
          BY <3>4, <3>5, <3>6 DEF GdbInv
    <3> QED BY <1>2, <3>2, <3>7, <3>8 DEF GdbInv, NoUnsolicitedStop
  <2> QED BY <2>1, <2>2, <2>3, <2>4
<1> QED BY <1>3, <1>4, <1>5, <1>6

\* main() enters handle_rsp with every listener registered.
LEMMA MainLoopStep ==
  ASSUME StopInv, TypeOK', MainLoop
  PROVE  StopInv'
<1> USE DEF StopInv
<1>1. /\ rpc = "init" /\ rpc' = "accept" /\ started = Listeners
      /\ UNCHANGED <<tmVars, started, gdbVars>>
      BY DEF MainLoop
<1>2. TableInv' /\ MonitorInv' /\ LastNoticeInv'
      BY <1>1, FrameTable
<1>3. GdbInv' /\ UnstallInv' /\ StoppedInv'
      BY <1>1 DEF GdbInv, NoUnsolicitedStop, UnstallInv, Session, StoppedInv, gdbVars
<1> QED BY <1>2, <1>3

\* A breakpoint only stalls the CPU, which no belief contradicts.
LEMMA CpuBreakStep ==
  ASSUME StopInv, TypeOK', CpuBreak
  PROVE  StopInv'
BY DEF CpuBreak, StopInv, TableInv, MonitorInv, MonitorBelief, LastNoticeInv, GdbInv,
       NoUnsolicitedStop, UnstallInv, StoppedInv, Session, Open, Owing, PendingU, PendingR,
       RspPipe, monVars, linkVars, rspVars, gdbVars

\* The other servers read pipes of their own.
LEMMA ListenerReadStep ==
  ASSUME StopInv, TypeOK', NEW s \in Listeners, ListenerRead(s)
  PROVE  StopInv'
<1> USE DEF StopInv
<1>1. /\ UNCHANGED <<stalled, monVars, connections, pipe_fds, toMon, pipes_mutex,
                     started, rspVars, gdbVars>>
      /\ pipe_fds[s] # NoFd /\ pipe_fds[s] # pipe_fds[Rsp] /\ pipe_fds[s] \in Fds
      /\ toSrv' = [toSrv EXCEPT ![pipe_fds[s]] = Tail(@)]
      BY DEF ListenerRead, TakeNotice, TableInv, TypeOK, Listeners
<1>2. RspPipe(toSrv)' = RspPipe(toSrv) /\ RspPipe(toMon)' = RspPipe(toMon)
      BY <1>1, RunAssumption DEF RspPipe, TypeOK
<1>3. Owing' = Owing /\ PendingU' = PendingU /\ PendingR' = PendingR
      BY <1>1, <1>2 DEF Owing, PendingU, PendingR, monVars
<1>4. TableInv' /\ MonitorInv'
      BY <1>1 DEF TableInv, Session, Open, MonitorInv, MonitorBelief, monVars, rspVars
<1>5. LastNoticeInv' /\ GdbInv' /\ UnstallInv' /\ StoppedInv'
      BY <1>1, <1>2, <1>3
         DEF LastNoticeInv, GdbInv, NoUnsolicitedStop, UnstallInv, StoppedInv, Session,
             monVars, rspVars, gdbVars
<1> QED BY <1>4, <1>5

\* The invariant holds when the threads start.
LEMMA StopInit == Init => StopInv
<1> SUFFICES ASSUME Init PROVE StopInv
    OBVIOUS
<1>1. TypeOK
      BY TypesInit
<1>2. /\ pipe_fds[Rsp] = NoFd /\ rpc = "init" /\ connections = <<>> /\ sock = <<>> /\ started = {}
      /\ mpc = "build" /\ nidx = 1 /\ target_is_running = TRUE /\ toMon = [f \in Fds |-> <<>>]
      /\ pipe_fds = [s \in Servers |-> NoFd]
      BY RunAssumption DEF Init, MonitorInit
<1>3. TableInv
  <2>1. Cardinality({}) = 0 /\ Len(connections) = 0
        BY <1>2, FS_EmptySet
  <2> QED BY <1>2, <2>1 DEF TableInv, Session, Listeners
<1>4. MonitorInv /\ LastNoticeInv
      BY <1>2 DEF MonitorInv, MonitorBelief, LastNoticeInv, RspPipe
<1>5. GdbInv /\ UnstallInv /\ StoppedInv
      BY <1>2 DEF GdbInv, NoUnsolicitedStop, UnstallInv, Session, StoppedInv
<1> QED BY <1>1, <1>3, <1>4, <1>5 DEF StopInv

\* Every step preserves the invariant: one lemma per action, put together.
LEMMA StopNext == Reliable /\ StopInv /\ [Next]_vars => StopInv'
<1> SUFFICES ASSUME Reliable, StopInv, [Next]_vars PROVE StopInv'
    OBVIOUS
<1>1. TypeOK'
      BY TypesNext DEF StopInv
<1>2. CASE Monitor
  <2>1. UNCHANGED <<started, rspVars, cpuVars, gdbVars>> /\ MonitorStep
        BY <1>2 DEF Monitor
  <2> QED BY <1>1, <2>1, QuietMonitorSteps, NotifyStep, ScanReadStep DEF MonitorStep, QuietStep
<1>3. CASE RspThread
      BY <1>1, <1>3, ListenerInitStep, MainLoopStep, RspAcceptStep, RspStallStep, RspSetupStep,
         RspRequestStep, RspNoticeStep, CloseSteps, CloseUnregisterStep DEF RspThread
<1>4. CASE GdbConnect \/ GdbRequest \/ GdbInterrupt \/ GdbQuit
      BY <1>1, <1>4, GdbSteps
<1>5. CASE CpuBreak
      BY <1>1, <1>5, CpuBreakStep
<1>6. ASSUME NEW s \in Listeners \ IdleListeners, ListenerRead(s)
      PROVE  StopInv'
      BY <1>1, <1>6, ListenerReadStep
<1>7. CASE UNCHANGED vars
  <2>1. UNCHANGED <<tmVars, started, rpc, target_running, client_waiting, gdb, sock>>
        BY <1>7 DEF vars, rspVars, gdbVars
  <2>2. /\ TableInv' /\ MonitorInv' /\ LastNoticeInv'
        /\ RspPipe(toMon)' = RspPipe(toMon)
        /\ RspPipe(toSrv)' = RspPipe(toSrv)
        /\ Owing' = Owing /\ PendingU' = PendingU /\ PendingR' = PendingR
        /\ UNCHANGED <<target_is_running, notice>>
        BY <2>1, FrameTable
  <2>3. GdbInv' /\ UnstallInv' /\ StoppedInv'
        BY <2>1, <2>2 DEF StopInv, GdbInv, NoUnsolicitedStop, UnstallInv, Session, StoppedInv
  <2> QED BY <1>1, <2>2, <2>3 DEF StopInv
<1> QED BY <1>2, <1>3, <1>4, <1>5, <1>6, <1>7 DEF Next

(***************************************************************************)
(* The theorems.                                                           *)
(***************************************************************************)

\* Every variable keeps its type, whatever the cable does.
THEOREM TypeCorrect == Spec => []TypeOK
BY TypesInit, TypesNext, PTL DEF Spec

\* The invariant that explains the stop reply.
THEOREM StopInvariant == ASSUME Reliable PROVE Spec => []StopInv
<1>1. StopInv /\ [Next]_vars => StopInv'
      BY StopNext
<1> QED BY <1>1, StopInit, PTL DEF Spec

\* A GDB that got its stop reply, or whose connection the monitor has served,
\* has a stalled CPU in front of it.
THEOREM StopReplyIsTrue == ASSUME Reliable PROVE Spec => []StoppedMeansStalled
<1>1. StopInv => StoppedMeansStalled
      BY DEF StopInv, StoppedInv, MonitorInv, MonitorBelief, StoppedMeansStalled
<1> QED BY <1>1, StopInvariant, PTL

\* The monitor never takes a running target for a stopped one.
THEOREM BeliefIsTrue == ASSUME Reliable PROVE Spec => []MonitorBelief
<1>1. StopInv => MonitorBelief
      BY DEF StopInv, MonitorInv
<1> QED BY <1>1, StopInvariant, PTL

\* GDB is not sent a stop reply it does not wait for.
THEOREM OneStopReply == ASSUME Reliable PROVE Spec => []NoUnsolicitedStop
<1>1. StopInv => NoUnsolicitedStop
      BY DEF StopInv, GdbInv
<1> QED BY <1>1, StopInvariant, PTL

\* The step flag and the DMR1 bit are set and cleared together, a reliable cable provided.
LEMMA StepModeNext == Reliable /\ TypeOK /\ StepModeInSync /\ [Next]_vars => StepModeInSync'
<1> SUFFICES ASSUME Reliable, TypeOK, StepModeInSync, [Next]_vars PROVE StepModeInSync'
    OBVIOUS
<1> USE DEF StepModeInSync, rspVars, cpuVars
<1>1. Outcomes = {TRUE}
      BY DEF Outcomes, Reliable
<1>2. CASE RspContinue
      BY <1>2 DEF RspContinue
<1>3. CASE RspStep
      BY <1>1, <1>3 DEF RspStep
<1>4. CASE RspRequest
  <2>1. CASE UNCHANGED <<single_step_mode, dmr1_st>>
        BY <2>1
  <2>2. RspContinue \/ RspStep \/ UNCHANGED <<single_step_mode, dmr1_st>>
        BY <1>4, Zenon DEF RspRequest, RspBreak, RspReply, RspClose
  <2> QED BY <1>2, <1>3, <2>1, <2>2
<1>5. CASE RspStall
      BY <1>5 DEF RspStall
<1>6. CASE RspThread /\ ~RspRequest /\ ~RspStall
  <2>1. UNCHANGED <<single_step_mode, dmr1_st>>
        BY <1>6, Zenon
           DEF RspThread, ListenerInit, MainLoop, RspAccept, RspSetup, RspNotice, CloseStall,
               CloseDsr, CloseRestart, CloseUnregister, DetachRestart
  <2> QED BY <2>1
<1>7. CASE ~RspThread
      BY <1>7 DEF Next, Monitor, GdbConnect, GdbRequest, GdbInterrupt, GdbQuit, CpuBreak,
                  ListenerRead, vars
<1> QED BY <1>4, <1>5, <1>6, <1>7

\* The server's flag for single stepping never claims a bit the CPU lacks.
THEOREM StepModeIsTrue == ASSUME Reliable PROVE Spec => []StepModeInSync
<1>1. Init => TypeOK /\ StepModeInSync
      BY TypesInit, Zenon DEF Init, StepModeInSync
<1>2. TypeOK /\ StepModeInSync /\ [Next]_vars => (TypeOK /\ StepModeInSync)'
      BY TypesNext, StepModeNext
<1> QED BY <1>1, <1>2, PTL DEF Spec

-----------------------------------------------------------------------------
(***************************************************************************)
(* How far the RSP server may lag behind the monitor.  Every notice is the *)
(* answer to a command or tells of a stop that the monitor found by itself *)
(* while it took the target to be running.  So the notices that are and    *)
(* can still come are bounded by what is under way: a command counts one,  *)
(* an unstall one more for the stop that may end the run it starts.        *)
(***************************************************************************)
Bit(b) == IF b THEN 1 ELSE 0

\* Notices the monitor still has to write, or may find reason to.
Owed == Bit(Owing) + Bit(mpc = "lock_halt") + Bit(target_is_running)

\* All notices that the RSP server has not read and that may come to that.
Load == Len(RspPipe(toSrv)) + Len(RspPipe(toMon)) + Bit(PendingU) + Owed

\* GDB may still interrupt the target once.
BreakDue == gdb = "running" \/ Holds(sock, "brk")

\* The load at each point of a session: the stall that starts it, one continue
\* or step at a time, one interrupt for each, and the stall and unstall of
\* rsp_client_close.
LoadInv ==
  /\ rpc = "stall" => Load <= 1
  /\ rpc = "setup" => Load <= 2
  /\ rpc = "poll" => Load <= 4
  /\ rpc = "poll" /\ target_running => Load + Bit(BreakDue) <= 2
  /\ rpc = "poll" /\ ~target_running /\ ~PendingU /\ ~PendingR => Load <= 2
  /\ rpc = "close" => Load <= 4 /\ (target_running => Load <= 2)
  /\ rpc \in {"close_dsr", "close_restart"} => Load <= 4 /\ (target_running => Load <= 3)
  /\ rpc = "close_unreg" => Load <= 5

\* What makes that true: the commands before an unstall have been executed
\* when its 'R' comes, and at most one notice can follow that 'R'.
OrderInv ==
  /\ AtMostOne(RspPipe(toMon), "U")
  /\ rpc = "poll" /\ PendingU => RspPipe(toMon)[Len(RspPipe(toMon))] = "U"
  /\ rpc = "poll" /\ PendingR => RspPipe(toMon) = <<>>
  /\ rpc = "poll" => \A k \in 1..Len(RspPipe(toSrv)) :
       RspPipe(toSrv)[k] = "R" => Len(RspPipe(toSrv)) - k + Owed <= 1
  /\ rpc \in {"close", "close_dsr", "close_restart"} /\ target_running => ~PendingU

\* GDB interrupts a continue once, and no command but its continue is running.
BreakInv ==
  /\ AtMostOne(sock, "brk")
  /\ gdb \in {"stopped", "running"} => ~Holds(sock, "brk")
  /\ rpc = "setup" => ~target_running
  /\ rpc = "poll" /\ target_running => client_waiting

BacklogInv == OrderInv /\ BreakInv /\ LoadInv

\* The numbers of the count.
LEMMA LoadTypes ==
  ASSUME TypeOK
  PROVE  /\ RspPipe(toSrv) \in Seq(Notices) /\ Len(RspPipe(toSrv)) \in Nat
         /\ RspPipe(toMon) \in Seq(Commands) /\ Len(RspPipe(toMon)) \in Nat
         /\ Owed \in 0..3 /\ Load \in Nat
         /\ Load = Len(RspPipe(toSrv)) + Len(RspPipe(toMon)) + Bit(PendingU) + Owed
<1>1. RspPipe(toSrv) \in Seq(Notices) /\ RspPipe(toMon) \in Seq(Commands)
  <2>1. CASE pipe_fds[Rsp] = NoFd
        BY <2>1 DEF RspPipe
  <2>2. CASE pipe_fds[Rsp] # NoFd
        BY <2>2, RunAssumption DEF RspPipe, TypeOK
  <2> QED BY <2>1, <2>2
<1>2. Len(RspPipe(toSrv)) \in Nat /\ Len(RspPipe(toMon)) \in Nat
      BY <1>1
<1>3. Owed \in 0..3
      BY DEF Owed, Bit
<1>4. Bit(PendingU) \in {0, 1}
      BY DEF Bit
<1> QED BY <1>1, <1>2, <1>3, <1>4 DEF Load

\* The same numbers after a step.
LEMMA LoadTypesNext ==
  ASSUME TypeOK'
  PROVE  /\ RspPipe(toSrv)' \in Seq(Notices) /\ Len(RspPipe(toSrv)') \in Nat
         /\ RspPipe(toMon)' \in Seq(Commands) /\ Len(RspPipe(toMon)') \in Nat
         /\ Owed' \in 0..3 /\ Load' \in Nat
         /\ Load' = Len(RspPipe(toSrv)') + Len(RspPipe(toMon)') + Bit(PendingU') + Owed'
<1>1. RspPipe(toSrv)' \in Seq(Notices) /\ RspPipe(toMon)' \in Seq(Commands)
  <2>1. CASE pipe_fds'[Rsp] = NoFd
        BY <2>1 DEF RspPipe
  <2>2. CASE pipe_fds'[Rsp] # NoFd
        BY <2>2, RunAssumption DEF RspPipe, TypeOK
  <2> QED BY <2>1, <2>2
<1>2. Len(RspPipe(toSrv)') \in Nat /\ Len(RspPipe(toMon)') \in Nat
      BY <1>1
<1>3. Owed' \in 0..3
      BY DEF Owed, Bit
<1>4. Bit(PendingU') \in {0, 1}
      BY DEF Bit
<1> QED BY <1>1, <1>2, <1>3, <1>4 DEF Load

\* Steps that leave the monitor and the pipes alone leave the count alone.
LEMMA FrameLoad ==
  ASSUME UNCHANGED <<connections, pipe_fds, toMon, toSrv, target_is_running, mpc, nidx, notice>>
  PROVE  /\ RspPipe(toMon)' = RspPipe(toMon) /\ RspPipe(toSrv)' = RspPipe(toSrv)
         /\ Owed' = Owed /\ Load' = Load
         /\ PendingU' = PendingU /\ PendingR' = PendingR
<1>1. RspPipe(toMon)' = RspPipe(toMon) /\ RspPipe(toSrv)' = RspPipe(toSrv)
      BY DEF RspPipe
<1>2. Owing' = Owing
      BY DEF Owing
<1>3. PendingU' = PendingU /\ PendingR' = PendingR
      BY <1>1, <1>2 DEF PendingU, PendingR
<1>4. Owed' = Owed
      BY <1>2 DEF Owed
<1> QED BY <1>1, <1>3, <1>4 DEF Load

\* A step of the monitor does one of three things to the RSP server's pipes:
\* nothing, write the notice it owes, or take a command and owe its notice.
QuietMove ==
  /\ RspPipe(toMon)' = RspPipe(toMon) /\ RspPipe(toSrv)' = RspPipe(toSrv)
  /\ Owed' <= Owed
  /\ rpc = "poll" => (PendingR' <=> PendingR)
WriteMove ==
  /\ RspPipe(toMon)' = RspPipe(toMon)
  /\ RspPipe(toSrv)' = Append(RspPipe(toSrv), notice.msg)
  /\ Owing /\ ~Owing' /\ notice.msg \in Notices
  /\ Owed' = Owed - 1 /\ Owed' <= 1
  /\ PendingR' <=> PendingR
ReadMove ==
  /\ RspPipe(toMon) # <<>> /\ RspPipe(toMon)' = Tail(RspPipe(toMon))
  /\ RspPipe(toSrv)' = RspPipe(toSrv)
  /\ Head(RspPipe(toMon)) \in {"S", "U"}
  /\ Owed' = 1 + Bit(Head(RspPipe(toMon)) = "U")
  /\ PendingR' <=> PendingR \/ Head(RspPipe(toMon)) = "U"

\* Whatever step the monitor takes, it is one of those three.
LEMMA MonitorMoves ==
  ASSUME Reliable, StopInv, StopInv', Monitor
  PROVE  QuietMove \/ WriteMove \/ ReadMove
<1> USE DEF StopInv
<1>0. MonitorStep /\ UNCHANGED rspVars
      BY DEF Monitor
<1>1. CASE QuietStep
  <2>1. UNCHANGED linkVars
        BY <1>1 DEF QuietStep, BuildReadset, SelectReady, SelectTimeout, LockScan, ScanSkip,
               ScanDone, NotifyDone, Poll, LockHalt
  <2>2. RspPipe(toMon)' = RspPipe(toMon) /\ RspPipe(toSrv)' = RspPipe(toSrv)
        BY <2>1 DEF linkVars, RspPipe
  <2>3. ~Owing
    <3>1. CASE NotifyDone
          BY <3>1 DEF NotifyDone, Owing, TypeOK
    <3>2. CASE ~NotifyDone
      <4>1. mpc # "notify"
            BY <1>1, <3>2 DEF QuietStep, BuildReadset, SelectReady, SelectTimeout, LockScan,
                   ScanSkip, ScanDone, Poll, LockHalt
      <4> QED BY <4>1 DEF Owing
    <3> QED BY <3>1, <3>2
  <2>4. Owing' => notice'.msg = "H"
        BY <1>1 DEF QuietStep, BuildReadset, SelectReady, SelectTimeout, LockScan, ScanSkip,
               ScanDone, NotifyDone, Poll, LockHalt, Owing, TypeOK
  <2>5. PendingR' <=> PendingR
        BY <2>2, <2>3, <2>4 DEF PendingR
  <2>6. Owed' <= Owed
    <3>1. CASE Poll
      <4>1. mpc = "poll" /\ mpc' \in {"lock_halt", "build"}
            BY <3>1 DEF Poll
      <4>2. mpc' = "lock_halt" => target_is_running /\ ~target_is_running'
            BY <3>1 DEF Poll
      <4>3. mpc' = "build" => target_is_running' = target_is_running
            BY <3>1 DEF Poll
      <4>4. ~Owing'
            BY <4>1 DEF Owing
      <4> QED BY <2>3, <4>1, <4>2, <4>3, <4>4 DEF Owed, Bit
    <3>2. CASE LockHalt
      <4>1. mpc = "lock_halt" /\ mpc' = "notify" /\ target_is_running' = target_is_running
            BY <3>2 DEF LockHalt
      <4> QED BY <2>3, <4>1 DEF Owed, Bit
    <3>3. CASE ~Poll /\ ~LockHalt
      <4>1. mpc' \notin {"notify", "lock_halt"} /\ target_is_running' = target_is_running
            BY <1>1, <3>3 DEF QuietStep, BuildReadset, SelectReady, SelectTimeout, LockScan,
                   ScanSkip, ScanDone, NotifyDone, TypeOK
      <4>2. ~Owing'
            BY <4>1 DEF Owing
      <4> QED BY <2>3, <4>1, <4>2 DEF Owed, Bit
    <3> QED BY <3>1, <3>2, <3>3
  <2> QED BY <2>2, <2>5, <2>6 DEF QuietMove
<1>2. CASE Notify
  <2>1. connections[nidx] \in Fds /\ notice.msg \in Notices /\ Owing
        BY <1>2 DEF Notify, TypeOK, Owing
  <2>2. /\ mpc = "notify" /\ UNCHANGED <<mpc, target_is_running, notice, connections, pipe_fds, toMon>>
        /\ nidx' = nidx + 1 /\ nidx <= Len(connections)
        /\ toSrv' = [toSrv EXCEPT ![connections[nidx]] = Append(@, notice.msg)]
        BY <1>2 DEF Notify
  <2>3. RspPipe(toMon)' = RspPipe(toMon)
        BY <2>2 DEF RspPipe
  <2>4. CASE pipe_fds[Rsp] = NoFd
    <3>1. RspPipe(toSrv)' = RspPipe(toSrv) /\ rpc # "poll"
          BY <2>2, <2>4 DEF RspPipe, TableInv, Session
    <3>2. Owed' <= Owed
          BY <2>1, <2>2 DEF Owed, Bit
    <3> QED BY <2>3, <3>1, <3>2 DEF QuietMove
  <2>5. CASE pipe_fds[Rsp] # NoFd /\ nidx # Len(connections)
    <3>0. nidx \in 1..(Len(connections) - 1)
          BY <2>2, <2>5 DEF TypeOK
    <3>1. connections[nidx] # pipe_fds[Rsp]
          BY <2>5, <3>0, Zenon DEF TableInv
    <3>2. RspPipe(toSrv)' = RspPipe(toSrv)
          BY <2>1, <2>2, <2>5, <3>1, RunAssumption DEF RspPipe, TypeOK
    <3>3. Owing'
          BY <2>2, <2>5 DEF Owing, TypeOK
    <3>4. Owed' <= Owed /\ (PendingR' <=> PendingR)
          BY <2>1, <2>2, <3>2, <3>3 DEF Owed, Bit, PendingR
    <3> QED BY <2>3, <3>2, <3>4 DEF QuietMove
  <2>6. CASE pipe_fds[Rsp] # NoFd /\ nidx = Len(connections)
    <3>1. connections[nidx] = pipe_fds[Rsp]
          BY <2>6 DEF TableInv
    <3>2. /\ RspPipe(toSrv) \in Seq(Notices)
          /\ RspPipe(toSrv)' = Append(RspPipe(toSrv), notice.msg)
          BY <2>1, <2>2, <2>6, <3>1, RunAssumption DEF RspPipe, TypeOK
    <3>3. ~Owing'
          BY <2>2, <2>6 DEF Owing, TypeOK
    <3>4. Owed' = Owed - 1 /\ Owed' <= 1
          BY <2>1, <2>2, <3>3 DEF Owed, Bit
    <3>5. Holds(Append(RspPipe(toSrv), notice.msg), "R") <=> Holds(RspPipe(toSrv), "R") \/ "R" = notice.msg
          BY <2>1, <3>2, AppendHolds, Zenon
    <3>6. PendingR' <=> PendingR
          BY <2>1, <3>2, <3>3, <3>5, Zenon DEF PendingR
    <3> QED BY <2>1, <2>3, <3>2, <3>3, <3>4, <3>6 DEF WriteMove
  <2> QED BY <2>4, <2>5, <2>6
<1>3. CASE ScanRead
  <2>1. connections[idx] = pipe_fds[Rsp] /\ pipe_fds[Rsp] \in Fds /\ pipe_fds[Rsp] # NoFd
        BY <1>3, MonitorAssumption DEF ScanRead, TableInv, TypeOK
  <2>2. /\ RspPipe(toMon) \in Seq(Commands) /\ RspPipe(toMon) # <<>>
        /\ RspPipe(toMon)' = Tail(RspPipe(toMon))
        /\ RspPipe(toSrv)' = RspPipe(toSrv)
        BY <1>3, <2>1 DEF ScanRead, RspPipe, TypeOK
  <2>3. Head(RspPipe(toMon)) \in {"S", "U"}
        BY <2>2 DEF Commands
  <2>4. /\ UNCHANGED <<connections, nidx>> /\ mpc = "scan" /\ mpc' = "notify"
        /\ notice' = [msg |-> IF Head(RspPipe(toMon)) = "S" THEN "H" ELSE "R", back |-> "scan"]
        BY <1>3, <2>1 DEF ScanRead, RspPipe
  <2>5. ~Owing /\ Owing'
        BY <2>1, <2>4 DEF Owing, TableInv, MonitorInv, TypeOK
  <2>6. target_is_running' <=> Head(RspPipe(toMon)) = "U"
    <3>1. (notice'.msg = "R") = target_is_running'
          BY <2>4 DEF MonitorInv
    <3> QED BY <2>3, <2>4, <3>1
  <2>7. Owed' = 1 + Bit(Head(RspPipe(toMon)) = "U")
        BY <2>4, <2>5, <2>6 DEF Owed, Bit
  <2>8. PendingR' <=> PendingR \/ Head(RspPipe(toMon)) = "U"
        BY <2>2, <2>3, <2>4, <2>5 DEF PendingR
  <2> QED BY <2>2, <2>3, <2>7, <2>8 DEF ReadMove
<1> QED BY <1>0, <1>1, <1>2, <1>3 DEF MonitorStep, QuietStep

\* No step of the monitor adds to what the RSP server may have to read.
LEMMA MonitorKeepsBacklog ==
  ASSUME Reliable, StopInv, StopInv', BacklogInv, Monitor
  PROVE  BacklogInv'
<1> DEFINE P == RspPipe(toSrv)
           M == RspPipe(toMon)
<1>1. /\ UNCHANGED <<rpc, target_running, client_waiting, gdb, sock>>
      BY DEF Monitor, rspVars, gdbVars
<1>2. BreakInv'
      BY <1>1 DEF BacklogInv, BreakInv
<1>3. /\ P \in Seq(Notices) /\ Len(P) \in Nat /\ M \in Seq(Commands) /\ Len(M) \in Nat
      /\ Owed \in 0..3 /\ Load \in Nat /\ Load = Len(P) + Len(M) + Bit(PendingU) + Owed
      BY LoadTypes DEF StopInv
<1>4. /\ P' \in Seq(Notices) /\ Len(P') \in Nat /\ M' \in Seq(Commands) /\ Len(M') \in Nat
      /\ Owed' \in 0..3 /\ Load' \in Nat /\ Load' = Len(P') + Len(M') + Bit(PendingU') + Owed'
      BY LoadTypesNext DEF StopInv
<1>5. AtMostOne(M, "U") /\ (PendingU <=> Holds(M, "U")) /\ (PendingU' <=> Holds(M', "U"))
      BY DEF BacklogInv, OrderInv, PendingU
<1>6. SUFFICES OrderInv' /\ Load' <= Load /\ (rpc = "poll" => (PendingU \/ PendingR => PendingU' \/ PendingR'))
  <2>1. ASSUME Load' <= Load, rpc = "poll" => (PendingU \/ PendingR => PendingU' \/ PendingR')
        PROVE  LoadInv'
    <3>1. BreakDue' = BreakDue
          BY <1>1 DEF BreakDue
    <3>2. Bit(BreakDue) \in {0, 1}
          BY DEF Bit
    <3> QED BY <1>1, <1>3, <1>4, <2>1, <3>1, <3>2, SMTT(30) DEF BacklogInv, LoadInv
  <2> QED BY <1>2, <2>1 DEF BacklogInv
<1>7. CASE QuietMove
  <2>1. M' = M /\ P' = P /\ Owed' <= Owed /\ (rpc = "poll" => (PendingR' <=> PendingR))
        BY <1>7 DEF QuietMove
  <2>2. PendingU' = PendingU
        BY <2>1 DEF PendingU
  <2>3. Load' <= Load
        BY <1>3, <1>4, <2>1, <2>2 DEF Bit
  <2>4. OrderInv'
    <3>1. \A k \in 1..Len(P) : Len(P) - k + Owed <= 1 => Len(P) - k + Owed' <= 1
          BY <1>3, <1>4, <2>1
    <3> QED BY <1>1, <2>1, <2>2, <3>1 DEF BacklogInv, OrderInv
  <2> QED BY <2>1, <2>2, <2>3, <2>4
<1>8. CASE WriteMove
  <2>1. /\ M' = M /\ P' = Append(P, notice.msg) /\ notice.msg \in Notices /\ Owing
        /\ Owed' = Owed - 1 /\ Owed' <= 1 /\ (PendingR' <=> PendingR)
        BY <1>8 DEF WriteMove
  <2>2. PendingU' = PendingU
        BY <2>1 DEF PendingU
  <2>3. Len(P') = Len(P) + 1 /\ (\A k \in 1..Len(P) : P'[k] = P[k]) /\ P'[Len(P) + 1] = notice.msg
    <3> HIDE DEF P
    <3> QED BY <1>3, <2>1
  <2>4. Load' <= Load
        BY <1>3, <1>4, <2>1, <2>2, <2>3 DEF Bit
  <2>5. rpc = "poll" => \A k \in 1..Len(P') : P'[k] = "R" => Len(P') - k + Owed' <= 1
    <3> SUFFICES ASSUME rpc = "poll", NEW k \in 1..(Len(P) + 1), P'[k] = "R"
                 PROVE  (Len(P) + 1) - k + Owed' <= 1
        BY <2>3
    <3>1. CASE k = Len(P) + 1
          BY <1>3, <1>4, <2>1, <3>1
    <3>2. CASE k # Len(P) + 1
      <4>1. k \in 1..Len(P) /\ P[k] = "R"
            BY <1>3, <2>3, <3>2
      <4>2. Len(P) - k + Owed <= 1
            BY <4>1 DEF BacklogInv, OrderInv
      <4> QED BY <1>3, <1>4, <2>1, <4>1, <4>2
    <3> QED BY <3>1, <3>2
  <2>6. OrderInv'
        BY <1>1, <2>1, <2>2, <2>5 DEF BacklogInv, OrderInv
  <2> QED BY <2>1, <2>2, <2>4, <2>6
<1>9. CASE ReadMove
  <2>1. /\ M # <<>> /\ M' = Tail(M) /\ P' = P
        /\ Head(M) \in {"S", "U"} /\ Owed' = 1 + Bit(Head(M) = "U")
        /\ PendingR' <=> PendingR \/ Head(M) = "U"
        BY <1>9 DEF ReadMove
  <2>2. /\ Holds(M', "U") => Holds(M, "U")
        /\ Holds(M, "U") => Head(M) = "U" \/ Holds(M', "U")
        /\ Head(M) = "U" => Holds(M, "U")
        /\ AtMostOne(M', "U")
        /\ Head(M) = "U" => ~Holds(M', "U")
        BY <1>3, <1>5, <2>1, TailHolds
  <2>3. /\ Len(M') = Len(M) - 1 /\ Head(M) = M[1] /\ (M' # <<>> => M'[Len(M')] = M[Len(M)])
        /\ Len(M) > 0
    <3> HIDE DEF M
    <3> QED BY <1>3, <2>1
  <2>4. Load' <= Load
    <3>1. CASE Head(M) = "U"
      <4>1. Bit(PendingU) = 1 /\ Bit(PendingU') = 0 /\ Owed' = 2
            BY <1>5, <2>1, <2>2, <3>1 DEF Bit
      <4> HIDE DEF P, M
      <4> QED BY <1>3, <1>4, <2>1, <2>3, <4>1
    <3>2. CASE Head(M) = "S"
      <4>1. Bit(PendingU') = Bit(PendingU) /\ Owed' = 1 /\ Bit(PendingU) \in {0, 1}
            BY <1>5, <2>1, <2>2, <3>2 DEF Bit
      <4> HIDE DEF P, M
      <4> QED BY <1>3, <1>4, <2>1, <2>3, <4>1
    <3> QED BY <2>1, <3>1, <3>2
  <2>5. rpc = "poll" => ~PendingR
        BY <2>1 DEF BacklogInv, OrderInv
  <2>6. rpc = "poll" /\ PendingR' => M' = <<>>
    <3> SUFFICES ASSUME rpc = "poll", PendingR' PROVE M' = <<>>
        OBVIOUS
    <3>1. Head(M) = "U"
          BY <2>1, <2>5
    <3>2. M[Len(M)] = "U"
          BY <1>5, <2>2, <3>1 DEF BacklogInv, OrderInv
    <3>3. 1 = Len(M)
          BY <1>3, <1>5, <2>3, <3>1, <3>2 DEF AtMostOne
    <3> HIDE DEF M
    <3> QED BY <1>3, <2>1, <3>3
  <2>7. rpc = "poll" /\ PendingU' => M'[Len(M')] = "U"
    <3> SUFFICES ASSUME rpc = "poll", PendingU' PROVE M'[Len(M')] = "U"
        OBVIOUS
    <3>1. M[Len(M)] = "U"
          BY <1>5, <2>2 DEF BacklogInv, OrderInv
    <3>2. M' # <<>>
          BY <1>5 DEF Holds
    <3> QED BY <2>3, <3>1, <3>2
  <2>8. rpc = "poll" => \A k \in 1..Len(P') : P'[k] # "R"
        BY <2>1, <2>5 DEF PendingR, Holds
  <2>9. OrderInv'
        BY <1>1, <1>5, <2>2, <2>6, <2>7, <2>8 DEF BacklogInv, OrderInv
  <2>10. PendingU \/ PendingR => PendingU' \/ PendingR'
        BY <1>5, <2>1, <2>2
  <2> QED BY <2>4, <2>9, <2>10
<1> QED BY <1>7, <1>8, <1>9, MonitorMoves

\* A step that leaves the count alone.
Kept ==
  /\ RspPipe(toMon)' = RspPipe(toMon) /\ RspPipe(toSrv)' = RspPipe(toSrv)
  /\ Owed' = Owed /\ Load' = Load
  /\ PendingU' = PendingU /\ PendingR' = PendingR

\* The order of what is under way survives such a step, wherever it leads.
LEMMA KeptOrder ==
  ASSUME OrderInv, Kept,
         rpc' = "poll" => rpc = "poll" \/ (~PendingU /\ ~PendingR),
         rpc' \in {"close", "close_dsr", "close_restart"} /\ target_running' =>
           \/ rpc \in {"close", "close_dsr", "close_restart"} /\ target_running
           \/ ~PendingU
  PROVE  OrderInv'
<1>1. AtMostOne(RspPipe(toMon)', "U")
      BY DEF OrderInv, Kept
<1>2. rpc' = "poll" => (PendingU' => RspPipe(toMon)'[Len(RspPipe(toMon)')] = "U")
      BY DEF OrderInv, Kept
<1>3. rpc' = "poll" => (PendingR' => RspPipe(toMon)' = <<>>)
      BY DEF OrderInv, Kept
<1>4. rpc' = "poll" => \A k \in 1..Len(RspPipe(toSrv)') :
        RspPipe(toSrv)'[k] = "R" => Len(RspPipe(toSrv)') - k + Owed' <= 1
  <2>1. ~PendingR => \A k \in 1..Len(RspPipe(toSrv)) : RspPipe(toSrv)[k] # "R"
        BY Zenon DEF PendingR, Holds
  <2> QED BY <2>1 DEF OrderInv, Kept
<1>5. rpc' \in {"close", "close_dsr", "close_restart"} /\ target_running' => ~PendingU'
      BY DEF OrderInv, Kept
<1> QED BY <1>1, <1>2, <1>3, <1>4, <1>5 DEF OrderInv

\* Outside a session the RSP server has no pipes.
LEMMA NoSession ==
  ASSUME StopInv', BreakInv, rpc' \in {"init", "accept", "detach"}, UNCHANGED gdbVars
  PROVE  BacklogInv'
<1>1. RspPipe(toMon)' = <<>>
      BY DEF StopInv, TableInv, RspPipe
<1>2. AtMostOne(RspPipe(toMon)', "U")
      BY <1>1 DEF AtMostOne
<1>3. OrderInv'
      BY <1>2 DEF OrderInv
<1>4. BreakInv'
      BY DEF BreakInv, gdbVars
<1> QED BY <1>3, <1>4 DEF BacklogInv, LoadInv

\* A command adds itself to the count, an unstall the end of its run as well.
LEMMA SendLoad ==
  ASSUME TypeOK, TypeOK', pipe_fds[Rsp] # NoFd, NEW b \in BOOLEAN, SetStallState(b)
  PROVE  /\ RspPipe(toSrv)' = RspPipe(toSrv) /\ Owed' = Owed
         /\ PendingR' <=> PendingR
         /\ b => /\ PendingU' <=> PendingU
                 /\ Load' = Load + 1
                 /\ AtMostOne(RspPipe(toMon), "U") => AtMostOne(RspPipe(toMon)', "U")
         /\ ~b /\ ~PendingU => /\ PendingU'
                               /\ Load' = Load + 2
                               /\ AtMostOne(RspPipe(toMon)', "U")
                               /\ RspPipe(toMon)'[Len(RspPipe(toMon)')] = "U"
<1> DEFINE P == RspPipe(toSrv)
           M == RspPipe(toMon)
           c == IF b THEN "S" ELSE "U"
<1>1. M \in Seq(Commands) /\ c \in Commands /\ M' = Append(M, c) /\ P' = P
      BY StallStateEffect
<1>2. UNCHANGED <<target_is_running, mpc, nidx, notice, connections>>
      BY StallStateEffect DEF monVars
<1>3. Owing' = Owing /\ (PendingR' <=> PendingR)
      BY <1>1, <1>2 DEF Owing, PendingR
<1>4. Owed' = Owed
      BY <1>2, <1>3 DEF Owed
<1>5. /\ Load = Len(P) + Len(M) + Bit(PendingU) + Owed /\ Owed \in 0..3
      /\ Len(P) \in Nat /\ Len(M) \in Nat
      BY LoadTypes
<1>6. Load' = Len(P') + Len(M') + Bit(PendingU') + Owed'
      BY LoadTypesNext
<1>7. Len(M') = Len(M) + 1 /\ M'[Len(M')] = c
  <2> HIDE DEF M, c
  <2> QED BY <1>1
<1>8. CASE b
  <2>1. (PendingU' <=> PendingU) /\ (AtMostOne(M, "U") => AtMostOne(M', "U"))
        BY <1>8, SendStall
  <2>2. Bit(PendingU') = Bit(PendingU) /\ Bit(PendingU) \in {0, 1}
        BY <2>1 DEF Bit
  <2> HIDE DEF P, M
  <2>3. Load' = Load + 1
        BY <1>1, <1>4, <1>5, <1>6, <1>7, <2>2
  <2> QED BY <1>1, <1>3, <1>4, <1>8, <2>1, <2>3 DEF P, M
<1>9. CASE ~b
  <2>1. ~PendingU => AtMostOne(M', "U")
        BY <1>9, SendUnstall
  <2>2. M'[Len(M')] = "U" /\ Len(M') \in 1..Len(M')
        BY <1>5, <1>7, <1>9
  <2>3. PendingU'
        BY <2>2, Zenon DEF PendingU, Holds
  <2>4. ~PendingU => Bit(PendingU) = 0 /\ Bit(PendingU') = 1
        BY <2>3 DEF Bit
  <2> HIDE DEF P, M
  <2>5. ~PendingU => Load' = Load + 2
        BY <1>1, <1>4, <1>5, <1>6, <1>7, <2>4
  <2> QED BY <1>1, <1>3, <1>4, <1>9, <2>1, <2>2, <2>3, <2>5 DEF P, M
<1> QED BY <1>8, <1>9

\* The RSP server's new pipes are empty, and no notice is being written.
LEMMA AcceptEmpty ==
  ASSUME Reliable, StopInv, RspAccept
  PROVE  RspPipe(toMon)' = <<>> /\ RspPipe(toSrv)' = <<>> /\ ~Owing'
<1> USE DEF StopInv
<1>1. Register(Rsp) /\ pipe_fds[Rsp] = NoFd /\ started = Listeners
      BY DEF RspAccept, TableInv
<1>2. Len(connections) < MAX_MONITOR_CONNECTIONS
  <2>1. /\ Cardinality(Listeners) = Cardinality(Servers) - 1
        /\ Cardinality(Servers) \in Nat
        BY FS_RemoveElement, FS_CardinalityType, RunAssumption DEF Listeners, Reliable
  <2>2. Len(connections) <= Cardinality(Listeners) + 0
        BY <1>1 DEF TableInv
  <2> QED BY <2>1, <2>2, MonitorAssumption DEF Reliable, TypeOK
<1>3. UNCHANGED monVars /\ mpc \notin {"scan", "notify"}
      BY <1>1, <1>2, RegisterEffect, RunAssumption
<1>4. PICK f \in Fds \ Open :
        /\ pipe_fds' = [pipe_fds EXCEPT ![Rsp] = f]
        /\ toMon' = [toMon EXCEPT ![f] = <<>>]
        /\ toSrv' = [toSrv EXCEPT ![f] = <<>>]
      BY <1>1, <1>2, RegisterEffect, RunAssumption
<1>5. pipe_fds'[Rsp] = f /\ f # NoFd /\ f \in Fds
      BY <1>4, RunAssumption, MonitorAssumption DEF TypeOK
<1> QED BY <1>3, <1>4, <1>5 DEF RspPipe, Owing, TypeOK, monVars

\* A session starts with empty pipes, and its stall is the first command.
LEMMA OpenBacklog ==
  ASSUME Reliable, StopInv, StopInv', BacklogInv, RspAccept \/ RspStall \/ RspSetup
  PROVE  BacklogInv'
<1> USE DEF BacklogInv
<1>1. CASE RspAccept
  <2>1. /\ rpc = "accept" /\ rpc' = "stall" /\ Register(Rsp) /\ UNCHANGED gdbVars
        BY <1>1 DEF RspAccept
  <2>2. RspPipe(toMon)' = <<>> /\ RspPipe(toSrv)' = <<>> /\ ~Owing'
        BY <1>1, AcceptEmpty
  <2>3. AtMostOne(RspPipe(toMon)', "U") /\ ~PendingU'
        BY <2>2 DEF AtMostOne, PendingU, Holds
  <2>4. Owed' <= 1
        BY <2>2 DEF Owed, Bit, StopInv, MonitorInv
  <2>5. Load' <= 1
    <3>1. /\ Load' = Len(RspPipe(toSrv)') + Len(RspPipe(toMon)') + Bit(PendingU') + Owed'
          /\ Owed' \in 0..3 /\ Load' \in Nat
          BY LoadTypesNext DEF StopInv
    <3>2. Len(RspPipe(toSrv)') = 0 /\ Len(RspPipe(toMon)') = 0 /\ Bit(PendingU') = 0
          BY <2>2, <2>3 DEF Bit
    <3>3. Load' = 0 + 0 + 0 + Owed'
          BY <3>1, <3>2, Zenon
    <3>4. Owed' = 0 \/ Owed' = 1
          BY <2>4, <3>1
    <3>5. CASE Owed' = 0
          BY <3>3, <3>5
    <3>6. CASE Owed' = 1
          BY <3>3, <3>6
    <3> QED BY <3>4, <3>5, <3>6
  <2> QED BY <2>1, <2>3, <2>5 DEF OrderInv, BreakInv, LoadInv, gdbVars
<1>2. CASE RspStall
  <2>1. /\ rpc = "stall" /\ rpc' = "setup" /\ SetStallState(TRUE) /\ target_running' = FALSE
        /\ UNCHANGED gdbVars /\ pipe_fds[Rsp] # NoFd
        BY <1>2 DEF RspStall, StopInv, TableInv, Session
  <2>2. Load' = Load + 1 /\ AtMostOne(RspPipe(toMon)', "U")
        BY <2>1, SendLoad DEF StopInv, OrderInv
  <2>3. Load \in Nat /\ Load <= 1
        BY <2>1, LoadTypes DEF StopInv, LoadInv
  <2>4. Load' <= 2
        BY <2>2, <2>3
  <2> QED BY <2>1, <2>2, <2>4 DEF OrderInv, BreakInv, LoadInv, gdbVars
<1>3. CASE RspSetup
  <2>1. /\ rpc = "setup" /\ rpc' = "poll" /\ UNCHANGED <<tmVars, gdbVars, target_running>>
        BY <1>3 DEF RspSetup
  <2>2. ~target_running /\ ~PendingU /\ ~PendingR
        BY <2>1 DEF BreakInv, StopInv, UnstallInv, Session
  <2>3. Kept
        BY <2>1, FrameLoad DEF tmVars, monVars, linkVars, Kept
  <2>4. OrderInv'
        BY <2>1, <2>2, <2>3, KeptOrder
  <2>5. Load \in Nat /\ Load <= 2 /\ Load' = Load
        BY <2>1, <2>3, LoadTypes DEF StopInv, LoadInv, Kept
  <2>6. Load' <= 2 /\ Load' <= 4
        BY <2>5
  <2> QED BY <2>1, <2>2, <2>4, <2>6 DEF BreakInv, LoadInv, gdbVars
<1> QED BY <1>1, <1>2, <1>3

\* Reading a notice takes one off the count; reading an 'R' leaves at most the
\* stop that ends the run.
LEMMA NoticeBacklogStep ==
  ASSUME StopInv, StopInv', BacklogInv, NEW n \in Notices, RspNotice(n)
  PROVE  BacklogInv'
<1> USE DEF BacklogInv
<1> DEFINE P == RspPipe(toSrv)
           M == RspPipe(toMon)
<1>1. /\ rpc = "poll" /\ rpc' = "poll" /\ Session /\ sock = <<>> /\ sock' = sock
      /\ TakeNotice(Rsp, n) /\ target_running' = (n = "R")
      /\ UNCHANGED <<monVars, connections, pipe_fds, toMon>>
      /\ n = "R" => client_waiting' = client_waiting
      BY DEF RspNotice, Session
<1>2. P \in Seq(Notices) /\ P # <<>> /\ n = Head(P) /\ P' = Tail(P) /\ M' = M
      BY <1>1, RunAssumption DEF TakeNotice, StopInv, TypeOK, RspPipe
<1>3. Owing' = Owing /\ UNCHANGED notice /\ Owed' = Owed /\ PendingU' = PendingU
      BY <1>1, <1>2 DEF Owing, Owed, PendingU, monVars
<1>4. /\ Load = Len(P) + Len(M) + Bit(PendingU) + Owed /\ Owed \in 0..3
      /\ Len(P) \in Nat /\ Len(M) \in Nat /\ Load \in Nat
      BY LoadTypes DEF StopInv
<1>5. Load' = Len(P') + Len(M') + Bit(PendingU') + Owed'
      BY LoadTypesNext DEF StopInv
<1>6. Bit(PendingU) \in {0, 1}
      BY DEF Bit
<1>7. /\ Len(P) > 0 /\ Len(P') = Len(P) - 1 /\ P[1] = n
      /\ \A k \in 1..Len(P') : k + 1 \in 1..Len(P) /\ P'[k] = P[k + 1]
  <2> HIDE DEF P
  <2> QED BY <1>2
<1>8. Load' = Load - 1
  <2> HIDE DEF P, M
  <2> QED BY <1>2, <1>3, <1>4, <1>5, <1>6, <1>7
<1>9. \A k \in 1..Len(P) : P[k] = "R" => Len(P) - k + Owed <= 1
      BY <1>1 DEF OrderInv
<1>10. \A k \in 1..Len(P') : P'[k] = "R" => Len(P') - k + Owed' <= 1
  <2> SUFFICES ASSUME NEW k \in 1..Len(P'), P'[k] = "R"
               PROVE  Len(P') - k + Owed' <= 1
      OBVIOUS
  <2>1. k + 1 \in 1..Len(P) /\ P[k + 1] = "R"
        BY <1>7
  <2>2. Len(P) - (k + 1) + Owed <= 1
        BY <1>9, <2>1
  <2> HIDE DEF P
  <2> QED BY <1>3, <1>4, <1>7, <2>2
<1>11. /\ Holds(P', "R") => Holds(P, "R")
       /\ Holds(P, "R") => n = "R" \/ Holds(P', "R")
       /\ n = "R" => Holds(P, "R")
       BY <1>2, TailHolds
<1>12. /\ PendingR' => PendingR
       /\ n = "H" => (PendingR' <=> PendingR)
       /\ n = "R" => PendingR
       BY <1>3, <1>11 DEF PendingR
<1>13. OrderInv'
       BY <1>1, <1>2, <1>3, <1>10, <1>12 DEF OrderInv
<1>14. BreakInv'
  <2>1. ~Holds(sock', "brk") /\ AtMostOne(sock', "brk")
        BY <1>1 DEF Holds, AtMostOne
  <2>2. UnstallInv
        BY DEF StopInv
  <2>3. PendingR => client_waiting
        BY <1>1, <2>2 DEF UnstallInv
  <2>4. target_running' => client_waiting'
    <3>1. target_running' => n = "R"
          BY <1>1
    <3>2. n = "R" => client_waiting' = client_waiting
          BY DEF RspNotice
    <3>3. n = "R" => client_waiting
          BY <1>12, <2>3
    <3> QED BY <3>1, <3>2, <3>3
  <2> QED BY <1>1, <2>1, <2>4 DEF BreakInv
<1>15. Load <= 4 /\ Load' <= 4
       BY <1>1, <1>4, <1>8 DEF LoadInv
<1>16. CASE n = "R"
  <2>1. M = <<>>
        BY <1>1, <1>12, <1>16 DEF OrderInv
  <2>2. Len(M) = 0 /\ ~PendingU
        BY <2>1 DEF PendingU, Holds
  <2>3. Bit(PendingU) = 0
        BY <2>2 DEF Bit
  <2>4. Len(P) - 1 + Owed <= 1
    <3>1. 1 \in 1..Len(P)
          BY <1>4, <1>7
    <3> QED BY <1>7, <1>9, <1>16, <3>1
  <2>5. Load' <= 1
    <3> HIDE DEF P, M
    <3> QED BY <1>4, <1>8, <2>2, <2>3, <2>4
  <2>6. Bit(BreakDue') \in {0, 1}
        BY DEF Bit
  <2>7. Load' \in Nat
        BY LoadTypesNext DEF StopInv
  <2>8. Load' + Bit(BreakDue') <= 2
        BY <2>5, <2>6, <2>7
  <2> QED BY <1>1, <1>13, <1>14, <1>15, <1>16, <2>8 DEF LoadInv
<1>17. CASE n = "H"
  <2>1. Bit(BreakDue) \in {0, 1}
        BY DEF Bit
  <2>2. ~PendingU' /\ ~PendingR' => Load <= 2
    <3>1. CASE target_running
      <4>1. Load + Bit(BreakDue) <= 2
            BY <1>1, <3>1 DEF LoadInv
      <4> QED BY <1>4, <2>1, <4>1
    <3>2. CASE ~target_running
          BY <1>1, <1>3, <1>12, <1>17, <3>2 DEF LoadInv
    <3> QED BY <3>1, <3>2
  <2>3. ~PendingU' /\ ~PendingR' => Load' <= 2
        BY <1>4, <1>8, <2>2
  <2> QED BY <1>1, <1>13, <1>14, <1>15, <1>17, <2>3 DEF LoadInv
<1> QED BY <1>16, <1>17 DEF Notices

\* A request takes itself off the socket; a break is the one that is due, a
\* continue or a step comes when nothing is under way.
LEMMA RequestBacklog ==
  ASSUME StopInv, StopInv', BacklogInv, RspRequest
  PROVE  BacklogInv'
<1> USE DEF BacklogInv
<1> DEFINE r == Head(sock)
<1>1. /\ rpc = "poll" /\ Session /\ pipe_fds[Rsp] # NoFd
      /\ sock # <<>> /\ sock' = Tail(sock) /\ UNCHANGED <<gdb, started>>
      /\ sock \in Seq(Requests) /\ r = sock[1]
      BY DEF RspRequest, Session, StopInv, TableInv, TypeOK
<1>2. /\ Holds(sock', "brk") => Holds(sock, "brk")
      /\ r = "brk" => Holds(sock, "brk") /\ ~Holds(sock', "brk")
      /\ AtMostOne(sock', "brk")
      BY <1>1, TailHolds DEF BreakInv
<1>3. /\ AtMostOne(sock', "brk") /\ (gdb' \in {"stopped", "running"} => ~Holds(sock', "brk"))
      BY <1>1, <1>2 DEF BreakInv
<1>4. (BreakDue' => BreakDue) /\ (r = "brk" => BreakDue /\ ~BreakDue')
      BY <1>1, <1>2 DEF BreakDue, BreakInv
<1>5. /\ Bit(BreakDue) \in {0, 1} /\ Bit(BreakDue') \in {0, 1} /\ Bit(BreakDue') <= Bit(BreakDue)
      /\ r = "brk" => Bit(BreakDue) = 1 /\ Bit(BreakDue') = 0
      BY <1>4 DEF Bit
<1>6. Load \in Nat
      BY LoadTypes DEF StopInv
<1>7. target_running => Load + Bit(BreakDue) <= 2 /\ ~PendingU /\ ~PendingR /\ client_waiting
      BY <1>1 DEF LoadInv, BreakInv, StopInv, UnstallInv
<1>8. Load <= 4 /\ (~target_running /\ ~PendingU /\ ~PendingR => Load <= 2)
      BY <1>1 DEF LoadInv
<1> HIDE DEF r
<1>9. CASE RspReply
  <2>1. UNCHANGED <<tmVars, rpc, target_running, client_waiting>>
        BY <1>9 DEF RspReply, rspVars
  <2>2. Kept
        BY <2>1, FrameLoad DEF tmVars, monVars, linkVars, Kept
  <2>3. OrderInv'
        BY <1>1, <2>1, <2>2, KeptOrder
  <2>4. BreakInv'
        BY <1>1, <1>3, <2>1 DEF BreakInv
  <2>5. target_running => Load' + Bit(BreakDue') <= 2
        BY <1>5, <1>6, <1>7, <2>2 DEF Kept
  <2> QED BY <1>1, <1>8, <2>1, <2>2, <2>3, <2>4, <2>5 DEF LoadInv, Kept
<1>10. ASSUME NEW d \in BOOLEAN, RspClose(d)
       PROVE  BacklogInv'
  <2>1. rpc' = "close" /\ UNCHANGED <<tmVars, target_running, client_waiting>>
        BY <1>10 DEF RspClose
  <2>2. Kept
        BY <2>1, FrameLoad DEF tmVars, monVars, linkVars, Kept
  <2>3. OrderInv'
        BY <1>1, <1>7, <2>1, <2>2, KeptOrder
  <2>4. BreakInv'
        BY <1>1, <1>3, <2>1 DEF BreakInv
  <2>5. target_running => Load <= 2
        BY <1>5, <1>6, <1>7
  <2> QED BY <1>8, <2>1, <2>2, <2>3, <2>4, <2>5 DEF LoadInv, Kept
<1>11. CASE target_running /\ r = "brk" /\ RspBreak
  <2>1. SetStallState(TRUE) /\ rpc' = "poll" /\ UNCHANGED <<target_running, client_waiting>>
        BY <1>1, <1>11 DEF RspBreak, rspVars
  <2>2. /\ PendingR' <=> PendingR
        /\ PendingU' <=> PendingU
        /\ Load' = Load + 1
        /\ AtMostOne(RspPipe(toMon), "U") => AtMostOne(RspPipe(toMon)', "U")
        BY <1>1, <2>1, SendLoad DEF StopInv
  <2>3. ~PendingR' /\ ~PendingU'
        BY <1>7, <1>11, <2>2
  <2>4. \A k \in 1..Len(RspPipe(toSrv)') : RspPipe(toSrv)'[k] # "R"
        BY <2>3, Zenon DEF PendingR, Holds
  <2>5. OrderInv'
        BY <2>1, <2>2, <2>3, <2>4 DEF OrderInv
  <2>6. BreakInv'
        BY <1>1, <1>3, <2>1 DEF BreakInv
  <2>7. Load' + Bit(BreakDue') <= 2 /\ Load' <= 4
        BY <1>5, <1>6, <1>7, <1>11, <2>2
  <2> QED BY <1>11, <2>1, <2>5, <2>6, <2>7 DEF LoadInv
<1>12. CASE (r \in {"c", "s"}) /\ ~target_running /\ (RspContinue \/ RspStep)
  <2>1. /\ SetStallState(FALSE) /\ rpc' = "poll" /\ client_waiting' = TRUE
        /\ UNCHANGED target_running
        BY <1>1, <1>12 DEF RspContinue, RspStep
  <2>2. ~client_waiting
        BY <1>1, <1>12 DEF StopInv, GdbInv
  <2>3. ~PendingU /\ ~PendingR
        BY <1>1, <2>2 DEF StopInv, UnstallInv
  <2>4. /\ ~PendingR' /\ PendingU' /\ Load' = Load + 2
        /\ AtMostOne(RspPipe(toMon)', "U")
        /\ RspPipe(toMon)'[Len(RspPipe(toMon)')] = "U"
        BY <1>1, <2>1, <2>3, SendLoad DEF StopInv
  <2>5. \A k \in 1..Len(RspPipe(toSrv)') : RspPipe(toSrv)'[k] # "R"
        BY <2>4, Zenon DEF PendingR, Holds
  <2>6. OrderInv'
        BY <2>1, <2>4, <2>5 DEF OrderInv
  <2>7. BreakInv'
        BY <1>1, <1>3, <2>1 DEF BreakInv
  <2>8. Load' <= 4
        BY <1>6, <1>8, <1>12, <2>3, <2>4
  <2> QED BY <1>12, <2>1, <2>4, <2>6, <2>7, <2>8 DEF LoadInv
<1> QED BY <1>9, <1>10, <1>11, <1>12 DEF RspRequest, r

\* rsp_client_close stalls a running target and lets it run again.
LEMMA CloseBacklog ==
  ASSUME StopInv, StopInv', BacklogInv, CloseStall \/ CloseDsr \/ CloseRestart
  PROVE  BacklogInv'
<1> USE DEF BacklogInv
<1>1. /\ UNCHANGED <<target_running, gdbVars>>
      /\ \/ rpc = "close" /\ rpc' = "close_dsr"
         \/ rpc = "close_dsr" /\ rpc' = "close_restart"
         \/ rpc = "close_restart" /\ rpc' = "close_unreg"
      BY DEF CloseStall, CloseDsr, CloseRestart
<1>2. BreakInv'
      BY <1>1 DEF BreakInv, gdbVars
<1>3. Load \in Nat
      BY LoadTypes DEF StopInv
<1>4. ASSUME Kept PROVE BacklogInv'
  <2>1. OrderInv'
        BY <1>1, <1>4, KeptOrder
  <2>2. Load' = Load
        BY <1>4 DEF Kept
  <2> QED BY <1>1, <1>2, <1>3, <2>1, <2>2 DEF LoadInv
<1>5. CASE UNCHANGED <<stalled, monVars, connections, pipe_fds, toSrv, pipes_mutex, toMon>>
  <2>1. Kept
        BY <1>5, FrameLoad DEF monVars, Kept
  <2> QED BY <1>4, <2>1
<1>6. CASE rpc = "close" /\ target_running /\ SetStallState(TRUE)
  <2>1. CASE pipe_fds[Rsp] = NoFd
        BY <1>5, <1>6, <2>1, StallStateEffect DEF StopInv
  <2>2. CASE pipe_fds[Rsp] # NoFd
    <3>1. Load' = Load + 1 /\ (PendingU' <=> PendingU) /\ AtMostOne(RspPipe(toMon)', "U")
          BY <1>6, <2>2, SendLoad DEF StopInv, OrderInv
    <3>2. rpc' = "close_dsr" /\ ~PendingU'
          BY <1>1, <1>6, <3>1 DEF OrderInv
    <3>3. OrderInv'
          BY <3>1, <3>2 DEF OrderInv
    <3>4. Load <= 2
          BY <1>6 DEF LoadInv
    <3>5. Load' <= 3 /\ Load' <= 4
          BY <1>3, <3>1, <3>4
    <3> QED BY <1>2, <3>2, <3>3, <3>5 DEF LoadInv
  <2> QED BY <2>1, <2>2
<1>7. CASE rpc = "close_restart" /\ target_running /\ SetStallState(FALSE)
  <2>1. CASE pipe_fds[Rsp] = NoFd
        BY <1>5, <1>7, <2>1, StallStateEffect DEF StopInv
  <2>2. CASE pipe_fds[Rsp] # NoFd
    <3>1. ~PendingU
          BY <1>7 DEF OrderInv
    <3>2. Load' = Load + 2 /\ AtMostOne(RspPipe(toMon)', "U")
          BY <1>7, <2>2, <3>1, SendLoad DEF StopInv
    <3>3. rpc' = "close_unreg"
          BY <1>1, <1>7
    <3>4. OrderInv'
          BY <3>2, <3>3 DEF OrderInv
    <3>5. Load <= 3
          BY <1>7 DEF LoadInv
    <3>6. Load' <= 5
          BY <1>3, <3>2, <3>5
    <3> QED BY <1>2, <3>3, <3>4, <3>6 DEF LoadInv
  <2> QED BY <2>1, <2>2
<1>8. \/ UNCHANGED tmVars
      \/ rpc = "close" /\ target_running /\ SetStallState(TRUE)
      \/ rpc = "close_restart" /\ target_running /\ SetStallState(FALSE)
      BY DEF CloseStall, CloseDsr, CloseRestart
<1> QED BY <1>5, <1>6, <1>7, <1>8 DEF tmVars, linkVars

\* GDB interrupts at most once, and only the continue that is running.
LEMMA GdbBacklog ==
  ASSUME StopInv, StopInv', BacklogInv, GdbConnect \/ GdbRequest \/ GdbInterrupt \/ GdbQuit
  PROVE  BacklogInv'
<1> USE DEF BacklogInv
<1>1. UNCHANGED <<tmVars, rpc, target_running, client_waiting>>
      BY DEF GdbConnect, GdbRequest, GdbInterrupt, GdbQuit, rspVars
<1>2. Kept
      BY <1>1, FrameLoad DEF tmVars, monVars, linkVars, Kept
<1>3. OrderInv'
      BY <1>1, <1>2, KeptOrder
<1>4. sock \in Seq(Requests) /\ "brk" \in Requests
      BY DEF StopInv, TypeOK, Requests
<1>5. SUFFICES /\ AtMostOne(sock', "brk")
               /\ gdb' \in {"stopped", "running"} => ~Holds(sock', "brk")
               /\ rpc = "poll" /\ target_running => (BreakDue' => BreakDue)
  <2>1. ASSUME AtMostOne(sock', "brk"),
               gdb' \in {"stopped", "running"} => ~Holds(sock', "brk")
        PROVE  BreakInv'
        BY <1>1, <2>1 DEF BreakInv
  <2>2. ASSUME rpc = "poll" /\ target_running => (BreakDue' => BreakDue)
        PROVE  LoadInv'
    <3>1. Load \in Nat /\ Load' = Load /\ PendingU' = PendingU /\ PendingR' = PendingR
          BY <1>2, LoadTypes DEF StopInv, Kept
    <3>2. rpc = "poll" /\ target_running => Load + Bit(BreakDue') <= 2
      <4>1. rpc = "poll" /\ target_running => Load + Bit(BreakDue) <= 2
            BY DEF LoadInv
      <4> QED BY <2>2, <3>1, <4>1 DEF Bit
    <3> QED BY <1>1, <3>1, <3>2 DEF LoadInv
  <2> QED BY <1>3, <2>1, <2>2
<1>6. CASE GdbConnect
  <2>1. sock = <<>> /\ sock' = sock
        BY <1>6 DEF GdbConnect
  <2>2. rpc # "poll"
        BY <1>6 DEF GdbConnect
  <2> QED BY <2>1, <2>2 DEF Holds, AtMostOne
<1>7. CASE GdbRequest
  <2>1. PICK q \in {"c", "s", "D", "q"} : sock' = Append(sock, q)
        BY <1>7 DEF GdbRequest
  <2>2. gdb = "stopped" /\ sock = <<>>
        BY <1>7 DEF GdbRequest
  <2>3. Len(sock') = 1 /\ sock'[1] = q
        BY <2>1, <2>2
  <2>4. AtMostOne(sock', "brk") /\ ~Holds(sock', "brk")
        BY <2>1, <2>3 DEF AtMostOne, Holds
  <2>5. GdbInv
        BY DEF StopInv
  <2>6. ~(rpc = "poll" /\ target_running)
        BY <2>2, <2>5 DEF GdbInv, NoUnsolicitedStop, BreakInv
  <2> QED BY <2>4, <2>6
<1>8. CASE GdbInterrupt
  <2>1. gdb = "running" /\ gdb' = "interrupting" /\ sock' = Append(sock, "brk")
        BY <1>8 DEF GdbInterrupt
  <2>2. ~Holds(sock, "brk") /\ AtMostOne(sock, "brk") /\ BreakDue
        BY <2>1 DEF BreakInv, BreakDue
  <2>3. AtMostOne(sock, "brk") /\ ("brk" = "brk" => ~Holds(sock, "brk"))
          => AtMostOne(Append(sock, "brk"), "brk")
        BY <1>4, AppendHolds, Zenon
  <2> QED BY <2>1, <2>2, <2>3
<1>9. CASE GdbQuit
  <2>1. gdb' = "off"
        BY <1>9 DEF GdbQuit
  <2>2. (Holds(sock', "brk") => Holds(sock, "brk")) /\ AtMostOne(sock', "brk")
    <3>1. "q" \in Requests /\ "EOF" \in Requests
          BY DEF Requests
    <3>2. /\ Holds(Append(sock, "EOF"), "brk") <=> Holds(sock, "brk") \/ "brk" = "EOF"
          /\ AtMostOne(sock, "brk") /\ ("brk" = "EOF" => ~Holds(sock, "brk"))
               => AtMostOne(Append(sock, "EOF"), "brk")
          BY <1>4, <3>1, AppendHolds, Zenon
    <3>3. /\ Holds(Append(sock, "q"), "brk") <=> Holds(sock, "brk") \/ "brk" = "q"
          /\ AtMostOne(sock, "brk") /\ ("brk" = "q" => ~Holds(sock, "brk"))
               => AtMostOne(Append(sock, "q"), "brk")
          BY <1>4, <3>1, AppendHolds, Zenon
    <3>4. Append(sock, "q") \in Seq(Requests)
          BY <1>4, <3>1
    <3>5. /\ Holds(Append(Append(sock, "q"), "EOF"), "brk")
               <=> Holds(Append(sock, "q"), "brk") \/ "brk" = "EOF"
          /\ AtMostOne(Append(sock, "q"), "brk") /\ ("brk" = "EOF" => ~Holds(Append(sock, "q"), "brk"))
               => AtMostOne(Append(Append(sock, "q"), "EOF"), "brk")
          BY <3>1, <3>4, AppendHolds, Zenon
    <3>6. "brk" # "q" /\ "brk" # "EOF"
          OBVIOUS
    <3>7. /\ Append(sock, "EOF") = sock \o <<"EOF">>
          /\ Append(Append(sock, "q"), "EOF") = sock \o <<"q", "EOF">>
          BY <1>4, <3>1
    <3>8. AtMostOne(sock, "brk")
          BY DEF BreakInv
    <3>9. \/ sock' = Append(sock, "EOF")
          \/ sock' = Append(Append(sock, "q"), "EOF")
          BY <1>9, <3>7 DEF GdbQuit
    <3> QED BY <3>2, <3>3, <3>5, <3>6, <3>8, <3>9, Zenon
  <2>3. BreakDue' => BreakDue
        BY <2>1, <2>2 DEF BreakDue
  <2> QED BY <2>1, <2>2, <2>3
<1> QED BY <1>6, <1>7, <1>8, <1>9

\* A breakpoint and the other servers have no part in the count.
LEMMA OtherBacklog ==
  ASSUME StopInv, StopInv', BacklogInv,
         CpuBreak \/ (\E s \in Listeners : ListenerRead(s)) \/ UNCHANGED vars
  PROVE  BacklogInv'
<1> USE DEF BacklogInv
<1>1. /\ UNCHANGED <<connections, pipe_fds, toMon, target_is_running, mpc, nidx, notice>>
      /\ UNCHANGED <<rpc, target_running, client_waiting, gdb, sock>>
      BY DEF CpuBreak, ListenerRead, vars, tmVars, monVars, linkVars, rspVars, gdbVars
<1>2. RspPipe(toSrv)' = RspPipe(toSrv)
  <2>1. CASE toSrv' = toSrv
        BY <1>1, <2>1 DEF RspPipe
  <2>2. ASSUME NEW s \in Listeners, ListenerRead(s)
        PROVE  RspPipe(toSrv)' = RspPipe(toSrv)
    <3>1. /\ pipe_fds[s] # NoFd /\ pipe_fds[s] # pipe_fds[Rsp] /\ pipe_fds[s] \in Fds
          /\ toSrv' = [toSrv EXCEPT ![pipe_fds[s]] = Tail(@)]
          BY <2>2 DEF ListenerRead, TakeNotice, StopInv, TableInv, TypeOK, Listeners
    <3>2. TypeOK
          BY DEF StopInv
    <3> QED BY <1>1, <3>1, <3>2, RunAssumption DEF RspPipe, TypeOK
  <2> QED BY <2>1, <2>2 DEF CpuBreak, vars, tmVars, linkVars
<1>3. RspPipe(toMon)' = RspPipe(toMon) /\ Owing' = Owing
      BY <1>1 DEF RspPipe, Owing
<1>4. PendingU' = PendingU /\ PendingR' = PendingR /\ Owed' = Owed
      BY <1>1, <1>2, <1>3 DEF PendingU, PendingR, Owed
<1>5. Kept
      BY <1>2, <1>3, <1>4 DEF Kept, Load
<1>6. OrderInv'
      BY <1>1, <1>5, KeptOrder
<1>7. BreakInv' /\ BreakDue' = BreakDue
      BY <1>1 DEF BreakInv, BreakDue
<1>8. LoadInv'
      BY <1>1, <1>5, <1>7 DEF LoadInv, Kept
<1> QED BY <1>6, <1>7, <1>8

\* The count holds at the start: there are no pipes and no client.
LEMMA BacklogInit == Init => BacklogInv
<1> SUFFICES ASSUME Init PROVE BacklogInv
    OBVIOUS
<1>1. pipe_fds[Rsp] = NoFd /\ rpc = "init" /\ sock = <<>>
      BY RunAssumption DEF Init, MonitorInit
<1>2. RspPipe(toMon) = <<>>
      BY <1>1 DEF RspPipe
<1>3. AtMostOne(RspPipe(toMon), "U") /\ AtMostOne(sock, "brk") /\ ~Holds(sock, "brk")
      BY <1>1, <1>2 DEF AtMostOne, Holds
<1> QED BY <1>1, <1>3 DEF BacklogInv, OrderInv, BreakInv, LoadInv

\* Every step keeps the count.
LEMMA BacklogNext == Reliable /\ StopInv /\ BacklogInv /\ [Next]_vars => BacklogInv'
<1> SUFFICES ASSUME Reliable, StopInv, BacklogInv, [Next]_vars PROVE BacklogInv'
    OBVIOUS
<1>1. StopInv'
      BY StopNext
<1>2. CASE Monitor
      BY <1>1, <1>2, MonitorKeepsBacklog
<1>3. CASE (\E s \in Listeners : ListenerInit(s)) \/ MainLoop \/ CloseUnregister \/ DetachRestart
  <2>1. rpc' \in {"init", "accept", "detach"} /\ UNCHANGED gdbVars
        BY <1>3 DEF ListenerInit, MainLoop, CloseUnregister, DetachRestart, rspVars
  <2> QED BY <1>1, <2>1, NoSession DEF BacklogInv
<1>4. CASE RspAccept \/ RspStall \/ RspSetup
      BY <1>1, <1>4, OpenBacklog
<1>5. CASE RspRequest
      BY <1>1, <1>5, RequestBacklog
<1>6. ASSUME NEW n \in Notices, RspNotice(n)
      PROVE  BacklogInv'
      BY <1>1, <1>6, NoticeBacklogStep
<1>7. CASE CloseStall \/ CloseDsr \/ CloseRestart
      BY <1>1, <1>7, CloseBacklog
<1>8. CASE GdbConnect \/ GdbRequest \/ GdbInterrupt \/ GdbQuit
      BY <1>1, <1>8, GdbBacklog
<1>9. CASE CpuBreak \/ (\E s \in Listeners : ListenerRead(s)) \/ UNCHANGED vars
      BY <1>1, <1>9, OtherBacklog
<1> QED BY <1>2, <1>3, <1>4, <1>5, <1>6, <1>7, <1>8, <1>9 DEF Next, RspThread

\* Never more than NoticeBacklog notices wait for the RSP server, however far
\* it lags behind: handle_rsp and target_handler cannot block each other on a
\* full pipe.
THEOREM BacklogIsBounded == ASSUME Reliable PROVE Spec => []RspBacklogBounded
<1>1. Init => StopInv /\ BacklogInv
      BY StopInit, BacklogInit
<1>2. StopInv /\ BacklogInv /\ [Next]_vars => (StopInv /\ BacklogInv)'
      BY StopNext, BacklogNext
<1>3. StopInv /\ BacklogInv => RspBacklogBounded
  <2> SUFFICES ASSUME StopInv, BacklogInv PROVE Len(RspPipe(toSrv)) <= 5
      BY DEF RspBacklogBounded, NoticeBacklog
  <2>1. CASE rpc \in {"init", "accept", "detach"}
    <3>1. RspPipe(toSrv) = <<>>
          BY <2>1 DEF StopInv, TableInv, RspPipe
    <3> QED BY <3>1
  <2>2. CASE rpc \notin {"init", "accept", "detach"}
    <3>1. /\ Load = Len(RspPipe(toSrv)) + Len(RspPipe(toMon)) + Bit(PendingU) + Owed
          /\ Owed \in 0..3 /\ Len(RspPipe(toSrv)) \in Nat /\ Len(RspPipe(toMon)) \in Nat
          /\ Load \in Nat
          BY LoadTypes DEF StopInv
    <3>2. Load <= 5
      <4>1. rpc \in {"stall", "setup", "poll", "close", "close_dsr", "close_restart", "close_unreg"}
            BY <2>2 DEF StopInv, TypeOK, RspSteps
      <4> QED BY <3>1, <4>1 DEF BacklogInv, LoadInv
    <3>3. Bit(PendingU) \in {0, 1}
          BY DEF Bit
    <3> QED BY <3>1, <3>2, <3>3
  <2> QED BY <2>1, <2>2
<1> QED BY <1>1, <1>2, <1>3, PTL DEF Spec

=============================================================================
