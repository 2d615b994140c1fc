------------------------ MODULE TargetMonitorProofs -------------------------
(***************************************************************************)
(* Lemmas about the target monitor (hardware_monitor.c) that hold in every *)
(* composition of it: what its interface and its thread do to the types    *)
(* and to the table of connections.                                        *)
(***************************************************************************)
EXTENDS TargetMonitor, SequenceTheorems, TLAPS

\* The monitor's part of the type invariants.
MonitorTypes ==
  /\ stalled \in BOOLEAN
  /\ target_is_running \in BOOLEAN
  /\ connections \in Seq(Fds)
  /\ pipe_fds \in [Servers -> Fds \cup {NoFd}]
  /\ toMon \in [Fds -> Seq(Commands)]
  /\ toSrv \in [Fds -> Seq(Notices)]
  /\ pipes_mutex \in {"free", "monitor", "leaked"}
  /\ mpc \in MonitorSteps
  /\ readset \subseteq Fds
  /\ idx \in Nat \ {0}
  /\ nidx \in Nat \ {0}
  /\ notice \in [msg : Notices, back : {"scan", "build"}]

\* register_with_monitor_thread keeps the types of the monitor and its pipes.
LEMMA RegisterTypes ==
  ASSUME NEW s \in Servers, MonitorTypes, Register(s)
  PROVE  MonitorTypes'
<1> USE DEF Register
<1>1. CASE UNCHANGED linkVars
      BY <1>1 DEF MonitorTypes, monVars, linkVars
<1>2. CASE ~UNCHANGED linkVars
  <2>1. PICK f \in Fds \ Open :
          /\ connections' = Append(connections, f)
          /\ pipe_fds' = [pipe_fds EXCEPT ![s] = f]
          /\ toMon' = [toMon EXCEPT ![f] = <<>>]
          /\ toSrv' = [toSrv EXCEPT ![f] = <<>>]
          /\ UNCHANGED <<stalled, monVars, pipes_mutex>>
        BY <1>2, Zenon
  <2>2. connections' \in Seq(Fds)
        BY <2>1 DEF MonitorTypes
  <2>3. pipe_fds' \in [Servers -> Fds \cup {NoFd}]
        BY <2>1 DEF MonitorTypes
  <2>4. toMon' \in [Fds -> Seq(Commands)]
        BY <2>1 DEF MonitorTypes
  <2>5. toSrv' \in [Fds -> Seq(Notices)]
        BY <2>1 DEF MonitorTypes
  <2> QED BY <2>1, <2>2, <2>3, <2>4, <2>5 DEF MonitorTypes, monVars
<1> QED BY <1>1, <1>2

\* The table keeps its element type when the last entry moves into the gap.
LEMMA SwapRemoveType ==
  ASSUME NEW S, NEW q \in Seq(S), NEW k \in 1..Len(q)
  PROVE  SwapRemove(q, k) \in Seq(S)
<1>1. Len(q) \in Nat /\ Len(q) - 1 \in Nat /\ Len(q) \in 1..Len(q)
      OBVIOUS
<1>2. \A j \in 1..(Len(q) - 1) :
        (IF j = k THEN q[Len(q)] ELSE q[j]) \in S
      OBVIOUS
<1>3. SwapRemove(q, k) \in [1..(Len(q) - 1) -> S]
      BY <1>2, Zenon DEF SwapRemove
<1> QED BY <1>1, <1>3

\* So does unregister_with_monitor_thread.
LEMMA UnregisterTypes ==
  ASSUME NEW s \in Servers, MonitorTypes, Unregister(s)
  PROVE  MonitorTypes'
<1>1. CASE UNCHANGED linkVars
      BY <1>1 DEF Unregister, MonitorTypes, monVars, linkVars
<1>2. CASE ~UNCHANGED linkVars
  <2>1. PICK k \in 1..Len(connections) :
          /\ pipe_fds[s] # NoFd
          /\ connections' = SwapRemove(connections, k)
          /\ toMon' = [toMon EXCEPT ![pipe_fds[s]] = <<>>]
          /\ toSrv' = [toSrv EXCEPT ![pipe_fds[s]] = <<>>]
          /\ pipe_fds' = [pipe_fds EXCEPT ![s] = NoFd]
          /\ UNCHANGED <<stalled, monVars, pipes_mutex>>
        BY <1>2, Zenon DEF Unregister
  <2>2. connections' \in Seq(Fds) /\ pipe_fds[s] \in Fds
        BY <2>1, SwapRemoveType DEF MonitorTypes
  <2>3. pipe_fds' \in [Servers -> Fds \cup {NoFd}]
        BY <2>1 DEF MonitorTypes
  <2>4. toMon' \in [Fds -> Seq(Commands)]
        BY <2>1, <2>2 DEF MonitorTypes
  <2>5. toSrv' \in [Fds -> Seq(Notices)]
        BY <2>1, <2>2 DEF MonitorTypes
  <2> QED BY <2>1, <2>2, <2>3, <2>4, <2>5 DEF MonitorTypes, monVars
<1> QED BY <1>1, <1>2

\* Reading a notice shortens a sequence of notices.
LEMMA NoticeTypes ==
  ASSUME NEW s \in Servers, NEW n, MonitorTypes, TakeNotice(s, n),
         UNCHANGED <<stalled, monVars, connections, pipe_fds, toMon, pipes_mutex>>
  PROVE  MonitorTypes'
<1>1. toSrv' \in [Fds -> Seq(Notices)]
      BY DEF TakeNotice, MonitorTypes
<1> QED BY <1>1 DEF MonitorTypes, monVars

\* Every step of target_handler keeps the types of its own state and of the pipes.
LEMMA MonitorStepTypes ==
  ASSUME MonitorTypes, MonitorStep
  PROVE  MonitorTypes'
<1> USE DEF MonitorTypes, linkVars
<1>1. CASE BuildReadset
      BY <1>1 DEF BuildReadset, Open, MonitorSteps
<1>2. CASE SelectReady
      BY <1>2 DEF SelectReady, Readable, Closed, Open, MonitorSteps
<1>3. CASE SelectTimeout
      BY <1>3 DEF SelectTimeout, MonitorSteps
<1>4. CASE LockScan
      BY <1>4 DEF LockScan, MonitorSteps
<1>5. CASE ScanSkip
      BY <1>5 DEF ScanSkip
<1>6. CASE ScanRead
  <2> USE <1>6 DEF ScanRead
  <2>1. connections[idx] \in Fds
        OBVIOUS
  <2>2. toMon' \in [Fds -> Seq(Commands)]
        BY <2>1
  <2>3. stalled' \in BOOLEAN /\ target_is_running' \in BOOLEAN
        BY Zenon DEF StallCpu
  <2>4. notice' \in [msg : Notices, back : {"scan", "build"}]
        BY DEF Notices
  <2> QED BY <2>2, <2>3, <2>4 DEF MonitorSteps
<1>7. CASE ScanDone
      BY <1>7 DEF ScanDone, MonitorSteps
<1>8. CASE Notify
  <2> USE <1>8 DEF Notify
  <2>1. connections[nidx] \in Fds /\ notice.msg \in Notices
        OBVIOUS
  <2>2. toSrv' \in [Fds -> Seq(Notices)]
        BY <2>1
  <2> QED BY <2>2
<1>9. CASE NotifyDone
      BY <1>9 DEF NotifyDone, MonitorSteps
<1>10. CASE Poll
      BY <1>10 DEF Poll, MonitorSteps
<1>11. CASE LockHalt
      BY <1>11 DEF LockHalt, MonitorSteps, Notices
<1> QED BY <1>1, <1>2, <1>3, <1>4, <1>5, <1>6, <1>7, <1>8, <1>9, <1>10, <1>11
        DEF MonitorStep

=============================================================================
