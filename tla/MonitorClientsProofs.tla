------------------------ MODULE MonitorClientsProofs ------------------------
(***************************************************************************)
(* Proofs about the target monitor with servers that call it in any order, *)
(* for any number of servers, descriptors and table entries, with failing  *)
(* JTAG transfers and failing pipe() calls.                                *)
(***************************************************************************)
EXTENDS MonitorClients, TargetMonitorProofs, SequenceTheorems, TLAPS

\* The types hold when the threads start.
LEMMA TypesInit == Init => TypeOK
<1> SUFFICES ASSUME Init PROVE TypeOK
    OBVIOUS
<1>1. /\ connections \in Seq(Fds) /\ toMon \in [Fds -> Seq(Commands)]
      /\ toSrv \in [Fds -> Seq(Notices)]
      BY DEF Init, MonitorInit
<1> QED BY <1>1 DEF Init, MonitorInit, TypeOK, MonitorSteps, Notices

\* Every step keeps the types.
LEMMA TypesNext == TypeOK /\ [Next]_vars => TypeOK'
<1> SUFFICES ASSUME TypeOK, [Next]_vars PROVE TypeOK'
    OBVIOUS
<1>1. MonitorTypes
      BY DEF TypeOK, MonitorTypes
<1>2. ASSUME MonitorTypes', seen' \in [Servers -> Notices \cup {"none"}]
      PROVE  TypeOK'
      BY <1>2 DEF TypeOK, MonitorTypes
<1>3. CASE MonitorStep /\ UNCHANGED seen
      BY <1>1, <1>2, <1>3, MonitorStepTypes DEF TypeOK
<1>4. CASE CpuBreak
      BY <1>4 DEF CpuBreak, TypeOK, monVars, linkVars
<1>5. ASSUME NEW s \in Servers, ServerRegister(s) PROVE TypeOK'
      BY <1>1, <1>2, <1>5, RegisterTypes DEF ServerRegister, TypeOK
<1>6. ASSUME NEW s \in Servers, ServerUnregister(s) PROVE TypeOK'
      BY <1>1, <1>2, <1>6, UnregisterTypes DEF ServerUnregister, TypeOK
<1>7. ASSUME NEW s \in Servers, ServerCommand(s) PROVE TypeOK'
  <2>1. PICK c \in Commands : Command(s, c)
        BY <1>7 DEF ServerCommand
  <2>2. pipe_fds[s] \in Fds
        BY <1>7 DEF ServerCommand, TypeOK
  <2>3. Append(toMon[pipe_fds[s]], c) \in Seq(Commands)
        BY <2>2 DEF TypeOK
  <2>4. toMon' = [toMon EXCEPT ![pipe_fds[s]] = Append(toMon[pipe_fds[s]], c)]
        BY <1>7, <2>1 DEF ServerCommand, Command
  <2>5. toMon' \in [Fds -> Seq(Commands)]
        BY <2>2, <2>3, <2>4 DEF TypeOK
  <2> QED BY <1>7, <2>5 DEF ServerCommand, TypeOK, monVars
<1>8. ASSUME NEW s \in Servers, ServerRead(s) PROVE TypeOK'
  <2>1. PICK n \in Notices : TakeNotice(s, n) /\ seen' = [seen EXCEPT ![s] = n]
        BY <1>8 DEF ServerRead
  <2>2. MonitorTypes'
        BY <1>1, <1>8, <2>1, NoticeTypes DEF ServerRead
  <2> QED BY <1>2, <2>1, <2>2 DEF TypeOK
<1>9. CASE UNCHANGED vars
      BY <1>9 DEF vars, tmVars, monVars, linkVars, TypeOK
<1> QED BY <1>3, <1>4, <1>5, <1>6, <1>7, <1>8, <1>9 DEF Next

\* The variables of the monitor and of its servers keep their types, with
\* failing transfers and failing pipe() calls (hardware_monitor.c).
THEOREM ClientsTypeCorrect == Spec => []TypeOK
BY TypesInit, TypesNext, PTL DEF Spec

-----------------------------------------------------------------------------
(***************************************************************************)
(* The table of connections.                                               *)
(***************************************************************************)

\* Removing the k-th entry of a table without repetitions removes that value
\* and nothing else, although the last entry moves (hardware_monitor.c:144).
LEMMA SwapRemoveExact ==
  ASSUME TypeOK, TableExact, NEW k \in 1..Len(connections),
         connections' = SwapRemove(connections, k)
  PROVE  /\ Open' = Open \ {connections[k]}
         /\ \A i, j \in 1..Len(connections') : connections'[i] = connections'[j] => i = j
<1> DEFINE q == connections
           r == connections'
<1>a. /\ q \in Seq(Fds) /\ k \in 1..Len(q) /\ r = SwapRemove(q, k)
      /\ \A i, j \in 1..Len(q) : q[i] = q[j] => i = j
      BY DEF TypeOK, TableExact
<1>b. Open = {q[i] : i \in 1..Len(q)} /\ Open' = {r[i] : i \in 1..Len(r)}
      BY DEF Open
<1> HIDE DEF q, r
<1>1. Len(q) \in Nat /\ Len(q) - 1 \in Nat
      BY <1>a
<1>2. /\ Len(r) = Len(q) - 1
      /\ \A i \in 1..(Len(q) - 1) : r[i] = IF i = k THEN q[Len(q)] ELSE q[i]
      BY <1>a, <1>1 DEF SwapRemove
<1>3. ASSUME NEW i \in 1..Len(r) PROVE \E j \in 1..Len(q) : r[i] = q[j] /\ j # k
  <2>1. CASE i = k
        BY <1>a, <1>1, <1>2, <2>1
  <2>2. CASE i # k
        BY <1>a, <1>1, <1>2, <2>2
  <2> QED BY <2>1, <2>2
<1>4. ASSUME NEW j \in 1..Len(q), j # k PROVE \E i \in 1..Len(r) : r[i] = q[j]
  <2>1. CASE j = Len(q)
        BY <1>a, <1>1, <1>2, <1>4, <2>1
  <2>2. CASE j # Len(q)
        BY <1>a, <1>1, <1>2, <1>4, <2>2
  <2> QED BY <2>1, <2>2
<1>5. {r[i] : i \in 1..Len(r)} = {q[i] : i \in 1..Len(q)} \ {q[k]}
  <2>1. ASSUME NEW x \in {r[i] : i \in 1..Len(r)}
        PROVE  x \in {q[i] : i \in 1..Len(q)} \ {q[k]}
    <3>1. PICK i \in 1..Len(r) : x = r[i]
          BY <2>1
    <3>2. PICK j \in 1..Len(q) : r[i] = q[j] /\ j # k
          BY <1>3
    <3>3. q[j] # q[k]
          BY <1>a, <3>2
    <3> QED BY <3>1, <3>2, <3>3
  <2>2. ASSUME NEW x \in {q[i] : i \in 1..Len(q)} \ {q[k]}
        PROVE  x \in {r[i] : i \in 1..Len(r)}
    <3>1. PICK j \in 1..Len(q) : x = q[j]
          BY <2>2
    <3> QED BY <1>4, <2>2, <3>1
  <2> QED BY <2>1, <2>2
<1>6. \A i, j \in 1..Len(r) : r[i] = r[j] => i = j
      BY <1>a, <1>1, <1>2
<1> QED BY <1>a, <1>b, <1>5, <1>6 DEF q, r

\* Every step keeps the table exact: registering takes a descriptor that is
\* not in the table, and unregistering removes that of the caller alone.
LEMMA TableNext == TypeOK /\ TableExact /\ [Next]_vars => TableExact'
<1> SUFFICES ASSUME TypeOK, TableExact, [Next]_vars PROVE TableExact'
    OBVIOUS
<1>1. CASE UNCHANGED <<connections, pipe_fds>>
      BY <1>1 DEF TableExact, Open
<1>2. ASSUME NEW s \in Servers, ServerRegister(s), ~UNCHANGED <<connections, pipe_fds>>
      PROVE  TableExact'
  <2>1. PICK f \in Fds \ Open :
          /\ connections' = Append(connections, f)
          /\ pipe_fds' = [pipe_fds EXCEPT ![s] = f]
        BY <1>2, Zenon DEF ServerRegister, Register, linkVars
  <2>2. /\ pipe_fds[s] = NoFd /\ f # NoFd /\ f \notin Open
        /\ \A t \in Servers : pipe_fds[t] # NoFd => pipe_fds[t] # f
        BY <1>2, MonitorAssumption DEF ServerRegister, TableExact
  <2>3. \A t \in Servers : pipe_fds'[t] = IF t = s THEN f ELSE pipe_fds[t]
        BY <2>1 DEF TypeOK
  <2>4. /\ Len(connections') = Len(connections) + 1
        /\ \A j \in 1..Len(connections) : connections'[j] = connections[j]
        /\ connections'[Len(connections) + 1] = f
        /\ Len(connections) \in Nat
        BY <2>1 DEF TypeOK
  <2>5. Open' = Open \cup {f}
    <3>1. ASSUME NEW g \in Open' PROVE g \in Open \cup {f}
      <4>1. PICK j \in 1..Len(connections') : g = connections'[j]
            BY <3>1 DEF Open
      <4>2. CASE j = Len(connections) + 1
            BY <2>4, <4>1, <4>2
      <4>3. CASE j # Len(connections) + 1
        <5>1. j \in 1..Len(connections)
              BY <2>4, <4>3
        <5> QED BY <2>4, <4>1, <5>1 DEF Open
      <4> QED BY <4>2, <4>3
    <3>2. ASSUME NEW g \in Open PROVE g \in Open'
      <4>1. PICK j \in 1..Len(connections) : g = connections[j]
            BY DEF Open
      <4> QED BY <2>4, <4>1 DEF Open
    <3>3. f \in Open'
          BY <2>4 DEF Open
    <3> QED BY <3>1, <3>2, <3>3
  <2>6. {pipe_fds'[t] : t \in Servers} \ {NoFd} = ({pipe_fds[t] : t \in Servers} \ {NoFd}) \cup {f}
        BY <2>2, <2>3
  <2>7. \A j, k \in 1..Len(connections') : connections'[j] = connections'[k] => j = k
    <3>1. \A j \in 1..Len(connections) : connections[j] # f
          BY <2>2 DEF Open
    <3>2. \A j \in 1..Len(connections') : j = Len(connections) + 1 \/ j \in 1..Len(connections)
          BY <2>4
    <3> QED BY <2>4, <3>1, <3>2 DEF TableExact
  <2>8. \A t, u \in Servers : pipe_fds'[t] = pipe_fds'[u] /\ pipe_fds'[t] # NoFd => t = u
        BY <2>2, <2>3 DEF TableExact
  <2> QED BY <2>5, <2>6, <2>7, <2>8 DEF TableExact
<1>3. ASSUME NEW s \in Servers, ServerUnregister(s), ~UNCHANGED <<connections, pipe_fds>>
      PROVE  TableExact'
  <2>1. PICK k \in 1..Len(connections) :
          /\ pipe_fds[s] # NoFd
          /\ connections[k] = pipe_fds[s]
          /\ connections' = SwapRemove(connections, k)
          /\ pipe_fds' = [pipe_fds EXCEPT ![s] = NoFd]
        BY <1>3, Zenon DEF ServerUnregister, Unregister, linkVars
  <2>2. /\ Open' = Open \ {pipe_fds[s]}
        /\ \A i, j \in 1..Len(connections') : connections'[i] = connections'[j] => i = j
        BY <2>1, SwapRemoveExact
  <2>3. \A t \in Servers : pipe_fds'[t] = IF t = s THEN NoFd ELSE pipe_fds[t]
        BY <2>1 DEF TypeOK
  <2>4. \A t \in Servers : t # s => pipe_fds[t] # pipe_fds[s]
        BY <2>1 DEF TableExact
  <2>5. {pipe_fds'[t] : t \in Servers} \ {NoFd} = ({pipe_fds[t] : t \in Servers} \ {NoFd}) \ {pipe_fds[s]}
        BY <2>3, <2>4
  <2>6. \A t, u \in Servers : pipe_fds'[t] = pipe_fds'[u] /\ pipe_fds'[t] # NoFd => t = u
        BY <2>3 DEF TableExact
  <2> QED BY <2>2, <2>5, <2>6 DEF TableExact
<1>4. CASE MonitorStep
      BY <1>1, <1>4, Zenon DEF MonitorStep, BuildReadset, SelectReady, SelectTimeout, LockScan, ScanSkip,
           ScanRead, ScanDone, Notify, NotifyDone, Poll, LockHalt, linkVars
<1> QED BY <1>1, <1>2, <1>3, <1>4, Zenon
        DEF Next, vars, tmVars, linkVars, CpuBreak, ServerCommand, ServerRead

\* The table of connections is exact for any number of servers, whatever
\* order they register and unregister in (hardware_monitor.c:82-158).
THEOREM TableIsExact == Spec => []TableExact
<1>1. Init => TableExact
      BY DEF Init, MonitorInit, TableExact, Open
<1> QED BY <1>1, TypesInit, TypesNext, TableNext, PTL DEF Spec

-----------------------------------------------------------------------------
(***************************************************************************)
(* What the listeners were told.  ListenersAgree is not inductive alone:   *)
(* it rests on the table holding each pipe once, on the monitor holding    *)
(* pipes_mutex while it tells one listener after the other, and on the     *)
(* notice it sends being what it believes.                                 *)
(***************************************************************************)
NoticeInv ==
  /\ mpc \in {"scan", "notify"} => pipes_mutex = "monitor"
  /\ mpc # "notify" => nidx = 1
  /\ mpc = "notify" => (notice.msg = "R") = target_is_running
  /\ mpc = "lock_halt" => ~target_is_running

\* The monitor changes its mind only where it goes on to notify, and notifies
\* under the lock.
LEMMA NoticeNext == TypeOK /\ NoticeInv /\ [Next]_vars => NoticeInv'
<1> SUFFICES ASSUME TypeOK, NoticeInv, [Next]_vars PROVE NoticeInv'
    OBVIOUS
<1>1. CASE ScanRead
  <2> DEFINE stall == Head(toMon[connections[idx]]) = "S"
  <2>1. target_is_running' = ~stall
    <3>1. CASE target_is_running = stall
          BY <1>1, <3>1, Zenon DEF ScanRead, StallCpu
    <3>2. CASE target_is_running # stall
          BY <1>1, <3>2, Zenon DEF ScanRead, TypeOK
    <3> QED BY <3>1, <3>2
  <2>2. notice'.msg = IF stall THEN "H" ELSE "R"
        BY <1>1 DEF ScanRead
  <2>3. (notice'.msg = "R") = target_is_running'
        BY <2>1, <2>2
  <2> QED BY <1>1, <2>3 DEF ScanRead, NoticeInv
<1>2. CASE NotifyDone
      BY <1>2 DEF NotifyDone, NoticeInv, TypeOK
<1>3. CASE Poll
      BY <1>3 DEF Poll, NoticeInv, TypeOK
<1>4. CASE LockHalt
      BY <1>4 DEF LockHalt, NoticeInv, TypeOK
<1>5. CASE BuildReadset \/ SelectReady \/ SelectTimeout \/ LockScan \/ ScanSkip \/ ScanDone \/ Notify
      BY <1>5 DEF NoticeInv, BuildReadset, SelectReady, SelectTimeout, LockScan, ScanSkip, ScanDone, Notify
<1>6. CASE CpuBreak \/ UNCHANGED vars
      BY <1>6 DEF CpuBreak, vars, tmVars, monVars, NoticeInv
<1>7. ASSUME NEW s \in Servers,
             ServerRegister(s) \/ ServerUnregister(s) \/ ServerCommand(s) \/ ServerRead(s)
      PROVE  NoticeInv'
      BY <1>7 DEF ServerRegister, Register, ServerUnregister, Unregister, ServerCommand, ServerRead,
           monVars, NoticeInv
<1> QED BY <1>1, <1>2, <1>3, <1>4, <1>5, <1>6, <1>7 DEF Next, MonitorStep

\* A step that neither moves a pipe nor changes what was sent keeps the
\* agreement, unless the monitor changes its mind or has more to tell.
LEMMA ListenersFrame ==
  ASSUME ListenersAgree, UNCHANGED <<connections, pipe_fds, toSrv, seen, target_is_running>>,
         \A k \in 1..Len(connections) : Untold(k) => Untold(k)'
  PROVE  ListenersAgree'
<1>1. \A s \in Servers : LastNotice(s)' = LastNotice(s)
      BY DEF LastNotice
<1> QED BY <1>1 DEF ListenersAgree

\* The thread's own steps.
LEMMA ListenersMonitor ==
  ASSUME TypeOK, TableExact, NoticeInv, ListenersAgree, MonitorStep, UNCHANGED seen
  PROVE  ListenersAgree'
<1>1. CASE BuildReadset \/ SelectReady \/ SelectTimeout \/ LockScan \/ ScanSkip \/ ScanDone
      BY <1>1, ListenersFrame
         DEF Untold, BuildReadset, SelectReady, SelectTimeout, LockScan, ScanSkip, ScanDone, linkVars
<1>2. CASE ScanRead
  <2>1. mpc' = "notify" /\ nidx' = 1
        BY <1>2 DEF ScanRead, NoticeInv
  <2>2. \A k \in 1..Len(connections') : Untold(k)'
        BY <1>2, <2>1 DEF Untold, ScanRead, TypeOK
  <2> QED BY <2>2 DEF ListenersAgree
<1>3. CASE Notify
  <2> DEFINE f == connections[nidx]
  <2>1. /\ nidx \in 1..Len(connections) /\ f \in Fds
        /\ mpc = "notify" /\ mpc' = "notify" /\ nidx' = nidx + 1
        /\ UNCHANGED <<connections, pipe_fds, target_is_running>>
        BY <1>3 DEF Notify, TypeOK
  <2>2. toSrv' = [toSrv EXCEPT ![f] = Append(toSrv[f], notice.msg)]
        BY <1>3 DEF Notify
  <2>3. /\ Append(toSrv[f], notice.msg) # <<>>
        /\ Append(toSrv[f], notice.msg)[Len(Append(toSrv[f], notice.msg))] = notice.msg
    <3>1. toSrv[f] \in Seq(Notices) /\ notice.msg \in Notices
          BY <2>1 DEF TypeOK
    <3> QED BY <3>1
  <2> SUFFICES ASSUME NEW s \in Servers, NEW k \in 1..Len(connections),
                      connections[k] = pipe_fds[s], ~Untold(k)', LastNotice(s)' # "none"
               PROVE  (LastNotice(s)' = "R") = target_is_running
      BY <2>1 DEF ListenersAgree
  <2>4. k <= nidx /\ pipe_fds[s] \in Fds
        BY <2>1 DEF Untold, TypeOK
  <2>5. CASE k = nidx
    <3>1. toSrv'[pipe_fds[s]] = Append(toSrv[f], notice.msg)
          BY <2>1, <2>2, <2>5 DEF TypeOK
    <3>2. LastNotice(s)' = notice.msg
          BY <2>1, <2>3, <3>1 DEF LastNotice
    <3> QED BY <2>1, <3>2 DEF NoticeInv
  <2>6. CASE k < nidx
    <3>1. pipe_fds[s] # f
          BY <2>1, <2>6 DEF TableExact
    <3>2. toSrv'[pipe_fds[s]] = toSrv[pipe_fds[s]]
          BY <2>1, <2>2, <2>4, <3>1 DEF TypeOK
    <3>3. LastNotice(s)' = LastNotice(s)
          BY <2>1, <3>2 DEF LastNotice
    <3>4. ~Untold(k)
          BY <2>1, <2>6 DEF Untold
    <3> QED BY <3>3, <3>4 DEF ListenersAgree
  <2> QED BY <2>1, <2>4, <2>5, <2>6
<1>4. CASE NotifyDone
  <2>1. \A k \in 1..Len(connections) : ~Untold(k)
        BY <1>4 DEF NotifyDone, Untold, TypeOK
  <2> QED BY <1>4, <2>1, ListenersFrame DEF NotifyDone, linkVars
<1>5. CASE Poll
  <2>1. CASE UNCHANGED target_is_running
    <3>1. \A k \in 1..Len(connections) : ~Untold(k)
          BY <1>5 DEF Poll, Untold
    <3> QED BY <1>5, <2>1, <3>1, ListenersFrame DEF Poll, linkVars
  <2>2. CASE ~UNCHANGED target_is_running
    <3>1. mpc' = "lock_halt"
          BY <1>5, <2>2 DEF Poll
    <3>2. \A k : Untold(k)'
          BY <3>1 DEF Untold
    <3> QED BY <3>2 DEF ListenersAgree
  <2> QED BY <2>1, <2>2
<1>6. CASE LockHalt
  <2>1. mpc' = "notify" /\ nidx' = 1
        BY <1>6 DEF LockHalt, NoticeInv
  <2>2. \A k \in 1..Len(connections') : Untold(k)'
        BY <1>6, <2>1 DEF Untold, LockHalt, linkVars, TypeOK
  <2> QED BY <2>2 DEF ListenersAgree
<1> QED BY <1>1, <1>2, <1>3, <1>4, <1>5, <1>6 DEF MonitorStep

\* A server reads the next notice: the last one it was sent stays the same.
LEMMA ListenersRead ==
  ASSUME TypeOK, TableExact, ListenersAgree, NEW s \in Servers, ServerRead(s)
  PROVE  ListenersAgree'
<1> DEFINE f == pipe_fds[s]
<1>1. PICK n \in Notices : TakeNotice(s, n) /\ seen' = [seen EXCEPT ![s] = n]
      BY DEF ServerRead
<1>2. /\ f \in Fds /\ f # NoFd /\ toSrv[f] # <<>> /\ n = Head(toSrv[f])
      /\ toSrv[f] \in Seq(Notices)
      /\ toSrv' = [toSrv EXCEPT ![f] = Tail(toSrv[f])]
      BY <1>1 DEF TakeNotice, TypeOK
<1>3. UNCHANGED <<connections, pipe_fds, target_is_running, mpc, nidx>>
      BY DEF ServerRead, monVars
<1>4. LastNotice(s)' = LastNotice(s)
  <2>1. toSrv'[f] = Tail(toSrv[f]) /\ seen'[s] = Head(toSrv[f])
        BY <1>1, <1>2 DEF TypeOK
  <2>2. LastNotice(s) = toSrv[f][Len(toSrv[f])]
        BY <1>2 DEF LastNotice
  <2>3. LastNotice(s)' = IF Tail(toSrv[f]) = <<>> THEN Head(toSrv[f])
                                                  ELSE Tail(toSrv[f])[Len(Tail(toSrv[f]))]
        BY <1>3, <2>1 DEF LastNotice
  <2>4. \A q \in Seq(Notices) : q # <<>> =>
          (IF Tail(q) = <<>> THEN Head(q) ELSE Tail(q)[Len(Tail(q))]) = q[Len(q)]
    <3> SUFFICES ASSUME NEW q \in Seq(Notices), q # <<>>
                 PROVE  (IF Tail(q) = <<>> THEN Head(q) ELSE Tail(q)[Len(Tail(q))]) = q[Len(q)]
        OBVIOUS
    <3>1. /\ Len(q) \in Nat \ {0}
          /\ Tail(q) \in Seq(Notices) /\ Len(Tail(q)) = Len(q) - 1 /\ Head(q) = q[1]
          /\ \A i \in 1..(Len(q) - 1) : Tail(q)[i] = q[i + 1]
          BY HeadTailProperties, EmptySeq
    <3>2. Tail(q) = <<>> <=> Len(q) = 1
      <4>1. Tail(q) = <<>> => Len(q) = 1
        <5>1. Len(<<>>) = 0
              BY EmptySeq
        <5>2. Tail(q) = <<>> => Len(Tail(q)) = 0
              BY <5>1, Zenon
        <5> QED BY <3>1, <5>2
      <4>2. Tail(q) # <<>> => Len(Tail(q)) \in Nat \ {0}
            BY <3>1, EmptySeq
      <4> QED BY <3>1, <4>1, <4>2
    <3> QED BY <3>1, <3>2
  <2> QED BY <1>2, <2>2, <2>3, <2>4
<1>5. ASSUME NEW t \in Servers, t # s, pipe_fds[t] \in Fds PROVE LastNotice(t)' = LastNotice(t)
  <2>1. pipe_fds[t] # f
        BY <1>2, <1>5 DEF TableExact
  <2>2. toSrv'[pipe_fds[t]] = toSrv[pipe_fds[t]] /\ seen'[t] = seen[t]
        BY <1>1, <1>2, <1>5, <2>1 DEF TypeOK
  <2> QED BY <1>3, <2>2 DEF LastNotice
<1>6. \A k : Untold(k)' <=> Untold(k)
      BY <1>3 DEF Untold
<1>7. \A k \in 1..Len(connections) : connections[k] \in Fds
      BY DEF TypeOK
<1> QED BY <1>3, <1>4, <1>5, <1>6, <1>7 DEF ListenersAgree

\* A new listener was told nothing, and the others keep their place.
LEMMA ListenersRegister ==
  ASSUME TypeOK, TableExact, NoticeInv, ListenersAgree, NEW s \in Servers, ServerRegister(s)
  PROVE  ListenersAgree'
<1>1. CASE UNCHANGED linkVars
  <2>1. pipe_fds[s] = NoFd /\ UNCHANGED <<mpc, nidx, target_is_running, connections, pipe_fds, toSrv>>
        BY <1>1 DEF ServerRegister, Register, monVars, linkVars
  <2>2. \A k : Untold(k)' <=> Untold(k)
        BY <2>1 DEF Untold
  <2>3. \A t \in Servers : t # s => LastNotice(t)' = LastNotice(t)
        BY <2>1 DEF ServerRegister, LastNotice, TypeOK
  <2>4. \A k \in 1..Len(connections) : connections[k] # pipe_fds[s]
        BY <2>1, MonitorAssumption DEF TypeOK
  <2> QED BY <2>1, <2>2, <2>3, <2>4 DEF ListenersAgree
<1>2. CASE ~UNCHANGED linkVars
  <2>1. PICK f \in Fds \ Open :
          /\ connections' = Append(connections, f)
          /\ pipe_fds' = [pipe_fds EXCEPT ![s] = f]
          /\ toSrv' = [toSrv EXCEPT ![f] = <<>>]
          /\ pipes_mutex = "free"
          /\ UNCHANGED <<mpc, nidx, target_is_running>>
        BY <1>2, Zenon DEF ServerRegister, Register, monVars
  <2>2. mpc # "notify"
        BY <2>1 DEF NoticeInv
  <2>3. \A j, k : Untold(j)' => Untold(k)
        BY <2>1, <2>2 DEF Untold
  <2>4. \A j, k : Untold(k) => Untold(j)'
        BY <2>1, <2>2 DEF Untold
  <2>5. LastNotice(s)' = "none"
    <3>1. pipe_fds'[s] = f /\ toSrv'[f] = <<>> /\ seen'[s] = "none"
          BY <2>1 DEF ServerRegister, TypeOK
    <3> QED BY <3>1 DEF LastNotice
  <2>6. ASSUME NEW t \in Servers, t # s, NEW k \in 1..Len(connections'),
               connections'[k] = pipe_fds'[t], ~Untold(k)', LastNotice(t)' # "none"
        PROVE  (LastNotice(t)' = "R") = target_is_running'
    <3>1. pipe_fds'[t] = pipe_fds[t]
          BY <2>1, <2>6 DEF TypeOK
    <3>2. pipe_fds[t] # f
          BY <2>1, MonitorAssumption DEF TableExact
    <3>3. k \in 1..Len(connections) /\ connections[k] = pipe_fds[t]
          BY <2>1, <2>6, <3>1, <3>2 DEF TypeOK
    <3>4. LastNotice(t)' = LastNotice(t)
      <4>1. toSrv'[pipe_fds[t]] = toSrv[pipe_fds[t]] /\ seen'[t] = seen[t]
            BY <2>1, <2>6, <3>2, <3>3 DEF ServerRegister, TypeOK
      <4> QED BY <3>1, <4>1 DEF LastNotice
    <3> QED BY <2>1, <2>4, <2>6, <3>3, <3>4 DEF ListenersAgree
  <2> QED BY <2>5, <2>6 DEF ListenersAgree
<1> QED BY <1>1, <1>2

\* A listener leaves while the monitor tells nobody anything; the moved entry
\* keeps what it was told.
LEMMA ListenersUnregister ==
  ASSUME TypeOK, TableExact, NoticeInv, ListenersAgree, NEW s \in Servers, ServerUnregister(s)
  PROVE  ListenersAgree'
<1>1. CASE UNCHANGED linkVars
      BY <1>1, ListenersFrame DEF ServerUnregister, Unregister, linkVars, monVars, Untold
<1>2. CASE ~UNCHANGED linkVars
  <2>1. PICK k \in 1..Len(connections) :
          /\ pipe_fds[s] # NoFd
          /\ connections[k] = pipe_fds[s]
          /\ connections' = SwapRemove(connections, k)
          /\ toSrv' = [toSrv EXCEPT ![pipe_fds[s]] = <<>>]
          /\ pipe_fds' = [pipe_fds EXCEPT ![s] = NoFd]
          /\ pipes_mutex = "free"
          /\ UNCHANGED <<mpc, nidx, target_is_running, seen>>
        BY <1>2, Zenon DEF ServerUnregister, Unregister, monVars
  <2>2. mpc # "notify"
        BY <2>1 DEF NoticeInv
  <2>3. \A j, i : Untold(i) => Untold(j)'
        BY <2>1, <2>2 DEF Untold
  <2>4. Open' \subseteq Open /\ connections' \in Seq(Fds)
    <3>1. connections \in Seq(Fds)
          BY DEF TypeOK
    <3> QED BY <2>1, <3>1, SwapRemoveExact, SwapRemoveType
  <2>5. ASSUME NEW t \in Servers, NEW j \in 1..Len(connections'),
               connections'[j] = pipe_fds'[t], ~Untold(j)', LastNotice(t)' # "none"
        PROVE  (LastNotice(t)' = "R") = target_is_running'
    <3>1. connections'[j] \in Fds /\ connections'[j] \in Open
          BY <2>4 DEF Open
    <3>2. t # s /\ pipe_fds'[t] = pipe_fds[t]
          BY <2>1, <2>5, <3>1, MonitorAssumption DEF TypeOK
    <3>3. pipe_fds[t] # pipe_fds[s] /\ pipe_fds[t] \in Fds
          BY <2>1, <2>5, <3>1, <3>2 DEF TableExact
    <3>4. PICK i \in 1..Len(connections) : connections[i] = pipe_fds[t]
          BY <2>5, <3>1, <3>2 DEF Open
    <3>5. LastNotice(t)' = LastNotice(t)
      <4>1. toSrv'[pipe_fds[t]] = toSrv[pipe_fds[t]]
            BY <2>1, <3>3 DEF TypeOK
      <4> QED BY <2>1, <3>2, <4>1 DEF LastNotice
    <3> QED BY <2>1, <2>3, <2>5, <3>4, <3>5 DEF ListenersAgree
  <2> QED BY <2>5 DEF ListenersAgree
<1> QED BY <1>1, <1>2

\* Together: every step keeps the agreement.
LEMMA ListenersNext ==
  TypeOK /\ TableExact /\ NoticeInv /\ ListenersAgree /\ [Next]_vars => ListenersAgree'
<1> SUFFICES ASSUME TypeOK, TableExact, NoticeInv, ListenersAgree, [Next]_vars
             PROVE  ListenersAgree'
    OBVIOUS
<1>1. CASE CpuBreak \/ UNCHANGED vars
      BY <1>1, ListenersFrame DEF CpuBreak, vars, tmVars, monVars, linkVars, Untold
<1>2. ASSUME NEW s \in Servers, ServerCommand(s) PROVE ListenersAgree'
      BY <1>2, ListenersFrame DEF ServerCommand, monVars, Untold
<1> QED BY <1>1, <1>2, ListenersMonitor, ListenersRegister, ListenersUnregister, ListenersRead
        DEF Next

\* Every registered server that was ever told anything was last told what the
\* monitor believes, or is about to be told: however servers come, go and
\* send commands (notify_listeners, hardware_monitor.c:312-327).
THEOREM ListenersAlwaysAgree == Spec => []ListenersAgree
<1>1. Init => TableExact
      BY DEF Init, MonitorInit, TableExact, Open
<1>2. Init => NoticeInv /\ ListenersAgree
      BY DEF Init, MonitorInit, NoticeInv, ListenersAgree
<1> QED BY <1>1, <1>2, TypesInit, TypesNext, TableNext, NoticeNext, ListenersNext, PTL DEF Spec

=============================================================================
