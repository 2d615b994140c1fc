--------------------------- MODULE TargetMonitor ---------------------------
(***************************************************************************)
(* The target monitor of adv_jtag_bridge (hardware_monitor.c).             *)
(*                                                                         *)
(* One thread (target_handler) owns the stall bit of the target CPU.  A    *)
(* server thread (RSP, JSP, HWP) that wants to follow the target registers *)
(* a pair of pipes: it writes 'S' (stall) and 'U' (unstall) commands into  *)
(* the first and reads 'H' (halted) and 'R' (running) notices from the     *)
(* second.  The array connections[] is guarded by pipes_mutex, which the   *)
(* thread also holds while it executes commands and notifies listeners.    *)
(*                                                                         *)
(* Every dbg_cpu0_* call is one step: dbg_access_mutex makes it exclusive. *)
(***************************************************************************)
EXTENDS Integers, Sequences

CONSTANTS
  Servers,     \* the server threads of the bridge
  Fds,         \* names of pipe pairs; the kernel hands a closed one out again
  NoFd,        \* the value -1 of a descriptor that is not open
  PipeCap,     \* bytes a pipe holds before write() blocks (65536 on Linux)
  MAX_MONITOR_CONNECTIONS,
  JtagMayFail, \* may a transfer over the JTAG cable return an error?
  PipeMayFail  \* may pipe() fail for lack of descriptors?

ASSUME MonitorAssumption ==
  /\ NoFd \notin Fds
  /\ PipeCap \in Nat \ {0}
  /\ MAX_MONITOR_CONNECTIONS \in Nat
  /\ JtagMayFail \in BOOLEAN
  /\ PipeMayFail \in BOOLEAN

VARIABLES
  stalled,            \* hardware: the CPU is stalled
  target_is_running,  \* the monitor's belief about the target
  connections,        \* the registered pipe pairs, in array order
  pipe_fds,           \* each server's own copy of its descriptors
  toMon,              \* server_to_monitor_fds: bytes not read yet
  toSrv,              \* monitor_to_server_fds: bytes not read yet
  pipes_mutex,        \* "free", "monitor", or "leaked" (see Register)
  mpc,                \* where target_handler is
  readset,            \* the fd_set of select()
  idx,                \* the loop variable i of the command scan, 1 outside it
  nidx,               \* the loop variable i of notify_listeners, 1 outside it
  notice              \* outstr, and where to return to after notifying

monVars == <<target_is_running, mpc, readset, idx, nidx, notice>>
linkVars == <<connections, pipe_fds, toMon, toSrv>>
tmVars == <<stalled, monVars, linkVars, pipes_mutex>>

Commands == {"S", "U"}
Notices  == {"H", "R"}
MonitorSteps == {"build", "select", "lock_scan", "scan", "notify", "poll", "lock_halt"}

Open == {connections[k] : k \in 1..Len(connections)}

(***************************************************************************)
(* The monitor's interface: what a server thread calls.                    *)
(***************************************************************************)

\* start_monitor_thread: the target is taken to be running.
MonitorInit ==
  /\ target_is_running = TRUE
  /\ connections = <<>>
  /\ pipe_fds = [s \in Servers |-> NoFd]
  /\ toMon = [f \in Fds |-> <<>>]
  /\ toSrv = [f \in Fds |-> <<>>]
  /\ pipes_mutex = "free"
  /\ mpc = "build"
  /\ readset = {}
  /\ idx = 1
  /\ nidx = 1
  /\ notice = [msg |-> "H", back |-> "build"]

\* register_with_monitor_thread: a full table is refused without the lock; a
\* pipe() that fails returns with pipes_mutex still locked.  Neither outcome
\* is noticed by a caller, which only tests for a negative result.  Only the
\* main thread registers, so the test of the limit and the append are one step.
Register(s) ==
  /\ UNCHANGED <<stalled, monVars>>
  /\ \/ /\ Len(connections) >= MAX_MONITOR_CONNECTIONS
        /\ UNCHANGED <<linkVars, pipes_mutex>>
     \/ /\ Len(connections) < MAX_MONITOR_CONNECTIONS
        /\ pipes_mutex = "free"
        /\ \E f \in Fds \ Open :
             /\ connections' = Append(connections, f)
             /\ pipe_fds' = [pipe_fds EXCEPT ![s] = f]
             /\ toMon' = [toMon EXCEPT ![f] = <<>>]
             /\ toSrv' = [toSrv EXCEPT ![f] = <<>>]
        /\ UNCHANGED pipes_mutex
     \/ /\ PipeMayFail
        /\ Len(connections) < MAX_MONITOR_CONNECTIONS
        /\ pipes_mutex = "free"
        /\ pipes_mutex' = "leaked"
        /\ UNCHANGED linkVars

\* Mutants of SwapRemove: the entry is marked, not removed; the last one is lost.
SwapRemoveHole(seq, k) == [seq EXCEPT ![k] = NoFd]
SwapRemoveTruncate(seq, k) == SubSeq(seq, 1, Len(seq) - 1)

\* The array without its k-th entry: the last one moves into the gap.
SwapRemove(seq, k) ==
  [j \in 1..(Len(seq) - 1) |-> IF j = k THEN seq[Len(seq)] ELSE seq[j]]

\* unregister_with_monitor_thread: closing the pipes discards their bytes.
Unregister(s) ==
  /\ UNCHANGED <<stalled, monVars, pipes_mutex>>
  /\ \/ /\ pipe_fds[s] = NoFd
        /\ UNCHANGED linkVars
     \/ /\ pipe_fds[s] # NoFd
        /\ pipes_mutex = "free"
        /\ \E k \in 1..Len(connections) :
             /\ connections[k] = pipe_fds[s]
             /\ connections' = SwapRemove(connections, k)
        /\ toMon' = [toMon EXCEPT ![pipe_fds[s]] = <<>>]
        /\ toSrv' = [toSrv EXCEPT ![pipe_fds[s]] = <<>>]
        /\ pipe_fds' = [pipe_fds EXCEPT ![s] = NoFd]

\* write(pipe_fds[0], c, 1): fails on a closed descriptor, which the caller
\* only prints, and blocks on a full pipe.
Command(s, c) ==
  IF pipe_fds[s] = NoFd
  THEN UNCHANGED toMon
  ELSE /\ Len(toMon[pipe_fds[s]]) < PipeCap
       /\ toMon' = [toMon EXCEPT ![pipe_fds[s]] = Append(@, c)]

\* read(pipe_fds[1], &cmd, 1): the next notice of a server is n.
TakeNotice(s, n) ==
  /\ pipe_fds[s] # NoFd
  /\ toSrv[pipe_fds[s]] # <<>>
  /\ n = Head(toSrv[pipe_fds[s]])
  /\ toSrv' = [toSrv EXCEPT ![pipe_fds[s]] = Tail(@)]

(***************************************************************************)
(* The thread.                                                             *)
(***************************************************************************)

\* Does the next JTAG transfer succeed?
Outcomes == IF JtagMayFail THEN BOOLEAN ELSE {TRUE}

\* Lock, collect the descriptors to wait for, unlock.
BuildReadset ==
  /\ mpc = "build"
  /\ pipes_mutex = "free"
  /\ readset' = Open
  /\ mpc' = "select"
  /\ UNCHANGED <<stalled, target_is_running, idx, nidx, notice, linkVars, pipes_mutex>>

Readable == {f \in readset \cap Open : toMon[f] # <<>>}
Closed == readset \ Open

\* select() returns: some pipes have data.  A pipe that went away since the
\* set was built may be reported as well.
SelectReady ==
  /\ mpc = "select"
  /\ \E gone \in SUBSET Closed :
       /\ Readable \cup gone # {}
       /\ readset' = Readable \cup gone
  /\ mpc' = "lock_scan"
  /\ UNCHANGED <<stalled, target_is_running, idx, nidx, notice, linkVars, pipes_mutex>>

\* select() times out after 1/4 second, or fails with EBADF because of a
\* closed pipe: both go on to poll the hardware.
SelectTimeout ==
  /\ mpc = "select"
  /\ Readable = {} \/ Closed # {}
  /\ mpc' = "poll"
  /\ readset' = {}
  /\ UNCHANGED <<stalled, target_is_running, idx, nidx, notice, linkVars, pipes_mutex>>

LockScan ==
  /\ mpc = "lock_scan"
  /\ pipes_mutex = "free"
  /\ pipes_mutex' = "monitor"
  /\ mpc' = "scan"
  /\ UNCHANGED <<stalled, target_is_running, readset, idx, nidx, notice, linkVars>>

ScanSkip ==
  /\ mpc = "scan"
  /\ idx <= Len(connections)
  /\ connections[idx] \notin readset
  /\ idx' = idx + 1
  /\ UNCHANGED <<stalled, target_is_running, mpc, readset, nidx, notice, linkVars, pipes_mutex>>

\* Mutant of StallCpu: the belief does not follow an unstall.
StallCpuForgets(stall) ==
  /\ target_is_running' = FALSE
  /\ \E ok \in Outcomes : stalled' = IF ok THEN stall ELSE stalled

\* stall_cpu: the belief follows the command, whether or not the write to the
\* control register succeeded.
StallCpu(stall) ==
  /\ target_is_running' = ~stall
  /\ \E ok \in Outcomes : stalled' = IF ok THEN stall ELSE stalled

\* Read one command byte (blocking if there is none) and execute it.
ScanRead ==
  /\ mpc = "scan"
  /\ idx <= Len(connections)
  /\ connections[idx] \in readset
  /\ toMon[connections[idx]] # <<>>
  /\ toMon' = [toMon EXCEPT ![connections[idx]] = Tail(@)]
  /\ LET stall == Head(toMon[connections[idx]]) = "S" IN
       /\ IF target_is_running = stall
          THEN StallCpu(stall)
          ELSE UNCHANGED <<stalled, target_is_running>>
       /\ notice' = [msg |-> IF stall THEN "H" ELSE "R", back |-> "scan"]
  /\ mpc' = "notify"
  /\ idx' = idx + 1
  /\ UNCHANGED <<readset, nidx, connections, pipe_fds, toSrv, pipes_mutex>>

ScanDone ==
  /\ mpc = "scan"
  /\ idx > Len(connections)
  /\ pipes_mutex' = "free"
  /\ mpc' = "build"
  /\ readset' = {}
  /\ idx' = 1
  /\ UNCHANGED <<stalled, target_is_running, nidx, notice, linkVars>>

\* notify_listeners: one blocking write per registered server.
Notify ==
  /\ mpc = "notify"
  /\ nidx <= Len(connections)
  /\ Len(toSrv[connections[nidx]]) < PipeCap
  /\ toSrv' = [toSrv EXCEPT ![connections[nidx]] = Append(@, notice.msg)]
  /\ nidx' = nidx + 1
  /\ UNCHANGED <<stalled, target_is_running, mpc, readset, idx, notice, connections,
                 pipe_fds, toMon, pipes_mutex>>

\* Back to the scan, still locked, or unlock and start over.
NotifyDone ==
  /\ mpc = "notify"
  /\ nidx > Len(connections)
  /\ mpc' = notice.back
  /\ pipes_mutex' = IF notice.back = "scan" THEN pipes_mutex ELSE "free"
  /\ nidx' = 1
  /\ UNCHANGED <<stalled, target_is_running, readset, idx, notice, linkVars>>

\* Mutants of Poll: the stop is not announced, is announced by every poll, or
\* is waited for.
PollSilent ==
  /\ mpc = "poll"
  /\ \E ok \in Outcomes :
       target_is_running' = (target_is_running /\ ~(ok /\ stalled))
  /\ mpc' = "build"
  /\ UNCHANGED <<stalled, readset, idx, nidx, notice, linkVars, pipes_mutex>>

PollRepeats ==
  /\ mpc = "poll"
  /\ mpc' = IF stalled THEN "lock_halt" ELSE "build"
  /\ target_is_running' = ~stalled
  /\ UNCHANGED <<stalled, readset, idx, nidx, notice, linkVars, pipes_mutex>>

PollSpins ==
  /\ mpc = "poll"
  /\ mpc' = IF stalled THEN "lock_halt" ELSE "poll"
  /\ target_is_running' = ~stalled
  /\ UNCHANGED <<stalled, readset, idx, nidx, notice, linkVars, pipes_mutex>>

\* Poll the hardware, unless the target is believed to be stopped.
Poll ==
  /\ mpc = "poll"
  /\ \E ok \in Outcomes :
       IF target_is_running /\ ok /\ stalled
       THEN /\ target_is_running' = FALSE
            /\ mpc' = "lock_halt"
       ELSE /\ mpc' = "build"
            /\ UNCHANGED target_is_running
  /\ UNCHANGED <<stalled, readset, idx, nidx, notice, linkVars, pipes_mutex>>

LockHalt ==
  /\ mpc = "lock_halt"
  /\ pipes_mutex = "free"
  /\ pipes_mutex' = "monitor"
  /\ notice' = [msg |-> "H", back |-> "build"]
  /\ mpc' = "notify"
  /\ UNCHANGED <<stalled, target_is_running, readset, idx, nidx, linkVars>>

MonitorStep ==
  \/ BuildReadset
  \/ SelectReady
  \/ SelectTimeout
  \/ LockScan
  \/ ScanSkip
  \/ ScanRead
  \/ ScanDone
  \/ Notify
  \/ NotifyDone
  \/ Poll
  \/ LockHalt

=============================================================================
