----------------------------- MODULE RunControl -----------------------------
(***************************************************************************)
(* Run control: GDB, the RSP server thread (rsp-server.c), the target      *)
(* monitor thread (TargetMonitor) and the CPU.                             *)
(*                                                                         *)
(* The RSP thread never touches the stall bit.  It writes 'S' and 'U' into *)
(* its pipe and learns from the notices 'H' and 'R', later, what became of *)
(* the target: rsp.target_running is a belief that lags behind.            *)
(*                                                                         *)
(* GDB keeps the remote protocol: it has one request outstanding, may only *)
(* interrupt while it waits for a stop reply, and may go away at any time. *)
(* The other servers (JSP, HWP) registered at start-up only read notices.  *)
(***************************************************************************)
EXTENDS TargetMonitor

CONSTANTS
  Rsp,            \* the RSP server, one of Servers
  IdleListeners   \* JSP/HWP servers without a client, blocked in accept()

Listeners == Servers \ {Rsp}

ASSUME RunAssumption ==
  /\ Rsp \in Servers
  /\ IdleListeners \subseteq Listeners

VARIABLES
  gdb,              \* what GDB takes the target to be doing
  sock,             \* client socket: requests the RSP server has not read
  rpc,              \* where the RSP thread is
  started,          \* the servers main() has initialised
  detaching,        \* the close in progress was asked for by a 'D' packet
  target_running,   \* rsp.target_running
  client_waiting,   \* rsp.client_waiting
  single_step_mode, \* rsp.single_step_mode
  dsr,              \* SPR DSR: exceptions give control to the debug unit
  dmr1_st           \* SPR DMR1: single-step bit

rspVars == <<rpc, detaching, target_running, client_waiting, single_step_mode>>
cpuVars == <<dsr, dmr1_st>>
gdbVars == <<gdb, sock>>
vars == <<tmVars, started, rspVars, cpuVars, gdbVars>>

Requests == {"c", "s", "brk", "D", "q", "EOF"}
RspSteps == {"init", "accept", "stall", "setup", "poll", "close", "close_dsr",
             "close_restart", "close_unreg", "detach"}

\* The RSP server's end of a direction of its pipes, and what is in it.
RspPipe(link) == IF pipe_fds[Rsp] = NoFd THEN <<>> ELSE link[pipe_fds[Rsp]]
Holds(seq, x) == \E k \in 1..Len(seq) : seq[k] = x

\* GDB has asked for a continue or a step and not got its stop reply.
Waiting == gdb \in {"running", "interrupting"}

Init ==
  /\ MonitorInit
  /\ stalled \in BOOLEAN          \* running, or left stalled by an earlier run
  /\ gdb = "off"
  /\ sock = <<>>
  /\ rpc = "init"
  /\ started = {}
  /\ detaching = FALSE
  /\ target_running = FALSE
  /\ client_waiting = FALSE
  /\ single_step_mode = FALSE
  /\ dsr = FALSE
  /\ dmr1_st = FALSE

(***************************************************************************)
(* main(): jsp_init and hwp_init register their servers, then the main     *)
(* thread becomes the RSP server.                                          *)
(***************************************************************************)
ListenerInit(s) ==
  /\ rpc = "init"
  /\ s \notin started
  /\ Register(s)
  /\ started' = started \cup {s}
  /\ UNCHANGED <<rspVars, cpuVars, gdbVars>>

MainLoop ==
  /\ rpc = "init"
  /\ started = Listeners
  /\ rpc' = "accept"
  /\ UNCHANGED <<tmVars, started, detaching, target_running, client_waiting,
                 single_step_mode, cpuVars, gdbVars>>

(***************************************************************************)
(* rsp_server_request: accept a client, register, stall the CPU, make      *)
(* exceptions stop it.  The stall is only requested: the DSR is written    *)
(* while the CPU may still run.                                            *)
(***************************************************************************)
RspAccept ==
  /\ rpc = "accept"
  /\ gdb # "off" \/ sock # <<>>
  /\ Register(Rsp)
  /\ rpc' = "stall"
  /\ UNCHANGED <<started, detaching, target_running, client_waiting,
                 single_step_mode, cpuVars, gdbVars>>

\* set_stall_state(stall), with everything but the RSP server's own state.
SetStallState(stall) ==
  /\ Command(Rsp, IF stall THEN "S" ELSE "U")
  /\ UNCHANGED <<stalled, monVars, connections, pipe_fds, toSrv, pipes_mutex>>

RspStall ==
  /\ rpc = "stall"
  /\ SetStallState(TRUE)
  /\ target_running' = FALSE
  /\ single_step_mode' = FALSE
  /\ rpc' = "setup"
  /\ UNCHANGED <<started, detaching, client_waiting, cpuVars, gdbVars>>

\* Mutant of RspSetup: client_waiting is left over from the last client.
RspSetupKeepsWaiting ==
  /\ rpc = "setup"
  /\ \E ok \in Outcomes : dsr' = (ok \/ dsr)
  /\ rpc' = "poll"
  /\ UNCHANGED <<tmVars, started, detaching, target_running, client_waiting,
                 single_step_mode, dmr1_st, gdbVars>>

RspSetup ==
  /\ rpc = "setup"
  /\ \E ok \in Outcomes : dsr' = (ok \/ dsr)
  /\ client_waiting' = FALSE
  /\ rpc' = "poll"
  /\ UNCHANGED <<tmVars, started, detaching, target_running, single_step_mode,
                 dmr1_st, gdbVars>>

(***************************************************************************)
(* handle_rsp, a client request.  It goes before a pending notice.         *)
(***************************************************************************)

\* Mutant of RspContinue: the flag for single stepping is not cleared.
RspContinueKeepsMode ==
  /\ SetStallState(FALSE)
  /\ \E ok \in Outcomes : dmr1_st' = (dmr1_st /\ ~ok)
  /\ client_waiting' = TRUE
  /\ UNCHANGED <<rpc, detaching, target_running, dsr, single_step_mode>>

\* rsp_continue_generic: no single step, unstall, GDB waits.
RspContinue ==
  /\ SetStallState(FALSE)
  /\ \E ok \in Outcomes : dmr1_st' = (dmr1_st /\ ~ok)
  /\ client_waiting' = TRUE
  /\ single_step_mode' = FALSE
  /\ UNCHANGED <<rpc, detaching, target_running, dsr>>

\* Mutant of RspStep: only the DSR is written.
RspStepRuns ==
  /\ SetStallState(FALSE)
  /\ dsr' = TRUE
  /\ client_waiting' = TRUE
  /\ UNCHANGED <<rpc, detaching, target_running, single_step_mode, dmr1_st>>

\* rsp_step_generic: the registers are only written when not yet stepping.
RspStep ==
  /\ SetStallState(FALSE)
  /\ IF single_step_mode
     THEN UNCHANGED cpuVars
     ELSE \E ok1, ok2 \in Outcomes : /\ dmr1_st' = (ok1 \/ dmr1_st)
                                     /\ dsr' = (ok2 \/ dsr)
  /\ client_waiting' = TRUE
  /\ single_step_mode' = TRUE
  /\ UNCHANGED <<rpc, detaching, target_running>>

\* A request that leaves the run state alone: queries, register and memory
\* access, a break while stopped, anything but a break while running.
RspReply == UNCHANGED <<tmVars, rspVars, cpuVars>>

\* Mutant of RspBreak: an interrupt is dropped.
RspBreakIgnored == RspReply

\* Byte 0x03 while the target runs.
RspBreak ==
  /\ SetStallState(TRUE)
  /\ UNCHANGED <<rspVars, cpuVars>>

RspClose(d) ==
  /\ rpc' = "close"
  /\ detaching' = d
  /\ UNCHANGED <<tmVars, target_running, client_waiting, single_step_mode, cpuVars>>

RspRequest ==
  /\ rpc = "poll"
  /\ sock # <<>>
  /\ sock' = Tail(sock)
  /\ UNCHANGED <<gdb, started>>
  /\ LET r == Head(sock) IN
       \/ /\ r = "EOF"
          /\ RspClose(FALSE)
       \/ /\ target_running
          /\ r = "brk"
          /\ RspBreak
       \/ /\ target_running
          /\ r \notin {"brk", "EOF"}
          /\ RspReply
       \/ /\ ~target_running
          /\ \/ r \in {"brk", "q"} /\ RspReply
             \/ r = "c" /\ RspContinue
             \/ r = "s" /\ RspStep
             \/ r = "D" /\ RspClose(TRUE)

(***************************************************************************)
(* handle_rsp, a notice of the monitor.                                    *)
(***************************************************************************)
\* Mutant of RspNotice: any 'H' is taken for the stop GDB waits for.
RspNoticeStale(n) ==
  /\ rpc = "poll"
  /\ sock = <<>>
  /\ TakeNotice(Rsp, n)
  /\ target_running' = (n = "R")
  /\ client_waiting' = (client_waiting /\ n # "H")
  /\ gdb' = IF n = "H" /\ client_waiting /\ Waiting THEN "stopped" ELSE gdb
  /\ UNCHANGED <<stalled, monVars, connections, pipe_fds, toMon, pipes_mutex,
                 started, rpc, detaching, single_step_mode, cpuVars, sock>>

RspNotice(n) ==
  /\ rpc = "poll"
  /\ sock = <<>>
  /\ TakeNotice(Rsp, n)
  /\ target_running' = (n = "R")
  /\ IF n = "H" /\ target_running /\ client_waiting
     THEN /\ client_waiting' = FALSE     \* rsp_report_exception
          /\ gdb' = IF Waiting THEN "stopped" ELSE gdb
     ELSE UNCHANGED <<client_waiting, gdb>>
  /\ UNCHANGED <<stalled, monVars, connections, pipe_fds, toMon, pipes_mutex,
                 started, rpc, detaching, single_step_mode, cpuVars, sock>>

(***************************************************************************)
(* rsp_client_close, and what a 'D' packet does after it.  The second call *)
(* that follows an end of file finds the pipes closed and changes nothing. *)
(***************************************************************************)
CloseStall ==
  /\ rpc = "close"
  /\ IF target_running THEN SetStallState(TRUE) ELSE UNCHANGED tmVars
  /\ rpc' = "close_dsr"
  /\ UNCHANGED <<started, detaching, target_running, client_waiting,
                 single_step_mode, cpuVars, gdbVars>>

CloseDsr ==
  /\ rpc = "close_dsr"
  /\ \E ok \in Outcomes : dsr' = (dsr /\ ~ok)
  /\ rpc' = "close_restart"
  /\ UNCHANGED <<tmVars, started, detaching, target_running, client_waiting,
                 single_step_mode, dmr1_st, gdbVars>>

CloseRestart ==
  /\ rpc = "close_restart"
  /\ IF target_running THEN SetStallState(FALSE) ELSE UNCHANGED tmVars
  /\ rpc' = "close_unreg"
  /\ UNCHANGED <<started, detaching, target_running, client_waiting,
                 single_step_mode, cpuVars, gdbVars>>

\* Mutant of CloseUnregister: the pipes stay registered.
CloseLeaks ==
  /\ rpc = "close_unreg"
  /\ rpc' = IF detaching THEN "detach" ELSE "accept"
  /\ UNCHANGED <<tmVars, started, detaching, target_running, client_waiting,
                 single_step_mode, cpuVars, gdbVars>>

CloseUnregister ==
  /\ rpc = "close_unreg"
  /\ Unregister(Rsp)
  /\ rpc' = IF detaching THEN "detach" ELSE "accept"
  /\ UNCHANGED <<started, detaching, target_running, client_waiting,
                 single_step_mode, cpuVars, gdbVars>>

DetachRestart ==
  /\ rpc = "detach"
  /\ SetStallState(FALSE)
  /\ rpc' = "accept"
  /\ detaching' = FALSE
  /\ UNCHANGED <<started, target_running, client_waiting, single_step_mode,
                 cpuVars, gdbVars>>

(***************************************************************************)
(* The environment: GDB, the CPU, the other servers.                       *)
(***************************************************************************)

\* A client that connects before the last one is closed waits in listen().
GdbConnect ==
  /\ gdb = "off"
  /\ rpc = "accept"
  /\ sock = <<>>
  /\ gdb' = "stopped"
  /\ UNCHANGED <<tmVars, started, rspVars, cpuVars, sock>>

GdbRequest ==
  /\ gdb = "stopped"
  /\ sock = <<>>
  /\ \E r \in {"c", "s", "D", "q"} :
       /\ sock' = Append(sock, r)
       /\ gdb' = CASE r \in {"c", "s"} -> "running"
                   [] r = "D"          -> "off"
                   [] r = "q"          -> "stopped"
  /\ UNCHANGED <<tmVars, started, rspVars, cpuVars>>

\* The user types Ctrl-C: byte 0x03, outside any packet.
GdbInterrupt ==
  /\ gdb = "running"
  /\ gdb' = "interrupting"
  /\ sock' = Append(sock, "brk")
  /\ UNCHANGED <<tmVars, started, rspVars, cpuVars>>

\* GDB goes away, with or without a last packet ('k').
GdbQuit ==
  /\ gdb # "off"
  /\ gdb' = "off"
  /\ \/ sock' = sock \o <<"EOF">>
     \/ sock' = sock \o <<"q", "EOF">>
  /\ UNCHANGED <<tmVars, started, rspVars, cpuVars>>

\* or1200_du.v: an exception selected in the DSR, or the instruction after a
\* single step, raises dbg_bp_o, which stalls the CPU.
CpuBreak ==
  /\ ~stalled
  /\ dsr \/ dmr1_st
  /\ stalled' = TRUE
  /\ UNCHANGED <<monVars, linkVars, pipes_mutex, started, rspVars, cpuVars, gdbVars>>

ListenerRead(s) ==
  /\ \E n \in Notices : TakeNotice(s, n)
  /\ UNCHANGED <<stalled, monVars, connections, pipe_fds, toMon, pipes_mutex,
                 started, rspVars, cpuVars, gdbVars>>

Monitor == MonitorStep /\ UNCHANGED <<started, rspVars, cpuVars, gdbVars>>

RspThread ==
  \/ \E s \in Listeners : ListenerInit(s)
  \/ MainLoop
  \/ RspAccept
  \/ RspStall
  \/ RspSetup
  \/ RspRequest
  \/ \E n \in Notices : RspNotice(n)
  \/ CloseStall
  \/ CloseDsr
  \/ CloseRestart
  \/ CloseUnregister
  \/ DetachRestart

Next ==
  \/ Monitor
  \/ RspThread
  \/ GdbConnect
  \/ GdbRequest
  \/ GdbInterrupt
  \/ GdbQuit
  \/ CpuBreak
  \/ \E s \in Listeners \ IdleListeners : ListenerRead(s)

\* Both threads run whenever they can.  The monitor sleeps in select() with
\* pipes_mutex free, so a thread that keeps trying to lock it succeeds.  A
\* single-stepping CPU stops.  Nothing is assumed of GDB or of breakpoints.
Fairness ==
  /\ WF_vars(Monitor)
  /\ WF_vars(RspThread)
  /\ SF_vars(\E s \in Listeners : ListenerInit(s))
  /\ SF_vars(RspAccept)
  /\ SF_vars(CloseUnregister)
  /\ WF_vars(dmr1_st /\ CpuBreak)
  /\ \A s \in Listeners \ IdleListeners : WF_vars(ListenerRead(s))

Spec == Init /\ [][Next]_vars /\ Fairness

(***************************************************************************)
(* Properties.                                                             *)
(***************************************************************************)

\* Every variable of the monitor, the RSP server, GDB and the CPU has its
\* type; the requests in the client socket end with the end of file.
TypeOK ==
  /\ stalled \in BOOLEAN
  /\ target_is_running \in BOOLEAN
  /\ connections \in Seq(Fds)
  /\ pipe_fds \in [Servers -> Fds \cup {NoFd}]
  /\ toMon \in [Fds -> Seq(Commands)]
  /\ toSrv \in [Fds -> Seq(Notices)]
  /\ pipes_mutex \in {"free", "monitor", "leaked"}
  /\ mpc \in MonitorSteps
  /\ readset \subseteq Fds
  /\ idx \in Nat \ {0}
  /\ nidx \in Nat \ {0}
  /\ notice \in [msg : Notices, back : {"scan", "build"}]
  /\ gdb \in {"off", "stopped", "running", "interrupting"}
  /\ sock \in Seq(Requests)
  /\ rpc \in RspSteps
  /\ started \subseteq Servers
  /\ detaching \in BOOLEAN
  /\ target_running \in BOOLEAN
  /\ client_waiting \in BOOLEAN
  /\ single_step_mode \in BOOLEAN
  /\ dsr \in BOOLEAN
  /\ dmr1_st \in BOOLEAN

\* GDB reads and writes registers and memory while it takes the target to be
\* stopped: from the stop reply on (or, for a new client, from the moment the
\* monitor has executed the stall command), the CPU really is stalled, however
\* late the notices of the monitor were read.
StoppedMeansStalled ==
  rpc = "poll" /\ gdb = "stopped" /\ ~Holds(RspPipe(toMon), "S") => stalled

\* The monitor only stops polling for a target that really is stalled.
MonitorBelief == ~target_is_running => stalled

\* GDB gets one stop reply per continue or step: while it takes the target to
\* be stopped, the RSP server is not about to send it another.
NoUnsolicitedStop == rpc = "poll" /\ client_waiting => gdb # "stopped"

\* The monitor writes notices with the lock held and the RSP server reads them
\* late: its pipe never holds more than NoticeBacklog of them, so neither
\* thread waits for the other because of a full pipe.
NoticeBacklog == 5
RspBacklogBounded == Len(RspPipe(toSrv)) <= NoticeBacklog

\* rsp_step_generic skips the write of DMR1 while single_step_mode is set:
\* the single-step bit is then already set in the CPU.
StepModeInSync == single_step_mode => dmr1_st

\* The monitor's blocking read finds a byte: a descriptor that select()
\* reported is still the pipe that it reported.
ScanNeverBlocks ==
  mpc = "scan" /\ idx <= Len(connections) /\ connections[idx] \in readset
    => toMon[connections[idx]] # <<>>

\* Once the client is closed the CPU, if it was let run, is not stopped by the
\* debug unit again.
NoBreakAfterClose == [][rpc = "accept" /\ ~stalled => ~stalled']_vars

\* A CPU that stopped is reported: GDB does not wait forever for a stalled CPU.
NoLostStop == Waiting ~> (~Waiting \/ ~stalled)

\* A single step ends with a stop reply.
StepStops == (Waiting /\ sock # <<>> /\ sock[1] = "s") ~> ~Waiting

\* A Ctrl-C that the RSP server reads when it knows the target to be running
\* stops the target.
InterruptStops ==
  (gdb = "interrupting" /\ rpc = "poll" /\ target_running /\ Holds(sock, "brk"))
    ~> gdb # "interrupting"

\* Any Ctrl-C of a waiting GDB stops the target.
BreakStops == (gdb = "interrupting") ~> (gdb # "interrupting")

\* The monitor thread always gets back to waiting for commands.
MonitorServes == []<>(mpc = "select")

\* A client that connects is served.
ClientServed == (rpc = "accept" /\ gdb # "off") ~> (rpc = "poll")

\* A detached target runs.
DetachResumes == (rpc = "detach") ~> ~stalled

\* A target that was running when its client went away runs again.
CloseResumes == (rpc = "close_restart" /\ target_running) ~> ~stalled

=============================================================================
