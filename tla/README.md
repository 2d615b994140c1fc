# Verification of the Advanced Debug System

The repository is a benchmark of twenty RTL designs with their specifications.
One of them, `src/rtl/minisoc`, contains the only program of the repository:
the Advanced Debug System, which lets GDB, a serial terminal and a watchpoint
tool share one JTAG cable to an OR1200 CPU. Its host program
`adv_jtag_bridge` (14,000 lines of C, four threads) and the hardware it talks to
are what this project models. Below, `bridge/` stands for
`src/rtl/minisoc/adv_debug_sys/Software/adv_jtag_bridge/` and `adbg/` for
`src/rtl/minisoc/adv_debug_sys/Hardware/adv_dbg_if/rtl/verilog/`.

## 1. The system

    GDB --TCP--> RSP server ----pipes----+
    terminal --> JSP server ----pipes----+--> target monitor --+
    HWP client-> HWP server ----pipes----+                     |
                     |                                         |
                     +------> debug API (one mutex) <----------+
                                 |
                   adv / legacy debug commands, TAP, cable
                                 |  JTAG
                   adbg_top: WB, OR1K, JSP modules
                                 |
                   stall register, OR1200 debug unit, UART

| Component | State | Operations | What is hard |
|---|---|---|---|
| Target monitor, `hardware_monitor.c` | table of pipe pairs, `target_is_running`, `pipes_mutex` | register, unregister, poll loop, `stall_cpu`, `notify_listeners` | blocking writes with the lock held; `select` outside the lock; belief against hardware |
| RSP server, `rsp-server.c` | `target_running`, `client_waiting`, `single_step_mode`, matchpoint hash, `pipe_fds` | accept, requests, notices, close | belief lags behind the monitor; one client leaves and another comes |
| JSP server, `jsp_server.c` | two ring buffers, `jsp_target_is_running` | receive, send, transact | wraparound, full rings, partial transfers, end of file |
| HWP server, `hwp_server.c` | `hwp_in_use` (its DMR2 cache is never filled) | requests, register read and write, allocation of units | units shared with the RSP thread without a lock |
| Debug API, `dbg_api.c` | `dbg_access_mutex` | one exclusive transfer per call | failing transfers that callers ignore |
| Debug commands and chain, `adv_dbg_commands.c`, `legacy_dbg_commands.c`, `chain_commands.c` | selected module and register, TAP state, retry count | select, control access, bursts, serial transfer | CRC errors, bus errors, full and partial retries, stale caches |
| Cable drivers, `cable_*.c`, `jp-io-vpi.c` | send and receive buffers, `clock_is_high`, device handle | initialize, bit, stream, flush | bursts mixed with bit-banging, partial USB transfers, answers left behind |
| BSDL, self-test, start-up | tables | parsing, manual test | - |
| `adbg/adbg_or1k_status_reg.v` | stall and reset bits in two clock domains | a clock edge of either domain | clock-domain crossing |
| TAP, `adbg_top`, WB/OR1K/JSP modules | TAP state, IR, selected module, burst counters, error register | a TCK with its TMS | a scan from the wrong TAP state means something else |
| OR1200 debug unit, `or1200_du.v` | DSR, DMR1, DMR2, DVR, DCR | break | - |

A component is correct when: GDB is told of every stop, once, and only of real
ones; what GDB takes to be stopped is stopped; the monitor always gets back to
its servers, and all of them are told the same; a breakpoint that GDB was told
of is armed, and removing it restores the program; no watchpoint unit is lost or
has two users; a serial byte arrives in order, once unless its transfer failed;
a breakpoint survives
the two clocks until the host has seen it; an answer belongs to the request it
answers; a transfer reported as done was done, at its address and nowhere else;
the clocks on the wire are those that were asked for; and the debugged program
executes its instructions as if there were no debugger.

## 2. Modules

| Module | Models | Notes |
|---|---|---|
| `TargetMonitor` | `hardware_monitor.c` | the thread, one action per step between two locks or blocking calls, and its interface (`Register`, `Unregister`, `Command`, `TakeNotice`) for the modules that compose it |
| `MonitorClients`, `MCMonitorClients` | the monitor with servers that call it in any order | what it promises to every server |
| `RunControl` | `rsp-server.c` (life cycle of a client, run control) composed with `TargetMonitor`, the other servers' registrations from `adv_jtag_bridge.c`, GDB and the CPU | the core |
| `TargetMonitorProofs` | | what each operation of the monitor does to its variables: the lemmas that the proofs of both compositions cite |
| `RunControlProofs`, `MonitorClientsProofs` | | TLAPS proofs about `RunControl` and `MonitorClients` |
| `StallReg`, `StallRegProofs` | `adbg_or1k_status_reg.v` | the bit that is `stalled` in `RunControl`, register by register |
| `SerialLink` | | abstract specification: an in-order byte link whose faults repeat the next bytes (to the UART) or lose bytes (from it) |
| `JspServer` | `jsp_server.c` | each direction implements `SerialLink` under a refinement mapping; `late` counts the transactions that failed after bytes had moved |
| `Matchpoints` | `rsp_insert_matchpoint`, `rsp_remove_matchpoint`, `mp_hash_*` of `rsp-server.c`; `hwp_read_reg`, `hwp_write_reg` and the allocation of units of `hwp_server.c` | two threads, a step per JTAG transfer |
| `MatchpointsProofs`, `RspTargetProofs`, `JspServerProofs` | | TLAPS proofs about the module of that name |
| `RequestReply` | | abstract specification: answers belong to the last request, and only that is executed |
| `RspPacket` | `get_packet`, `put_packet`, `rsp_unescape`, the polling of `handle_rsp`, and their copies in `hwp_server.c` | implements `RequestReply`; GDB and a garbling line are the environment |
| `RspTarget` | the packets of `rsp-server.c` that read and change the stopped target, and `handle_rsp` on a stop | with an OR1200 running a program |
| `DebugUnit` | `tap_top.v`, `adbg_top.v`, the burst logic of `adbg_wb_module.v`; the TAP moves of `chain_commands.c` | operators on a record `hw`, used by the modules below |
| `DbgAccess`, `AdvDbg`, `LegacyDbg` | `retry_do`; `adv_dbg_commands.c`; `legacy_dbg_commands.c` | a step per word or per scan that may fail |
| `DbgApi`, `MCDbgApi` | `dbg_api.c`, composing the four modules above | the calls, their arguments, the properties |
| `DbgApiProofs` | | TLAPS proofs about `DbgApi` and what it is composed of |
| `JtagStream` | | abstract specification: what the cable API promises the chain commands, and how a call's promise may shrink |
| `CableWire` | the target's pins and the state the drivers share | a bit is the set of marks OR-ed into it |
| `CableSim`, `CableUsb`, `CableMpsse` | `cable_parallel.c`, `cable_sim.c`, `jp-io-vpi.c`; `cable_usbblaster*.c`, `cable_ft245.c`, `cable_xpc_dlc9.c`; `cable_ft2232.c` | driver and adapter are two processes |
| `Cables`, `MCCables` | `cable_common.c`, composing the three | implements `JtagStream` |

How state and steps correspond:

- Variables keep the names of the code. `stalled` is the stall bit the monitor
  reads and writes; `dsr` and `dmr1_st` are the bits of the CPU's registers that
  can stop it. `rpc`, `mpc`, `jpc` and `hpc` say where a thread is.
- A pipe pair has one name in `Fds`; `toMon` and `toSrv` are the bytes in its two
  directions. A closed pair may be opened again under its old name, as the kernel
  reuses the lowest descriptor.
- Each `dbg_*` call is one step: `dbg_access_mutex` makes it exclusive. Where
  `JtagMayFail` is set it may fail and change nothing.
- A request that neither starts nor stops the CPU (`RspReply`) has no effect on
  run control. GDB is the environment: one request outstanding, Ctrl-C only while
  it waits for a stop, and it may go away at any point.
- The hash table of matchpoints is the map its chains represent; the four
  hardware kinds `Z1`..`Z4` differ only in a constant and share the actions. Any
  `Z` and `z` packet may come again at any time. The RSP thread never waits for the
  HWP thread; with `HwpAnyTime = FALSE` it is the HWP client that acts only while GDB
  has no watchpoint set or under way, as `hwp_server.c:802` argues. Transfers do not
  fail here; `RspTarget` has the failing ones.
- In `JspServer` the n-th byte is the number n, so that a lost, repeated or
  reordered byte shows. A transaction that fails (`TransactError`) may have moved
  bytes either way before: the server then keeps what it sent in the ring and drops
  what it received. The welcome text is left out.
- In `StallReg`, `owed` and `settled` are history variables; all others are
  registers of the Verilog module. An action is a clock edge of one domain. The
  CPU's `bp_i` is registered and only rises while the CPU executes.
- In `RspPacket` a step reads one character. Both hex digits of a checksum are one
  character; a body is a few numbers that include the ones that must be escaped.
  The RSP server unescapes the data of an `X` packet only, the HWP server nothing.
  The client repeats a request that is not acknowledged and refuses a reply whose
  checksum is wrong, as GDB does.
- In `RspTarget` a packet is one step. `view` and `text` are history variables:
  the registers and the program as GDB wrote them or the program left them. The
  CPU is the one the comments of the code describe: after a trap or a hardware
  breakpoint the PPC is at the instruction that was not executed, and an NPC that
  was written reads as 0 until an instruction has been executed. A register is
  `DIGITS` digits of base `BASE`, so that a packet read at the wrong place shows.
  The read and the writes of a breakpoint's word may fail, and nobody looks at the
  result: `missed` counts these, `lost` says at which addresses the program's own
  word went with one.
- In `DebugUnit` a scan is walked through the TAP clock by clock with its TMS
  values. What is shifted is a record, and only a TAP in the right state, with
  `DEBUG` in its instruction register, takes it. The CRC is exact: it differs when
  a word was garbled. A scan in which the cable fails is torn (`ScanTorn`): the code
  ORs the error and goes on, so each of its transfers may or may not have reached
  the unit, which is left in any of the states these lead to, and the host's caches
  are updated all the same.
- In the cable modules bit `i` of a stream is the mark `i`, and the bit TDO shows
  for clock `i` is the mark `-i`; a bit is the set of the marks that were OR-ed into
  it, so a bit stored twice or in the wrong place shows. A call is compiled into
  the driver's operations (`todo`), which run beside the adapter; `tx` and `rx` are
  the USB pipe or the socket between them. `hist` is a history variable: whether a
  failure of the call went without an error code (`sure`), and how many leading
  bits of a read nothing was misplaced into (`kept`).

## 3. Runs

| Run | Question | Instance |
|---|---|---|
| `run_control` | are stop replies true, single and never stale; does the monitor's belief hold; does the step flag match the CPU; does the notice pipe stay short? | RSP and one listener, 2 pipe pairs, pipes of 6 bytes; 809,000 states |
| `run_control_live` | is every stop reported, does a step end, does a Ctrl-C stop a target known to run, does the monitor keep serving, is a new client served? | RSP alone, 1 pipe pair; 20,600 states |
| `monitor_clients` | are the table and the notices right whatever servers do, with failing JTAG and `pipe()`? | 3 servers, 2 pipe pairs, limit 2, pipes of 2 bytes, symmetry on servers and pairs; 1.16 million states |
| `stall_reg` | is a breakpoint held, visible, and cleared when the host says so? | no bound; 994 states |
| `jsp_server` | is each direction an in-order link; is everything delivered? | rings of 3, bursts of 2, 4 bytes each way, a client that may lag, one transaction that fails after bytes moved (any number before); 231,000 states |
| `matchpoints` | is what GDB inserted armed, are the units accounted for, does the program come back? | 2 units, 2 addresses, 2 hardware kinds, any packet repeated; 52,000 states |
| `rsp_packet` | does every answer belong to its request, and is every request answered? | 3 requests, 1 garbled character, 1 Ctrl-C, a buffer of 6 characters; RSP and HWP server; 69,600 states |
| `rsp_target` | does GDB read true values, does the text survive, are instructions executed in order? | 2 addresses, 2 units, 1 register value, registers of 2 binary digits, failing GPR and memory transfers, 1 failing access of a breakpoint; 2.39 million states |
| `dbg_api` | is success exact, does a write land only where it was asked, and does a failure harm the next call? | 2 addresses, blocks of 0 to 2 words, 2 faults, `MAX_BUS_ERRORS` 1, 10 setups; 734,000 states |
| `cables` | are the clocks and the bits exact, is nothing left behind, does each call return? | 8 drivers in 12 setups, up to 3 calls and 2 faults; 79,500 states |

Why the bounds are enough. In `run_control` the pipe capacity of 6 exceeds the
longest backlog of the RSP server, which `RspBacklogBounded` shows to be 5: no
write to or by it blocks. The listener's pipe does fill up when the listener is
slow, and the monitor then waits for it with the lock held. The number of
sessions, requests and breaks is not bounded. `monitor_clients` has a limit that
is reached and more servers than pipes, so refusals, reuse of descriptors and
removal from the middle of the table all happen, and pipes small enough to fill
up. Deadlock is not checked there: a server that never reads, or a leaked lock,
does stop the monitor. In `jsp_server` four bytes through a ring of three wrap
around and fill it; bursts are shorter than the ring as 8 is than 256. Only
transactions that fail after bytes moved are bounded. Two units and four
hardware keys let the units run out.

In `rsp_packet` one garbled character may hit any position of a request, a reply
or an acknowledgement and may become any control character, and the bodies
include ones with characters that must be escaped. A packet as sent fits into
the buffer, as GDB keeps to the packet size it was told; the buffer overruns
when the garbled character is the `#` that ends a packet, and what follows is
read into it. Deadlock is not checked there because all requests may have been
answered. In `rsp_target` two addresses hold a breakpoint and its neighbour, and
with two units both kinds of breakpoint can be at one address; only the failing
accesses of breakpoints are bounded. In `dbg_api` two words give a first and a
last word of a burst, and two faults a fault during the recovery from another.
The source compiles with `NUM_SOFT_RETRIES` 0, which six of the ten setups have;
1 exercises the retry labels. `MAX_BUS_ERRORS` is 1, so that two faults reach
the return at `adv_dbg_commands.c:541`. The kinds of fault are split over the
setups to keep each small; the mixtures left out are those of `Handled`, in
which harm goes unreported (listed below). The run is not continued after a call
has returned an `Unclean` error (`CONSTRAINT UntilHarmed`): no property speaks
of what follows. In `cables` the USB transfer sizes are scaled down (7 bytes for
64 and so on), and the stream lengths are chosen to fall before, at and behind
each of them: part of a byte, whole bytes, both, one transfer, more, for reads
as for writes. A read gives up after two empty replies there, which two faults,
or one lost request, bring about; every kind of fault meets streams with and
without leftover bits and is followed by further calls.

Fairness. Both threads are fair: nothing but blocking calls stops a thread. The
lock is taken with strong fairness by `RspAccept`, `CloseUnregister` and
`ListenerInit`, since the monitor gives it up and sleeps in `select` on every
turn. A CPU that single-steps stops, because it executes instructions. Servers
with a client read their notices. Nothing is assumed of GDB, of breakpoints or
of network clients. In `JspServer` a transaction that is tried for ever moves a
byte at some time (the program on the target empties its UART), and accepting a
client is not assumed. In `RspPacket` the server is a thread, GDB reads what it is
sent and does not wait for ever for an acknowledgement, and a running target
stops at some time; nothing is assumed of the line. In `Cables` driver and adapter
go on while they can, and no fault has to happen.

### Disagreements between the code and its own comments

Each of two runs checks one property that a comment states, and TLC finds a
behaviour of the code that breaks it (the comments are quoted in PROJECT.json):

- `find_detach`: a `D` packet closes the pipes before the unstall is written into
  them; the detached target stays stalled.
- `find_repeated_insert`: a `Z1`..`Z4` packet that comes twice takes and arms a second
  unit, which no later packet gives back, although "the implementation must cope
  with the possibility of duplicate packets". `UnitsAccounted` shows that nothing
  else loses a unit.

Two more are stated by properties that pass with the exception written out:

- `bridge/chain_commands.c:244` says of the move to IDLE that it "should be the last
  thing called in any debug unit transaction". A read whose status bit does not come
  returns from SHIFT_DR (`adv_dbg_commands.c:439`, `:479`), as compiled always,
  with retries when they have run out. `RestsClean` names this as one of the
  `Unclean` errors. What follows is worse than a failing call: the next call's
  scans are shifted as burst data, so that a write after the read can be reported
  as done while nothing was written, which is why `SuccessIsExact` ends there too.
- `bridge/cable_usbblaster.c:333` says that bits come "bit 0 of the first byte received
  ... bit 7 of the first byte received" and so on, but bytes of a reply that does
  not start a word are OR-ed into the wrong byte lane (`cable_usbblaster.c:517`,
  `cable_ft245.c:370`), without any fault, in every read of more than 62 bytes.
  `StreamExact` promises the words before them only.

### Seen with the same modules, not kept as runs

The properties named here are in the modules; each fails under the condition
given, unless the item says otherwise.

Run control and servers:

- `CloseResumes` (`RunControl`): when a client leaves a running target, `S` and `U`
  are written and the pipe is closed at once; the monitor may have read only `S`.
- `BreakStops` (`RunControl`): a Ctrl-C read before the `R` notice is taken for one
  of a stopped target and dropped.
- `ScanNeverBlocks` (`RunControl`): between `select()` and the lock, a pipe is closed
  and another opened with the same number; the monitor reads it although it is
  empty, with the lock held, until the new client's first command.
- `NoBreakAfterClose` (`RunControl`): DMR1 keeps its single-step bits after a close.
- `MonitorBelief` with `JtagMayFail = TRUE`: the belief follows a failed write.
- `MonitorServes` with a server in `IdleListeners`: its pipe fills up (on Linux after
  65,536 notices).
- `NeverOverrun` (`JspServer`) with a client that does not read: bytes from the
  UART are stored in a full ring. `HangupNoticed`: end of file is ignored.
- `ClientUnitsKept` and `WantedArmed` (`Matchpoints`) with `HwpAnyTime = TRUE`:
  `hwp_in_use` and the read-modify-write of DMR1 and DMR2 have no lock.
- `StopReported` (`RspPacket`) with `MaxBreaks > 0`: a Ctrl-C that `put_packet` reads
  in place of an acknowledgement is swallowed.
- `RspTarget` with further requests: a `"G"` packet is read from its letter on, one
  digit early, GDB is answered `OK` and the registers hold other values
  (`rsp-server.c:1863`), which breaks `ReadsTrue`; `"s addr"` breaks
  `InstructionsInOrder` (the call of `set_npc` is commented out); `"writespr npc"` breaks `ReadsTrue` (a monitor
  command does not update the cached NPC); `MayFail` with `"spr"`, `"npc"` or `"stop"`
  breaks `ReadsTrue` (results of these transfers are not looked at).

Debug commands. Errors after which the unit is not at rest (`Unclean`; in the run,
and named by the properties):

- A scan the cable fails in. The module is noted as selected all the same
  (`adv_dbg_commands.c:106`), a burst command may have been taken.
- A burst given up in SHIFT_DR (`:439`, `:479`), see above; the legacy commands return
  with the TAP in EXIT1_DR on an error (`legacy_dbg_commands.c:192`, `:378`).
- The returns after `MAX_BUS_ERRORS` (`:541`) and after a CRC error that follows a bus
  error (`:524`) leave the error register latched.

Mixtures of faults in which harm goes unreported (excluded by `Handled`; each breaks
`SuccessIsExact` or `OnlyAsked`):

- A retry's reset clears a bus error before its register was read.
- A high-speed burst that is repeated in part announces the rest and moves all
  `word_count` words from the first on (`:641`).
- With the BSCAN work-around `current_chain` is dropped during a read, so bus
  errors of reads are never looked at (`:416`, `:532`).
- A word garbled in a burst that is later broken off is not noticed, since only
  the last part has a CRC; the comment at `:335` says so.
- `dbg_cpu1_write` selects CPU0 (`dbg_api.c:578`; nothing calls it). In the same
  file `legacy_dbg_ctrl(data & 2, ...)` sends 0 for the reset bit (`:492`).

Cables. All of these are in the run; where a call returns no error, `StreamExact`
names the case, and without any one of the named cases TLC refutes it:

- Reads of more than one USB transfer, or a reply cut within a word: see above.
- An error of a burst is lost when leftover bits follow (`cable_usbblaster.c:411`,
  `cable_ft245.c:275`); pin writes and single-bit reads of the FT245 and FTDI drivers
  ignore errors; the retries of a read end without an error (`cable_usbblaster.c:326`,
  `:523`).
- A call that failed may leave bytes unread that the next call takes for its own,
  or TCK or TMS up while `clock_is_high` is 0, so that the next burst of the
  USB-Blaster loses its first clock or goes out with TMS up.
- The last bit of a bit-banged stream is shifted by the length of the stream
  (`cable_common.c:231`): with more than 32 bits this is undefined in C; a host
  that masks the shift count gets the right bit.
- The platform cable stores everything beyond 8,191 bits from the start of the
  buffer again, and goes on with a null handle when no device was found.
- A claim that times out leaves the device handle set.
- A short reply to the FT2232 leaves bytes owed, and the next flush waits for them
  for ever (`FlushSpins`; `CallsReturn` excepts it).
- Not in the run: `cable_rtl_sim_inout` with TCK low waits for an answer that does
  not come, and `cable_vpi_out` loops at end of file.

## 4. Proofs

A theorem holds for every value of the constants that satisfies the named
assumptions; the runs of section 3 check the same definitions on one instance.
Where a property is not inductive, the invariant that is was checked with TLC
before it was proved. An assumption beyond those of the model's own `ASSUME`
stands in the theorem, and section 3 tells how the property fails without it.

| Theorem | Property | Assumes |
|---|---|---|
| `RunControlProofs!TypeCorrect` | `TypeOK` | - |
| `StopReplyIsTrue`, `BeliefIsTrue` | `StoppedMeansStalled`, `MonitorBelief` | `Reliable` |
| `OneStopReply`, `StepModeIsTrue` | `NoUnsolicitedStop`, `StepModeInSync` | `Reliable` |
| `BacklogIsBounded` | `RspBacklogBounded` | `Reliable` |
| `MonitorClientsProofs!ClientsTypeCorrect` | `TypeOK` | - |
| `TableIsExact`, `ListenersAlwaysAgree` | `TableExact`, `ListenersAgree` | - |
| `StallRegProofs!StallRegTypeCorrect` | `TypeOK` | - |
| `BreakpointIsHeld`, `UnstallIsAccepted` | `BreakpointHeld`, `UnstallAccepted` | - |
| `MatchpointsProofs!MatchpointTypes` | `TypeOK` | - |
| `ProgramIsRestored` | `ProgramRestored` | - |
| `WantedStayArmed`, `ClientUnitsStay` | `WantedArmed`, `ClientUnitsKept` | `~HwpAnyTime` |
| `UnitsAreAccounted` | `UnitsAccounted` | `~HwpAnyTime` |
| `RspTargetProofs!TargetTypeCorrect` | `TypeOK` | no `"G"` |
| `TextIsKept` | `TextKept` | - |
| `ReadsAreTrue`, `ExecutesInOrder` | `ReadsTrue`, `InstructionsInOrder` | `Disciplined` |
| `JspServerProofs!JspTypeCorrect` | `TypeOK` | - |
| `BytesReachTheUart` | `ToHwInOrder`, a refinement of `SerialLink` | - |
| `BytesReachTheClient` | `FromHwInOrder`, a refinement of `SerialLink` | - |
| `NoOverrun` | `NeverOverrun` | `~ClientMayLag` |
| `DbgApiProofs!ApiTypes` | `TypeOK`, while `~harmed` | `AllHandled` |
| `SuccessesAreExact`, `CleanCallsSucceed` | `SuccessIsExact`, `CleanCallSucceeds` | `AllHandled` |
| `UnitRestsClean`, `WritesOnlyAsked` | `RestsClean`, `OnlyAsked` | `AllHandled` |

**Run control.** `Reliable` says that no transfer and no `pipe()` fails and that
there are no more servers than `MAX_MONITOR_CONNECTIONS`. `StoppedMeansStalled` is
not inductive: it says nothing of the bytes on their way. `StopInv` adds the
argument. At most one `U`, or the `R` that answers it, is under way between the
threads, and only while GDB waits (`UnstallInv`); until the RSP server has read
that `R` it takes no `H` for a stop. The last notice for the RSP server says what
the monitor believes (`LastNoticeInv`), so the `H` that ends the wait is not out of
date. This uses that the RSP server registers last and is therefore notified
last, that no other server sends commands (`TableInv`), and that GDB never has a
second continue in its socket (`GdbInv`).

**The backlog.** No write to the RSP server blocks the monitor while it holds the
lock, because at most five notices are unread, whatever the capacity of the pipe
and however slow the server. The proof counts: a notice answers a command, or
tells of a stop that the monitor found while it believed the target was running.
`Load` adds the notices unread, the commands under way, one for the stop that may
follow an unstall, and what the monitor owes or may come to owe. `LoadInv` bounds
it at each point of a session: 1 before the stall that starts it, 2 at a stop, 4
with an unstall and an interrupt under way, 5 with the stall and unstall of
`rsp_client_close`. The bound falls again only when an `R` is read, so
`OrderInv` says what that `R` proves: every command before the unstall has been
executed, and at most one notice can follow. `BreakInv` says that a continue is
interrupted once.

**The monitor and any servers.** `TableIsExact` and `ListenersAlwaysAgree` assume
nothing: transfers and `pipe()` may fail, and servers may call in any order. A
registered server that was told anything was last told what the monitor believes,
unless it is about to be told. `NoticeInv` says that the monitor changes its mind
only where it goes on to notify, that the notice is what it believes, and that it
holds the lock while it goes down the table. A stop found by polling is believed
before the lock is taken; who registers in between is in the table when the
notices are written. That rests on the table holding each pipe once, also after
an entry is removed from the middle, which is the inductive part of `TableExact`.

**Matchpoints.** `ShareInv` says that the two servers are not both at work
(`ApartInv`), that the units of the HWP client are marked and not GDB's
(`OwnedInv`), that each unit of GDB serves one key, the one being inserted
included (`UnitInv`), and how far the registers of that unit are written
(`StageInv`); a stage also says that a DMR value read is still the one in the
register when it is written back. `hwp_in_use` and the read-modify-write of DMR1
and DMR2 have no lock between the threads, so that the HWP client acts only
while GDB has no watchpoint is an assumption on that client. GDB may repeat any
packet. A repeated `Z1`..`Z4` takes a unit that `mp_hash_add` then does not
record: the history variable `stray` has these units, `MarkInv` says that every
other mark has a user, and `StrayInv` that no key and no client has a stray
unit.

**The target.** `TextIsKept` excludes no request and no failure: `MemInv` says that
the word GDB wrote is in memory or saved in the hash table, except at the
addresses in `lost`, where the read that should have saved it or the write that
should have restored it failed since GDB last wrote there. `ReadsTrue` and
`InstructionsInOrder` speak of registers, the NPC and instructions until the first
such failure, and `ReadsTrue` of memory outside `lost` also after it. For these,
`PcInv` says where the program goes on in each state of the CPU: at a stop, the
cached NPC if there is one and else the one in the hardware, which then can be
read; while running, the hardware's; after a halt, the PPC if the stop was a
breakpoint of GDB's and the NPC otherwise. The last is the test `handle_rsp` makes:
a stop is taken for a breakpoint exactly when it is one. `Disciplined` leaves out
the requests `"G"`, `"s addr"` and `"writespr npc"` and unnoticed failures of the
transfers that read or write the program counter. A `"G"` even breaks the types,
since its digits are misread.

**The serial port.** Each direction implements `SerialLink` under the mapping that
reads the bytes under way out of the ring. The lemmas are about rings: appending
a run of bytes that wraps around, taking a part of them, and that sums of
indices wrap once. `ToHwInv` relates the two indices and the count, for any
capacity and burst. A transaction that fails after the UART took bytes is the
`Repeat` of the link to the UART: every byte arrives, those again. One that fails
after the UART gave bytes is the `Lose` of the link to the client. From the UART to
the client the code stores a byte without looking for room; `overrun` is set when
that happens, and from then on nothing is promised (`broken`). `NoOverrun` says when
it never happens: `KeepsUpInv` has the ring empty when a transaction begins, which
it is if the client's socket takes what it is offered and a burst fits into the
ring.

**The stall register.** `Handover` says who holds the stall while a breakpoint
passes from `bp_i` through the latch to the host's bit; `Settling` says what
each counted clock guarantees, for any interleaving of the two clocks.

**The debug commands.** The five theorems hold for every contiguous address space,
blocks of any length that the 16 bits of a burst command can say
(`CountAssumption`), any number of retries, none included, any number of faults
and both hardware versions. `harmed` is a history variable: some call has returned
an `Unclean` error. The theorems say what holds until then, the failing call itself
included, and so that no other error, retry or repetition leaves anything behind.
`AllHandled` leaves out the mixtures of faults listed in section 3 in which harm
goes unreported; `MCSetupsHandled` shows that the setups of the run satisfy it.

`ApiInv` says for each value of `pc` what the code relies on there. Between
scans (`Between`) the TAP is idle with `DEBUG` in its instruction register, no
burst is due, no bus error is latched, and the cache is right or empty. Within a
burst (`AtBurst`) the unit is at the word the loop is at: its address is
`call.start + v.j` and it expects `call.count - v.j` more words, so that a word
cannot land elsewhere. `Prefix` says how much of the transfer is exact: all
words so far, or those below the latched bus error, from which `ErrorRegister`
repeats. It holds while nothing was garbled (`v.good`); once a word was, only
the CRC and a full retry lead on. `Counts` compares what went wrong with what
the code has seen: every bus error met, and the one latched, was a fault of this
call, so that a call that fails has met a fault. On the legacy unit each retry
is due to a fault (the last conjunct of `UnitInv`). A call on its way to an
`Unclean` error needs less: the unit is merely `Sound` (its TAP, module and
error register have their types, and what it is being shifted is a command or
the data of an open burst), its words are as they were, and a fault was met in
this call (`Gone`; `AtLost` and `LegacyLost` say it of the points where the code
goes on after a failed transfer). The theorem `ApiInductive` is about `Calm`,
that `ApiInv` holds unless `harmed`.

The lemmas below it follow a scan clock by clock through the TAP: what each
command does to a unit at rest (`ScanSelects`, `ScanStarts`, `ScanClears`, ...),
that the end of a scan closes a burst (`BurstEnds`), and that a zero and eight
ones reset the unit from any of the sixteen states (`ResetUnit`), which is why a
retry may start in the middle of a burst. The reset also deselects the module;
that `retry_do` forgets the cached selection with it is what keeps the cache
right (`Known`).

Only model-checked: every liveness property (the prover has no support for
fairness); the refinement of `RequestReply` by `RspPacket`, whose checksums and
escapes are folds over a packet, where a proof needs induction over data; and the
refinement of `JtagStream` by `Cables` with `NothingOwed`, where a call is compiled
into a list of operations, again a matter of induction over data.

## 5. Not modelled

Taken as given:

- A `qRcmd` monitor command can write any SPR, DSR and DMR1 included; run control
  assumes the user does not. GDB does not write over a breakpoint it has inserted.
- Delay slots: a breakpoint in one is a matter of the CPU. Other exceptions leave
  the NPC as the hardware has it. The SR is handled like a GPR.
- A single device on the JTAG chain: the padding bits for other devices, virtual
  JTAG, and the status bits that only arrive behind the padding are left out.
  A serial transfer is the one `OPTIMIZE_JSP_FOR_USB` compiles. Where a burst goes
  word by word, a failure of the clocks that lead to SHIFT_DR is the failure of the
  first word.
- The MPSSE engine holds TMS low except for its TMS command; FT2232 streams are
  shorter than 64 K bytes; how pins are placed in a byte is left out. A USB write
  that fails has sent nothing.
- The JTAG transfers of `RspTarget`, `Matchpoints` and `RunControl` are single steps;
  `DbgApi` is what they rest on.

Left out: the texts of query replies; the content of the watchpoint server's stop
report (its hex digits are taken from behind a table of sixteen,
`hwp_server.c:975`); the enumeration of the chain and `jtag_get_idcode`; option
parsing; the BSDL parser (text files of vendors, read once at start-up); the
self-test (a straight sequence of accesses for manual use); the Java client; the
clock-crossing FIFO and bus interface units of the hardware; failures of `poll`,
`accept` and `fcntl`, which print and close; and the other designs of the
benchmark, which have nothing to do with the bridge. PROJECT.json lists each with
its reason.

## 6. Plan

Done: the monitor, run control, the stall register, the serial port server, the
matchpoints, the packets, the target's registers and memory, the debug commands
with the hardware they drive, the cables, and the proofs above. Every safety
property of a passing run is proved except those of `RspPacket` and `Cables`.

Left: to compile a cable call step by step instead of into a list, so that
`NothingOwed` and the refinement of `JtagStream` can be proved as well; to model the
padding bits of a chain with several devices and the clock-crossing FIFO of the
Wishbone module; and to replace the single-step transfers of `RspTarget` and
`Matchpoints` by calls of `DbgApi`, whose theorems are what they take as given.
