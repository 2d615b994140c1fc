------------------------------- MODULE DebugUnit -------------------------------
(***************************************************************************)
(* The target's end of the cable: the JTAG TAP of chain_commands.c's       *)
(* comments (tap_top.v), the Advanced Debug Interface behind it            *)
(* (adbg_top.v, adbg_wb_module.v, adbg_or1k_module.v) and, for the legacy  *)
(* build, the older debug unit.  The hardware is one record, and every     *)
(* operator here is what a string of clocks on TMS and TDI does to it.     *)
(*                                                                         *)
(* A scan's bits are abstracted to one payload: the command they encode.   *)
(* A word is a small integer; Bad is a word garbled on the wire or by a    *)
(* bus error.  The 32-bit CRC detects every garbled word.                  *)
(***************************************************************************)
EXTENDS Integers

CONSTANTS
    Addrs       \* addresses (in words) each module's address space has here

ASSUME AddrsAssumption ==
    /\ Addrs \subseteq Nat
    /\ \A a, b \in Addrs : a .. b \subseteq Addrs

Bad == -1       \* a word that is not the one sent
None == -1      \* no bus error latched
NoChain == "none"   \* no module known to be selected

\* The modules of the debug unit that hold words, and the serial port.
Modules == {"WISHBONE", "CPU0", "CPU1", "JSP"}
Stores == {"WISHBONE", "CPU0", "CPU1"}

Nop == [cmd |-> "nop"]
NoCommand == [cmd |-> "command", op |-> "none", addr |-> 0, len |-> 0]
NoBurst == [open |-> FALSE, op |-> "none", addr |-> 0, left |-> 0]

-----------------------------------------------------------------------------
(* The sixteen states of the TAP.  TapNext[s] is <<next if TMS=0, if TMS=1>> *)
TapNext ==
    [ reset     |-> <<"idle",      "reset">>,
      idle      |-> <<"idle",      "selectDR">>,
      selectDR  |-> <<"captureDR", "selectIR">>,
      captureDR |-> <<"shiftDR",   "exit1DR">>,
      shiftDR   |-> <<"shiftDR",   "exit1DR">>,
      exit1DR   |-> <<"pauseDR",   "updateDR">>,
      pauseDR   |-> <<"pauseDR",   "exit2DR">>,
      exit2DR   |-> <<"shiftDR",   "updateDR">>,
      updateDR  |-> <<"idle",      "selectDR">>,
      selectIR  |-> <<"captureIR", "reset">>,
      captureIR |-> <<"shiftIR",   "exit1IR">>,
      shiftIR   |-> <<"shiftIR",   "exit1IR">>,
      exit1IR   |-> <<"pauseIR",   "updateIR">>,
      pauseIR   |-> <<"pauseIR",   "exit2IR">>,
      exit2IR   |-> <<"shiftIR",   "updateIR">>,
      updateIR  |-> <<"idle",      "selectDR">> ]

(* The module's own burst ends at UPDATE_DR and inhibits the top level, so  *)
(* the shift register is only obeyed when no burst was open.  The top level *)
(* takes a leading one for a module select wherever it comes from: a serial *)
(* port transfer whose last bit is a one selects whatever two bits stand    *)
(* before it (here the Wishbone's).                                         *)
Obey(h) ==
    IF h.burst.open THEN [h EXCEPT !.burst = NoBurst]
    ELSE CASE h.sr.cmd = "select" -> [h EXCEPT !.module = h.sr.module]
           [] h.sr.cmd = "burst" /\ h.module \in Stores /\ h.sr.len > 0 ->
                [h EXCEPT !.burst = [open |-> FALSE, op |-> h.sr.op,
                                     addr |-> h.sr.addr, left |-> h.sr.len]]
           [] h.sr.cmd = "regwrite" /\ h.module = "WISHBONE" ->
                [h EXCEPT !.error = None]
           [] h.sr.cmd = "regwrite" /\ h.module \in {"CPU0", "CPU1"} ->
                [h EXCEPT !.ctl[h.module] = h.sr.data]
           [] h.sr.cmd = "serial" /\ h.sr.last = 1 ->
                [h EXCEPT !.module = "WISHBONE"]
           [] OTHER -> h

(* One TCK with the given TMS.  TEST_LOGIC_RESET drives the debug unit's    *)
(* rst_i (minsoc_top.v:419), so the module selection, a burst, the error    *)
(* register and the CPUs' reset and stall bits are lost with the instruction. *)
ClockStep(h, tms) ==
    LET t == TapNext[h.tap][tms + 1]
        g == [h EXCEPT !.tap = t]
    IN  CASE t = "reset" -> [g EXCEPT !.ir = "IDCODE", !.module = "WISHBONE",
                                      !.burst = NoBurst, !.error = None,
                                      !.ctl = [m \in DOMAIN @ |-> 0]]
          [] t = "captureIR" -> [g EXCEPT !.irsr = "captured"]
          [] t = "updateIR" -> [g EXCEPT !.ir = h.irsr]
          [] t = "captureDR" /\ h.ir = "DEBUG" ->
                [g EXCEPT !.sr = Nop, !.burst.open = h.burst.left > 0]
          [] t = "updateDR" /\ h.ir = "DEBUG" -> Obey(g)
          [] OTHER -> g

\* The same; bound in a set, h is evaluated once however often it is used.
Clock(h, tms) == CHOOSE g \in { ClockStep(x, tms) : x \in {h} } : TRUE

(* Payload bits clocked with TMS=0: only a shift state takes them.          *)
Bits(h, p) ==
    CASE h.tap = "shiftDR" /\ h.ir = "DEBUG" -> [h EXCEPT !.sr = p]
      [] h.tap = "shiftIR" ->
            [h EXCEPT !.irsr = IF p.cmd = "ir" THEN p.ir ELSE "captured"]
      [] OTHER -> h

Listening(h) == h.tap = "shiftDR" /\ h.ir = "DEBUG"

-----------------------------------------------------------------------------
(* chain_commands.c: the moves every transaction is made of                 *)
tap_set_shift_dr(h) == Clock(Clock(Clock(h, 1), 0), 0)
tap_exit_to_idle(h) == Clock(Clock(h, 1), 0)

Scan(h, p) == tap_exit_to_idle(Clock(Bits(tap_set_shift_dr(h), p), 1))

(* The same when the cable fails in it.  The code ORs the errors together    *)
(* and goes on, so each clock, and the stream of bits, has reached the unit  *)
(* or not: the states the unit may be left in.                               *)
Maybe(hs, tms) == hs \cup { Clock(h, tms) : h \in hs }

TornEnd(hs, p) ==
    Maybe(Maybe(UNION { {h, Bits(h, p), Clock(Bits(h, p), 1)} : h \in hs }, 1), 0)

TornShift(h) == Maybe(Maybe(Maybe({h}, 1), 0), 0)

ScanTorn(h, p) == TornEnd(TornShift(h), p)

tap_set_ir(h, ir) ==
    LET shift == Clock(Clock(Clock(Clock(h, 1), 1), 0), 0)
    IN  tap_exit_to_idle(Clock(Bits(shift, [cmd |-> "ir", ir |-> ir]), 1))

\* A zero, then eight ones reach TEST_LOGIC_RESET from anywhere, then RUN_TEST/IDLE.
FourOnes(h) == Clock(Clock(Clock(Clock(h, 1), 1), 1), 1)
tap_reset(h) == Clock(FourOnes(FourOnes(Clock(h, 0))), 0)

tap_enable_debug_module(h) == tap_set_ir(h, "DEBUG")

-----------------------------------------------------------------------------
(* One word of an open burst, as the selected module sees it.               *)
InBurst(h, op) == Listening(h) /\ h.burst.open /\ h.burst.op = op /\ h.burst.left > 0

NextWord(h) == [h EXCEPT !.burst.addr = @ + 1, !.burst.left = @ - 1]

WordRead(h) ==
    IF h.burst.addr \in Addrs THEN h.store[h.module][h.burst.addr] ELSE Bad

WordWritten(h, w) ==
    IF h.burst.addr \in Addrs
      THEN [NextWord(h) EXCEPT !.store[h.module][h.burst.addr] = w]
      ELSE NextWord(h)

\* The first bus error is latched with its address until it is cleared.
BusError(h) ==
    [NextWord(h) EXCEPT !.error = IF h.error = None THEN h.burst.addr ELSE @]

\* A CPU's stall and reset bits; a module that is no CPU answers zeros.
CtlRead(h) == IF h.module \in {"CPU0", "CPU1"} THEN h.ctl[h.module] ELSE 0

InitHw == [ tap |-> "idle", ir |-> "DEBUG", irsr |-> "DEBUG", sr |-> Nop,
            module |-> "WISHBONE", burst |-> NoBurst, lcmd |-> NoCommand, error |-> None,
            ctl |-> [m \in {"CPU0", "CPU1"} |-> 0],
            store |-> [m \in Stores |-> [a \in Addrs |-> 0]] ]
=============================================================================
