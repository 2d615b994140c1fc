--------------------------------- MODULE DbgApi ---------------------------------
(***************************************************************************)
(* dbg_api.c: the calls the servers make, over the advanced or the legacy  *)
(* debug unit, with what the code does about faults of the cable, the bus  *)
(* and the unit.  A call is a record: the function, the module its name    *)
(* says (want), the module its code selects (chain), and its arguments.    *)
(***************************************************************************)
EXTENDS AdvDbg, LegacyDbg

CONSTANTS
    MaxCount      \* bound: words in a block

\* The servers' buffers hold less than the 16 bits of a burst's length can say.
ASSUME CountAssumption == MaxCount \in Nat /\ 0 < MaxCount /\ MaxCount < 65536

Call(want, chain, op, start, count, ctl, topbit) ==
    [want |-> want, chain |-> chain, op |-> op, start |-> start,
     count |-> count, ctl |-> ctl, topbit |-> topbit]

\* Transfers of any of the given lengths within the address space.
Moves(want, chain, ops, counts) ==
    { c \in { Call(want, chain, op, a, n, 0, 0) : op \in ops, a \in Addrs, n \in counts } :
        c.count = 0 \/ c.start + c.count - 1 \in Addrs }

Controls(cpu) ==
    { Call(cpu, cpu, op, 0, 0, d, 0) : op \in {"ctrlread", "ctrlwrite"}, d \in {0, 1} }

dbg_wb_single == Moves("WISHBONE", "WISHBONE", {"read", "write"}, {1})

dbg_wb_read_block == Moves("WISHBONE", "WISHBONE", {"read"}, 0 .. MaxCount)

dbg_wb_write_block == Moves("WISHBONE", "WISHBONE", {"write"}, 0 .. MaxCount)

\* On the legacy unit a block of CPU registers is a loop of single calls, each
\* with the lock to itself.
dbg_cpu0_read_write ==
    Moves("CPU0", "CPU0", {"read", "write"}, IF setup.adv THEN 0 .. MaxCount ELSE {1})

dbg_cpu0_ctrl == Controls("CPU0")

dbg_cpu1_read == Moves("CPU1", "CPU1", {"read"}, {1})

\* The advanced branch selects CPU0.
dbg_cpu1_write ==
    Moves("CPU1", IF setup.adv THEN "CPU0" ELSE "CPU1", {"write"}, {1})

dbg_cpu1_ctrl == Controls("CPU1")

dbg_serial_sndrcv ==
    IF setup.adv THEN { Call("JSP", "JSP", "serial", 0, 0, 0, b) : b \in {0, 1} } ELSE {}

Calls ==
    LET Of(fn) == CASE fn = "wb_single" -> dbg_wb_single
                    [] fn = "wb_read_block" -> dbg_wb_read_block
                    [] fn = "wb_write_block" -> dbg_wb_write_block
                    [] fn = "cpu0_read_write" -> dbg_cpu0_read_write
                    [] fn = "cpu0_ctrl" -> dbg_cpu0_ctrl
                    [] fn = "cpu1_read" -> dbg_cpu1_read
                    [] fn = "cpu1_write" -> dbg_cpu1_write
                    [] fn = "cpu1_ctrl" -> dbg_cpu1_ctrl
                    [] fn = "serial_sndrcv" -> dbg_serial_sndrcv
    IN  UNION { Of(fn) : fn \in setup.functions }

NoCall == Call("none", "none", "none", 0, 0, 0, 0)

Locals(c) ==
    [i |-> 0, j |-> 0, addr |-> c.start, good |-> TRUE, buserrs |-> 0, err |-> "none",
     buf |-> [k \in Words(c) |-> Bad], ctl |-> 0, first |-> TRUE,
     next |-> CASE c.op = "ctrlread" -> "lctrlread"
                [] c.op = "ctrlwrite" -> "lctrlwrite"
                [] OTHER -> "lcommand",
     faults |-> faults]

Init ==
    /\ setup \in Setups
    /\ hw = InitHw /\ sel = InitSel
    /\ call = NoCall /\ pc = "idle" /\ faults = 0 /\ harmed = FALSE
    /\ v = [i |-> 0]

\* pthread_mutex_lock, except that a block of no words returns at once.
Begin ==
    /\ pc = "idle"
    /\ \E c \in Calls :
        /\ call' = c
        /\ v' = [Locals(c) EXCEPT !.err = IF c.want = "WISHBONE" /\ c.count = 0
                                          THEN "ok" ELSE @]
        /\ pc' = IF v'.err = "ok" THEN "done"
                 ELSE IF setup.adv THEN "select" ELSE "lchain"
    /\ UNCHANGED <<setup, hw, sel, faults, harmed>>

\* The errors after which the code has not put things straight: a scan the cable
\* failed in, a burst given up (adv_dbg_commands.c:439 and 479 return from
\* SHIFT_DR), MAX_BUS_ERRORS or a CRC error with a bus error still latched, and
\* every CRC error of the legacy unit, whose TAP stays in EXIT1_DR.
Unclean ==
    \/ v.err \in {"cable", "retries", "bus"}
    \/ v.err = "crc" /\ (~ setup.adv \/ hw.error # None)

\* cable_flush, pthread_mutex_unlock.
End ==
    /\ pc = "done" /\ harmed' = (harmed \/ Unclean)
    /\ pc' = "idle" /\ call' = NoCall /\ v' = [i |-> 0]
    /\ UNCHANGED <<setup, hw, sel, faults>>

Next == Begin \/ AdvNext \/ LegacyNext \/ End \/ (pc = "exited" /\ UNCHANGED vars)

Spec == Init /\ [][Next]_vars

-----------------------------------------------------------------------------
(* The mixtures of faults and builds in which no harm goes unreported.  The  *)
(* others: a retry's reset clears a bus error before its register was read;  *)
(* a word is garbled in a burst that is broken off and goes on without the   *)
(* CRC of its first part (adv_dbg_commands.c:333 says so); a bus error in a  *)
(* high-speed burst, which cannot be repeated in part, or with the BSCAN     *)
(* work-around, after which the register is not looked at; and               *)
(* dbg_cpu1_write, which selects CPU0 on the advanced unit.                  *)
Handled(s) ==
    LET F(kinds) == s.faults \cap kinds # {}
    IN  s.adv =>
          /\ "cpu1_write" \notin s.functions
          /\ F({"bus"}) => ~s.hispeed /\ ~s.bscan
          /\ s.retries > 0 /\ F({"timeout", "cable"}) => ~F({"bus"}) /\ (F({"word"}) => s.hispeed)

\* Types of what the properties relate.
TypeOK ==
    /\ hw.tap \in DOMAIN TapNext /\ hw.module \in Modules
    /\ hw.error \in Addrs \cup {None}
    /\ \A m \in Stores, a \in Addrs : hw.store[m][a] \in {0, Bad} \cup (1 .. MaxCount)
    /\ sel.current_chain \in Modules \cup {NoChain}
    /\ sel.soft_retry_no \in 0 .. setup.retries
    /\ faults \in 0 .. MaxFaults

\* A call of dbg_api.c that returns APP_ERR_NONE did what it was asked: a read
\* has the module's words in the caller's order, a write has stored them.  It
\* may rely on it until some call has returned an error that is Unclean.
SuccessIsExact ==
    pc = "done" /\ v.err = "ok" /\ ~ harmed =>
        CASE call.op = "read" ->
               \A k \in Words(call) : v.buf[k] = hw.store[call.want][call.start + k]
          [] call.op = "write" ->
               \A k \in Words(call) : hw.store[call.want][call.start + k] = Data(k)
          [] call.op = "ctrlwrite" -> hw.ctl[call.want] = call.ctl
          [] call.op = "ctrlread" -> v.ctl = hw.ctl[call.want]
          [] OTHER -> TRUE

\* Whatever goes wrong and is retried, a word of the target only ever changes
\* to the word a write in progress means for that module and address (or to
\* that word as the wire garbled it): no retry lands elsewhere, the call that
\* is about to fail included.
OnlyAsked ==
    [][\A m \in Stores, a \in Addrs :
          ~ harmed /\ hw'.store[m][a] # hw.store[m][a] =>
            /\ call.op = "write" /\ call.want = m /\ a - call.start \in Words(call)
            /\ hw'.store[m][a] \in {Data(a - call.start), Bad}]_vars

\* A call during which nothing goes wrong fails, or ends the bridge, only after
\* an earlier call has returned an Unclean error: what was retried, repeated
\* or failed in any other way never breaks the next call behind the caller's
\* back.
CleanCallSucceeds ==
    ~ harmed =>
        /\ pc = "done" /\ v.err # "ok" => faults > v.faults
        /\ pc = "exited" => faults > v.faults

\* Between calls the TAP rests in RUN_TEST/IDLE with DEBUG in its IR, as
\* chain_commands.c:244 asks for, no burst is open or due, no bus error is
\* latched, and a cached selection is the unit's: the only calls that return
\* without this are those whose error is Unclean.
RestsClean ==
    pc = "idle" /\ ~ harmed =>
        /\ hw.tap = "idle" /\ hw.ir = "DEBUG" /\ ~ hw.burst.open /\ hw.burst.left = 0
        /\ hw.error = None
        /\ sel.current_chain # NoChain => hw.module = sel.current_chain
=============================================================================
