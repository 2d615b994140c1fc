------------------------------- MODULE LegacyDbg -------------------------------
(***************************************************************************)
(* legacy_dbg_commands.c: the older debug unit, built with __LEGACY__.     *)
(* Every scan carries a CRC both ways and its answer is checked before the *)
(* TAP is taken back to idle.  The unit itself is not in this repository:  *)
(* it obeys a scan it receives intact, and answers.                        *)
(***************************************************************************)
EXTENDS DbgAccess

\* What a scan the unit hears makes of it.
LegacyObey(h, p) ==
    CASE p.cmd = "select" -> [h EXCEPT !.module = p.module]
      [] p.cmd = "command" -> [h EXCEPT !.lcmd = p]
      [] p.cmd = "go" /\ h.lcmd.op = "write" ->
            [h EXCEPT !.store[h.module] =
                [a \in Addrs |-> IF a - h.lcmd.addr \in 0 .. h.lcmd.len - 1
                                 THEN Data(a - h.lcmd.addr) ELSE @[a]]]
      [] p.cmd = "ctrl" -> [h EXCEPT !.ctl[h.module] = p.data]
      [] OTHER -> h

(* Payload and CRC, taken by a unit whose TAP is in SHIFT_DR.               *)
legacy_write_stream(h, p) == IF Listening(h) THEN LegacyObey(h, p) ELSE h

(* Status and CRC of the answer, the last bit with TMS up.                  *)
legacy_read_stream(h) == Clock(h, 1)

(* One scan.  One that the TAP was not ready for is not heard, and what is  *)
(* read back fails the check; a garbled one is obeyed or not.  Only a good  *)
(* answer is followed by tap_exit_to_idle(), after(h) with h the unit then; *)
(* bad is what the caller does, with the TAP in EXIT1_DR.                   *)
LegacyScan(p, kind, after(_), bad(_)) ==
    LET h1 == tap_set_shift_dr(hw)
        h2 == legacy_write_stream(h1, p)
        Refused(h) == bad([Now EXCEPT !.hw = legacy_read_stream(h)])
    IN  \/ Listening(h1) /\ NoFault /\ after(tap_exit_to_idle(legacy_read_stream(h2)))
        \/ Listening(h1) /\ Fault(kind) /\ \E h \in {h1, h2} : Refused(h)
        \/ ~Listening(h1) /\ NoFault /\ Refused(h1)

\* v.next is what follows the chain selection; v.first, that dbg_api.c called
\* it (and gives up on its error) rather than the next command (which goes on).
ToChain(next) == pc' = "lchain" /\ v' = [v EXCEPT !.next = next, !.first = FALSE]

legacy_dbg_set_chain ==
    LET good(h) == /\ hw' = h /\ pc' = v.next /\ UNCHANGED v
                   /\ sel' = [sel EXCEPT !.current_chain = call.chain, !.soft_retry_no = 0,
                                         !.desired_chain = call.chain]
        bad(s) == LET t == [s EXCEPT !.sel.current_chain = NoChain,
                                     !.sel.desired_chain = call.chain]
                  IN  retry_do(t, pc' = "lchain" /\ UNCHANGED v,
                               IF v.first THEN Return("crc")
                                          ELSE pc' = v.next /\ UNCHANGED v)
    IN  /\ pc = "lchain" /\ UNCHANGED <<setup, call, harmed>>
        /\ \/ /\ sel.current_chain = call.chain /\ NoFault
              /\ sel' = [sel EXCEPT !.desired_chain = call.chain]
              /\ pc' = v.next /\ UNCHANGED <<hw, v>>
           \/ /\ sel.current_chain # call.chain
              /\ LegacyScan([cmd |-> "select", module |-> call.chain], "word", good, bad)

\* legacy_dbg_command, legacy_dbg_ctrl and legacy_dbg_ctrl_read retry from
\* their own set_chain; legacy_dbg_ctrl sends one bit of data & 2, a zero.
LegacySend(p, here, then(_)) ==
    LET good(h) == /\ hw' = h /\ sel' = [sel EXCEPT !.soft_retry_no = 0] /\ then(h)
        bad(s) == retry_do(s, ToChain(here), Return("crc"))
    IN  pc = here /\ UNCHANGED <<setup, call, harmed>> /\ LegacyScan(p, "word", good, bad)

legacy_dbg_command ==
    LET go(h) == ToChain("lgo")
    IN  LegacySend([cmd |-> "command", op |-> call.op, addr |-> call.start,
                    len |-> call.count], "lcommand", go)

legacy_dbg_ctrl ==
    LET ok(h) == Return("ok")
    IN  LegacySend([cmd |-> "ctrl", data |-> call.ctl % 2], "lctrlwrite", ok)

legacy_dbg_ctrl_read ==
    LET ok(h) == pc' = "done" /\ v' = [v EXCEPT !.err = "ok", !.ctl = CtlRead(h)]
    IN  LegacySend([cmd |-> "ctrlread"], "lctrlread", ok)

\* No retry: the command would have to be sent again first.
legacy_dbg_go ==
    LET good(h) ==
            /\ hw' = h /\ sel' = [sel EXCEPT !.soft_retry_no = 0]
            /\ pc' = "done"
            /\ v' = [v EXCEPT !.err = "ok",
                     !.buf = [k \in DOMAIN @ |-> IF call.op = "read" /\ call.start + k \in Addrs
                                THEN h.store[h.module][call.start + k] ELSE Bad]]
        bad(s) == Become(s) /\ Return("crc")
    IN  /\ pc = "lgo" /\ UNCHANGED <<setup, call, harmed>>
        /\ LegacyScan([cmd |-> "go"], "go", good, bad)

LegacyNext ==
    \/ legacy_dbg_set_chain \/ legacy_dbg_command \/ legacy_dbg_ctrl
    \/ legacy_dbg_ctrl_read \/ legacy_dbg_go
=============================================================================
