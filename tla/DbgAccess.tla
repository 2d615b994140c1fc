------------------------------- MODULE DbgAccess -------------------------------
(***************************************************************************)
(* State shared by the two command layers of the bridge                    *)
(* (adv_dbg_commands.c, legacy_dbg_commands.c) under dbg_api.c.  Every API *)
(* function holds dbg_access_mutex from its first scan to cable_flush(),   *)
(* so one call is in progress at a time, whichever thread made it.         *)
(***************************************************************************)
EXTENDS DebugUnit, FiniteSets

CONSTANTS
    Setups,          \* [adv, hispeed, bscan : BOOLEAN, retries : Nat, faults : SUBSET Kinds,
                     \*  functions : the API functions called]
    MaxFaults,       \* bound: things that go wrong in one behaviour
    MAX_BUS_ERRORS   \* adv_dbg_commands.c:338 (10 there)

\* select, command: the cable fails while a module is selected, or while a
\* burst command or a control register's scan is sent.  timeout: the status bit
\* does not come.  word: a bit is garbled (go: in the legacy unit's DI_GO scan).
\* cable: it fails within a burst, in the scans that follow one, or in a serial
\* transfer.  bus: the Wishbone errs.
Kinds == {"select", "command", "timeout", "word", "go", "cable", "bus"}

\* The functions of dbg_api.c, those of a kind together.
ApiFunctions == {"wb_single", "wb_read_block", "wb_write_block", "cpu0_read_write",
                 "cpu0_ctrl", "cpu1_read", "cpu1_write", "cpu1_ctrl", "serial_sndrcv"}

ASSUME SetupsAssumption ==
    /\ Setups \subseteq [adv : BOOLEAN, hispeed : BOOLEAN, bscan : BOOLEAN, retries : Nat,
                         faults : SUBSET Kinds, functions : SUBSET ApiFunctions]
    /\ MaxFaults \in Nat /\ MAX_BUS_ERRORS \in Nat

VARIABLES
    setup,   \* how the bridge was compiled and started; never changes
    hw,      \* the target's end (DebugUnit)
    sel,     \* current_chain, desired_chain, current_reg_idx, soft_retry_no
    call,    \* the API call in progress
    pc,      \* where it is
    v,       \* its local variables
    faults,  \* how much went wrong so far
    harmed   \* history: a call has returned without leaving the unit at rest

vars == <<setup, hw, sel, call, pc, v, faults, harmed>>

Now == [hw |-> hw, sel |-> sel]
Become(s) == hw' = s.hw /\ sel' = s.sel

NoFault == faults' = faults
Fault(kind) ==
    /\ kind \in setup.faults /\ faults < MaxFaults
    /\ faults' = faults + 1

Words(c) == 0 .. c.count - 1
Data(j) == j + 1                    \* the words a write call is given

InitSel == [current_chain |-> NoChain, desired_chain |-> NoChain,
            current_reg_idx |-> {}, soft_retry_no |-> 0]

(* The API returns: err, and for a read the caller's buffer.                *)
Return(err) == pc' = "done" /\ v' = [v EXCEPT !.err = err]

\* Mutant of retry_do: the count is compared one too late.
RetryOneMore(s, then, otherwise) ==
    \/ /\ s.sel.soft_retry_no <= setup.retries
       /\ hw' = tap_enable_debug_module(tap_reset(s.hw))
       /\ sel' = [s.sel EXCEPT !.current_chain = NoChain, !.current_reg_idx = {},
                               !.soft_retry_no = @ + 1]
       /\ then
    \/ s.sel.soft_retry_no > setup.retries /\ Become(s) /\ otherwise

\* Mutant of retry_do: the TAP is reset, the cached selection is kept.
RetryKeepsCache(s, then, otherwise) ==
    \/ /\ s.sel.soft_retry_no < setup.retries
       /\ hw' = tap_enable_debug_module(tap_reset(s.hw))
       /\ sel' = [s.sel EXCEPT !.soft_retry_no = @ + 1]
       /\ then
    \/ s.sel.soft_retry_no >= setup.retries /\ Become(s) /\ otherwise

(* retry_do() in state s: a quick reset of the TAP and back to DEBUG, if any *)
(* retry is left; tap_reset() and tap_set_ir() drop what is known to be      *)
(* selected.                                                                 *)
retry_do(s, then, otherwise) ==
    \/ /\ s.sel.soft_retry_no < setup.retries
       /\ hw' = tap_enable_debug_module(tap_reset(s.hw))
       /\ sel' = [s.sel EXCEPT !.current_chain = NoChain, !.current_reg_idx = {},
                               !.soft_retry_no = @ + 1]
       /\ then
    \/ /\ s.sel.soft_retry_no >= setup.retries
       /\ Become(s)
       /\ otherwise

retry_ok(s) == [s EXCEPT !.sel.soft_retry_no = 0]
=============================================================================
