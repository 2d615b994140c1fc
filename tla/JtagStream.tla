------------------------------- MODULE JtagStream -------------------------------
(***************************************************************************)
(* What the cable API (cable_common.h) promises the chain layer: a call    *)
(* that returns without an error has clocked exactly the bits it was given,*)
(* in order, with TMS up on the last one if that was asked, and a reading  *)
(* call has stored the TDO bits of those clocks, in order.  A call that    *)
(* fails promises nothing.                                                 *)
(*                                                                         *)
(* The drivers keep less than that.  A call may stop being sure before it  *)
(* returns, and then promises nothing either; and of the bits read it      *)
(* promises the first kept ones.  StreamExact in Cables says when.         *)
(***************************************************************************)
EXTENDS Naturals

CONSTANTS Calls, NoCall, WireOf(_), InOf(_, _)

VARIABLES call, answer, sure, kept

Nothing == [done |-> FALSE, err |-> FALSE, wire |-> <<>>, in |-> {}]

StreamInit == call = NoCall /\ answer = Nothing /\ sure = TRUE /\ kept = 0

Ask == /\ call = NoCall
       /\ call' \in Calls
       /\ answer' = Nothing
       /\ sure' \in BOOLEAN /\ kept' = call'.len

(* While a call is served its promise only shrinks.                         *)
Shrinks == /\ call /= NoCall /\ ~answer.done
           /\ sure' => sure
           /\ kept' <= kept
           /\ UNCHANGED call

Slip == Shrinks /\ UNCHANGED answer

Serve == /\ Shrinks /\ sure'
         /\ answer' = [done |-> TRUE, err |-> FALSE,
                       wire |-> WireOf(call), in |-> InOf(call, kept')]

Doubt == /\ Shrinks /\ ~sure'
         /\ answer' = [Nothing EXCEPT !.done = TRUE]

Fail == /\ Shrinks
        /\ answer' = [Nothing EXCEPT !.done = TRUE, !.err = TRUE]

Take == /\ answer.done
        /\ call' = NoCall /\ answer' = Nothing
        /\ sure' = TRUE /\ kept' = 0

StreamSpec ==
    StreamInit /\ [][Ask \/ Slip \/ Serve \/ Doubt \/ Fail \/ Take]_<<call, answer, sure, kept>>
================================================================================
