----------------------------- MODULE SerialLink -----------------------------
(***************************************************************************)
(* What one direction of the JTAG serial port promises: the bytes put in   *)
(* at one end come out at the other, each once and in order.  A fault      *)
(* either repeats the next bytes or loses some that were about to go in;   *)
(* nothing is promised of a link that is broken.  The n-th byte is the     *)
(* number n.                                                               *)
(***************************************************************************)
EXTENDS Integers, Sequences

CONSTANTS
  MaxPut,        \* bytes that may go in at once
  FaultRepeats   \* a fault repeats bytes; otherwise it loses them

VARIABLES
  put,     \* how many bytes went in
  queue,   \* the bytes on the way, oldest first
  got,     \* the bytes that came out
  faults,  \* how many faults there were
  broken   \* the link no longer works

linkVars == <<put, queue, got, faults, broken>>

LinkInit ==
  /\ put = 0
  /\ queue = <<>>
  /\ got = <<>>
  /\ faults = 0
  /\ broken = FALSE

\* The bytes that follow the first n, k of them.
Bytes(n, k) == [i \in 1..k |-> n + i]

Put(k) ==
  /\ put' = put + k
  /\ queue' = queue \o Bytes(put, k)
  /\ UNCHANGED <<got, faults>>

Get(k) ==
  /\ got' = got \o SubSeq(queue, 1, k)
  /\ queue' = SubSeq(queue, k + 1, Len(queue))
  /\ UNCHANGED <<put, faults>>

\* The next k bytes come out and stay on the way.
Repeat(k) ==
  /\ FaultRepeats
  /\ got' = got \o SubSeq(queue, 1, k)
  /\ faults' = faults + 1
  /\ UNCHANGED <<put, queue>>

\* The next k bytes never go in.
Lose(k) ==
  /\ ~FaultRepeats
  /\ put' = put + k
  /\ faults' = faults + 1
  /\ UNCHANGED <<queue, got>>

LinkNext ==
  \/ /\ broken' = broken
     /\ \/ \E k \in 1..MaxPut : Put(k)
        \/ \E k \in 1..Len(queue) : Get(k)
        \/ \E k \in 0..Len(queue) : Repeat(k)
        \/ \E k \in 0..MaxPut : Lose(k)
  \/ broken'

LinkSpec == LinkInit /\ [][LinkNext]_linkVars
=============================================================================
