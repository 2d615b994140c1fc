------------------------------- MODULE CableWire -------------------------------
(***************************************************************************)
(* The target end of a JTAG cable and the state every cable driver of the  *)
(* bridge shares.  A driver is a sequence of small operations (todo) made  *)
(* from the call; the adapter at the other end of the USB pipe, the socket *)
(* or the file runs beside it and drives the pins.                         *)
(*                                                                         *)
(* A bit is the set of the marks that were OR-ed into it: bit i of the     *)
(* stream to send is {i}, the bit TDO shows for the i-th clock of the call *)
(* is {-i}, a zero is {} and 0 marks what was there before the call.       *)
(***************************************************************************)
EXTENDS Integers, Sequences, FiniteSets, FiniteSetsExt, SequencesExt

CONSTANTS
    Setups,      \* what is plugged in, asked and allowed to go wrong (see Cables)
    MaxFaults    \* bound: things that go wrong in one behaviour

VARIABLES
    setup,   \* the cable in use (jtag_cable_in_use); never changes
    call,    \* the cable API call in progress
    todo,    \* what the driver still has to do for it
    dev,     \* the pins and the target
    tx,      \* on the way to the adapter
    rx,      \* on the way back
    ad,      \* the adapter's own state
    drv,     \* the driver's static variables
    got,     \* the caller's instream: pairs <<position, mark>>
    err,     \* the call's error code is set
    faults,  \* how much went wrong so far
    hist     \* what the call's result can be trusted for (not in the code)

vars == <<setup, call, todo, dev, tx, rx, ad, drv, got, err, faults, hist>>

NoCall == [fn |-> "none"]
Byte == 8                       \* bits
Word == 32

Put(in, from, bits) ==          \* OR bits into in, from position from on
    in \cup UNION { { <<from + i - 1, t>> : t \in bits[i] } : i \in DOMAIN bits }
Clear(in, ps) == { x \in in : x[1] \notin ps }
Bits(in, n) == { x \in in : x[1] < n }

WireOf(c) == [i \in 1 .. c.len |-> [tms |-> c.last /\ i = c.len, tdi |-> {i}]]
InOf(c, n) == IF c.read THEN { <<i - 1, -i>> : i \in 1 .. n } ELSE {}
Stale(c) == { <<p, 0>> : p \in 0 .. c.len - 1 }

Pins(tck, tms, tdi) == [tck |-> tck, tms |-> tms, tdi |-> tdi]

(* A pin change: the target takes TMS and TDI on the rising edge of TCK as *)
(* they stood before it, and shows its next bit after the falling edge.    *)
Drive(d, p) ==
    [tck |-> p.tck, tms |-> p.tms, tdi |-> p.tdi,
     wire |-> IF ~d.tck /\ p.tck THEN Append(d.wire, [tms |-> d.tms, tdi |-> d.tdi])
                                 ELSE d.wire,
     tdo |-> IF d.tck /\ ~p.tck THEN {-(Len(d.wire) + 1)} ELSE d.tdo]

(* A burst the adapter clocks by itself, TCK low before and after.  With   *)
(* TCK up there is no rising edge for the first bit.                       *)
Lost(d) == IF d.tck THEN 1 ELSE 0
Burst(d, bits, tms) ==
    LET n == Len(bits)
        clocks == [i \in 1 .. n |-> [tms |-> tms[i], tdi |-> bits[i]]]
    IN  [tck |-> FALSE, tms |-> tms[n], tdi |-> bits[n],
         wire |-> d.wire \o SubSeq(clocks, 1 + Lost(d), n),
         tdo |-> {-(Len(d.wire) + n - Lost(d) + 1)}]
BurstIn(d, bits) ==
    [i \in DOMAIN bits |-> IF i = 1 THEN d.tdo ELSE {-(Len(d.wire) + i - Lost(d))}]

Op == Head(todo)
Next1 == todo' = Tail(todo)
Fault(kind) ==
    /\ kind \in setup.faults /\ faults < MaxFaults
    /\ faults' = faults + 1

(* The history of a call: sure until a failure goes without an error code,  *)
(* kept counts the leading bits of instream that nothing was misplaced into.*)
Missed(b) == hist' = [hist EXCEPT !.sure = @ /\ ~b]
Misplaced(n) == hist' = [hist EXCEPT !.kept = Min({@, n})]
================================================================================
