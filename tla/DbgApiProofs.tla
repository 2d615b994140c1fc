---------------------------- MODULE DbgApiProofs ----------------------------
(***************************************************************************)
(* Proofs about the debug commands, for blocks of any length below 64K     *)
(* words, any address space, any number of retries, none included, and any *)
(* mixture of faults that is Handled, until a call has returned one of the *)
(* errors that are Unclean.                                                *)
(***************************************************************************)
EXTENDS DbgApi, TLAPS

(***************************************************************************)
(* The TAP and the shift register of the debug unit.                       *)
(***************************************************************************)

\* The registers of the unit and of a burst.
HwFields == {"tap", "ir", "irsr", "sr", "module", "burst", "lcmd", "error", "ctl", "store"}
BurstFields == {"open", "op", "addr", "left"}
Cpus == {"CPU0", "CPU1"}

\* A value with the registers of the unit.
IsHw(h) == DOMAIN h = HwFields /\ DOMAIN h.burst = BurstFields /\ DOMAIN h.ctl = Cpus

\* A clock is one step of the TAP, from the one state there is to choose.
LEMMA ClockIs == ASSUME NEW h, NEW tms PROVE Clock(h, tms) = ClockStep(h, tms)
<1>1. ClockStep(h, tms) \in { ClockStep(x, tms) : x \in {h} }
      OBVIOUS
<1>2. \A g \in { ClockStep(x, tms) : x \in {h} } : g = ClockStep(h, tms)
      OBVIOUS
<1>3. (CHOOSE g \in { ClockStep(x, tms) : x \in {h} } : TRUE) \in { ClockStep(x, tms) : x \in {h} }
      BY <1>1
<1> QED BY <1>2, <1>3 DEF Clock


\* The entries of the TAP's state table that a scan goes through.
LEMMA TapMoves ==
  /\ DOMAIN TapNext = {"reset", "idle", "selectDR", "captureDR", "shiftDR", "exit1DR", "pauseDR", "exit2DR",
       "updateDR", "selectIR", "captureIR", "shiftIR", "exit1IR", "pauseIR", "exit2IR", "updateIR"}
  /\ TapNext["idle"][0 + 1] = "idle" /\ TapNext["idle"][1 + 1] = "selectDR"
  /\ TapNext["selectDR"][0 + 1] = "captureDR" /\ TapNext["selectDR"][1 + 1] = "selectIR"
  /\ TapNext["captureDR"][0 + 1] = "shiftDR"
  /\ TapNext["shiftDR"][1 + 1] = "exit1DR"
  /\ TapNext["exit1DR"][1 + 1] = "updateDR"
  /\ TapNext["updateDR"][0 + 1] = "idle"
  /\ TapNext["selectIR"][0 + 1] = "captureIR"
  /\ TapNext["captureIR"][0 + 1] = "shiftIR"
  /\ TapNext["shiftIR"][1 + 1] = "exit1IR"
  /\ TapNext["exit1IR"][1 + 1] = "updateIR"
  /\ TapNext["updateIR"][0 + 1] = "idle"
  /\ TapNext["reset"][0 + 1] = "idle"
BY DEF TapNext

\* Everything but the TAP's own registers and the burst is as it was.
SameUnit(g, h) ==
  g.module = h.module /\ g.lcmd = h.lcmd /\ g.error = h.error /\ g.ctl = h.ctl /\ g.store = h.store

\* A clock into a state that does nothing but be entered.
LEMMA ClockMoves ==
  ASSUME NEW h, NEW tms, NEW t, IsHw(h), TapNext[h.tap][tms + 1] = t,
         t \notin {"reset", "captureIR", "updateIR", "captureDR", "updateDR"}
  PROVE  LET g == Clock(h, tms) IN
         /\ IsHw(g) /\ g.tap = t /\ SameUnit(g, h)
         /\ g.ir = h.ir /\ g.irsr = h.irsr /\ g.sr = h.sr /\ g.burst = h.burst
<1>1. Clock(h, tms) = [h EXCEPT !.tap = t]
      BY ClockIs, ZenonT(40) DEF ClockStep
<1> QED BY <1>1, SMTT(30) DEF IsHw, HwFields, SameUnit

\* CAPTURE_DR empties the shift register and opens a burst that is due.
LEMMA ClockCaptures ==
  ASSUME NEW h, NEW tms, IsHw(h), TapNext[h.tap][tms + 1] = "captureDR", h.ir = "DEBUG"
  PROVE  LET g == Clock(h, tms) IN
         /\ IsHw(g) /\ g.tap = "captureDR" /\ SameUnit(g, h)
         /\ g.ir = "DEBUG" /\ g.sr = Nop
         /\ g.burst.open = (h.burst.left > 0) /\ g.burst.op = h.burst.op
         /\ g.burst.addr = h.burst.addr /\ g.burst.left = h.burst.left
<1> DEFINE g == Clock(h, tms)
<1>1. g = [[h EXCEPT !.tap = "captureDR"] EXCEPT !.sr = Nop, !.burst.open = h.burst.left > 0]
      BY ClockIs DEF ClockStep
<1> HIDE DEF g
<1>2. /\ DOMAIN g = HwFields /\ g.tap = "captureDR" /\ SameUnit(g, h) /\ g.ir = "DEBUG" /\ g.sr = Nop
      /\ g.burst = [h.burst EXCEPT !.open = h.burst.left > 0]
      BY <1>1, SMTT(30) DEF IsHw, HwFields, SameUnit
<1>3. /\ DOMAIN g.burst = BurstFields
      /\ g.burst.open = (h.burst.left > 0) /\ g.burst.op = h.burst.op
      /\ g.burst.addr = h.burst.addr /\ g.burst.left = h.burst.left
      BY <1>2, SMTT(30) DEF IsHw, BurstFields
<1> QED BY <1>2, <1>3, SMTT(30) DEF IsHw, SameUnit, g

\* UPDATE_DR obeys the shift register.
LEMMA ClockObeys ==
  ASSUME NEW h, NEW tms, TapNext[h.tap][tms + 1] = "updateDR", h.ir = "DEBUG"
  PROVE  Clock(h, tms) = Obey([h EXCEPT !.tap = "updateDR"])
BY ClockIs DEF ClockStep

\* tap_set_shift_dr from RUN_TEST/IDLE.
LEMMA ShiftDr ==
  ASSUME NEW h, IsHw(h), h.tap = "idle", h.ir = "DEBUG"
  PROVE  LET g == tap_set_shift_dr(h) IN
         /\ IsHw(g) /\ g.tap = "shiftDR" /\ g.ir = "DEBUG" /\ g.sr = Nop /\ SameUnit(g, h)
         /\ g.burst.open = (h.burst.left > 0) /\ g.burst.op = h.burst.op
         /\ g.burst.addr = h.burst.addr /\ g.burst.left = h.burst.left
<1> DEFINE a == Clock(h, 1)
           b == Clock(a, 0)
           c == Clock(b, 0)
<1>1. IsHw(a) /\ a.tap = "selectDR" /\ a.ir = "DEBUG" /\ SameUnit(a, h) /\ a.burst = h.burst
      BY TapMoves, ClockMoves
<1> HIDE DEF a
<1>2. /\ IsHw(b) /\ b.tap = "captureDR" /\ SameUnit(b, a) /\ b.ir = "DEBUG" /\ b.sr = Nop
      /\ b.burst.open = (a.burst.left > 0) /\ b.burst.op = a.burst.op
      /\ b.burst.addr = a.burst.addr /\ b.burst.left = a.burst.left
      BY <1>1, TapMoves, ClockCaptures
<1> HIDE DEF b
<1>3. /\ IsHw(c) /\ c.tap = "shiftDR" /\ SameUnit(c, b) /\ c.ir = b.ir /\ c.sr = b.sr /\ c.burst = b.burst
      BY <1>2, TapMoves, ClockMoves
<1> HIDE DEF c
<1>4. c = tap_set_shift_dr(h)
      BY DEF a, b, c, tap_set_shift_dr
<1> QED BY <1>4, <1>1, <1>2, <1>3 DEF SameUnit

\* The unit at rest between two scans.
Quiet(h) ==
  IsHw(h) /\ h.tap = "idle" /\ h.ir = "DEBUG" /\ h.burst.open = FALSE /\ h.burst.left = 0

\* What obeying the shift register does to the unit, by what is in it.
LEMMA ObeyEnds ==
  ASSUME NEW u, IsHw(u), u.burst.open = TRUE
  PROVE  LET o == Obey(u) IN
         /\ IsHw(o) /\ o.tap = u.tap /\ o.ir = u.ir /\ SameUnit(o, u)
         /\ o.burst.open = FALSE /\ o.burst.left = 0
<1>1. Obey(u) = [u EXCEPT !.burst = NoBurst]
      BY DEF Obey
<1> QED BY <1>1 DEF IsHw, HwFields, BurstFields, NoBurst, SameUnit

\* A module select changes the module and nothing else.
LEMMA ObeySelects ==
  ASSUME NEW u, NEW m, IsHw(u), u.burst.open = FALSE, u.sr = [cmd |-> "select", module |-> m]
  PROVE  LET o == Obey(u) IN
         /\ IsHw(o) /\ o.tap = u.tap /\ o.ir = u.ir /\ o.burst = u.burst
         /\ o.module = m /\ o.lcmd = u.lcmd /\ o.error = u.error /\ o.ctl = u.ctl /\ o.store = u.store
<1>1. Obey(u) = [u EXCEPT !.module = m]
      BY DEF Obey
<1> QED BY <1>1 DEF IsHw, HwFields, SameUnit

\* A register write to the Wishbone module clears its bus error.
LEMMA ObeyClears ==
  ASSUME NEW u, NEW d, IsHw(u), u.burst.open = FALSE, u.module = "WISHBONE",
         u.sr = [cmd |-> "regwrite", data |-> d]
  PROVE  LET o == Obey(u) IN
         /\ IsHw(o) /\ o.tap = u.tap /\ o.ir = u.ir /\ o.burst = u.burst
         /\ o.module = u.module /\ o.lcmd = u.lcmd /\ o.error = None /\ o.ctl = u.ctl /\ o.store = u.store
<1>1. Obey(u) = [u EXCEPT !.error = None]
      BY DEF Obey
<1> QED BY <1>1 DEF IsHw, HwFields

\* A register write to a CPU module sets its stall and reset bits.
LEMMA ObeyControls ==
  ASSUME NEW u, NEW d, IsHw(u), u.burst.open = FALSE, u.module \in Cpus,
         u.sr = [cmd |-> "regwrite", data |-> d]
  PROVE  LET o == Obey(u) IN
         /\ IsHw(o) /\ o.tap = u.tap /\ o.ir = u.ir /\ o.burst = u.burst
         /\ o.module = u.module /\ o.lcmd = u.lcmd /\ o.error = u.error /\ o.ctl[u.module] = d /\ o.store = u.store
<1>1. Obey(u) = [u EXCEPT !.ctl[u.module] = d]
      BY DEF Obey, Cpus
<1>2. Obey(u).ctl = [u.ctl EXCEPT ![u.module] = d]
      BY <1>1 DEF IsHw, HwFields
<1>3. DOMAIN Obey(u).ctl = Cpus /\ Obey(u).ctl[u.module] = d
      BY <1>2 DEF IsHw
<1> QED BY <1>1, <1>3 DEF IsHw, HwFields

\* A read of a register and a stop bit's zero change nothing.
LEMMA ObeyNothing ==
  ASSUME NEW u, IsHw(u), u.burst.open = FALSE,
         u.sr.cmd \in {"nop", "regselect"} \/ u.sr = [cmd |-> "serial", last |-> 0]
  PROVE  Obey(u) = u
BY DEF Obey

\* The end of a scan: EXIT1_DR, UPDATE_DR, RUN_TEST/IDLE.
LEMMA ScanEnds ==
  ASSUME NEW h, IsHw(h), h.tap = "shiftDR", h.ir = "DEBUG"
  PROVE  \E u :
         /\ IsHw(u) /\ u.tap = "updateDR" /\ u.ir = "DEBUG" /\ u.sr = h.sr /\ u.burst = h.burst /\ SameUnit(u, h)
         /\ LET o == Obey(u)
                g == tap_exit_to_idle(Clock(h, 1))
            IN  IsHw(o) /\ o.tap = "updateDR" => 
                  IsHw(g) /\ g.tap = "idle" /\ g.ir = o.ir /\ g.burst = o.burst /\ SameUnit(g, o)
<1> DEFINE a == Clock(h, 1)
           u == [a EXCEPT !.tap = "updateDR"]
           o == Clock(a, 1)
           g == Clock(o, 0)
<1>1. IsHw(a) /\ a.tap = "exit1DR" /\ a.ir = "DEBUG" /\ a.sr = h.sr /\ a.burst = h.burst /\ SameUnit(a, h)
      BY TapMoves, ClockMoves
<1> HIDE DEF a
<1>2. o = Obey(u)
      BY <1>1, TapMoves, ClockObeys
<1>3. IsHw(u) /\ u.tap = "updateDR" /\ u.ir = "DEBUG" /\ u.sr = h.sr /\ u.burst = h.burst /\ SameUnit(u, h)
      BY <1>1 DEF IsHw, HwFields, SameUnit
<1> HIDE DEF u, o
<1>4. ASSUME IsHw(o), o.tap = "updateDR"
      PROVE  IsHw(g) /\ g.tap = "idle" /\ g.ir = o.ir /\ g.burst = o.burst /\ SameUnit(g, o)
      BY <1>4, TapMoves, ClockMoves
<1>5. g = tap_exit_to_idle(Clock(h, 1))
      BY DEF a, o, tap_exit_to_idle
<1> HIDE DEF g
<1> QED BY <1>2, <1>3, <1>4, <1>5


\* A scan of the unit at rest: the payload is in the shift register when
\* UPDATE_DR obeys it.
LEMMA ScanObeys ==
  ASSUME NEW h, NEW p, Quiet(h)
  PROVE  \E u :
         /\ IsHw(u) /\ u.tap = "updateDR" /\ u.ir = "DEBUG" /\ u.sr = p /\ SameUnit(u, h)
         /\ u.burst.open = FALSE /\ u.burst.left = 0
         /\ LET o == Obey(u)
                g == Scan(h, p)
            IN  IsHw(o) /\ o.tap = "updateDR" =>
                  IsHw(g) /\ g.tap = "idle" /\ g.ir = o.ir /\ g.burst = o.burst /\ SameUnit(g, o)
<1> DEFINE a == tap_set_shift_dr(h)
           b == Bits(a, p)
<1>1. /\ IsHw(a) /\ a.tap = "shiftDR" /\ a.ir = "DEBUG" /\ SameUnit(a, h)
      /\ a.burst.open = FALSE /\ a.burst.left = 0
  <2>1. (h.burst.left > 0) = FALSE
        BY DEF Quiet
  <2> QED BY <2>1, ShiftDr DEF Quiet
<1> HIDE DEF a
<1>2. b = [a EXCEPT !.sr = p]
      BY <1>1 DEF Bits
<1>3. /\ IsHw(b) /\ b.tap = "shiftDR" /\ b.ir = "DEBUG" /\ SameUnit(b, a) /\ b.sr = p /\ b.burst = a.burst
      BY <1>1, <1>2 DEF IsHw, HwFields, SameUnit
<1>4. Scan(h, p) = tap_exit_to_idle(Clock(b, 1))
      BY DEF Scan, a
<1> HIDE DEF b
<1>5. PICK u :
         /\ IsHw(u) /\ u.tap = "updateDR" /\ u.ir = "DEBUG" /\ u.sr = b.sr /\ u.burst = b.burst /\ SameUnit(u, b)
         /\ LET o == Obey(u)
                g == tap_exit_to_idle(Clock(b, 1))
            IN  IsHw(o) /\ o.tap = "updateDR" =>
                  IsHw(g) /\ g.tap = "idle" /\ g.ir = o.ir /\ g.burst = o.burst /\ SameUnit(g, o)
      BY <1>3, ScanEnds
<1>6. SameUnit(u, h) /\ u.burst.open = FALSE /\ u.burst.left = 0
      BY <1>1, <1>3, <1>5 DEF SameUnit
<1> QED BY <1>3, <1>4, <1>5, <1>6

\* The scans of adv_dbg_commands.c: a module select,
LEMMA ScanSelects ==
  ASSUME NEW h, NEW m, Quiet(h)
  PROVE  LET g == Scan(h, [cmd |-> "select", module |-> m]) IN
         /\ Quiet(g) /\ g.module = m /\ g.lcmd = h.lcmd /\ g.error = h.error /\ g.ctl = h.ctl /\ g.store = h.store
<1> DEFINE p == [cmd |-> "select", module |-> m]
           g == Scan(h, p)
<1>1. PICK u :
         /\ IsHw(u) /\ u.tap = "updateDR" /\ u.ir = "DEBUG" /\ u.sr = p /\ SameUnit(u, h)
         /\ u.burst.open = FALSE /\ u.burst.left = 0
         /\ LET o == Obey(u)
            IN  IsHw(o) /\ o.tap = "updateDR" =>
                  IsHw(g) /\ g.tap = "idle" /\ g.ir = o.ir /\ g.burst = o.burst /\ SameUnit(g, o)
      BY ScanObeys
<1> HIDE DEF g
<1> DEFINE o == Obey(u)
<1>b. IsHw(u) /\ u.burst.open = FALSE /\ u.sr = p
      BY <1>1
<1>2. /\ IsHw(o) /\ o.tap = u.tap /\ o.ir = u.ir /\ o.burst = u.burst
      /\ o.module = m /\ o.lcmd = u.lcmd /\ o.error = u.error /\ o.ctl = u.ctl /\ o.store = u.store
      BY <1>b, ObeySelects
<1> HIDE DEF o
<1>3. IsHw(g) /\ g.tap = "idle" /\ g.ir = o.ir /\ g.burst = o.burst /\ SameUnit(g, o)
      BY <1>1, <1>2 DEF o
<1>4. Quiet(g) /\ g.module = m /\ g.lcmd = h.lcmd /\ g.error = h.error /\ g.ctl = h.ctl /\ g.store = h.store
      BY <1>1, <1>2, <1>3 DEF Quiet, SameUnit
<1> QED BY <1>4 DEF g

\* the announcement of a burst,
Announced(g, h, op, addr, len) ==
  /\ IsHw(g) /\ g.tap = "idle" /\ g.ir = "DEBUG" /\ SameUnit(g, h)
  /\ g.burst.open = FALSE /\ g.burst.op = op /\ g.burst.addr = addr /\ g.burst.left = len

\* A burst command leaves the burst due, to be opened by the next scan.
LEMMA ScanStarts ==
  ASSUME NEW h, NEW op, NEW addr, NEW len \in Nat, Quiet(h), h.module \in Stores, len > 0
  PROVE  Announced(Scan(h, [cmd |-> "burst", op |-> op, addr |-> addr, len |-> len]), h, op, addr, len)
<1> DEFINE p == [cmd |-> "burst", op |-> op, addr |-> addr, len |-> len]
           g == Scan(h, p)
<1>1. PICK u :
         /\ IsHw(u) /\ u.tap = "updateDR" /\ u.ir = "DEBUG" /\ u.sr = p /\ SameUnit(u, h)
         /\ u.burst.open = FALSE /\ u.burst.left = 0
         /\ LET o == Obey(u)
            IN  IsHw(o) /\ o.tap = "updateDR" =>
                  IsHw(g) /\ g.tap = "idle" /\ g.ir = o.ir /\ g.burst = o.burst /\ SameUnit(g, o)
      BY ScanObeys
<1> HIDE DEF g
<1> DEFINE o == Obey(u)
<1>a. u.module \in Stores
      BY <1>1 DEF SameUnit
<1>b. IsHw(u) /\ u.burst.open = FALSE /\ u.sr = p
      BY <1>1
<1>2. /\ IsHw(o) /\ o.tap = u.tap /\ o.ir = u.ir /\ SameUnit(o, u)
      /\ o.burst.open = FALSE /\ o.burst.op = op /\ o.burst.addr = addr /\ o.burst.left = len
  <2>1. o = [u EXCEPT !.burst = [open |-> FALSE, op |-> op, addr |-> addr, left |-> len]]
        BY <1>a, <1>b DEF Obey
  <2> HIDE DEF o
  <2> QED BY <2>1, <1>b DEF IsHw, HwFields, BurstFields, SameUnit
<1> HIDE DEF o
<1>3. IsHw(g) /\ g.tap = "idle" /\ g.ir = o.ir /\ g.burst = o.burst /\ SameUnit(g, o)
      BY <1>1, <1>2 DEF o
<1>4. SameUnit(g, h)
      BY <1>1, <1>2, <1>3 DEF SameUnit
<1> QED BY <1>1, <1>2, <1>3, <1>4 DEF g, Announced

\* a write of the error register,
LEMMA ScanClears ==
  ASSUME NEW h, NEW d, Quiet(h), h.module = "WISHBONE"
  PROVE  LET g == Scan(h, [cmd |-> "regwrite", data |-> d]) IN
         /\ Quiet(g) /\ g.module = h.module /\ g.lcmd = h.lcmd /\ g.error = None /\ g.ctl = h.ctl /\ g.store = h.store
<1> DEFINE p == [cmd |-> "regwrite", data |-> d]
           g == Scan(h, p)
<1>1. PICK u :
         /\ IsHw(u) /\ u.tap = "updateDR" /\ u.ir = "DEBUG" /\ u.sr = p /\ SameUnit(u, h)
         /\ u.burst.open = FALSE /\ u.burst.left = 0
         /\ LET o == Obey(u)
            IN  IsHw(o) /\ o.tap = "updateDR" =>
                  IsHw(g) /\ g.tap = "idle" /\ g.ir = o.ir /\ g.burst = o.burst /\ SameUnit(g, o)
      BY ScanObeys
<1> HIDE DEF g
<1> DEFINE o == Obey(u)
<1>a. u.module = "WISHBONE"
      BY <1>1 DEF SameUnit
<1>b. IsHw(u) /\ u.burst.open = FALSE /\ u.sr = p
      BY <1>1
<1>2. /\ IsHw(o) /\ o.tap = u.tap /\ o.ir = u.ir /\ o.burst = u.burst
      /\ o.module = u.module /\ o.lcmd = u.lcmd /\ o.error = None /\ o.ctl = u.ctl /\ o.store = u.store
      BY <1>a, <1>b, ObeyClears
<1> HIDE DEF o
<1>3. IsHw(g) /\ g.tap = "idle" /\ g.ir = o.ir /\ g.burst = o.burst /\ SameUnit(g, o)
      BY <1>1, <1>2 DEF o
<1>4. Quiet(g) /\ g.module = h.module /\ g.lcmd = h.lcmd /\ g.error = None /\ g.ctl = h.ctl /\ g.store = h.store
      BY <1>1, <1>2, <1>3 DEF Quiet, SameUnit
<1> QED BY <1>4 DEF g

\* of a CPU's status register,
LEMMA ScanControls ==
  ASSUME NEW h, NEW d, Quiet(h), h.module \in Cpus
  PROVE  LET g == Scan(h, [cmd |-> "regwrite", data |-> d]) IN
         /\ Quiet(g) /\ g.module = h.module /\ g.error = h.error /\ g.ctl[h.module] = d /\ g.store = h.store
<1> DEFINE p == [cmd |-> "regwrite", data |-> d]
           g == Scan(h, p)
<1>1. PICK u :
         /\ IsHw(u) /\ u.tap = "updateDR" /\ u.ir = "DEBUG" /\ u.sr = p /\ SameUnit(u, h)
         /\ u.burst.open = FALSE /\ u.burst.left = 0
         /\ LET o == Obey(u)
            IN  IsHw(o) /\ o.tap = "updateDR" =>
                  IsHw(g) /\ g.tap = "idle" /\ g.ir = o.ir /\ g.burst = o.burst /\ SameUnit(g, o)
      BY ScanObeys
<1> HIDE DEF g
<1> DEFINE o == Obey(u)
<1>a. u.module \in Cpus
      BY <1>1 DEF SameUnit
<1>b. IsHw(u) /\ u.burst.open = FALSE /\ u.sr = p
      BY <1>1
<1>2. /\ IsHw(o) /\ o.tap = u.tap /\ o.ir = u.ir /\ o.burst = u.burst
      /\ o.module = u.module /\ o.lcmd = u.lcmd /\ o.error = u.error /\ o.ctl[u.module] = d /\ o.store = u.store
      BY <1>a, <1>b, ObeyControls
<1> HIDE DEF o
<1>3. IsHw(g) /\ g.tap = "idle" /\ g.ir = o.ir /\ g.burst = o.burst /\ SameUnit(g, o)
      BY <1>1, <1>2 DEF o
<1>4. Quiet(g) /\ g.module = h.module /\ g.error = h.error /\ g.ctl[h.module] = d /\ g.store = h.store
      BY <1>1, <1>2, <1>3 DEF Quiet, SameUnit
<1> QED BY <1>4 DEF g

\* and those that change nothing: a register select or read, and a serial
\* transfer whose last bit is the stop bit's zero.
LEMMA ScanKeeps ==
  ASSUME NEW h, NEW p, Quiet(h),
         p.cmd \in {"nop", "regselect"} \/ p = [cmd |-> "serial", last |-> 0]
  PROVE  Quiet(Scan(h, p)) /\ SameUnit(Scan(h, p), h)
<1> DEFINE g == Scan(h, p)
<1>1. PICK u :
         /\ IsHw(u) /\ u.tap = "updateDR" /\ u.ir = "DEBUG" /\ u.sr = p /\ SameUnit(u, h)
         /\ u.burst.open = FALSE /\ u.burst.left = 0
         /\ LET o == Obey(u)
            IN  IsHw(o) /\ o.tap = "updateDR" =>
                  IsHw(g) /\ g.tap = "idle" /\ g.ir = o.ir /\ g.burst = o.burst /\ SameUnit(g, o)
      BY ScanObeys
<1> HIDE DEF g
<1>2. Obey(u) = u
      BY <1>1, ObeyNothing
<1>3. IsHw(g) /\ g.tap = "idle" /\ g.ir = u.ir /\ g.burst = u.burst /\ SameUnit(g, u)
      BY <1>1, <1>2
<1>4. Quiet(g) /\ SameUnit(g, h)
      BY <1>1, <1>3 DEF Quiet, SameUnit
<1> QED BY <1>4 DEF g


\* The end of a burst: the unit is at rest, and nothing but the burst is gone.
LEMMA BurstEnds ==
  ASSUME NEW h, IsHw(h), h.tap = "shiftDR", h.ir = "DEBUG", h.burst.open = TRUE
  PROVE  LET g == tap_exit_to_idle(Clock(Bits(h, Nop), 1)) IN Quiet(g) /\ SameUnit(g, h)
<1> DEFINE b == Bits(h, Nop)
           g == tap_exit_to_idle(Clock(b, 1))
<1>1. b = [h EXCEPT !.sr = Nop]
      BY DEF Bits
<1> HIDE DEF b
<1>2. IsHw(b) /\ b.tap = "shiftDR" /\ b.ir = "DEBUG" /\ SameUnit(b, h) /\ b.burst = h.burst
      BY <1>1 DEF IsHw, HwFields, SameUnit
<1>3. PICK u :
         /\ IsHw(u) /\ u.tap = "updateDR" /\ u.ir = "DEBUG" /\ u.sr = b.sr /\ u.burst = b.burst /\ SameUnit(u, b)
         /\ LET o == Obey(u)
            IN  IsHw(o) /\ o.tap = "updateDR" =>
                  IsHw(g) /\ g.tap = "idle" /\ g.ir = o.ir /\ g.burst = o.burst /\ SameUnit(g, o)
      BY <1>2, ScanEnds
<1> HIDE DEF g
<1> DEFINE o == Obey(u)
<1>4. IsHw(u) /\ u.burst.open = TRUE
      BY <1>2, <1>3
<1>5. IsHw(o) /\ o.tap = u.tap /\ o.ir = u.ir /\ SameUnit(o, u) /\ o.burst.open = FALSE /\ o.burst.left = 0
      BY <1>4, ObeyEnds
<1> HIDE DEF o
<1>6. IsHw(g) /\ g.tap = "idle" /\ g.ir = o.ir /\ g.burst = o.burst /\ SameUnit(g, o)
      BY <1>3, <1>5 DEF o
<1>7. Quiet(g) /\ SameUnit(g, h)
      BY <1>2, <1>3, <1>5, <1>6 DEF Quiet, SameUnit
<1> QED BY <1>7 DEF g, b

\* tap_set_ir from RUN_TEST/IDLE: only the instruction register changes.
LEMMA SetIr ==
  ASSUME NEW h, NEW ir, IsHw(h), h.tap = "idle"
  PROVE  LET g == tap_set_ir(h, ir) IN
         IsHw(g) /\ g.tap = "idle" /\ g.ir = ir /\ SameUnit(g, h) /\ g.burst = h.burst
<1> DEFINE a == Clock(h, 1)
           b == Clock(a, 1)
           c == Clock(b, 0)
           d == Clock(c, 0)
           e == Bits(d, [cmd |-> "ir", ir |-> ir])
           f == Clock(e, 1)
           u == Clock(f, 1)
           g == Clock(u, 0)
<1>1. IsHw(a) /\ a.tap = "selectDR" /\ SameUnit(a, h) /\ a.burst = h.burst
      BY TapMoves, ClockMoves
<1> HIDE DEF a
<1>2. IsHw(b) /\ b.tap = "selectIR" /\ SameUnit(b, a) /\ b.burst = a.burst
  <2>1. TapNext[a.tap][1 + 1] = "selectIR"
    <3>1. a.tap = "selectDR"
          BY <1>1
    <3>2. TapNext["selectDR"][1 + 1] = "selectIR"
          BY TapMoves, ZenonT(60)
    <3> QED BY <3>1, <3>2, Zenon
  <2> QED BY <1>1, <2>1, ClockMoves
<1> HIDE DEF b
<1>3. c = [[b EXCEPT !.tap = "captureIR"] EXCEPT !.irsr = "captured"]
  <2>1. TapNext[b.tap][0 + 1] = "captureIR"
        BY <1>2, TapMoves
  <2> QED BY <2>1, ClockIs DEF ClockStep
<1> HIDE DEF c
<1>4. IsHw(c) /\ c.tap = "captureIR" /\ SameUnit(c, b) /\ c.burst = b.burst
      BY <1>2, <1>3 DEF IsHw, HwFields, SameUnit
<1>5. IsHw(d) /\ d.tap = "shiftIR" /\ SameUnit(d, c) /\ d.burst = c.burst
  <2>1. TapNext[c.tap][0 + 1] = "shiftIR"
        BY <1>4, TapMoves
  <2> QED BY <1>4, <2>1, ClockMoves
<1> HIDE DEF d
<1>6. e = [d EXCEPT !.irsr = ir]
      BY <1>5 DEF Bits
<1> HIDE DEF e
<1>7. IsHw(e) /\ e.tap = "shiftIR" /\ SameUnit(e, d) /\ e.burst = d.burst /\ e.irsr = ir
      BY <1>5, <1>6 DEF IsHw, HwFields, SameUnit
<1>8. IsHw(f) /\ f.tap = "exit1IR" /\ SameUnit(f, e) /\ f.burst = e.burst /\ f.irsr = ir
  <2>1. TapNext[e.tap][1 + 1] = "exit1IR"
    <3>1. e.tap = "shiftIR"
          BY <1>7
    <3>2. TapNext["shiftIR"][1 + 1] = "exit1IR"
          BY TapMoves, ZenonT(60)
    <3> QED BY <3>1, <3>2, Zenon
  <2> QED BY <1>7, <2>1, ClockMoves
<1> HIDE DEF f
<1>9. u = [[f EXCEPT !.tap = "updateIR"] EXCEPT !.ir = f.irsr]
  <2>1. TapNext[f.tap][1 + 1] = "updateIR"
        BY <1>8, TapMoves
  <2> QED BY <2>1, ClockIs DEF ClockStep
<1> HIDE DEF u
<1>10. IsHw(u) /\ u.tap = "updateIR" /\ SameUnit(u, f) /\ u.burst = f.burst /\ u.ir = ir
      BY <1>8, <1>9 DEF IsHw, HwFields, SameUnit
<1>11. IsHw(g) /\ g.tap = "idle" /\ SameUnit(g, u) /\ g.burst = u.burst /\ g.ir = ir
  <2>1. TapNext[u.tap][0 + 1] = "idle"
        BY <1>10, TapMoves
  <2> QED BY <1>10, <2>1, ClockMoves
<1>12. g = tap_set_ir(h, ir)
      BY DEF a, b, c, d, e, f, u, tap_set_ir, tap_exit_to_idle
<1> HIDE DEF g
<1>13. SameUnit(g, h) /\ g.burst = h.burst
      BY <1>1, <1>2, <1>4, <1>5, <1>7, <1>8, <1>10, <1>11 DEF SameUnit
<1> QED BY <1>11, <1>12, <1>13

\* Whatever is obeyed, the TAP does not move and no word is written.
LEMMA ObeyKeeps ==
  ASSUME NEW u, IsHw(u)
  PROVE  LET o == Obey(u) IN IsHw(o) /\ o.tap = u.tap /\ o.store = u.store /\ o.lcmd = u.lcmd
<1> DEFINE o == Obey(u)
<1>1. CASE o = [u EXCEPT !.burst = NoBurst]
      BY <1>1 DEF IsHw, HwFields, BurstFields, NoBurst
<1>2. CASE o = [u EXCEPT !.module = u.sr.module] \/ o = [u EXCEPT !.module = "WISHBONE"]
      BY <1>2 DEF IsHw, HwFields
<1>3. CASE o = [u EXCEPT !.burst = [open |-> FALSE, op |-> u.sr.op, addr |-> u.sr.addr, left |-> u.sr.len]]
      BY <1>3 DEF IsHw, HwFields, BurstFields
<1>4. CASE o = [u EXCEPT !.error = None] \/ o = u
      BY <1>4 DEF IsHw, HwFields
<1>5. CASE o = [u EXCEPT !.ctl[u.module] = u.sr.data]
  <2> HIDE DEF o
  <2>1. o.ctl = [u.ctl EXCEPT ![u.module] = u.sr.data]
        BY <1>5 DEF IsHw, HwFields
  <2> QED BY <1>5, <2>1 DEF IsHw, HwFields, o
<1> QED BY <1>1, <1>2, <1>3, <1>4, <1>5 DEF Obey

\* A clock moves the TAP as its table says and writes no word; TEST_LOGIC_RESET
\* resets the unit.
LEMMA ClockAny ==
  ASSUME NEW h, NEW tms, IsHw(h)
  PROVE  LET g == Clock(h, tms) IN
         /\ IsHw(g) /\ g.tap = TapNext[h.tap][tms + 1] /\ g.store = h.store /\ g.lcmd = h.lcmd
         /\ g.tap = "reset" => g.module = "WISHBONE" /\ g.burst = NoBurst /\ g.error = None
<1> DEFINE t == TapNext[h.tap][tms + 1]
           k == [h EXCEPT !.tap = t]
           g == ClockStep(h, tms)
<1>1. IsHw(k) /\ k.tap = t /\ k.store = h.store /\ k.lcmd = h.lcmd
      BY DEF IsHw, HwFields
<1>2. CASE t = "reset"
  <2> DEFINE c == [m \in DOMAIN k.ctl |-> 0]
  <2>1. g = [k EXCEPT !.ir = "IDCODE", !.module = "WISHBONE", !.burst = NoBurst, !.error = None, !.ctl = c]
        BY <1>2 DEF ClockStep
  <2>2. DOMAIN c = Cpus
        BY <1>1 DEF IsHw
  <2> HIDE DEF k, g, c
  <2> QED BY <1>1, <1>2, <2>1, <2>2, ClockIs DEF IsHw, HwFields, BurstFields, NoBurst, g
<1>3. CASE t = "captureIR"
  <2>1. g = [k EXCEPT !.irsr = "captured"]
        BY <1>3 DEF ClockStep
  <2> HIDE DEF k, g
  <2> QED BY <1>1, <1>3, <2>1, ClockIs DEF IsHw, HwFields, g
<1>4. CASE t = "updateIR"
  <2>1. g = [k EXCEPT !.ir = h.irsr]
        BY <1>4 DEF ClockStep
  <2> HIDE DEF k, g
  <2> QED BY <1>1, <1>4, <2>1, ClockIs DEF IsHw, HwFields, g
<1>5. CASE t = "captureDR" /\ h.ir = "DEBUG"
  <2> HIDE DEF g
  <2>1. Clock(h, tms) = g
        BY ClockIs DEF g
  <2>2. g.store = h.store /\ g.lcmd = h.lcmd /\ g.tap = t /\ IsHw(g)
        BY <1>5, <2>1, ClockCaptures DEF SameUnit
  <2> QED BY <1>5, <2>1, <2>2
<1>6. CASE t = "updateDR" /\ h.ir = "DEBUG"
  <2>1. g = Obey(k)
        BY <1>6 DEF ClockStep
  <2> HIDE DEF k, g
  <2> QED BY <1>1, <1>6, <2>1, ObeyKeeps, ClockIs DEF g
<1>7. CASE /\ t \notin {"reset", "captureIR", "updateIR"}
           /\ ~(t \in {"captureDR", "updateDR"} /\ h.ir = "DEBUG")
  <2>1. g = k
        BY <1>7 DEF ClockStep
  <2> HIDE DEF k, g
  <2> QED BY <1>1, <1>7, <2>1, ClockIs DEF g
<1> QED BY <1>2, <1>3, <1>4, <1>5, <1>6, <1>7


\* The states of the TAP by how many ones lead to TEST_LOGIC_RESET.
Ones1 == {"reset", "selectIR"}
Ones2 == Ones1 \cup {"selectDR"}
Ones3 == Ones2 \cup {"idle", "updateDR", "updateIR"}
Ones4 == Ones3 \cup {"exit1DR", "exit2DR", "exit1IR", "exit2IR"}

\* Five ones lead to TEST_LOGIC_RESET from every state of the TAP.
LEMMA OnesReset ==
  /\ \A x \in DOMAIN TapNext : TapNext[x][0 + 1] \in DOMAIN TapNext /\ TapNext[x][1 + 1] \in Ones4
  /\ \A x \in Ones4 : TapNext[x][1 + 1] \in Ones3
  /\ \A x \in Ones3 : TapNext[x][1 + 1] \in Ones2
  /\ \A x \in Ones2 : TapNext[x][1 + 1] \in Ones1
  /\ \A x \in Ones1 : TapNext[x][1 + 1] = "reset"
BY DEF TapNext, Ones1, Ones2, Ones3, Ones4

\* tap_reset and tap_enable_debug_module from any state of the TAP.
LEMMA ResetUnit ==
  ASSUME NEW h, IsHw(h), h.tap \in DOMAIN TapNext
  PROVE  LET g == tap_enable_debug_module(tap_reset(h)) IN
         /\ Quiet(g) /\ g.module = "WISHBONE" /\ g.error = None /\ g.store = h.store /\ g.lcmd = h.lcmd
<1> DEFINE z == Clock(h, 0)
           a == Clock(z, 1)
           b == Clock(a, 1)
           c == Clock(b, 1)
           d == Clock(c, 1)
           e == Clock(d, 1)
           f == Clock(e, 1)
           k == Clock(f, 1)
           l == Clock(k, 1)
           m == Clock(l, 0)
<1>1. IsHw(z) /\ z.tap \in DOMAIN TapNext /\ z.store = h.store /\ z.lcmd = h.lcmd
      BY ClockAny, OnesReset
<1> HIDE DEF z
<1>2. IsHw(a) /\ a.tap \in Ones4 /\ a.store = h.store /\ a.lcmd = h.lcmd
      BY <1>1, ClockAny, OnesReset
<1> HIDE DEF a
<1>3. IsHw(b) /\ b.tap \in Ones3 /\ b.store = h.store /\ b.lcmd = h.lcmd
      BY <1>2, ClockAny, OnesReset
<1> HIDE DEF b
<1>4. IsHw(c) /\ c.tap \in Ones2 /\ c.store = h.store /\ c.lcmd = h.lcmd
      BY <1>3, ClockAny, OnesReset
<1> HIDE DEF c
<1>5. IsHw(d) /\ d.tap \in Ones1 /\ d.store = h.store /\ d.lcmd = h.lcmd
      BY <1>4, ClockAny, OnesReset
<1> HIDE DEF d
<1>6. IsHw(e) /\ e.tap \in Ones1 /\ e.store = h.store /\ e.lcmd = h.lcmd
      BY <1>5, ClockAny, OnesReset DEF Ones1
<1> HIDE DEF e
<1>7. IsHw(f) /\ f.tap \in Ones1 /\ f.store = h.store /\ f.lcmd = h.lcmd
      BY <1>6, ClockAny, OnesReset DEF Ones1
<1> HIDE DEF f
<1>8. IsHw(k) /\ k.tap \in Ones1 /\ k.store = h.store /\ k.lcmd = h.lcmd
      BY <1>7, ClockAny, OnesReset DEF Ones1
<1> HIDE DEF k
<1>9. /\ IsHw(l) /\ l.tap = "reset" /\ l.store = h.store /\ l.lcmd = h.lcmd
      /\ l.module = "WISHBONE" /\ l.burst = NoBurst /\ l.error = None
      BY <1>8, ClockAny, OnesReset
<1> HIDE DEF l
<1>10. IsHw(m) /\ m.tap = "idle" /\ SameUnit(m, l) /\ m.burst = l.burst
      BY <1>9, TapMoves, ClockMoves
<1>11. m = tap_reset(h)
      BY DEF z, a, b, c, d, e, f, k, l, tap_reset, FourOnes
<1> HIDE DEF m
<1> DEFINE g == tap_set_ir(m, "DEBUG")
<1>12. IsHw(g) /\ g.tap = "idle" /\ g.ir = "DEBUG" /\ SameUnit(g, m) /\ g.burst = m.burst
      BY <1>10, SetIr
<1>13. g = tap_enable_debug_module(tap_reset(h))
      BY <1>11 DEF tap_enable_debug_module
<1> HIDE DEF g
<1>14. Quiet(g) /\ g.module = "WISHBONE" /\ g.error = None /\ g.store = h.store /\ g.lcmd = h.lcmd
      BY <1>9, <1>10, <1>12 DEF Quiet, SameUnit, NoBurst
<1> QED BY <1>13, <1>14

\* Back to DEBUG through BYPASS: nothing but the instruction register moved.
LEMMA KludgeKeeps ==
  ASSUME NEW h, IsHw(h), h.tap = "idle"
  PROVE  LET g == tap_enable_debug_module(tap_set_ir(h, "BYPASS")) IN
         IsHw(g) /\ g.tap = "idle" /\ g.ir = "DEBUG" /\ SameUnit(g, h) /\ g.burst = h.burst
<1> DEFINE a == tap_set_ir(h, "BYPASS")
           g == tap_set_ir(a, "DEBUG")
<1>1. IsHw(a) /\ a.tap = "idle" /\ SameUnit(a, h) /\ a.burst = h.burst
      BY SetIr
<1> HIDE DEF a
<1>2. IsHw(g) /\ g.tap = "idle" /\ g.ir = "DEBUG" /\ SameUnit(g, a) /\ g.burst = a.burst
      BY <1>1, SetIr
<1>3. g = tap_enable_debug_module(tap_set_ir(h, "BYPASS"))
      BY DEF a, tap_enable_debug_module
<1> HIDE DEF g
<1> QED BY <1>1, <1>2, <1>3 DEF SameUnit

-----------------------------------------------------------------------------
(* A scan the cable fails in: whatever part of it reached the unit, the unit *)
(* stays within its types and no word of the target is written.              *)

\* The states of a scan of data, in which UPDATE_DR will obey the shift register.
DrColumn == {"captureDR", "shiftDR", "exit1DR", "pauseDR", "exit2DR"}
Names(p) == p.cmd = "select" => p.module \in Modules

Sound(h) ==
  /\ IsHw(h) /\ h.tap \in DOMAIN TapNext /\ h.module \in Modules /\ h.error \in Addrs \cup {None}
  /\ h.ir = "DEBUG" /\ h.tap \in DrColumn => h.burst.open = TRUE \/ Names(h.sr)

\* The data column of the TAP is entered through CAPTURE_DR only, and UPDATE_DR
\* from within it only.
LEMMA TapColumns ==
  ASSUME NEW x \in DOMAIN TapNext, NEW b \in {0, 1}, NEW t, t = TapNext[x][b + 1]
  PROVE  /\ t \in DOMAIN TapNext
         /\ t \in DrColumn => t = "captureDR" \/ x \in DrColumn
         /\ t = "updateDR" => x \in DrColumn
<1>1. CASE b = 0
      BY <1>1, SMTT(60) DEF TapNext, DrColumn
<1>2. CASE b = 1
      BY <1>2, SMTT(60) DEF TapNext, DrColumn
<1> QED BY <1>1, <1>2

\* What UPDATE_DR obeys keeps the unit within its types.
LEMMA ObeySound ==
  ASSUME NEW u, IsHw(u), u.tap = "updateDR", u.module \in Modules, u.error \in Addrs \cup {None},
         u.burst.open = TRUE \/ Names(u.sr)
  PROVE  Sound(Obey(u)) /\ Obey(u).store = u.store
<1> DEFINE o == Obey(u)
<1>0. IsHw(o) /\ o.tap = "updateDR" /\ o.store = u.store
      BY ObeyKeeps
<1>1. o.module \in Modules /\ o.error \in Addrs \cup {None}
  <2>1. CASE u.burst.open = TRUE
        BY <2>1, ObeyEnds DEF SameUnit
  <2>2. CASE u.burst.open # TRUE
    <3>1. CASE o = [u EXCEPT !.burst = NoBurst] \/ o = u
          BY <3>1 DEF IsHw, HwFields
    <3>2. CASE u.sr.cmd = "select" /\ o = [u EXCEPT !.module = u.sr.module]
          BY <2>2, <3>2 DEF IsHw, HwFields, Names
    <3>3. CASE o = [u EXCEPT !.module = "WISHBONE"]
          BY <3>3 DEF IsHw, HwFields, Modules
    <3>4. CASE o = [u EXCEPT !.burst = [open |-> FALSE, op |-> u.sr.op, addr |-> u.sr.addr, left |-> u.sr.len]]
          BY <3>4 DEF IsHw, HwFields
    <3>5. CASE o = [u EXCEPT !.error = None]
          BY <3>5 DEF IsHw, HwFields
    <3>6. CASE o = [u EXCEPT !.ctl[u.module] = u.sr.data]
          BY <3>6 DEF IsHw, HwFields
    <3> QED BY <3>1, <3>2, <3>3, <3>4, <3>5, <3>6 DEF Obey
  <2> QED BY <2>1, <2>2
<1> QED BY <1>0, <1>1, TapMoves DEF Sound, DrColumn

\* So does every clock.
LEMMA SoundClock ==
  ASSUME NEW h, NEW tms \in {0, 1}, Sound(h)
  PROVE  Sound(Clock(h, tms)) /\ Clock(h, tms).store = h.store
<1> DEFINE t == TapNext[h.tap][tms + 1]
           k == [h EXCEPT !.tap = t]
           g == ClockStep(h, tms)
<1>0. IsHw(h) /\ h.tap \in DOMAIN TapNext /\ h.module \in Modules /\ h.error \in Addrs \cup {None}
      BY DEF Sound
<1>t. /\ t \in DOMAIN TapNext
      /\ t \in DrColumn => t = "captureDR" \/ h.tap \in DrColumn
      /\ t = "updateDR" => h.tap \in DrColumn
      BY <1>0, TapColumns
<1>c. Clock(h, tms) = g
      BY ClockIs
<1>s. IsHw(g) /\ g.tap = t /\ g.store = h.store
      BY <1>0, <1>c, ClockAny
<1> HIDE DEF t
<1>1. IsHw(k) /\ k.tap = t /\ SameUnit(k, h) /\ k.ir = h.ir /\ k.sr = h.sr /\ k.burst = h.burst
      BY <1>0 DEF IsHw, HwFields, SameUnit
<1>2. CASE t = "reset"
  <2>1. g.module = "WISHBONE" /\ g.error = None
        BY <1>0, <1>2, <1>c, <1>s, ClockAny
  <2> QED BY <1>2, <1>c, <1>s, <1>t, <2>1 DEF Sound, DrColumn, Modules
<1>3. CASE t = "captureIR"
  <2>1. g = [k EXCEPT !.irsr = "captured"]
        BY <1>3 DEF ClockStep, t
  <2>2. g.module = h.module /\ g.error = h.error
        BY <1>1, <2>1 DEF IsHw, HwFields, SameUnit
  <2> QED BY <1>0, <1>3, <1>c, <1>s, <1>t, <2>2 DEF Sound, DrColumn
<1>4. CASE t = "updateIR"
  <2>1. g = [k EXCEPT !.ir = h.irsr]
        BY <1>4 DEF ClockStep, t
  <2>2. g.module = h.module /\ g.error = h.error
        BY <1>1, <2>1 DEF IsHw, HwFields, SameUnit
  <2> QED BY <1>0, <1>4, <1>c, <1>s, <1>t, <2>2 DEF Sound, DrColumn
<1>5. CASE t = "captureDR" /\ h.ir = "DEBUG"
  <2>1. g.module = h.module /\ g.error = h.error /\ g.sr = Nop
        BY <1>0, <1>5, <1>c, ClockCaptures DEF SameUnit, t
  <2>2. Names(g.sr)
        BY <2>1 DEF Names, Nop
  <2> QED BY <1>0, <1>c, <1>s, <1>t, <2>1, <2>2 DEF Sound
<1>6. CASE t = "updateDR" /\ h.ir = "DEBUG"
  <2>1. g = Obey(k)
        BY <1>6 DEF ClockStep, t
  <2>2. k.burst.open = TRUE \/ Names(k.sr)
        BY <1>1, <1>6, <1>t DEF Sound
  <2> HIDE DEF k, g
  <2> QED BY <1>0, <1>1, <1>6, <1>c, <2>1, <2>2, ObeySound DEF SameUnit
<1>7. CASE /\ t \notin {"reset", "captureIR", "updateIR"}
           /\ ~(t \in {"captureDR", "updateDR"} /\ h.ir = "DEBUG")
  <2>1. g = k
        BY <1>7 DEF ClockStep, t
  <2>2. h.ir = "DEBUG" /\ t \in DrColumn => h.tap \in DrColumn
        BY <1>7, <1>t
  <2> HIDE DEF k, g
  <2> QED BY <1>0, <1>1, <1>c, <1>s, <1>t, <2>1, <2>2 DEF Sound, SameUnit
<1> QED BY <1>2, <1>3, <1>4, <1>5, <1>6, <1>7

\* The units a torn scan may leave behind.
SoundSet(hs, st) == \A h \in hs : Sound(h) /\ h.store = st

\* A payload shifted in keeps the unit within its types.
LEMMA SoundBits ==
  ASSUME NEW h, NEW p, Sound(h), Names(p)
  PROVE  Sound(Bits(h, p)) /\ Bits(h, p).store = h.store
<1> DEFINE g == Bits(h, p)
<1>0. IsHw(h) /\ h.tap \in DOMAIN TapNext /\ h.module \in Modules /\ h.error \in Addrs \cup {None}
      BY DEF Sound
<1>1. CASE g = [h EXCEPT !.sr = p]
  <2> HIDE DEF g
  <2>1. /\ IsHw(g) /\ g.tap = h.tap /\ g.module = h.module /\ g.error = h.error /\ g.store = h.store
        /\ g.sr = p /\ g.burst = h.burst
        BY <1>0, <1>1 DEF IsHw, HwFields
  <2> QED BY <1>0, <2>1 DEF Sound, g
<1>2. CASE h.tap = "shiftIR" /\ g = [h EXCEPT !.irsr = IF p.cmd = "ir" THEN p.ir ELSE "captured"]
  <2> HIDE DEF g
  <2>1. /\ IsHw(g) /\ g.tap = "shiftIR" /\ g.module = h.module /\ g.error = h.error /\ g.store = h.store
        BY <1>0, <1>2 DEF IsHw, HwFields
  <2> QED BY <1>0, <2>1, TapMoves DEF Sound, DrColumn, g
<1>3. CASE g = h
      BY <1>3
<1> QED BY <1>1, <1>2, <1>3 DEF Bits

\* A clock that may be lost, and the torn shifts and scans made of them.
LEMMA MaybeSound ==
  ASSUME NEW hs, NEW st, NEW tms \in {0, 1}, SoundSet(hs, st)
  PROVE  SoundSet(Maybe(hs, tms), st)
BY SoundClock DEF Maybe, SoundSet

\* The clocks to SHIFT_DR, some of which are lost.
LEMMA TornShiftSound ==
  ASSUME NEW h, Sound(h)
  PROVE  SoundSet(TornShift(h), h.store)
<1> DEFINE a == Maybe({h}, 1)
           b == Maybe(a, 0)
<1>1. SoundSet({h}, h.store)
      BY DEF SoundSet
<1>2. SoundSet(a, h.store)
      BY <1>1, MaybeSound
<1> HIDE DEF a
<1>3. SoundSet(b, h.store)
      BY <1>2, MaybeSound
<1> HIDE DEF b
<1>4. SoundSet(Maybe(b, 0), h.store)
      BY <1>3, MaybeSound
<1> QED BY <1>4 DEF TornShift, a, b

\* The bits and the clocks that end a scan.
LEMMA TornEndSound ==
  ASSUME NEW hs, NEW st, NEW p, SoundSet(hs, st), Names(p)
  PROVE  SoundSet(TornEnd(hs, p), st)
<1> DEFINE a == UNION { {h, Bits(h, p), Clock(Bits(h, p), 1)} : h \in hs }
           b == Maybe(a, 1)
<1>1. SoundSet(a, st)
  <2>1. ASSUME NEW h \in hs
        PROVE  /\ Sound(h) /\ h.store = st /\ Sound(Bits(h, p)) /\ Bits(h, p).store = st
               /\ Sound(Clock(Bits(h, p), 1)) /\ Clock(Bits(h, p), 1).store = st
    <3>1. Sound(h) /\ h.store = st
          BY DEF SoundSet
    <3>2. Sound(Bits(h, p)) /\ Bits(h, p).store = st
          BY <3>1, SoundBits
    <3> QED BY <3>1, <3>2, SoundClock
  <2> QED BY <2>1 DEF SoundSet
<1> HIDE DEF a
<1>2. SoundSet(b, st)
      BY <1>1, MaybeSound
<1> HIDE DEF b
<1>3. SoundSet(Maybe(b, 0), st)
      BY <1>2, MaybeSound
<1> QED BY <1>3 DEF TornEnd, a, b

\* A whole scan.
LEMMA ScanTornSound ==
  ASSUME NEW h, NEW p, Sound(h), Names(p)
  PROVE  SoundSet(ScanTorn(h, p), h.store)
BY TornShiftSound, TornEndSound DEF ScanTorn

\* The same, of a scan that is not torn but sent to a unit in any state.
LEMMA SoundScan ==
  ASSUME NEW h, NEW p, Sound(h), Names(p)
  PROVE  Sound(Scan(h, p)) /\ Scan(h, p).store = h.store
<1> DEFINE a == Clock(h, 1)
           b == Clock(a, 0)
           c == Clock(b, 0)
           d == Bits(c, p)
           e == Clock(d, 1)
           f == Clock(e, 1)
           g == Clock(f, 0)
<1>1. Sound(a) /\ a.store = h.store
      BY SoundClock
<1> HIDE DEF a
<1>2. Sound(b) /\ b.store = h.store
      BY <1>1, SoundClock
<1> HIDE DEF b
<1>3. Sound(c) /\ c.store = h.store
      BY <1>2, SoundClock
<1> HIDE DEF c
<1>4. Sound(d) /\ d.store = h.store
      BY <1>3, SoundBits
<1> HIDE DEF d
<1>5. Sound(e) /\ e.store = h.store
      BY <1>4, SoundClock
<1> HIDE DEF e
<1>6. Sound(f) /\ f.store = h.store
      BY <1>5, SoundClock
<1> HIDE DEF f
<1>7. Sound(g) /\ g.store = h.store
      BY <1>6, SoundClock
<1>8. g = Scan(h, p)
      BY DEF a, b, c, d, e, f, Scan, tap_set_shift_dr, tap_exit_to_idle
<1> QED BY <1>7, <1>8

\* A unit at rest, or in an open burst, is such a unit.
LEMMA QuietIsSound ==
  ASSUME NEW h, Quiet(h), h.module \in Modules, h.error \in Addrs \cup {None}
  PROVE  Sound(h)
BY TapMoves DEF Quiet, Sound, DrColumn


-----------------------------------------------------------------------------
(***************************************************************************)
(* The functions of adv_dbg_commands.c that send one scan.                 *)
(***************************************************************************)
SelFields == {"current_chain", "desired_chain", "current_reg_idx", "soft_retry_no"}
IsPair(s) == DOMAIN s = {"hw", "sel"} /\ DOMAIN s.sel = SelFields

\* What is cached of the selection is what the unit has selected.
Known(h, c) == c.current_chain # NoChain => h.module = c.current_chain /\ c.desired_chain = c.current_chain

\* A module known to be selected is not selected again; any other one is.
LEMMA SelectModule ==
  ASSUME NEW s, NEW chain \in Modules, IsPair(s), Quiet(s.hw), Known(s.hw, s.sel)
  PROVE  LET t == adbg_select_module(s, chain) IN
         /\ IsPair(t) /\ Quiet(t.hw) /\ Known(t.hw, t.sel)
         /\ t.hw.module = chain /\ t.sel.current_chain = chain /\ t.sel.desired_chain = chain
         /\ t.sel.soft_retry_no = s.sel.soft_retry_no
         /\ t.hw.lcmd = s.hw.lcmd /\ t.hw.error = s.hw.error /\ t.hw.ctl = s.hw.ctl /\ t.hw.store = s.hw.store
<1> DEFINE t == adbg_select_module(s, chain)
<1>0. chain # NoChain
      BY DEF Modules, NoChain
<1>1. CASE s.sel.current_chain = chain
  <2>1. t = s
        BY <1>1 DEF adbg_select_module
  <2> QED BY <1>0, <1>1, <2>1 DEF Known
<1>2. CASE s.sel.current_chain # chain
  <2> DEFINE g == Scan(s.hw, [cmd |-> "select", module |-> chain])
             c == [s.sel EXCEPT !.current_chain = chain, !.desired_chain = chain]
  <2>1. t = [hw |-> g, sel |-> c]
        BY <1>2 DEF adbg_select_module
  <2>2. /\ Quiet(g) /\ g.module = chain /\ g.lcmd = s.hw.lcmd /\ g.error = s.hw.error /\ g.ctl = s.hw.ctl
        /\ g.store = s.hw.store
        BY ScanSelects
  <2>3. /\ DOMAIN c = SelFields /\ c.current_chain = chain /\ c.desired_chain = chain
        /\ c.soft_retry_no = s.sel.soft_retry_no
        BY DEF IsPair, SelFields
  <2> HIDE DEF t, g, c
  <2>4. t.hw = g /\ t.sel = c /\ DOMAIN t = {"hw", "sel"}
        BY <2>1
  <2> QED BY <2>2, <2>3, <2>4 DEF Known, IsPair, t
<1> QED BY <1>1, <1>2

\* retry_ok touches nothing but the count.
LEMMA RetryOk ==
  ASSUME NEW s, IsPair(s)
  PROVE  LET t == retry_ok(s) IN
         /\ IsPair(t) /\ t.hw = s.hw /\ t.sel.soft_retry_no = 0
         /\ t.sel.current_chain = s.sel.current_chain /\ t.sel.desired_chain = s.sel.desired_chain
<1> DEFINE t == retry_ok(s)
<1>1. t = [s EXCEPT !.sel = [s.sel EXCEPT !.soft_retry_no = 0]]
      BY DEF retry_ok
<1> HIDE DEF t
<1>2. DOMAIN t = {"hw", "sel"} /\ t.hw = s.hw /\ t.sel = [s.sel EXCEPT !.soft_retry_no = 0]
      BY <1>1 DEF IsPair
<1> QED BY <1>2 DEF IsPair, SelFields, t

\* A burst is announced to the desired module.
BurstDue(t, s, op, addr, len) ==
  /\ IsPair(t) /\ IsHw(t.hw) /\ t.hw.tap = "idle" /\ t.hw.ir = "DEBUG"
  /\ t.hw.module = s.sel.desired_chain /\ t.sel.current_chain = s.sel.desired_chain
  /\ t.sel.desired_chain = s.sel.desired_chain /\ t.sel.soft_retry_no = 0
  /\ t.hw.lcmd = s.hw.lcmd /\ t.hw.error = s.hw.error /\ t.hw.ctl = s.hw.ctl /\ t.hw.store = s.hw.store
  /\ t.hw.burst.open = FALSE /\ t.hw.burst.op = op /\ t.hw.burst.addr = addr /\ t.hw.burst.left = len

\* adbg_burst_command selects the module if need be and announces the burst.
LEMMA BurstCommand ==
  ASSUME NEW s, NEW op, NEW addr, NEW len \in Nat, 0 < len, len < 65536,
         IsPair(s), Quiet(s.hw), Known(s.hw, s.sel), s.sel.desired_chain \in Stores
  PROVE  BurstDue(adbg_burst_command(s, op, addr, len), s, op, addr, len)
<1> DEFINE m == s.sel.desired_chain
           n == len % 65536
           a == adbg_select_module(s, m)
           g == Scan(a.hw, [cmd |-> "burst", op |-> op, addr |-> addr, len |-> n])
           b == [a EXCEPT !.hw = g]
           t == retry_ok(b)
<1>1. t = adbg_burst_command(s, op, addr, len)
      BY DEF adbg_burst_command, BurstBits
<1>2. m \in Modules /\ m \in Stores
      BY DEF Stores, Modules
<1>3. /\ IsPair(a) /\ Quiet(a.hw) /\ a.hw.module = m /\ a.sel.current_chain = m /\ a.sel.desired_chain = m
      /\ a.hw.lcmd = s.hw.lcmd /\ a.hw.error = s.hw.error /\ a.hw.ctl = s.hw.ctl /\ a.hw.store = s.hw.store
      BY <1>2, SelectModule
<1> HIDE DEF n, a
<1>4. n = len /\ n \in Nat /\ n > 0
      BY DEF n
<1>5. Announced(g, a.hw, op, addr, n)
  <2>1. Quiet(a.hw) /\ a.hw.module \in Stores /\ n \in Nat /\ n > 0
        BY <1>2, <1>3, <1>4
  <2> HIDE DEF m
  <2> QED BY <2>1, ScanStarts
<1> HIDE DEF g
<1>6. IsPair(b) /\ b.hw = g /\ b.sel = a.sel
      BY <1>3 DEF IsPair
<1> HIDE DEF b
<1>7. /\ IsPair(t) /\ t.hw = b.hw /\ t.sel.soft_retry_no = 0
      /\ t.sel.current_chain = b.sel.current_chain /\ t.sel.desired_chain = b.sel.desired_chain
      BY <1>6, RetryOk
<1> HIDE DEF t
<1> QED BY <1>1, <1>3, <1>4, <1>5, <1>6, <1>7 DEF SameUnit, Announced, BurstDue

\* A register of the desired module is read.
LEMMA CtrlRead ==
  ASSUME NEW s, IsPair(s), Quiet(s.hw), Known(s.hw, s.sel), s.sel.desired_chain \in Modules
  PROVE  LET t == adbg_ctrl_read(s)
             m == s.sel.desired_chain
         IN
         /\ IsPair(t) /\ Quiet(t.hw) /\ Known(t.hw, t.sel)
         /\ t.hw.module = m /\ t.sel.current_chain = m /\ t.sel.desired_chain = m
         /\ t.sel.soft_retry_no = 0
         /\ t.hw.lcmd = s.hw.lcmd /\ t.hw.error = s.hw.error /\ t.hw.ctl = s.hw.ctl /\ t.hw.store = s.hw.store
<1> DEFINE m == s.sel.desired_chain
           a == adbg_select_module(s, m)
           q == adbg_select_ctrl_reg(s)
           g == Scan(q.hw, Nop)
           b == [q EXCEPT !.hw = g]
           t == retry_ok(b)
<1>1. t = adbg_ctrl_read(s)
      BY DEF adbg_ctrl_read
<1>2. /\ IsPair(a) /\ Quiet(a.hw) /\ a.hw.module = m /\ a.sel.current_chain = m /\ a.sel.desired_chain = m
      /\ a.hw.lcmd = s.hw.lcmd /\ a.hw.error = s.hw.error /\ a.hw.ctl = s.hw.ctl /\ a.hw.store = s.hw.store
      BY SelectModule
<1>3. /\ IsPair(q) /\ Quiet(q.hw) /\ SameUnit(q.hw, a.hw)
      /\ q.sel.current_chain = m /\ q.sel.desired_chain = m
  <2>1. CASE m \in a.sel.current_reg_idx
    <3>1. q = a
          BY <1>2, <2>1 DEF adbg_select_ctrl_reg
    <3> HIDE DEF q, a
    <3> QED BY <3>1, <1>2 DEF SameUnit
  <2>2. CASE ~(m \in a.sel.current_reg_idx)
    <3> DEFINE r == Scan(a.hw, [cmd |-> "regselect"])
               c == [a.sel EXCEPT !.current_reg_idx = a.sel.current_reg_idx \cup {m}]
               d == [a EXCEPT !.hw = r, !.sel = c]
    <3>1. q = retry_ok(d)
          BY <1>2, <2>2 DEF adbg_select_ctrl_reg, IsPair
    <3> HIDE DEF q, a
    <3>2. Quiet(r) /\ SameUnit(r, a.hw)
          BY <1>2, ScanKeeps
    <3>3. DOMAIN c = SelFields /\ c.current_chain = m /\ c.desired_chain = m
          BY <1>2 DEF IsPair, SelFields
    <3> HIDE DEF r, c
    <3>4. IsPair(d) /\ d.hw = r /\ d.sel = c
          BY <1>2, <3>3 DEF IsPair
    <3> HIDE DEF d
    <3> QED BY <3>1, <3>2, <3>3, <3>4, RetryOk
  <2> QED BY <2>1, <2>2
<1> HIDE DEF q, a
<1>4. Quiet(g) /\ SameUnit(g, q.hw)
      BY <1>3, ScanKeeps DEF Nop
<1> HIDE DEF g
<1>5. IsPair(b) /\ b.hw = g /\ b.sel = q.sel
      BY <1>3 DEF IsPair
<1> HIDE DEF b
<1>6. /\ IsPair(t) /\ t.hw = b.hw /\ t.sel.soft_retry_no = 0
      /\ t.sel.current_chain = b.sel.current_chain /\ t.sel.desired_chain = b.sel.desired_chain
      BY <1>5, RetryOk
<1> HIDE DEF t
<1> QED BY <1>1, <1>2, <1>3, <1>4, <1>5, <1>6 DEF SameUnit, Known

\* A register of the desired module is written: a CPU's status, or the error
\* register of the Wishbone module.
LEMMA CtrlWrite ==
  ASSUME NEW s, NEW data, IsPair(s), Quiet(s.hw), Known(s.hw, s.sel),
         s.sel.desired_chain \in Cpus \cup {"WISHBONE"}
  PROVE  LET t == adbg_ctrl_write(s, data)
             m == s.sel.desired_chain
         IN
         /\ IsPair(t) /\ Quiet(t.hw) /\ Known(t.hw, t.sel)
         /\ t.hw.module = m /\ t.sel.current_chain = m /\ t.sel.desired_chain = m
         /\ t.sel.soft_retry_no = 0 /\ t.hw.store = s.hw.store
         /\ m = "WISHBONE" => t.hw.error = None
         /\ m \in Cpus => t.hw.ctl[m] = data /\ t.hw.error = s.hw.error
<1> DEFINE m == s.sel.desired_chain
           a == adbg_select_module(s, m)
           g == Scan(a.hw, [cmd |-> "regwrite", data |-> data])
           c == [a.sel EXCEPT !.current_reg_idx = a.sel.current_reg_idx \cup {a.sel.current_chain}]
           b == [a EXCEPT !.hw = g, !.sel = c]
           t == retry_ok(b)
<1>1. m \in Modules
      BY DEF Modules, Cpus
<1>2. /\ IsPair(a) /\ Quiet(a.hw) /\ a.hw.module = m /\ a.sel.current_chain = m /\ a.sel.desired_chain = m
      /\ a.hw.error = s.hw.error /\ a.hw.store = s.hw.store
      BY <1>1, SelectModule
<1>3. t = adbg_ctrl_write(s, data)
      BY <1>2 DEF adbg_ctrl_write, IsPair
<1> HIDE DEF a
<1>4. /\ Quiet(g) /\ g.module = m /\ g.store = s.hw.store
      /\ m = "WISHBONE" => g.error = None
      /\ m \in Cpus => g.ctl[m] = data /\ g.error = s.hw.error
  <2>1. CASE m = "WISHBONE"
        BY <1>2, <2>1, ScanClears DEF Cpus
  <2>2. CASE m \in Cpus
        BY <1>2, <2>2, ScanControls DEF Cpus
  <2> QED BY <2>1, <2>2
<1>5. DOMAIN c = SelFields /\ c.current_chain = m /\ c.desired_chain = m
      BY <1>2 DEF IsPair, SelFields
<1> HIDE DEF g, c
<1>6. IsPair(b) /\ b.hw = g /\ b.sel = c
      BY <1>2, <1>5 DEF IsPair
<1> HIDE DEF b
<1>7. /\ IsPair(t) /\ t.hw = b.hw /\ t.sel.soft_retry_no = 0
      /\ t.sel.current_chain = b.sel.current_chain /\ t.sel.desired_chain = b.sel.desired_chain
      BY <1>6, RetryOk
<1> HIDE DEF t
<1> QED BY <1>3, <1>4, <1>5, <1>6, <1>7 DEF Known

\* The same of a whole scan with the cache that goes with it: whatever state the
\* unit is in, its types and those of the cache stay, and no word is written.
SoundPair(s) ==
  /\ IsPair(s) /\ Sound(s.hw)
  /\ s.sel.current_chain \in Modules \cup {NoChain} /\ s.sel.desired_chain \in Modules
  /\ s.sel.soft_retry_no \in Nat /\ s.sel.soft_retry_no <= setup.retries

\* retry_ok,
LEMMA SoundRetryOk ==
  ASSUME NEW s, SoundPair(s), setup.retries \in Nat
  PROVE  SoundPair(retry_ok(s)) /\ retry_ok(s).hw = s.hw
BY RetryOk DEF SoundPair

\* a scan,
LEMMA SoundSent ==
  ASSUME NEW s, NEW p, SoundPair(s), Names(p)
  PROVE  LET t == [s EXCEPT !.hw = Scan(s.hw, p)] IN SoundPair(t) /\ t.hw.store = s.hw.store /\ t.sel = s.sel
<1> DEFINE g == Scan(s.hw, p)
           t == [s EXCEPT !.hw = g]
<1>1. Sound(g) /\ g.store = s.hw.store
      BY SoundScan DEF SoundPair
<1> HIDE DEF g
<1>2. IsPair(t) /\ t.hw = g /\ t.sel = s.sel
      BY DEF SoundPair, IsPair
<1> HIDE DEF t
<1>3. SoundPair(t) /\ t.hw.store = s.hw.store /\ t.sel = s.sel
      BY <1>1, <1>2 DEF SoundPair
<1> QED BY <1>3 DEF t, g

\* a register noted as selected,
LEMMA SoundNoted ==
  ASSUME NEW s, NEW m, SoundPair(s)
  PROVE  LET t == [s EXCEPT !.sel.current_reg_idx = @ \cup {m}] IN SoundPair(t) /\ t.hw = s.hw
<1> DEFINE c == [s.sel EXCEPT !.current_reg_idx = s.sel.current_reg_idx \cup {m}]
           t == [s EXCEPT !.sel.current_reg_idx = @ \cup {m}]
<1>1. t = [s EXCEPT !.sel = c]
      BY DEF SoundPair, IsPair
<1>2. /\ DOMAIN c = SelFields /\ c.current_chain = s.sel.current_chain /\ c.desired_chain = s.sel.desired_chain
      /\ c.soft_retry_no = s.sel.soft_retry_no
      BY DEF SoundPair, IsPair, SelFields
<1> HIDE DEF c, t
<1>3. IsPair(t) /\ t.hw = s.hw /\ t.sel = c
      BY <1>1, <1>2 DEF SoundPair, IsPair
<1> QED BY <1>2, <1>3 DEF SoundPair, t

\* adbg_select_module,
LEMMA SoundSelect ==
  ASSUME NEW s, NEW chain \in Modules, SoundPair(s)
  PROVE  LET t == adbg_select_module(s, chain) IN SoundPair(t) /\ t.hw.store = s.hw.store
<1> DEFINE t == adbg_select_module(s, chain)
<1>1. CASE s.sel.current_chain = chain
      BY <1>1 DEF adbg_select_module
<1>2. CASE s.sel.current_chain # chain
  <2> DEFINE p == [cmd |-> "select", module |-> chain]
             g == Scan(s.hw, p)
             c == [s.sel EXCEPT !.current_chain = chain, !.desired_chain = chain]
  <2>1. t = [hw |-> g, sel |-> c]
        BY <1>2 DEF adbg_select_module
  <2>2. Names(p)
        BY DEF Names
  <2>3. Sound(g) /\ g.store = s.hw.store
        BY <2>2, SoundScan DEF SoundPair
  <2>4. /\ DOMAIN c = SelFields /\ c.current_chain = chain /\ c.desired_chain = chain
        /\ c.soft_retry_no = s.sel.soft_retry_no
        BY DEF SoundPair, IsPair, SelFields
  <2> HIDE DEF t, g, c
  <2>5. t.hw = g /\ t.sel = c /\ DOMAIN t = {"hw", "sel"}
        BY <2>1
  <2> QED BY <2>3, <2>4, <2>5 DEF SoundPair, IsPair, t
<1> QED BY <1>1, <1>2

\* adbg_burst_command,
LEMMA SoundBurstCommand ==
  ASSUME NEW s, NEW op, NEW addr, NEW len, SoundPair(s), setup.retries \in Nat
  PROVE  LET t == adbg_burst_command(s, op, addr, len) IN SoundPair(t) /\ t.hw.store = s.hw.store
<1> DEFINE a == adbg_select_module(s, s.sel.desired_chain)
           p == BurstBits(op, addr, len)
           b == [a EXCEPT !.hw = Scan(a.hw, p)]
<1>1. SoundPair(a) /\ a.hw.store = s.hw.store
      BY SoundSelect DEF SoundPair
<1>2. Names(p)
      BY DEF Names, BurstBits
<1>3. adbg_burst_command(s, op, addr, len) = retry_ok(b)
      BY DEF adbg_burst_command
<1> HIDE DEF a, p
<1>4. SoundPair(b) /\ b.hw.store = a.hw.store
      BY <1>1, <1>2, SoundSent
<1> HIDE DEF b
<1> QED BY <1>1, <1>3, <1>4, SoundRetryOk

\* adbg_ctrl_read
LEMMA SoundCtrlRead ==
  ASSUME NEW s, SoundPair(s), setup.retries \in Nat
  PROVE  LET t == adbg_ctrl_read(s) IN SoundPair(t) /\ t.hw.store = s.hw.store
<1> DEFINE a == adbg_select_module(s, s.sel.desired_chain)
           m == a.sel.current_chain
           q == adbg_select_ctrl_reg(s)
           b == [q EXCEPT !.hw = Scan(q.hw, Nop)]
<1>1. SoundPair(a) /\ a.hw.store = s.hw.store
      BY SoundSelect DEF SoundPair
<1>2. SoundPair(q) /\ q.hw.store = s.hw.store
  <2>1. CASE m \in a.sel.current_reg_idx
    <3>1. q = a
          BY <2>1 DEF adbg_select_ctrl_reg
    <3> QED BY <1>1, <3>1
  <2>2. CASE ~ (m \in a.sel.current_reg_idx)
    <3> DEFINE p == [cmd |-> "regselect"]
               d == [a EXCEPT !.hw = Scan(a.hw, p)]
               e == [d EXCEPT !.sel.current_reg_idx = @ \cup {m}]
    <3>1. Names(p)
          BY DEF Names
    <3>2. q = retry_ok([a EXCEPT !.hw = Scan(a.hw, p), !.sel.current_reg_idx = @ \cup {m}])
          BY <2>2 DEF adbg_select_ctrl_reg
    <3> HIDE DEF q, p, a
    <3>3. q = retry_ok(e)
      <4>1. [a EXCEPT !.hw = Scan(a.hw, p), !.sel.current_reg_idx = @ \cup {m}] = e
            BY DEF e, d
      <4> QED BY <3>2, <4>1
    <3> HIDE DEF m
    <3>4. SoundPair(d) /\ d.hw.store = a.hw.store
          BY <1>1, <3>1, SoundSent
    <3> HIDE DEF d
    <3>5. SoundPair(e) /\ e.hw = d.hw
          BY <3>4, SoundNoted
    <3> HIDE DEF e
    <3> QED BY <1>1, <3>3, <3>4, <3>5, SoundRetryOk
  <2> QED BY <2>1, <2>2
<1>3. adbg_ctrl_read(s) = retry_ok(b)
      BY DEF adbg_ctrl_read
<1>4. Names(Nop)
      BY DEF Names, Nop
<1> HIDE DEF q
<1>5. SoundPair(b) /\ b.hw.store = q.hw.store
      BY <1>2, <1>4, SoundSent
<1> HIDE DEF b
<1> QED BY <1>2, <1>3, <1>5, SoundRetryOk

\* and adbg_ctrl_write.
LEMMA SoundCtrlWrite ==
  ASSUME NEW s, NEW data, SoundPair(s), setup.retries \in Nat
  PROVE  LET t == adbg_ctrl_write(s, data) IN SoundPair(t) /\ t.hw.store = s.hw.store
<1> DEFINE a == adbg_select_module(s, s.sel.desired_chain)
           p == [cmd |-> "regwrite", data |-> data]
           d == [a EXCEPT !.hw = Scan(a.hw, p)]
           m == a.sel.current_chain
           e == [d EXCEPT !.sel.current_reg_idx = @ \cup {m}]
<1>1. SoundPair(a) /\ a.hw.store = s.hw.store
      BY SoundSelect DEF SoundPair
<1>2. Names(p)
      BY DEF Names
<1>3. adbg_ctrl_write(s, data) =
        retry_ok([a EXCEPT !.hw = Scan(a.hw, p), !.sel.current_reg_idx = @ \cup {m}])
      BY DEF adbg_ctrl_write
<1> HIDE DEF p, a
<1>4. adbg_ctrl_write(s, data) = retry_ok(e)
  <2>1. [a EXCEPT !.hw = Scan(a.hw, p), !.sel.current_reg_idx = @ \cup {m}] = e
        BY DEF e, d
  <2> QED BY <1>3, <2>1
<1> HIDE DEF m
<1>5. SoundPair(d) /\ d.hw.store = a.hw.store
      BY <1>1, <1>2, SoundSent
<1> HIDE DEF d
<1>6. SoundPair(e) /\ e.hw = d.hw
      BY <1>5, SoundNoted
<1> HIDE DEF e
<1> QED BY <1>1, <1>4, <1>5, <1>6, SoundRetryOk


-----------------------------------------------------------------------------
(***************************************************************************)
(* The inductive invariant: what is true of the unit, the cache and the    *)
(* call at each value of pc, until a call has returned uncleanly.           *)
(***************************************************************************)
AllHandled == \A s \in Setups : Handled(s)

LocalFields == {"i", "j", "addr", "good", "buserrs", "err", "buf", "ctl", "first", "next", "faults"}
Labels == {"idle", "done", "exited", "select", "command", "status", "word", "crc", "errreg",
           "errlost", "cmdlost", "ctrlread", "ctrlwrite", "serial",
           "lchain", "lcommand", "lgo", "lctrlread", "lctrlwrite"}
Word == {0, Bad} \cup (1 .. MaxCount)

IsStore(st) ==
  /\ DOMAIN st = Stores
  /\ \A m \in Stores : DOMAIN st[m] = Addrs /\ \A a \in Addrs : st[m][a] \in Word

\* The types of the unit's registers, of the cache, and of the count of faults.
UnitInv ==
  /\ setup \in Setups /\ pc \in Labels
  /\ faults \in Nat /\ faults <= MaxFaults
  /\ IsHw(hw) /\ hw.tap \in DOMAIN TapNext /\ hw.module \in Modules
  /\ hw.error \in Addrs \cup {None}
  /\ IsStore(hw.store)
  /\ DOMAIN sel = SelFields /\ sel.current_chain \in Modules \cup {NoChain}
  /\ sel.soft_retry_no \in Nat /\ sel.soft_retry_no <= setup.retries

\* A call of dbg_api.c, which selects the module its name says.
IsCall(c) ==
  /\ c.want \in Modules /\ c.chain = c.want
  /\ c.start \in Nat /\ c.count \in Nat /\ c.count <= MaxCount
  /\ c.ctl \in {0, 1} /\ c.topbit \in {0, 1}
  /\ \A k \in Words(c) : c.start + k \in Addrs
  /\ c.op \in {"read", "write", "ctrlread", "ctrlwrite", "serial"}
  /\ c.op \in {"read", "write"} => c.want \in Stores
  /\ c.op \in {"ctrlread", "ctrlwrite"} => c.want \in Cpus

IsLocals ==
  /\ DOMAIN v = LocalFields
  /\ v.i \in Nat /\ v.j \in Nat /\ v.buserrs \in Nat /\ v.faults \in Nat
  /\ v.good \in BOOLEAN /\ DOMAIN v.buf = Words(call)

InCall == IsCall(call) /\ IsLocals /\ v.faults <= faults

\* No burst, no error, and a cache that is right or empty.
Between == Quiet(hw) /\ hw.error = None /\ Known(hw, sel)

\* The first n words of a transfer are where they belong.
Done(n) == \A k \in 0 .. n - 1 :
  /\ call.op = "read" => v.buf[k] = hw.store[call.want][call.start + k]
  /\ call.op = "write" => hw.store[call.want][call.start + k] = Data(k)

\* The same up to the first bus error, which is within this burst.
Prefix(n) ==
  /\ hw.error = None => Done(n)
  /\ hw.error # None => /\ v.i <= hw.error - call.start /\ hw.error - call.start < n
                        /\ Done(hw.error - call.start)

\* Every bus error met, one still latched included, is a fault of this call.
Latched == IF hw.error = None THEN 0 ELSE 1
Counts ==
  /\ v.faults + v.buserrs + Latched <= faults
  /\ v.good = FALSE => v.faults < faults

Transfer == call.op \in {"read", "write"} /\ v.i < call.count /\ (setup.hispeed => v.i = 0)

AtDone ==
  /\ InCall /\ Between
  /\ v.err # "ok" => v.faults < faults
  /\ v.err = "ok" =>
       /\ call.op \in {"read", "write"} => Done(call.count)
       /\ call.op = "ctrlwrite" => hw.ctl[call.want] = call.ctl
       /\ call.op = "ctrlread" => v.ctl = hw.ctl[call.want]

AtSelect == setup.adv /\ InCall /\ Counts /\ Between /\ v.i = 0 /\ v.addr = call.start

AtCommand ==
  /\ setup.adv /\ InCall /\ Counts /\ Between /\ Transfer
  /\ sel.desired_chain = call.chain
  /\ v.addr = call.start + v.i
  /\ Done(v.i)

\* Within a burst: the unit is at the word the loop is at.
AtBurst ==
  /\ setup.adv /\ InCall /\ Counts /\ Transfer
  /\ hw.tap = "shiftDR" /\ hw.ir = "DEBUG" /\ hw.module = call.chain
  /\ hw.burst.open = TRUE /\ hw.burst.op = call.op
  /\ hw.burst.addr = call.start + v.j /\ hw.burst.left = call.count - v.j
  /\ sel.current_chain = IF call.op = "read" /\ setup.bscan THEN NoChain ELSE call.chain
  /\ sel.desired_chain = call.chain /\ sel.soft_retry_no = 0
  /\ v.i <= v.j /\ v.j <= call.count
  /\ v.good = TRUE => Prefix(v.j)
  /\ v.good = FALSE => "word" \in setup.faults
  /\ hw.error # None => "bus" \in setup.faults /\ hw.module = "WISHBONE"

AtErrReg ==
  /\ setup.adv /\ InCall /\ Counts /\ Transfer
  /\ Quiet(hw) /\ Known(hw, sel)
  /\ call.chain = "WISHBONE" /\ sel.current_chain = "WISHBONE"
  /\ Prefix(call.count)
  /\ hw.error # None => "bus" \in setup.faults

AtRegister ==
  /\ setup.adv /\ InCall /\ Between
  /\ pc = call.op /\ sel.current_chain = call.chain

\* A legacy command p is in hand, or follows the selection of its chain.
LegacyInv(p) ==
  /\ ~ setup.adv /\ InCall /\ Between
  /\ p \in {"lcommand", "lgo"} => call.op \in {"read", "write"}
  /\ p = "lctrlread" => call.op = "ctrlread"
  /\ p = "lctrlwrite" => call.op = "ctrlwrite"
  /\ p = "lgo" => /\ sel.current_chain = call.chain
                  /\ hw.lcmd.op = call.op /\ hw.lcmd.addr = call.start /\ hw.lcmd.len = call.count

LegacyLabels == {"lcommand", "lgo", "lctrlread", "lctrlwrite"}

\* The call has returned and something went wrong in it that was not put straight.
Gone == Unclean /\ v.faults < faults

\* The cable failed at the end of a burst: the call will end with its error.
AtLost ==
  /\ setup.adv /\ Sound(hw) /\ sel.desired_chain \in Modules
  /\ DOMAIN v = LocalFields /\ v.faults < faults

\* The legacy unit has refused a chain once too often and its TAP is still in
\* EXIT1_DR: the command that follows will not be heard.
LegacyLost ==
  /\ ~ setup.adv /\ Sound(hw) /\ hw.tap = "exit1DR" /\ sel.soft_retry_no >= setup.retries
  /\ DOMAIN v = LocalFields /\ v.faults < faults

ApiInv ==
  /\ UnitInv
  /\ pc = "idle" => Between
  /\ pc = "done" => AtDone \/ Gone
  /\ pc = "exited" => v.faults < faults
  /\ pc = "select" => AtSelect
  /\ pc = "command" => AtCommand
  /\ pc \in {"status", "word", "crc"} => AtBurst
  /\ pc = "status" => call.op = "read"
  /\ pc \in {"status", "word"} => v.j < call.count
  /\ pc = "crc" => v.j = call.count
  /\ pc = "errreg" => AtErrReg
  /\ pc \in {"errlost", "cmdlost"} => AtLost
  /\ pc \in {"ctrlread", "ctrlwrite", "serial"} => AtRegister
  /\ pc = "lchain" => v.next \in LegacyLabels /\ LegacyInv(v.next)
  /\ pc \in LegacyLabels => (LegacyInv(pc) /\ sel.current_chain = call.chain) \/ LegacyLost


-----------------------------------------------------------------------------
\* What the setups' assumption and Handled say of the setup in use.
LEMMA SetupIs ==
  ASSUME AllHandled, setup \in Setups
  PROVE  /\ setup.adv \in BOOLEAN /\ setup.hispeed \in BOOLEAN /\ setup.bscan \in BOOLEAN
         /\ setup.retries \in Nat /\ MaxFaults \in Nat /\ MAX_BUS_ERRORS \in Nat
         /\ setup.adv => "cpu1_write" \notin setup.functions
         /\ setup.adv /\ "bus" \in setup.faults => ~ setup.hispeed /\ ~ setup.bscan
         /\ setup.adv /\ setup.retries > 0 /\ (setup.faults \cap {"timeout", "cable"} # {}) =>
              "bus" \notin setup.faults /\ ("word" \in setup.faults => setup.hispeed)
<1>1. Handled(setup)
      BY DEF AllHandled
<1>2. /\ setup.adv \in BOOLEAN /\ setup.hispeed \in BOOLEAN /\ setup.bscan \in BOOLEAN
      /\ setup.retries \in Nat /\ MaxFaults \in Nat /\ MAX_BUS_ERRORS \in Nat
      BY SetupsAssumption
<1> QED BY <1>1, <1>2 DEF Handled

\* retry_do: the unit is reset, and nothing is taken for selected any more.
LEMMA AfterRetry ==
  ASSUME NEW s, IsPair(s), IsHw(s.hw), s.hw.tap \in DOMAIN TapNext
  PROVE  LET h == tap_enable_debug_module(tap_reset(s.hw))
             c == [s.sel EXCEPT !.current_chain = NoChain, !.current_reg_idx = {}, !.soft_retry_no = @ + 1]
         IN  /\ Quiet(h) /\ h.module = "WISHBONE" /\ h.error = None /\ h.store = s.hw.store /\ h.lcmd = s.hw.lcmd
             /\ DOMAIN c = SelFields /\ c.current_chain = NoChain /\ c.desired_chain = s.sel.desired_chain
             /\ c.soft_retry_no = s.sel.soft_retry_no + 1
             /\ Known(h, c)
<1> DEFINE h == tap_enable_debug_module(tap_reset(s.hw))
           c == [s.sel EXCEPT !.current_chain = NoChain, !.current_reg_idx = {}, !.soft_retry_no = @ + 1]
<1>1. /\ Quiet(h) /\ h.module = "WISHBONE" /\ h.error = None /\ h.store = s.hw.store /\ h.lcmd = s.hw.lcmd
      BY ResetUnit
<1>2. /\ DOMAIN c = SelFields /\ c.current_chain = NoChain /\ c.desired_chain = s.sel.desired_chain
      /\ c.soft_retry_no = s.sel.soft_retry_no + 1
      BY DEF IsPair, SelFields
<1> HIDE DEF h, c
<1>3. Known(h, c)
      BY <1>2 DEF Known
<1> QED BY <1>1, <1>2, <1>3 DEF h, c

\* The end of a legacy scan: UPDATE_DR finds nothing to obey.
LEMMA LegacyEnds ==
  ASSUME NEW h, IsHw(h), h.tap = "shiftDR", h.ir = "DEBUG", h.sr = Nop, h.burst.open = FALSE, h.burst.left = 0
  PROVE  LET g == tap_exit_to_idle(Clock(h, 1)) IN Quiet(g) /\ SameUnit(g, h)
<1> DEFINE g == tap_exit_to_idle(Clock(h, 1))
<1>1. PICK u :
         /\ IsHw(u) /\ u.tap = "updateDR" /\ u.ir = "DEBUG" /\ u.sr = h.sr /\ u.burst = h.burst /\ SameUnit(u, h)
         /\ LET o == Obey(u)
            IN  IsHw(o) /\ o.tap = "updateDR" =>
                  IsHw(g) /\ g.tap = "idle" /\ g.ir = o.ir /\ g.burst = o.burst /\ SameUnit(g, o)
      BY ScanEnds
<1> HIDE DEF g
<1>a. IsHw(u) /\ u.burst.open = FALSE /\ u.sr.cmd = "nop"
      BY <1>1 DEF Nop
<1>2. Obey(u) = u
      BY <1>a, ObeyNothing
<1>3. IsHw(g) /\ g.tap = "idle" /\ g.ir = u.ir /\ g.burst = u.burst /\ SameUnit(g, u)
      BY <1>1, <1>2
<1>4. Quiet(g) /\ SameUnit(g, h)
      BY <1>1, <1>3 DEF Quiet, SameUnit
<1> QED BY <1>4 DEF g

\* The bridge starts with the unit at rest and nothing known of it.
LEMMA InitInv == ASSUME AllHandled, Init PROVE ApiInv
<1> USE DEF Init
<1>1. IsHw(hw) /\ hw.tap = "idle" /\ hw.ir = "DEBUG" /\ hw.module = "WISHBONE" /\ hw.burst = NoBurst /\ hw.error = None
      BY DEF InitHw, IsHw, HwFields, BurstFields, Cpus, NoBurst
<1>2. hw.store = [m \in Stores |-> [a \in Addrs |-> 0]]
      BY DEF InitHw
<1>3. IsStore(hw.store)
      BY <1>2 DEF IsStore, Word
<1>4. DOMAIN sel = SelFields /\ sel.current_chain = NoChain /\ sel.soft_retry_no = 0
      BY DEF InitSel, SelFields
<1>5. Between
      BY <1>1, <1>4 DEF Between, Quiet, Known, NoBurst
<1>6. setup.retries \in Nat /\ MaxFaults \in Nat
      BY SetupIs
<1>7. UnitInv
      BY <1>1, <1>3, <1>4, <1>6, TapMoves DEF UnitInv, Labels, Modules
<1> QED BY <1>5, <1>7 DEF ApiInv, LegacyLabels

\* cable_flush, pthread_mutex_unlock: the next call finds the unit at rest.
LEMMA EndStep == ASSUME ApiInv, End, ~ harmed' PROVE ApiInv' /\ hw'.store = hw.store
<1> USE DEF End
<1>0. ~ Unclean /\ pc = "done"
      OBVIOUS
<1>1. Between'
      BY <1>0 DEF ApiInv, AtDone, Gone, Between
<1>2. UnitInv'
      BY DEF ApiInv, UnitInv, Labels
<1> QED BY <1>1, <1>2 DEF ApiInv, LegacyLabels


\* The functions of dbg_api.c ask for words the module has, and select the
\* module they are named after.
LEMMA MovesOf ==
  ASSUME NEW m \in Stores, NEW ops \in SUBSET {"read", "write"}, NEW counts \in SUBSET (0 .. MaxCount),
         NEW c \in Moves(m, m, ops, counts)
  PROVE  IsCall(c) /\ c.op \in {"read", "write"} /\ c.count \in counts
<1>1. PICK op \in ops, a \in Addrs, n \in counts : c = Call(m, m, op, a, n, 0, 0)
      BY DEF Moves
<1>2. c.count = 0 \/ c.start + c.count - 1 \in Addrs
      BY DEF Moves
<1>3. /\ c.want = m /\ c.chain = m /\ c.op = op /\ c.start = a /\ c.count = n /\ c.ctl = 0 /\ c.topbit = 0
      BY <1>1 DEF Call
<1> HIDE DEF Call
<1>4. a \in Nat /\ n \in Nat /\ n <= MaxCount
      BY AddrsAssumption, CountAssumption
<1>5. \A k \in Words(c) : c.start + k \in Addrs
  <2> TAKE k \in Words(c)
  <2>1. k \in Nat /\ k < n /\ n # 0
        BY <1>3, <1>4 DEF Words
  <2>2. a + n - 1 \in Addrs
        BY <1>2, <1>3, <2>1
  <2>3. a + k \in a .. a + n - 1
        BY <1>4, <2>1
  <2> QED BY <1>3, <2>2, <2>3, AddrsAssumption
<1>6. m \in Modules
      BY DEF Stores, Modules
<1> QED BY <1>3, <1>4, <1>5, <1>6 DEF IsCall, Words, Cpus

\* The stall and reset functions are calls of one CPU.
LEMMA ControlsOf ==
  ASSUME NEW m \in Cpus, NEW c \in Controls(m)
  PROVE  IsCall(c) /\ c.op \in {"ctrlread", "ctrlwrite"} /\ c.want # "WISHBONE"
<1>1. PICK op \in {"ctrlread", "ctrlwrite"}, d \in {0, 1} : c = Call(m, m, op, 0, 0, d, 0)
      BY DEF Controls
<1>2. /\ c.want = m /\ c.chain = m /\ c.op = op /\ c.start = 0 /\ c.count = 0 /\ c.ctl = d /\ c.topbit = 0
      BY <1>1 DEF Call
<1>3. Words(c) = {}
      BY <1>2 DEF Words
<1> QED BY <1>2, <1>3, CountAssumption DEF IsCall, Cpus, Modules

\* Every call the API offers selects the module its name says.
LEMMA CallsAre ==
  ASSUME AllHandled, setup \in Setups, NEW c \in Calls
  PROVE  /\ IsCall(c)
         /\ ~ setup.adv => c.op # "serial"
<1>0. setup.functions \subseteq ApiFunctions
      BY SetupsAssumption
<1>s. setup.adv \in BOOLEAN /\ (setup.adv => "cpu1_write" \notin setup.functions)
      BY SetupIs
<1>1. \/ c \in dbg_wb_single \/ c \in dbg_wb_read_block \/ c \in dbg_wb_write_block
      \/ c \in dbg_cpu0_read_write \/ c \in dbg_cpu0_ctrl \/ c \in dbg_cpu1_read
      \/ (c \in dbg_cpu1_write /\ ~ setup.adv) \/ c \in dbg_cpu1_ctrl \/ c \in dbg_serial_sndrcv
      BY <1>0, <1>s DEF Calls, ApiFunctions
<1>n. {1} \in SUBSET (0 .. MaxCount) /\ 0 .. MaxCount \in SUBSET (0 .. MaxCount)
      BY CountAssumption
<1>m. "WISHBONE" \in Stores /\ "CPU0" \in Stores /\ "CPU1" \in Stores /\ "CPU0" \in Cpus /\ "CPU1" \in Cpus
      BY DEF Stores, Cpus
<1>2. CASE c \in dbg_wb_single
      BY <1>2, <1>n, <1>m, MovesOf DEF dbg_wb_single
<1>3. CASE c \in dbg_wb_read_block
      BY <1>3, <1>n, <1>m, MovesOf DEF dbg_wb_read_block
<1>4. CASE c \in dbg_wb_write_block
      BY <1>4, <1>n, <1>m, MovesOf DEF dbg_wb_write_block
<1>5. CASE c \in dbg_cpu0_read_write
  <2>1. (IF setup.adv THEN 0 .. MaxCount ELSE {1}) \in SUBSET (0 .. MaxCount)
        BY <1>n
  <2> QED BY <1>5, <2>1, <1>m, MovesOf DEF dbg_cpu0_read_write
<1>6. CASE c \in dbg_cpu0_ctrl
      BY <1>6, <1>m, ControlsOf DEF dbg_cpu0_ctrl
<1>7. CASE c \in dbg_cpu1_read
      BY <1>7, <1>n, <1>m, MovesOf DEF dbg_cpu1_read
<1>8. CASE c \in dbg_cpu1_write /\ ~ setup.adv
  <2>1. c \in Moves("CPU1", "CPU1", {"write"}, {1})
        BY <1>8 DEF dbg_cpu1_write
  <2> QED BY <2>1, <1>n, <1>m, MovesOf
<1>9. CASE c \in dbg_cpu1_ctrl
      BY <1>9, <1>m, ControlsOf DEF dbg_cpu1_ctrl
<1>10. CASE c \in dbg_serial_sndrcv
  <2>1. setup.adv
        BY <1>10, <1>s DEF dbg_serial_sndrcv
  <2>2. PICK b \in {0, 1} : c = Call("JSP", "JSP", "serial", 0, 0, 0, b)
        BY <1>10, <2>1 DEF dbg_serial_sndrcv
  <2>3. /\ c.want = "JSP" /\ c.chain = "JSP" /\ c.op = "serial" /\ c.start = 0 /\ c.count = 0
        /\ c.ctl = 0 /\ c.topbit = b
        BY <2>2 DEF Call
  <2>4. Words(c) = {}
        BY <2>3 DEF Words
  <2>5. IsCall(c)
        BY <2>3, <2>4, CountAssumption DEF IsCall, Modules
  <2> QED BY <2>1, <2>5
<1> QED BY <1>1, <1>2, <1>3, <1>4, <1>5, <1>6, <1>7, <1>8, <1>9, <1>10


\* pthread_mutex_lock: a call starts with its locals set, or returns at once.
LEMMA BeginStep == ASSUME AllHandled, ApiInv, Begin PROVE ApiInv' /\ hw'.store = hw.store
<1> USE DEF Begin
<1>1. PICK c \in Calls :
        /\ call' = c
        /\ v' = [Locals(c) EXCEPT !.err = IF c.want = "WISHBONE" /\ c.count = 0 THEN "ok" ELSE @]
        /\ pc' = IF v'.err = "ok" THEN "done" ELSE IF setup.adv THEN "select" ELSE "lchain"
      OBVIOUS
<1>2. UnitInv /\ Between /\ UNCHANGED <<setup, hw, sel, faults>>
      BY DEF ApiInv
<1>3. setup \in Setups /\ setup.adv \in BOOLEAN /\ faults \in Nat
      BY <1>2, SetupIs DEF UnitInv
<1>4. IsCall(c) /\ (~ setup.adv => c.op # "serial")
      BY <1>3, CallsAre
<1>5. /\ DOMAIN v' = LocalFields /\ v'.i = 0 /\ v'.j = 0 /\ v'.addr = c.start /\ v'.good = TRUE
      /\ v'.buserrs = 0 /\ v'.faults = faults /\ v'.buf = [k \in Words(c) |-> Bad]
      /\ v'.err = IF c.want = "WISHBONE" /\ c.count = 0 THEN "ok" ELSE "none"
      /\ v'.next = CASE c.op = "ctrlread" -> "lctrlread"
                     [] c.op = "ctrlwrite" -> "lctrlwrite"
                     [] OTHER -> "lcommand"
      BY <1>1 DEF Locals, LocalFields
<1>6. pc' \in Labels /\ UnitInv'
      BY <1>1, <1>2 DEF UnitInv, Labels
<1>7. InCall' /\ Between'
  <2>1. Words(call)' = Words(c)
        BY <1>1 DEF Words
  <2>2. IsCall(call)'
        BY <1>1, <1>4 DEF IsCall, Words
  <2>3. IsLocals'
    <3>1. DOMAIN v'.buf = Words(c) /\ v'.good \in BOOLEAN
          BY <1>5
    <3>2. v'.i \in Nat /\ v'.j \in Nat /\ v'.buserrs \in Nat /\ v'.faults \in Nat
          BY <1>3, <1>5
    <3> QED BY <1>5, <2>1, <3>1, <3>2 DEF IsLocals
  <2>4. Between'
        BY <1>2 DEF Between
  <2> QED BY <1>2, <1>3, <1>5, <2>2, <2>3, <2>4 DEF InCall
<1>8. Counts'
      BY <1>2, <1>3, <1>5 DEF Counts, Between, Latched
<1>9. CASE v'.err = "ok"
  <2>1. c.count = 0 /\ c.want = "WISHBONE"
        BY <1>5, <1>9
  <2>2. c.op \in {"read", "write"} \/ c.op = "serial"
        BY <1>4, <2>1 DEF IsCall, Cpus
  <2>3. Done(call.count)'
        BY <1>1, <2>1 DEF Done
  <2>4. AtDone'
        BY <1>1, <1>7, <1>9, <2>2, <2>3 DEF AtDone
  <2> QED BY <1>1, <1>2, <1>6, <1>9, <2>4 DEF ApiInv, LegacyLabels
<1>10. CASE v'.err # "ok" /\ setup.adv
  <2>1. AtSelect'
        BY <1>1, <1>2, <1>5, <1>7, <1>8, <1>10 DEF AtSelect
  <2> QED BY <1>1, <1>2, <1>6, <1>10, <2>1 DEF ApiInv, LegacyLabels
<1>11. CASE v'.err # "ok" /\ ~ setup.adv
  <2>1. c.op \in {"read", "write", "ctrlread", "ctrlwrite"}
        BY <1>4, <1>11 DEF IsCall
  <2>2. v'.next \in LegacyLabels /\ LegacyInv(v.next)'
        BY <1>1, <1>2, <1>5, <1>7, <1>11, <2>1 DEF LegacyInv, LegacyLabels
  <2> QED BY <1>1, <1>2, <1>6, <1>11, <2>2 DEF ApiInv, LegacyLabels
<1> QED BY <1>9, <1>10, <1>11

\* The locals a return, or a step that only moves on, leaves alone.
SameLocals(w, u) ==
  /\ DOMAIN w = LocalFields
  /\ w.i = u.i /\ w.j = u.j /\ w.addr = u.addr /\ w.good = u.good /\ w.buserrs = u.buserrs
  /\ w.faults = u.faults /\ w.buf = u.buf /\ w.ctl = u.ctl

\* The API returns: only the error code is set.
LEMMA Returns ==
  ASSUME IsLocals, NEW e, Return(e)
  PROVE  pc' = "done" /\ v'.err = e /\ SameLocals(v', v)
BY DEF IsLocals, Return, SameLocals, LocalFields

\* A call returns without having put things straight: only types are left.
LEMMA GoneStep ==
  ASSUME UnitInv, setup' = setup, DOMAIN v = LocalFields,
         IsHw(hw'), hw'.tap \in DOMAIN TapNext, hw'.module \in Modules, hw'.error \in Addrs \cup {None},
         IsStore(hw'.store), DOMAIN sel' = SelFields, sel'.current_chain \in Modules \cup {NoChain},
         sel'.soft_retry_no \in Nat, sel'.soft_retry_no <= setup.retries,
         faults' \in Nat, faults' <= MaxFaults, v.faults < faults', NEW e, Return(e),
         e \in {"cable", "retries", "bus"} \/ (e = "crc" /\ (~ setup.adv \/ hw'.error # None))
  PROVE  ApiInv'
<1>1. pc' = "done" /\ v'.err = e /\ v'.faults = v.faults
      BY DEF Return, LocalFields
<1>2. UnitInv'
      BY <1>1 DEF UnitInv, Labels
<1>3. Gone'
      BY <1>1 DEF Gone, Unclean
<1> QED BY <1>1, <1>2, <1>3 DEF ApiInv, LegacyLabels

\* The bridge exits, or the call goes on to its certain end.
LEMMA LostStep ==
  ASSUME UnitInv, setup' = setup, DOMAIN v = LocalFields, v' = v, Sound(hw'), IsStore(hw'.store),
         DOMAIN sel' = SelFields, sel'.current_chain \in Modules \cup {NoChain},
         sel'.soft_retry_no \in Nat, sel'.soft_retry_no <= setup.retries,
         faults' \in Nat, faults' <= MaxFaults, v.faults < faults',
         \/ pc' = "exited"
         \/ pc' \in {"errlost", "cmdlost"} /\ setup.adv /\ sel'.desired_chain \in Modules
  PROVE  ApiInv'
<1>1. UnitInv'
      BY DEF UnitInv, Labels, Sound
<1>2. pc' \in {"errlost", "cmdlost"} => AtLost'
      BY DEF AtLost
<1> QED BY <1>1, <1>2 DEF ApiInv, LegacyLabels

\* A fault is counted, up to the bound.
LEMMA Counted ==
  ASSUME UnitInv, NEW kind, NoFault \/ Fault(kind)
  PROVE  /\ faults' \in Nat /\ faults <= faults' /\ faults' <= MaxFaults
         /\ Fault(kind) => kind \in setup.faults /\ faults' = faults + 1
<1>1. faults \in Nat /\ faults <= MaxFaults /\ MaxFaults \in Nat
      BY SetupsAssumption DEF UnitInv
<1> QED BY <1>1 DEF NoFault, Fault

\* The call goes on, or has returned, with the same locals.
LEMMA StillInCall ==
  ASSUME UnitInv, InCall, call' = call, SameLocals(v', v), faults' \in Nat, faults <= faults'
  PROVE  InCall'
<1>1. v'.faults <= faults'
      BY DEF InCall, IsLocals, SameLocals, UnitInv
<1>2. IsCall(call)' /\ Words(call)' = Words(call)
      BY DEF InCall, IsCall, Words
<1>3. IsLocals'
      BY <1>2 DEF InCall, IsLocals, SameLocals
<1> QED BY <1>1, <1>2, <1>3 DEF InCall

\* What the unit's and the cache's types need of a step that writes no word.
LEMMA UnitKept ==
  ASSUME UnitInv, setup' = setup, pc' \in Labels, faults' \in Nat, faults <= faults', faults' <= MaxFaults,
         IsHw(hw'), hw'.tap \in DOMAIN TapNext, hw'.module \in Modules,
         hw'.error \in {hw.error, None}, hw'.store = hw.store,
         DOMAIN sel' = SelFields, sel'.current_chain \in Modules \cup {NoChain},
         sel'.soft_retry_no \in {sel.soft_retry_no, 0}
  PROVE  UnitInv'
<1>1. setup.retries \in Nat
      BY SetupsAssumption DEF UnitInv
<1>2. sel'.soft_retry_no \in Nat /\ sel'.soft_retry_no <= setup'.retries
      BY <1>1 DEF UnitInv
<1> QED BY <1>2 DEF UnitInv

\* The pair of unit and cache the C functions work on.
LEMMA NowIs == ASSUME UnitInv PROVE IsPair(Now) /\ Now.hw = hw /\ Now.sel = sel
BY DEF Now, IsPair, UnitInv

\* The unit at rest, or in any other state, and the cache as they are.
LEMMA NowSound ==
  ASSUME UnitInv, Sound(hw), sel.desired_chain \in Modules
  PROVE  SoundPair(Now) /\ Now.hw = hw /\ Now.sel = sel /\ setup.retries \in Nat
<1>1. IsPair(Now) /\ Now.hw = hw /\ Now.sel = sel
      BY NowIs
<1>2. setup.retries \in Nat
      BY SetupsAssumption DEF UnitInv
<1> QED BY <1>1, <1>2 DEF SoundPair, UnitInv

\* A scan the cable failed in ends the call.
LEMMA TornGone ==
  ASSUME UnitInv, InCall, setup' = setup, NEW kind, Fault(kind), NEW s, SoundPair(s), sel' = s.sel,
         NEW hs, SoundSet(hs, hw.store), hw' \in hs, Return("cable")
  PROVE  ApiInv' /\ hw'.store = hw.store
<1>1. Sound(hw') /\ hw'.store = hw.store /\ IsStore(hw'.store)
      BY DEF SoundSet, UnitInv
<1>2. faults' \in Nat /\ faults' <= MaxFaults /\ v.faults < faults' /\ DOMAIN v = LocalFields
      BY Counted DEF InCall, IsLocals, UnitInv
<1> QED BY <1>1, <1>2, GoneStep DEF Sound, SoundPair, IsPair

\* So does the selection of a module.
LEMMA SelectGone ==
  ASSUME UnitInv, InCall, setup' = setup, Quiet(hw), Known(hw, sel), NEW chain \in Modules, SelectLost(chain)
  PROVE  ApiInv' /\ hw'.store = hw.store
<1> DEFINE p == [cmd |-> "select", module |-> chain]
           t == adbg_select_module(Now, chain)
<1>1. IsPair(Now) /\ Now.hw = hw /\ Now.sel = sel
      BY NowIs
<1>2. Sound(hw)
      BY QuietIsSound DEF UnitInv
<1>3. /\ IsPair(t) /\ Quiet(t.hw) /\ t.hw.module = chain /\ t.sel.current_chain = chain
      /\ t.sel.desired_chain = chain /\ t.sel.soft_retry_no = sel.soft_retry_no /\ t.hw.error = hw.error
      BY <1>1, SelectModule
<1>4. Fault("select") /\ hw' \in ScanTorn(hw, p) /\ sel' = t.sel /\ Return("cable")
      BY DEF SelectLost
<1>5. SoundSet(ScanTorn(hw, p), hw.store)
  <2>1. Names(p)
        BY DEF Names
  <2> HIDE DEF p
  <2> QED BY <1>2, <2>1, ScanTornSound
<1> HIDE DEF p, t
<1>6. SoundPair(t)
  <2>1. Sound(t.hw)
        BY <1>3, QuietIsSound DEF UnitInv
  <2> QED BY <1>3, <2>1 DEF SoundPair, UnitInv
<1> QED BY <1>4, <1>5, <1>6, TornGone

\* dbg_api.c's first step: the module is selected.
LEMMA SelectStep == ASSUME AllHandled, ApiInv, Select PROVE ApiInv' /\ hw'.store = hw.store
<1> DEFINE t == adbg_select_module(Now, call.chain)
<1>1. UnitInv /\ AtSelect /\ UNCHANGED <<setup, call>>
      BY DEF ApiInv, Select
<1>2. setup \in Setups /\ setup.adv = TRUE
      BY <1>1, SetupIs DEF UnitInv, AtSelect
<1>a. CASE SelectLost(call.chain)
      BY <1>1, <1>a, SelectGone DEF AtSelect, Between, InCall, IsCall
<1>b. SUFFICES ASSUME ~ SelectLost(call.chain) PROVE ApiInv' /\ hw'.store = hw.store
      BY <1>a
<1>3. /\ NoFault /\ Become(t)
      /\ IF call.op \in {"read", "write"} /\ call.count = 0
           THEN Return("ok")
           ELSE pc' = (IF call.op \in {"read", "write"} THEN "command" ELSE call.op) /\ UNCHANGED v
      BY <1>b DEF Select
<1>4. IsPair(Now) /\ Now.hw = hw /\ Now.sel = sel
      BY <1>1 DEF Now, IsPair, UnitInv
<1>5. IsCall(call) /\ IsLocals /\ v.faults <= faults /\ call.chain \in Modules /\ call.chain = call.want
      BY <1>1 DEF AtSelect, InCall, IsCall
<1>6. /\ IsPair(t) /\ Quiet(t.hw) /\ Known(t.hw, t.sel)
      /\ t.hw.module = call.chain /\ t.sel.current_chain = call.chain /\ t.sel.desired_chain = call.chain
      /\ t.sel.soft_retry_no = sel.soft_retry_no
      /\ t.hw.error = hw.error /\ t.hw.ctl = hw.ctl /\ t.hw.store = hw.store
      BY <1>1, <1>4, <1>5, SelectModule DEF AtSelect, Between
<1> HIDE DEF t
<1>7. hw' = t.hw /\ sel' = t.sel /\ faults' = faults
      BY <1>3 DEF Become, NoFault
<1>8. Between'
      BY <1>1, <1>6, <1>7 DEF Between, AtSelect
<1>9. pc' \in Labels
      BY <1>3, <1>5 DEF Labels, Return, IsCall
<1>10. SameLocals(v', v)
  <2>1. CASE Return("ok")
        BY <1>5, <2>1, Returns
  <2>2. CASE v' = v
        BY <1>5, <2>2 DEF SameLocals, IsLocals
  <2> QED BY <1>3, <2>1, <2>2
<1>11. UnitInv'
      BY <1>1, <1>5, <1>6, <1>7, <1>9, TapMoves DEF UnitInv, Quiet, IsPair
<1>12. InCall' /\ Counts'
      BY <1>1, <1>5, <1>6, <1>7, <1>10 DEF AtSelect, InCall, IsCall, IsLocals, SameLocals, Words, Counts, Latched
<1>13. CASE call.op \in {"read", "write"} /\ call.count = 0
  <2>1. pc' = "done" /\ v'.err = "ok"
        BY <1>3, <1>5, <1>13, Returns
  <2>2. Done(call.count)'
        BY <1>1, <1>13 DEF Done
  <2>3. AtDone'
        BY <1>1, <1>8, <1>12, <1>13, <2>1, <2>2 DEF AtDone
  <2> QED BY <1>6, <1>7, <1>11, <2>1, <2>3 DEF ApiInv, LegacyLabels
<1>14. CASE call.op \in {"read", "write"} /\ call.count # 0
  <2>1. pc' = "command"
        BY <1>3, <1>14
  <2>2. v'.i = 0 /\ v'.addr = call.start + 0 /\ 0 < call.count
        BY <1>1, <1>5, <1>10, <1>14 DEF AtSelect, IsCall, SameLocals
  <2>3. Done(v.i)'
        BY <2>2 DEF Done
  <2>4. AtCommand'
        BY <1>1, <1>2, <1>6, <1>7, <1>8, <1>12, <1>14, <2>2, <2>3 DEF AtCommand, Transfer
  <2> QED BY <1>6, <1>7, <1>11, <2>1, <2>4 DEF ApiInv, LegacyLabels
<1>15. CASE call.op \notin {"read", "write"}
  <2>1. pc' = call.op /\ call.op \in {"ctrlread", "ctrlwrite", "serial"}
        BY <1>3, <1>5, <1>15 DEF IsCall
  <2>2. AtRegister'
        BY <1>1, <1>2, <1>6, <1>7, <1>8, <1>12, <2>1 DEF AtRegister
  <2> QED BY <1>6, <1>7, <1>11, <2>1, <2>2 DEF ApiInv, LegacyLabels
<1> QED BY <1>13, <1>14, <1>15


\* A CPU's stall and reset bits are written or read.
LEMMA ControlStep == ASSUME AllHandled, ApiInv, Control PROVE ApiInv' /\ hw'.store = hw.store
<1>1. UnitInv /\ AtRegister /\ UNCHANGED <<setup, call>> /\ pc \in {"ctrlread", "ctrlwrite"}
      BY DEF ApiInv, Control
<1>2. IsPair(Now) /\ Now.hw = hw /\ Now.sel = sel
      BY <1>1, NowIs
<1>3. /\ InCall /\ IsCall(call) /\ IsLocals /\ call.op = pc /\ call.want \in Cpus /\ call.want \in Modules
      /\ call.chain = call.want
      BY <1>1 DEF AtRegister, InCall, IsCall
<1>4. /\ Quiet(hw) /\ hw.error = None /\ Known(hw, sel) /\ sel.current_chain = call.want
      /\ sel.desired_chain = call.want /\ hw.module = call.want
      BY <1>1, <1>3 DEF AtRegister, Between, Known, Modules, NoChain
<1>n. Sound(hw) /\ SoundPair(Now) /\ setup.retries \in Nat
  <2>1. Sound(hw)
        BY <1>1, <1>4, QuietIsSound DEF UnitInv
  <2> QED BY <1>1, <1>3, <1>4, <2>1, NowSound
<1>5. CASE NoFault /\ pc = "ctrlwrite" /\ Become(adbg_ctrl_write(Now, call.ctl)) /\ Return("ok")
  <2> DEFINE t == adbg_ctrl_write(Now, call.ctl)
  <2>1. /\ IsPair(t) /\ Quiet(t.hw) /\ Known(t.hw, t.sel)
        /\ t.hw.module = call.want /\ t.sel.current_chain = call.want /\ t.sel.soft_retry_no = 0
        /\ t.hw.store = hw.store /\ t.hw.ctl[call.want] = call.ctl /\ t.hw.error = hw.error
        BY <1>2, <1>3, <1>4, CtrlWrite
  <2> HIDE DEF t
  <2>2. hw' = t.hw /\ sel' = t.sel
        BY <1>5 DEF Become, t
  <2>3. pc' = "done" /\ v'.err = "ok" /\ SameLocals(v', v)
        BY <1>3, <1>5, Returns
  <2>4. faults' \in Nat /\ faults <= faults' /\ faults' <= MaxFaults
        BY <1>1, <1>5, Counted
  <2>5. UnitInv'
        BY <1>1, <1>3, <2>1, <2>2, <2>3, <2>4, TapMoves, UnitKept DEF Labels, IsPair, Quiet
  <2>6. InCall'
        BY <1>1, <1>3, <2>3, <2>4, StillInCall
  <2>7. AtDone'
        BY <1>1, <1>3, <1>4, <1>5, <2>1, <2>2, <2>3, <2>6 DEF AtDone, Between
  <2> QED BY <2>1, <2>2, <2>3, <2>5, <2>7 DEF ApiInv, LegacyLabels
<1>6. CASE /\ NoFault /\ pc = "ctrlread"
           /\ Become(adbg_ctrl_read(Now))
           /\ pc' = "done"
           /\ v' = [v EXCEPT !.err = "ok", !.ctl = CtlRead(hw')]
  <2> DEFINE t == adbg_ctrl_read(Now)
  <2>1. /\ IsPair(t) /\ Quiet(t.hw) /\ Known(t.hw, t.sel)
        /\ t.hw.module = call.want /\ t.sel.current_chain = call.want /\ t.sel.soft_retry_no = 0
        /\ t.hw.store = hw.store /\ t.hw.error = hw.error
        BY <1>2, <1>3, <1>4, CtrlRead
  <2> HIDE DEF t
  <2>2. hw' = t.hw /\ sel' = t.sel
        BY <1>6 DEF Become, t
  <2>3. hw'.module = call.want /\ hw'.module \in {"CPU0", "CPU1"}
        BY <1>3, <2>1, <2>2 DEF Cpus
  <2>4. /\ DOMAIN v' = LocalFields /\ v'.i = v.i /\ v'.j = v.j /\ v'.good = v.good /\ v'.buserrs = v.buserrs
        /\ v'.faults = v.faults /\ v'.buf = v.buf /\ v'.err = "ok" /\ v'.ctl = hw'.ctl[call.want]
        BY <1>3, <1>6, <2>3 DEF IsLocals, LocalFields, CtlRead
  <2>5. faults' \in Nat /\ faults <= faults' /\ faults' <= MaxFaults
        BY <1>1, <1>6, Counted
  <2>6. UnitInv'
        BY <1>1, <1>3, <1>6, <2>1, <2>2, <2>5, TapMoves, UnitKept DEF Labels, IsPair, Quiet
  <2>7. InCall'
    <3>1. v'.faults <= faults'
          BY <1>1, <1>3, <2>4, <2>5 DEF InCall, IsLocals, UnitInv
    <3>2. IsCall(call)' /\ Words(call)' = Words(call)
          BY <1>1, <1>3 DEF IsCall, Words
    <3>3. IsLocals'
          BY <1>3, <2>4, <3>2 DEF IsLocals
    <3> QED BY <3>1, <3>2, <3>3 DEF InCall
  <2>8. AtDone'
        BY <1>1, <1>3, <1>4, <1>6, <2>1, <2>2, <2>4, <2>7 DEF AtDone, Between
  <2> QED BY <1>6, <2>1, <2>2, <2>6, <2>8 DEF ApiInv, LegacyLabels
<1>7. CASE /\ pc = "ctrlwrite"
           /\ ScanLost("command", adbg_ctrl_write(Now, call.ctl), hw, [cmd |-> "regwrite", data |-> call.ctl])
  <2> DEFINE p == [cmd |-> "regwrite", data |-> call.ctl]
             t == adbg_ctrl_write(Now, call.ctl)
  <2>1. SoundPair(t)
        BY <1>n, SoundCtrlWrite
  <2>2. Names(p)
        BY DEF Names
  <2> HIDE DEF p, t
  <2>3. Fault("command") /\ hw' \in ScanTorn(hw, p) /\ sel' = t.sel /\ Return("cable")
        BY <1>7 DEF ScanLost, p, t
  <2>4. SoundSet(ScanTorn(hw, p), hw.store)
        BY <1>n, <2>2, ScanTornSound
  <2> QED BY <1>1, <1>3, <2>1, <2>3, <2>4, TornGone
<1>8. CASE pc = "ctrlread" /\ ScanLost("command", adbg_ctrl_read(Now), hw, Nop)
  <2> DEFINE t == adbg_ctrl_read(Now)
  <2>1. SoundPair(t)
        BY <1>n, SoundCtrlRead
  <2>2. Names(Nop)
        BY DEF Names, Nop
  <2> HIDE DEF t
  <2>3. Fault("command") /\ hw' \in ScanTorn(hw, Nop) /\ sel' = t.sel /\ Return("cable")
        BY <1>8 DEF ScanLost, t
  <2>4. SoundSet(ScanTorn(hw, Nop), hw.store)
        BY <1>n, <2>2, ScanTornSound
  <2> QED BY <1>1, <1>3, <2>1, <2>3, <2>4, TornGone
<1> QED BY <1>5, <1>6, <1>7, <1>8 DEF Control

\* A serial port transfer ends with a zero, which the unit takes for nothing.
LEMMA SerialStep == ASSUME AllHandled, ApiInv, Serial PROVE ApiInv' /\ hw'.store = hw.store
<1> DEFINE t == adbg_jsp_transact(Now, call.topbit)
           g == Scan(hw, [cmd |-> "serial", last |-> 0])
<1>0. UnitInv /\ AtRegister /\ UNCHANGED <<setup, call>> /\ pc = "serial"
      BY DEF ApiInv, Serial
<1>a. CASE ScanLost("cable", Now, hw, SerialBits(call.topbit))
  <2> DEFINE p == SerialBits(call.topbit)
  <2>1. InCall /\ Quiet(hw) /\ sel.desired_chain \in Modules
        BY <1>0 DEF AtRegister, Between, Known, InCall, IsCall, Modules, NoChain
  <2>2. Sound(hw)
        BY <1>0, <2>1, QuietIsSound DEF UnitInv
  <2>3. SoundPair(Now)
        BY <1>0, <2>1, <2>2, NowSound
  <2>4. Names(p)
        BY DEF Names, SerialBits
  <2> HIDE DEF p
  <2>5. Fault("cable") /\ hw' \in ScanTorn(hw, p) /\ sel' = Now.sel /\ Return("cable")
        BY <1>a DEF ScanLost, p
  <2>6. SoundSet(ScanTorn(hw, p), hw.store)
        BY <2>2, <2>4, ScanTornSound
  <2> QED BY <1>0, <2>1, <2>3, <2>5, <2>6, TornGone
<1>b. SUFFICES ASSUME NoFault, Become(t), Return("ok") PROVE ApiInv' /\ hw'.store = hw.store
      BY <1>a DEF Serial
<1>1. UnitInv /\ AtRegister /\ UNCHANGED <<setup, call, faults>> /\ pc = "serial" /\ Become(t) /\ Return("ok")
      BY <1>0, <1>b DEF NoFault
<1>2. IsPair(Now) /\ Now.hw = hw /\ Now.sel = sel
      BY <1>1, NowIs
<1>3. InCall /\ IsCall(call) /\ IsLocals /\ call.op = "serial" /\ call.topbit \in {0, 1} /\ call.chain = call.want
      BY <1>1 DEF AtRegister, InCall, IsCall
<1>4. t = [Now EXCEPT !.hw = g]
      BY <1>2, <1>3 DEF adbg_jsp_transact, SerialBits
<1>5. Quiet(g) /\ SameUnit(g, hw)
      BY <1>1, ScanKeeps DEF AtRegister, Between
<1> HIDE DEF t, g
<1>6. hw' = g /\ sel' = sel
      BY <1>1, <1>2, <1>4 DEF Become, IsPair
<1>7. pc' = "done" /\ v'.err = "ok" /\ SameLocals(v', v)
      BY <1>1, <1>3, Returns
<1>8. faults' \in Nat /\ faults <= faults' /\ faults' <= MaxFaults
      BY <1>1 DEF UnitInv
<1>9. UnitInv'
      BY <1>1, <1>5, <1>6, <1>7, <1>8, TapMoves, UnitKept DEF Labels, UnitInv, Quiet, SameUnit
<1>10. InCall'
      BY <1>1, <1>3, <1>7, <1>8, StillInCall
<1>11. Between'
      BY <1>1, <1>5, <1>6 DEF Between, AtRegister, Known, SameUnit
<1>12. AtDone'
      BY <1>1, <1>3, <1>7, <1>10, <1>11 DEF AtDone
<1> QED BY <1>5, <1>6, <1>7, <1>9, <1>12 DEF ApiInv, LegacyLabels, SameUnit


\* The burst is announced, for the words that are left, and opened.
LEMMA CommandStep == ASSUME AllHandled, ApiInv, Command PROVE ApiInv' /\ hw'.store = hw.store
<1> DEFINE n == call.count - v.i
           s == adbg_burst_command(Now, call.op, v.addr, n)
           t == IF call.op = "read" THEN BscanKludge(s) ELSE s
<1>1. UnitInv /\ AtCommand /\ UNCHANGED <<setup, call>>
      BY DEF ApiInv, Command
<1>2. IsPair(Now) /\ Now.hw = hw /\ Now.sel = sel
      BY <1>1, NowIs
<1>3. /\ InCall /\ IsCall(call) /\ IsLocals /\ call.op \in {"read", "write"} /\ call.chain \in Stores
      /\ call.chain \in Modules /\ call.chain = call.want /\ call.count \in Nat /\ v.i \in Nat
      /\ v.i < call.count /\ call.count <= MaxCount
      BY <1>1 DEF AtCommand, InCall, IsCall, IsLocals, Transfer
<1>4. Quiet(hw) /\ hw.error = None /\ Known(hw, sel) /\ sel.desired_chain = call.chain
      BY <1>1 DEF AtCommand, Between
<1>s. setup.adv = TRUE /\ setup.hispeed \in BOOLEAN /\ setup.bscan \in BOOLEAN
      BY <1>1, SetupIs DEF UnitInv, AtCommand
<1>5. CASE /\ NoFault
           /\ Become([t EXCEPT !.hw = tap_set_shift_dr(t.hw)])
           /\ v' = [v EXCEPT !.good = TRUE, !.j = IF setup.hispeed THEN 0 ELSE v.i]
           /\ pc' = IF call.op = "read" THEN "status"
                    ELSE IF v'.j < call.count THEN "word" ELSE "crc"
  <2>1. n \in Nat /\ 0 < n /\ n < 65536
        BY <1>3, CountAssumption
  <2> HIDE DEF n
  <2>b. BurstDue(s, Now, call.op, v.addr, n)
        BY <1>2, <1>3, <1>4, <2>1, BurstCommand
  <2> HIDE DEF s
  <2>2. /\ IsPair(s) /\ IsHw(s.hw) /\ s.hw.tap = "idle" /\ s.hw.ir = "DEBUG"
        /\ s.hw.module = call.chain /\ s.sel.current_chain = call.chain /\ s.sel.desired_chain = call.chain
        /\ s.sel.soft_retry_no = 0 /\ s.hw.error = hw.error /\ s.hw.store = hw.store
        /\ s.hw.burst.open = FALSE /\ s.hw.burst.op = call.op /\ s.hw.burst.addr = v.addr
        /\ s.hw.burst.left = n
        BY <1>2, <1>4, <2>b DEF BurstDue
  <2>3. /\ IsPair(t) /\ IsHw(t.hw) /\ t.hw.tap = "idle" /\ t.hw.ir = "DEBUG"
        /\ SameUnit(t.hw, s.hw) /\ t.hw.burst = s.hw.burst
        /\ t.sel.current_chain = (IF call.op = "read" /\ setup.bscan THEN NoChain ELSE call.chain)
        /\ t.sel.desired_chain = call.chain /\ t.sel.soft_retry_no = 0
    <3>1. CASE call.op = "read" /\ setup.bscan
      <4> DEFINE h == tap_enable_debug_module(tap_set_ir(s.hw, "BYPASS"))
                 c == [s.sel EXCEPT !.current_chain = NoChain]
      <4>1. t = [hw |-> h, sel |-> c]
            BY <3>1 DEF BscanKludge
      <4>2. IsHw(h) /\ h.tap = "idle" /\ h.ir = "DEBUG" /\ SameUnit(h, s.hw) /\ h.burst = s.hw.burst
            BY <2>2, KludgeKeeps
      <4>3. /\ DOMAIN c = SelFields /\ c.current_chain = NoChain /\ c.desired_chain = call.chain
            /\ c.soft_retry_no = 0
            BY <2>2 DEF IsPair, SelFields
      <4> HIDE DEF h, c, t
      <4>4. DOMAIN t = {"hw", "sel"} /\ t.hw = h /\ t.sel = c
            BY <4>1
      <4> QED BY <3>1, <4>2, <4>3, <4>4 DEF IsPair, t
    <3>2. CASE ~ (call.op = "read" /\ setup.bscan)
      <4>1. t = s
            BY <3>2 DEF BscanKludge
      <4> HIDE DEF t
      <4> QED BY <2>2, <3>2, <4>1 DEF SameUnit, t
    <3> QED BY <3>1, <3>2
  <2> HIDE DEF t
  <2> DEFINE h == tap_set_shift_dr(t.hw)
  <2>4. /\ IsHw(h) /\ h.tap = "shiftDR" /\ h.ir = "DEBUG" /\ SameUnit(h, t.hw)
        /\ h.burst.open = (t.hw.burst.left > 0) /\ h.burst.op = t.hw.burst.op
        /\ h.burst.addr = t.hw.burst.addr /\ h.burst.left = t.hw.burst.left
        BY <2>3, ShiftDr
  <2> HIDE DEF h
  <2>5. hw' = h /\ sel' = t.sel
        BY <1>5, <2>3 DEF Become, IsPair, h
  <2>6. /\ hw'.tap = "shiftDR" /\ hw'.ir = "DEBUG" /\ hw'.module = call.chain /\ hw'.error = None
        /\ hw'.store = hw.store /\ IsHw(hw')
        /\ hw'.burst.op = call.op /\ hw'.burst.addr = v.addr /\ hw'.burst.left = n
        BY <1>4, <2>2, <2>3, <2>4, <2>5 DEF SameUnit
  <2>7. hw'.burst.open = TRUE
    <3>1. (t.hw.burst.left > 0) = TRUE
          BY <2>1, <2>2, <2>3
    <3> QED BY <2>4, <2>5, <3>1
  <2>8. /\ DOMAIN v' = LocalFields /\ v'.i = v.i /\ v'.j = v.i /\ v'.good = TRUE /\ v'.buserrs = v.buserrs
        /\ v'.faults = v.faults /\ v'.buf = v.buf
    <3>1. (IF setup.hispeed THEN 0 ELSE v.i) = v.i
          BY <1>1, <1>s DEF AtCommand, Transfer
    <3> QED BY <1>3, <1>5, <3>1 DEF IsLocals, LocalFields
  <2>9. pc' = (IF call.op = "read" THEN "status" ELSE "word")
        BY <1>3, <1>5, <2>8
  <2>10. faults' = faults /\ faults' \in Nat /\ faults <= faults' /\ faults' <= MaxFaults
        BY <1>1, <1>5 DEF NoFault, UnitInv
  <2>11. UnitInv'
        BY <1>1, <1>3, <2>3, <2>5, <2>6, <2>9, <2>10, TapMoves, UnitKept DEF Labels, IsPair
  <2>12. InCall'
    <3>1. IsCall(call)' /\ Words(call)' = Words(call)
          BY <1>1, <1>3 DEF IsCall, Words
    <3>2. IsLocals'
          BY <1>3, <2>8, <3>1 DEF IsLocals
    <3> QED BY <1>3, <2>8, <2>10, <3>1, <3>2 DEF InCall
  <2>13. Counts' /\ Transfer'
        BY <1>1, <1>4, <2>6, <2>8, <2>10 DEF AtCommand, Counts, Latched, Transfer
  <2>14. Prefix(v.j)'
    <3>1. Done(v.j)'
          BY <1>1, <1>3, <2>6, <2>8 DEF AtCommand, Done
    <3> QED BY <2>6, <3>1 DEF Prefix
  <2>15. /\ sel'.current_chain = (IF call.op = "read" /\ setup.bscan THEN NoChain ELSE call.chain)
         /\ sel'.desired_chain = call.chain /\ sel'.soft_retry_no = 0
        BY <2>3, <2>5
  <2>16. hw'.burst.addr = call.start + v'.j /\ hw'.burst.left = call.count - v'.j
        BY <1>1, <2>6, <2>8 DEF AtCommand, n
  <2>17. AtBurst'
        BY <1>1, <1>3, <1>s, <2>6, <2>7, <2>8, <2>12, <2>13, <2>14, <2>15, <2>16 DEF AtBurst
  <2> QED BY <1>1, <1>3, <2>6, <2>8, <2>9, <2>11, <2>17 DEF ApiInv, LegacyLabels
<1>n. Sound(hw) /\ SoundPair(Now) /\ setup.retries \in Nat
  <2>1. Sound(hw)
        BY <1>1, <1>4, QuietIsSound DEF UnitInv
  <2> QED BY <1>1, <1>3, <1>4, <2>1, NowSound
<1>6. CASE SelectLost(sel.desired_chain)
      BY <1>1, <1>3, <1>4, <1>6, SelectGone
<1>7. CASE LET u == adbg_select_module(Now, sel.desired_chain)
           IN  ScanLost("command", retry_ok(u), u.hw, BurstBits(call.op, v.addr, n))
  <2> DEFINE u == adbg_select_module(Now, sel.desired_chain)
             p == BurstBits(call.op, v.addr, n)
  <2>1. SoundPair(u) /\ u.hw.store = hw.store
        BY <1>2, <1>3, <1>4, <1>n, SoundSelect
  <2>2. Names(p)
        BY DEF Names, BurstBits
  <2> HIDE DEF u, p
  <2>3. Fault("command") /\ hw' \in ScanTorn(u.hw, p) /\ sel' = retry_ok(u).sel /\ Return("cable")
        BY <1>7 DEF ScanLost, u, p
  <2>4. SoundPair(retry_ok(u))
        BY <1>n, <2>1, SoundRetryOk
  <2>5. SoundSet(ScanTorn(u.hw, p), hw.store)
        BY <2>1, <2>2, ScanTornSound DEF SoundPair
  <2> QED BY <1>1, <1>3, <2>3, <2>4, <2>5, TornGone
<1>8. CASE setup.hispeed /\ Fault("cable") /\ hw' \in TornShift(s.hw) /\ sel' = s.sel /\ Return("cable")
  <2>1. SoundPair(s) /\ s.hw.store = hw.store
        BY <1>2, <1>n, SoundBurstCommand
  <2> HIDE DEF s
  <2>2. SoundSet(TornShift(s.hw), hw.store)
        BY <2>1, TornShiftSound DEF SoundPair
  <2> QED BY <1>1, <1>3, <1>8, <2>1, <2>2, TornGone
<1> QED BY <1>5, <1>6, <1>7, <1>8 DEF Command

\* The error register of the Wishbone module: a clear one ends the call, a
\* latched address is cleared and the burst repeated from it.
LEMMA ErrorRegisterStep == ASSUME AllHandled, ApiInv, ErrorRegister PROVE ApiInv' /\ hw'.store = hw.store
<1> DEFINE s == adbg_ctrl_read(Now)
           r == adbg_ctrl_read(s)
           w == adbg_ctrl_write(r, 1)
<1>1. UnitInv /\ AtErrReg /\ UNCHANGED <<setup, call, faults>>
      BY DEF ApiInv, ErrorRegister
<1>2. IsPair(Now) /\ Now.hw = hw /\ Now.sel = sel
      BY <1>1, NowIs
<1>3. /\ InCall /\ IsCall(call) /\ IsLocals /\ call.op \in {"read", "write"} /\ call.chain = "WISHBONE"
      /\ call.chain = call.want /\ v.buserrs \in Nat /\ v.faults \in Nat /\ call.start \in Nat
      BY <1>1 DEF AtErrReg, InCall, IsCall, IsLocals, Transfer
<1>4. /\ Quiet(hw) /\ hw.tap = "idle" /\ Known(hw, sel) /\ sel.current_chain = "WISHBONE"
      /\ sel.desired_chain = "WISHBONE"
      BY <1>1 DEF AtErrReg, Known, NoChain, Quiet
<1>m. "WISHBONE" \in Modules /\ "WISHBONE" \in Cpus \cup {"WISHBONE"}
      BY DEF Modules
<1>5. /\ IsPair(s) /\ Quiet(s.hw) /\ Known(s.hw, s.sel)
      /\ s.hw.module = "WISHBONE" /\ s.sel.current_chain = "WISHBONE" /\ s.sel.desired_chain = "WISHBONE"
      /\ s.sel.soft_retry_no = 0 /\ s.hw.error = hw.error /\ s.hw.store = hw.store
      BY <1>2, <1>4, <1>m, CtrlRead
<1> HIDE DEF s
<1>6. \/ hw.error = None /\ Become(s) /\ Return("ok")
      \/ /\ hw.error # None /\ v.buserrs >= MAX_BUS_ERRORS
         /\ Become(r) /\ Return("bus")
      \/ /\ hw.error # None /\ v.buserrs < MAX_BUS_ERRORS
         /\ Become(w)
         /\ v' = [v EXCEPT !.i = hw.error - call.start, !.addr = hw.error, !.buserrs = @ + 1]
         /\ pc' = "command"
  <2> DEFINE true == s.hw.module = "WISHBONE" /\ hw.tap = "idle"
  <2>1. PICK e \in IF true THEN {s.hw.error} ELSE {None} \cup Addrs :
             \/ e = None /\ Become(s) /\ Return("ok")
             \/ /\ e # None /\ v.buserrs >= MAX_BUS_ERRORS
                /\ Become(r) /\ Return("bus")
             \/ /\ e # None /\ v.buserrs < MAX_BUS_ERRORS
                /\ Become(w)
                /\ v' = [v EXCEPT !.i = e - call.start, !.addr = e, !.buserrs = @ + 1]
                /\ pc' = "command"
        BY ZenonT(60) DEF ErrorRegister, s
  <2> HIDE DEF r, w
  <2>2. e = hw.error
        BY <1>4, <1>5
  <2> QED BY <2>1, <2>2
<1>f. faults' = faults /\ faults' \in Nat /\ faults <= faults' /\ faults' <= MaxFaults /\ MaxFaults \in Nat
      BY <1>1, SetupIs DEF UnitInv
<1>7. CASE hw.error = None /\ Become(s) /\ Return("ok")
  <2>1. hw' = s.hw /\ sel' = s.sel
        BY <1>7 DEF Become
  <2>2. pc' = "done" /\ v'.err = "ok" /\ SameLocals(v', v)
        BY <1>3, <1>7, Returns
  <2>3. UnitInv'
        BY <1>1, <1>5, <1>f, <1>m, <2>1, <2>2, TapMoves, UnitKept DEF Labels, IsPair, Quiet
  <2>4. InCall'
        BY <1>1, <1>3, <1>f, <2>2, StillInCall
  <2>5. Done(call.count)'
        BY <1>1, <1>5, <1>7, <2>1, <2>2 DEF AtErrReg, Prefix, Done, SameLocals
  <2>6. AtDone'
        BY <1>1, <1>3, <1>5, <1>7, <2>1, <2>2, <2>4, <2>5 DEF AtDone, Between
  <2> QED BY <1>5, <2>1, <2>2, <2>3, <2>6 DEF ApiInv, LegacyLabels
<1>8. CASE hw.error # None
  <2>1. "bus" \in setup.faults /\ setup.adv /\ setup \in Setups
        BY <1>1, <1>8 DEF AtErrReg, UnitInv
  <2>2. setup.hispeed = FALSE /\ MAX_BUS_ERRORS \in Nat
        BY <2>1, SetupIs
  <2>3. v.faults + v.buserrs + 1 <= faults
        BY <1>1, <1>8 DEF AtErrReg, Counts, Latched
  <2>a. CASE Become(r) /\ Return("bus")
    <3>1. SoundPair(s) /\ setup.retries \in Nat
      <4>1. Sound(s.hw)
            BY <1>1, <1>5, <1>m, QuietIsSound DEF UnitInv
      <4>2. setup.retries \in Nat
            BY <2>1, SetupIs
      <4> QED BY <1>5, <1>m, <4>1, <4>2 DEF SoundPair
    <3>2. SoundPair(r) /\ r.hw.store = hw.store
          BY <1>5, <3>1, SoundCtrlRead
    <3> HIDE DEF r
    <3>3. hw' = r.hw /\ sel' = r.sel
          BY <2>a DEF Become
    <3>4. v.faults < faults' /\ DOMAIN v = LocalFields
          BY <1>1, <1>3, <1>f, <2>3 DEF IsLocals
    <3>5. IsStore(hw'.store) /\ hw'.store = hw.store
          BY <1>1, <3>2, <3>3 DEF UnitInv
    <3> QED BY <1>1, <1>f, <2>a, <3>2, <3>3, <3>4, <3>5, GoneStep DEF Sound, SoundPair, IsPair
  <2>b. SUFFICES ASSUME ~ (Become(r) /\ Return("bus")) PROVE ApiInv' /\ hw'.store = hw.store
        BY <2>a
  <2>5. /\ Become(w) /\ pc' = "command"
        /\ v' = [v EXCEPT !.i = hw.error - call.start, !.addr = hw.error, !.buserrs = @ + 1]
        BY <1>3, <1>6, <1>8, <2>2, <2>b
  <2>6. /\ IsPair(r) /\ Quiet(r.hw) /\ Known(r.hw, r.sel) /\ r.sel.desired_chain = "WISHBONE"
        /\ r.hw.store = hw.store
        BY <1>5, <1>m, CtrlRead
  <2> HIDE DEF r
  <2>7. /\ IsPair(w) /\ Quiet(w.hw) /\ Known(w.hw, w.sel) /\ w.hw.module = "WISHBONE"
        /\ w.sel.current_chain = "WISHBONE" /\ w.sel.desired_chain = "WISHBONE"
        /\ w.sel.soft_retry_no = 0 /\ w.hw.store = hw.store /\ w.hw.error = None
        BY <1>m, <2>6, CtrlWrite
  <2> HIDE DEF w
  <2>8. hw' = w.hw /\ sel' = w.sel
        BY <2>5 DEF Become
  <2>9. /\ DOMAIN v' = LocalFields /\ v'.i = hw.error - call.start /\ v'.addr = hw.error
        /\ v'.buserrs = v.buserrs + 1 /\ v'.j = v.j /\ v'.good = v.good /\ v'.faults = v.faults /\ v'.buf = v.buf
        BY <1>3, <2>5 DEF IsLocals, LocalFields
  <2>10. hw.error \in Nat
        BY <1>1, <1>8, AddrsAssumption DEF UnitInv
  <2>11. /\ v.i <= hw.error - call.start /\ hw.error - call.start < call.count /\ v.i \in Nat
         /\ Done(hw.error - call.start)
        BY <1>1, <1>3, <1>8 DEF AtErrReg, Prefix, IsLocals
  <2>12. v'.i \in Nat /\ v'.i < call.count /\ v'.addr = call.start + v'.i
        BY <1>3, <2>9, <2>10, <2>11
  <2>13. UnitInv'
        BY <1>1, <1>f, <1>m, <2>5, <2>7, <2>8, TapMoves, UnitKept DEF Labels, IsPair, Quiet
  <2>14. InCall'
    <3>1. IsCall(call)' /\ Words(call)' = Words(call)
          BY <1>1, <1>3 DEF IsCall, Words
    <3>2. IsLocals'
          BY <1>3, <2>9, <2>12, <3>1 DEF IsLocals
    <3> QED BY <1>3, <1>f, <2>9, <3>1, <3>2 DEF InCall
  <2>15. Counts'
        BY <1>1, <1>3, <1>f, <2>3, <2>7, <2>8, <2>9 DEF AtErrReg, Counts, Latched
  <2>16. Done(v.i)'
        BY <1>1, <2>7, <2>8, <2>9, <2>11 DEF Done
  <2>17. AtCommand'
        BY <1>1, <1>3, <2>1, <2>2, <2>7, <2>8, <2>12, <2>14, <2>15, <2>16 DEF AtCommand, Between, Transfer
  <2> QED BY <2>5, <2>7, <2>8, <2>13, <2>17 DEF ApiInv, LegacyLabels
<1> QED BY <1>6, <1>7, <1>8


-----------------------------------------------------------------------------
(* A word of a burst.                                                       *)

\* The unit moves on to the next word, whatever becomes of this one.
PassedBy(g, h) ==
  /\ IsHw(g) /\ g.tap = h.tap /\ g.ir = h.ir /\ g.module = h.module /\ g.lcmd = h.lcmd /\ g.ctl = h.ctl
  /\ g.burst.open = h.burst.open /\ g.burst.op = h.burst.op
  /\ g.burst.addr = h.burst.addr + 1 /\ g.burst.left = h.burst.left - 1

\* NextWord counts the word and changes nothing else.
LEMMA NextWordIs ==
  ASSUME NEW h, IsHw(h)
  PROVE  LET g == NextWord(h) IN PassedBy(g, h) /\ g.error = h.error /\ g.store = h.store
<1> DEFINE g == NextWord(h)
           b == [h.burst EXCEPT !.addr = h.burst.addr + 1, !.left = h.burst.left - 1]
<1>1. g = [h EXCEPT !.burst = b]
      BY DEF NextWord, IsHw, HwFields, BurstFields
<1>2. /\ DOMAIN b = BurstFields /\ b.open = h.burst.open /\ b.op = h.burst.op
      /\ b.addr = h.burst.addr + 1 /\ b.left = h.burst.left - 1
      BY DEF IsHw, BurstFields
<1> HIDE DEF g, b
<1> QED BY <1>1, <1>2 DEF PassedBy, IsHw, HwFields, g

\* A word is stored at one address of one module.
LEMMA StoreWritten ==
  ASSUME NEW st, NEW m \in Stores, NEW a \in Addrs, NEW w \in Word, IsStore(st)
  PROVE  LET t == [st EXCEPT ![m][a] = w] IN
         /\ IsStore(t) /\ t[m][a] = w
         /\ \A x \in Stores, y \in Addrs : x # m \/ y # a => t[x][y] = st[x][y]
<1> DEFINE t == [st EXCEPT ![m][a] = w]
<1>1. DOMAIN t = Stores /\ \A x \in Stores : t[x] = IF x = m THEN [st[m] EXCEPT ![a] = w] ELSE st[x]
      BY DEF IsStore
<1>2. DOMAIN t[m] = Addrs /\ \A y \in Addrs : t[m][y] = IF y = a THEN w ELSE st[m][y]
      BY <1>1 DEF IsStore
<1> HIDE DEF t
<1>3. IsStore(t)
      BY <1>1, <1>2 DEF IsStore
<1> QED BY <1>1, <1>2, <1>3 DEF t

\* A word of a burst is stored where the unit is at, and nowhere else.
LEMMA WordWrittenIs ==
  ASSUME NEW h, NEW w \in Word, IsHw(h), IsStore(h.store), h.module \in Stores, h.burst.addr \in Addrs
  PROVE  LET g == WordWritten(h, w) IN
         /\ PassedBy(g, h) /\ g.error = h.error
         /\ IsStore(g.store) /\ g.store[h.module][h.burst.addr] = w
         /\ \A x \in Stores, y \in Addrs : x # h.module \/ y # h.burst.addr => g.store[x][y] = h.store[x][y]
<1> DEFINE n == NextWord(h)
           st == [h.store EXCEPT ![h.module][h.burst.addr] = w]
           g == WordWritten(h, w)
<1>1. PassedBy(n, h) /\ n.error = h.error /\ n.store = h.store
      BY NextWordIs
<1>2. g = [n EXCEPT !.store[h.module][h.burst.addr] = w]
      BY DEF WordWritten
<1> HIDE DEF n, g
<1>3. g = [n EXCEPT !.store = st]
      BY <1>1, <1>2 DEF PassedBy, IsHw, HwFields
<1>4. /\ IsStore(st) /\ st[h.module][h.burst.addr] = w
      /\ \A x \in Stores, y \in Addrs : x # h.module \/ y # h.burst.addr => st[x][y] = h.store[x][y]
      BY StoreWritten
<1> HIDE DEF st
<1>5. PassedBy(g, h) /\ g.error = h.error /\ g.store = st
      BY <1>1, <1>3 DEF PassedBy, IsHw, HwFields
<1> QED BY <1>4, <1>5 DEF g

\* A word the bus refuses is lost; the first such address is latched.
LEMMA BusErrorIs ==
  ASSUME NEW h, IsHw(h)
  PROVE  LET g == BusError(h) IN
         /\ PassedBy(g, h) /\ g.store = h.store
         /\ g.error = IF h.error = None THEN h.burst.addr ELSE h.error
<1> DEFINE n == NextWord(h)
           g == BusError(h)
<1>1. PassedBy(n, h) /\ n.error = h.error /\ n.store = h.store
      BY NextWordIs
<1>2. g = [n EXCEPT !.error = IF h.error = None THEN h.burst.addr ELSE n.error]
      BY DEF BusError
<1> HIDE DEF n, g
<1>3. PassedBy(g, h) /\ g.store = h.store /\ g.error = (IF h.error = None THEN h.burst.addr ELSE n.error)
      BY <1>1, <1>2 DEF PassedBy, IsHw, HwFields
<1> QED BY <1>1, <1>3 DEF g

\* A unit that has gone past a word is still within its types.
LEMMA PassedIsSound ==
  ASSUME NEW g, NEW h, PassedBy(g, h), Sound(h), h.burst.open = TRUE, g.error = h.error
  PROVE  Sound(g)
BY DEF PassedBy, Sound

\* The facts of an open burst that the steps below share.
LEMMA BurstFacts ==
  ASSUME AllHandled, UnitInv, AtBurst
  PROVE  /\ InCall /\ IsCall(call) /\ IsLocals /\ setup \in Setups /\ setup.adv = TRUE
         /\ setup.hispeed \in BOOLEAN /\ setup.retries \in Nat /\ setup.bscan \in BOOLEAN
         /\ call.op \in {"read", "write"} /\ call.chain = call.want /\ call.want \in Stores /\ call.want \in Modules
         /\ call.count \in Nat /\ call.count <= MaxCount /\ call.start \in Nat
         /\ v.i \in Nat /\ v.j \in Nat /\ v.buserrs \in Nat /\ v.faults \in Nat /\ v.good \in BOOLEAN
         /\ faults \in Nat /\ faults <= MaxFaults /\ MaxFaults \in Nat
         /\ IsHw(hw) /\ IsStore(hw.store) /\ hw.error \in Addrs \cup {None} /\ hw.tap = "shiftDR"
         /\ hw.module = call.want
         /\ v.j < call.count => call.start + v.j \in Addrs /\ hw.burst.addr = call.start + v.j
<1>1. InCall /\ IsCall(call) /\ IsLocals /\ setup \in Setups /\ call.op \in {"read", "write"}
      BY DEF AtBurst, InCall, Transfer, UnitInv
<1>2. /\ setup.adv = TRUE /\ setup.hispeed \in BOOLEAN /\ setup.retries \in Nat /\ setup.bscan \in BOOLEAN
      /\ MaxFaults \in Nat
      BY <1>1, SetupIs DEF AtBurst
<1>3. /\ call.chain = call.want /\ call.want \in Stores /\ call.want \in Modules
      /\ call.count \in Nat /\ call.count <= MaxCount /\ call.start \in Nat
      /\ v.i \in Nat /\ v.j \in Nat /\ v.buserrs \in Nat /\ v.faults \in Nat /\ v.good \in BOOLEAN
      BY <1>1 DEF IsCall, IsLocals
<1>4. v.j < call.count => call.start + v.j \in Addrs
  <2>1. v.j < call.count => v.j \in Words(call)
        BY <1>3 DEF Words
  <2> QED BY <1>1, <2>1 DEF IsCall
<1> QED BY <1>1, <1>2, <1>3, <1>4 DEF AtBurst, UnitInv

\* Before its last word the unit is in the burst the code thinks it is in.
LEMMA BurstIsOpen ==
  ASSUME AllHandled, UnitInv, AtBurst, v.j < call.count
  PROVE  InBurst(hw, call.op)
<1>1. call.count - v.j > 0
      BY BurstFacts
<1> QED BY <1>1 DEF AtBurst, InBurst, Listening

\* Where a burst that is broken off is taken up again, every word so far is
\* where it belongs.
LEMMA Resumable ==
  ASSUME AllHandled, UnitInv, AtBurst, setup.faults \cap {"timeout", "cable"} # {}, setup.retries > 0
  PROVE  hw.error = None /\ (setup.hispeed = FALSE => Done(v.j))
<1>1. /\ "bus" \notin setup.faults /\ setup.hispeed \in BOOLEAN
      /\ ("word" \in setup.faults => setup.hispeed)
      BY BurstFacts, SetupIs
<1>2. hw.error = None
      BY <1>1 DEF AtBurst
<1>3. ASSUME setup.hispeed = FALSE PROVE Done(v.j)
  <2>1. v.good = TRUE
        BY <1>1, <1>3, BurstFacts DEF AtBurst
  <2> QED BY <1>2, <2>1 DEF AtBurst, Prefix
<1> QED BY <1>1, <1>2, <1>3

\* A unit in an open burst is within its types, and the cache is.
LEMMA BurstIsSound ==
  ASSUME AllHandled, UnitInv, AtBurst
  PROVE  /\ Sound(hw) /\ SoundPair(Now) /\ Now.hw = hw /\ Now.sel = sel /\ setup.retries \in Nat
         /\ sel.soft_retry_no = 0 /\ sel.desired_chain \in Modules /\ DOMAIN v = LocalFields
<1>1. Sound(hw)
      BY TapMoves DEF AtBurst, UnitInv, Sound
<1>2. sel.desired_chain \in Modules /\ sel.soft_retry_no = 0 /\ DOMAIN v = LocalFields
      BY BurstFacts DEF AtBurst, IsLocals
<1> QED BY <1>1, <1>2, NowSound


\* retry_full_do and retry_partial_do: the burst is announced again, from its
\* first word or from the one it broke off at.
LEMMA BurstRetried ==
  ASSUME AllHandled, UnitInv, AtBurst, setup' = setup, call' = call,
         faults' \in Nat, faults <= faults', faults' <= MaxFaults,
         NEW g, IsHw(g), g.tap \in DOMAIN TapNext, IsStore(g.store),
         hw' = tap_enable_debug_module(tap_reset(g)),
         sel' = [sel EXCEPT !.current_chain = NoChain, !.current_reg_idx = {}, !.soft_retry_no = @ + 1],
         0 < setup.retries,
         \/ RetryFull
         \/ /\ RetryPartial /\ setup.hispeed = FALSE /\ v.j < call.count
            /\ \A k \in 0 .. v.j - 1 :
                 /\ call.op = "read" => v.buf[k] = g.store[call.want][call.start + k]
                 /\ call.op = "write" => g.store[call.want][call.start + k] = Data(k)
  PROVE  ApiInv' /\ hw'.store = g.store
<1> DEFINE s == [hw |-> g, sel |-> sel]
<1>1. IsPair(s) /\ s.hw = g /\ s.sel = sel
      BY SMTT(30) DEF UnitInv, IsPair
<1> HIDE DEF s
<1>2. /\ Quiet(hw') /\ hw'.module = "WISHBONE" /\ hw'.error = None /\ hw'.store = g.store
      /\ DOMAIN sel' = SelFields /\ sel'.current_chain = NoChain /\ sel'.desired_chain = sel.desired_chain
      /\ sel'.soft_retry_no = sel.soft_retry_no + 1 /\ Known(hw', sel')
      BY <1>1, AfterRetry, ZenonT(60)
<1>3. /\ InCall /\ IsCall(call) /\ IsLocals /\ setup.adv = TRUE /\ setup.retries \in Nat
      /\ call.count \in Nat /\ call.start \in Nat /\ v.i \in Nat /\ v.j \in Nat
      /\ v.buserrs \in Nat /\ v.faults \in Nat /\ faults \in Nat
      BY BurstFacts
<1>4. pc' = "command" /\ v' = [v EXCEPT !.i = v'.i, !.addr = call.start + v'.i]
  <2>1. CASE RetryFull
    <3>1. v' = [v EXCEPT !.i = 0, !.addr = call.start] /\ pc' = "command"
          BY <2>1 DEF RetryFull
    <3>2. v'.i = 0 /\ call.start + 0 = call.start
          BY <1>3, <3>1 DEF IsLocals, LocalFields
    <3> QED BY <3>1, <3>2
  <2>2. CASE RetryPartial
    <3>1. v' = [v EXCEPT !.i = v.j, !.addr = call.start + v.j] /\ pc' = "command"
          BY <2>2 DEF RetryPartial
    <3>2. v'.i = v.j
          BY <1>3, <3>1 DEF IsLocals, LocalFields
    <3> QED BY <3>1, <3>2
  <2> QED BY <2>1, <2>2
<1>5. /\ DOMAIN v' = LocalFields /\ v'.addr = call.start + v'.i
      /\ v'.j = v.j /\ v'.good = v.good /\ v'.buserrs = v.buserrs /\ v'.faults = v.faults /\ v'.buf = v.buf
      BY <1>3, <1>4 DEF IsLocals, LocalFields
<1>6. /\ v'.i \in Nat /\ v'.i < call.count /\ (setup.hispeed => v'.i = 0)
      /\ Done(v.i)'
  <2>1. CASE RetryFull
    <3>1. v'.i = 0
          BY <1>3, <2>1 DEF RetryFull, IsLocals, LocalFields
    <3>2. 0 < call.count
          BY <1>3 DEF AtBurst, Transfer
    <3> QED BY <3>1, <3>2 DEF Done
  <2>2. CASE RetryPartial /\ ~ RetryFull
    <3>1. v'.i = v.j
          BY <1>3, <2>2 DEF RetryPartial, IsLocals, LocalFields
    <3>2. Done(v.i)'
          BY <1>2, <1>5, <2>2, <3>1 DEF Done
    <3> QED BY <1>3, <2>2, <3>1, <3>2
  <2> QED BY <2>1, <2>2
<1>7. InCall'
  <2>1. IsCall(call)' /\ Words(call)' = Words(call)
        BY <1>3 DEF IsCall, Words
  <2>2. IsLocals'
        BY <1>3, <1>5, <1>6, <2>1 DEF IsLocals
  <2> QED BY <1>3, <1>5, <2>1, <2>2 DEF InCall
<1>8. Counts'
  <2>1. v.faults + v.buserrs + 0 <= faults /\ (v.good = FALSE => v.faults < faults)
        BY <1>3 DEF AtBurst, Counts, Latched
  <2> QED BY <1>2, <1>3, <1>5, <2>1 DEF Counts, Latched
<1>9. AtCommand'
      BY <1>2, <1>3, <1>5, <1>6, <1>7, <1>8 DEF AtBurst, AtCommand, Between, Transfer
<1>10. sel'.soft_retry_no \in Nat /\ sel'.soft_retry_no <= setup'.retries
      BY <1>2, <1>3 DEF AtBurst
<1>11. UnitInv'
      BY <1>2, <1>3, <1>4, <1>10, TapMoves DEF UnitInv, Labels, Modules, Quiet
<1> QED BY <1>2, <1>4, <1>9, <1>11 DEF ApiInv, LegacyLabels

\* A word went by: the loop and the unit are still at the same one.
LEMMA WordPassed ==
  ASSUME AllHandled, UnitInv, AtBurst, v.j < call.count, setup' = setup, call' = call, sel' = sel,
         faults' \in Nat, faults <= faults', faults' <= MaxFaults,
         PassedBy(hw', hw), IsStore(hw'.store), hw'.error \in Addrs \cup {None},
         DOMAIN v' = LocalFields, v'.i = v.i, v'.j = v.j + 1, v'.buserrs = v.buserrs, v'.faults = v.faults,
         DOMAIN v'.buf = Words(call), v'.good \in BOOLEAN,
         Counts', v'.good = TRUE => Prefix(v.j)', v'.good = FALSE => "word" \in setup.faults,
         hw'.error # None => "bus" \in setup.faults /\ hw.module = "WISHBONE",
         pc' = (IF v.j + 1 >= call.count THEN "crc"
                ELSE IF call.op = "write" \/ setup.hispeed THEN "word" ELSE "status")
  PROVE  ApiInv'
<1>1. /\ InCall /\ IsCall(call) /\ IsLocals /\ setup.adv = TRUE /\ setup.retries \in Nat
      /\ call.count \in Nat /\ call.start \in Nat /\ v.i \in Nat /\ v.j \in Nat /\ call.op \in {"read", "write"}
      /\ v.buserrs \in Nat /\ v.faults \in Nat /\ faults \in Nat /\ hw.tap = "shiftDR"
      /\ setup.hispeed \in BOOLEAN
      BY BurstFacts
<1>2. InCall'
  <2>1. IsCall(call)' /\ Words(call)' = Words(call)
        BY <1>1 DEF IsCall, Words
  <2>2. IsLocals'
        BY <1>1, <2>1 DEF IsLocals
  <2> QED BY <1>1, <2>1, <2>2 DEF InCall
<1>3. v'.i <= v'.j /\ v'.j <= call.count /\ v'.i < call.count /\ (setup.hispeed => v'.i = 0)
      BY <1>1 DEF AtBurst, Transfer
<1>4. /\ hw'.tap = "shiftDR" /\ hw'.ir = "DEBUG" /\ hw'.module = call.chain
      /\ hw'.burst.open = TRUE /\ hw'.burst.op = call.op
      /\ hw'.burst.addr = call.start + v'.j /\ hw'.burst.left = call.count - v'.j
      BY <1>1 DEF AtBurst, PassedBy
<1>5. Transfer'
      BY <1>1, <1>3 DEF Transfer
<1>6. AtBurst'
      BY <1>1, <1>2, <1>3, <1>4, <1>5 DEF AtBurst
<1>7. UnitInv'
      BY <1>1, <1>4, TapMoves DEF UnitInv, Labels, PassedBy
<1>8. /\ pc' \in {"status", "word", "crc"}
      /\ pc' = "status" => call'.op = "read"
      /\ pc' \in {"status", "word"} => v'.j < call'.count
      /\ pc' = "crc" => v'.j = call'.count
      BY <1>1, <1>3
<1> QED BY <1>6, <1>7, <1>8 DEF ApiInv, LegacyLabels

\* The status bit comes, or the burst is taken up again after a reset.
LEMMA ReadStatusStep == ASSUME AllHandled, ApiInv, ReadStatus PROVE ApiInv' /\ hw'.store = hw.store
<1>1. /\ UnitInv /\ AtBurst /\ setup' = setup /\ call' = call
      /\ call.op = "read" /\ v.j < call.count
      BY DEF ApiInv, ReadStatus
<1>2. InBurst(hw, "read")
      BY <1>1, BurstIsOpen
<1>3. /\ IsHw(hw) /\ hw.tap = "shiftDR" /\ IsStore(hw.store) /\ setup.hispeed \in BOOLEAN
      /\ setup.retries \in Nat
      BY <1>1, BurstFacts
<1>4. CASE NoFault /\ pc' = "word" /\ UNCHANGED <<hw, sel, v>>
  <2>1. faults' = faults
        BY <1>4 DEF NoFault
  <2>2. AtBurst'
        BY <1>1, <1>4, <2>1 DEF AtBurst, InCall, IsCall, IsLocals, Words, Counts, Latched, Transfer, Prefix, Done
  <2>3. UnitInv'
        BY <1>1, <1>4, <2>1 DEF UnitInv, Labels
  <2> QED BY <1>1, <1>4, <2>2, <2>3 DEF ApiInv, LegacyLabels
<1>5. CASE Fault("timeout") /\ retry_do(Now, IF setup.hispeed THEN RetryFull ELSE RetryPartial, Return("retries"))
  <2>1. faults' \in Nat /\ faults <= faults' /\ faults' <= MaxFaults /\ "timeout" \in setup.faults
        BY <1>1, <1>5, Counted
  <2>a. CASE ~ (setup.retries > 0)
    <3>1. /\ Sound(hw) /\ Now.hw = hw /\ Now.sel = sel /\ sel.soft_retry_no = 0 /\ DOMAIN v = LocalFields
          BY <1>1, BurstIsSound
    <3>2. ~ (sel.soft_retry_no < setup.retries)
          BY <1>3, <2>a, <3>1
    <3>3. hw' = hw /\ sel' = sel /\ Return("retries")
          BY <1>5, <3>1, <3>2 DEF retry_do, Become
    <3>4. v.faults < faults'
          BY <1>1, <1>5, Counted, BurstFacts DEF InCall
    <3> QED BY <1>1, <2>1, <3>1, <3>3, <3>4, GoneStep DEF UnitInv
  <2>b. SUFFICES ASSUME setup.retries > 0 PROVE ApiInv' /\ hw'.store = hw.store
        BY <2>a
  <2>2. setup.retries > 0 /\ (setup.hispeed = FALSE => Done(v.j))
        BY <1>1, <2>1, <2>b, Resumable
  <2>3. /\ hw' = tap_enable_debug_module(tap_reset(hw))
        /\ sel' = [sel EXCEPT !.current_chain = NoChain, !.current_reg_idx = {}, !.soft_retry_no = @ + 1]
        /\ IF setup.hispeed THEN RetryFull ELSE RetryPartial
    <3>1. Now.hw = hw /\ Now.sel = sel
          BY DEF Now
    <3>2. ~ (sel.soft_retry_no >= setup.retries)
          BY <1>1, <1>3, <2>2 DEF AtBurst
    <3> QED BY <1>5, <3>1, <3>2 DEF retry_do
  <2>4. \/ RetryFull
        \/ /\ RetryPartial /\ setup.hispeed = FALSE /\ v.j < call.count
           /\ \A k \in 0 .. v.j - 1 :
                /\ call.op = "read" => v.buf[k] = hw.store[call.want][call.start + k]
                /\ call.op = "write" => hw.store[call.want][call.start + k] = Data(k)
        BY <1>1, <1>3, <2>2, <2>3 DEF Done
  <2> QED BY <1>1, <1>3, <2>1, <2>2, <2>3, <2>4, TapMoves, BurstRetried
<1>6. CASE setup.hispeed /\ Fault("cable") /\ UNCHANGED <<hw, sel>> /\ Return("cable")
  <2>1. SoundPair(Now) /\ Now.sel = sel /\ Sound(hw)
        BY <1>1, BurstIsSound
  <2>2. SoundSet({hw}, hw.store)
        BY <2>1 DEF SoundSet
  <2>3. hw' \in {hw} /\ sel' = Now.sel
        BY <1>6, <2>1
  <2> QED BY <1>1, <1>6, <2>1, <2>2, <2>3, TornGone, BurstFacts
<1> QED BY <1>2, <1>4, <1>5, <1>6 DEF ReadStatus


\* What OnlyAsked says of one step.
Asked ==
  \A m \in Stores, a \in Addrs :
     hw'.store[m][a] # hw.store[m][a] =>
       /\ call.op = "write" /\ call.want = m /\ a - call.start \in Words(call)
       /\ hw'.store[m][a] \in {Data(a - call.start), Bad}

\* One more word was moved, or the first bus error was latched at it: the words
\* before it are still where they belong.
LEMMA PrefixGrows ==
  ASSUME AllHandled, UnitInv, AtBurst, v.j < call.count, call' = call, v'.i = v.i, v'.j = v.j + 1, Prefix(v.j),
         \A k \in 0 .. v.j - 1 :
            /\ call.op = "read" => v'.buf[k] = v.buf[k] /\ hw'.store[call.want][call.start + k] = hw.store[call.want][call.start + k]
            /\ call.op = "write" => hw'.store[call.want][call.start + k] = hw.store[call.want][call.start + k],
         \/ /\ hw'.error = hw.error
            /\ call.op = "read" => v'.buf[v.j] = hw'.store[call.want][call.start + v.j]
            /\ call.op = "write" => hw'.store[call.want][call.start + v.j] = Data(v.j)
         \/ hw'.error = IF hw.error = None THEN call.start + v.j ELSE hw.error
  PROVE  Prefix(v.j)'
<1>1. /\ call.count \in Nat /\ call.start \in Nat /\ v.i \in Nat /\ v.j \in Nat /\ v.i <= v.j
      /\ hw.error \in Addrs \cup {None} /\ call.op \in {"read", "write"}
      BY BurstFacts DEF AtBurst
<1>2. \A n \in Int : n <= v.j /\ Done(n) => Done(n)'
      BY <1>1 DEF Done
<1>3. CASE hw.error # None
  <2>1. hw'.error = hw.error /\ hw.error \in Nat
        BY <1>1, <1>3, AddrsAssumption
  <2>2. v.i <= hw.error - call.start /\ hw.error - call.start < v.j /\ Done(hw.error - call.start)
        BY <1>3 DEF Prefix
  <2>3. Done(hw.error - call.start)'
        BY <1>1, <1>2, <2>1, <2>2, SMTT(30) DEF Done
  <2> QED BY <1>1, <1>3, <2>1, <2>2, <2>3 DEF Prefix
<1>4. CASE hw.error = None /\ hw'.error = None
  <2>1. Done(v.j)
        BY <1>4 DEF Prefix
  <2>2. call.start + v.j # None
        BY <1>1 DEF None
  <2>3. /\ call.op = "read" => v'.buf[v.j] = hw'.store[call.want][call.start + v.j]
        /\ call.op = "write" => hw'.store[call.want][call.start + v.j] = Data(v.j)
        BY <1>1, <1>4, <2>2
  <2>4. \A k \in 0 .. v'.j - 1 : k = v.j \/ k \in 0 .. v.j - 1
        BY <1>1
  <2>5. ASSUME NEW k \in 0 .. v'.j - 1
        PROVE  /\ call.op = "read" => v'.buf[k] = hw'.store[call.want][call.start + k]
               /\ call.op = "write" => hw'.store[call.want][call.start + k] = Data(k)
    <3>1. CASE k = v.j
          BY <2>3, <3>1
    <3>2. CASE k \in 0 .. v.j - 1
          BY <2>1, <3>2 DEF Done
    <3> QED BY <2>4, <3>1, <3>2
  <2> QED BY <1>4, <2>5 DEF Prefix, Done
<1>5. CASE hw.error = None /\ hw'.error # None
  <2>1. hw'.error = call.start + v.j /\ hw'.error - call.start = v.j
        BY <1>1, <1>5
  <2>2. Done(v.j)
        BY <1>5 DEF Prefix
  <2>3. Done(hw.error - call.start)'
        BY <1>1, <2>1, <2>2 DEF Done
  <2> QED BY <1>1, <1>5, <2>1, <2>3 DEF Prefix
<1> QED BY <1>3, <1>4, <1>5


\* A word is read: as sent, garbled, or lost to a bus error.
LEMMA ReadWordStep == ASSUME AllHandled, ApiInv, ReadWord PROVE ApiInv' /\ hw'.store = hw.store
<1>1. /\ UnitInv /\ AtBurst /\ setup' = setup /\ call' = call /\ sel' = sel
      /\ call.op = "read" /\ v.j < call.count
      BY DEF ApiInv, ReadWord
<1>2. InBurst(hw, "read")
      BY <1>1, BurstIsOpen
<1>3. /\ IsLocals /\ call.count \in Nat /\ call.start \in Nat /\ v.i \in Nat /\ v.j \in Nat /\ v.good \in BOOLEAN
      /\ v.buserrs \in Nat /\ v.faults \in Nat /\ faults \in Nat /\ setup.hispeed \in BOOLEAN
      BY <1>1, BurstFacts
<1>h. /\ IsHw(hw) /\ IsStore(hw.store) /\ hw.module = call.want /\ call.start + v.j \in Addrs
      /\ hw.burst.addr = call.start + v.j /\ hw.error \in Addrs \cup {None}
      BY <1>1, BurstFacts
<1>4. PICK w \in {"intact", "garbled", "buserr"} :
        /\ CASE w = "intact" -> NoFault
             [] w = "garbled" -> Fault("word")
             [] w = "buserr" -> hw.module = "WISHBONE" /\ Fault("bus")
        /\ hw' = IF w = "buserr" THEN BusError(hw) ELSE NextWord(hw)
        /\ v' = [v EXCEPT !.j = @ + 1,
                          !.good = @ /\ w \in {"intact", "buserr"},
                          !.buf = [k \in DOMAIN @ |->
                                     IF k # v.j THEN @[k]
                                     ELSE IF w = "intact" THEN WordRead(hw) ELSE Bad]]
        /\ pc' = IF v.j + 1 >= call.count THEN "crc"
                 ELSE IF setup.hispeed THEN "word" ELSE "status"
      BY <1>2 DEF ReadWord
<1>5. /\ DOMAIN v' = LocalFields /\ v'.i = v.i /\ v'.j = v.j + 1 /\ v'.buserrs = v.buserrs /\ v'.faults = v.faults
      /\ v'.good = (v.good /\ w \in {"intact", "buserr"})
      /\ v'.buf = [k \in DOMAIN v.buf |-> IF k # v.j THEN v.buf[k]
                                          ELSE IF w = "intact" THEN WordRead(hw) ELSE Bad]
      BY <1>3, <1>4 DEF IsLocals, LocalFields
<1>6. /\ DOMAIN v'.buf = Words(call) /\ \A k \in 0 .. v.j - 1 : v'.buf[k] = v.buf[k]
      /\ w = "intact" => v'.buf[v.j] = WordRead(hw)
  <2>1. v.j \in Words(call) /\ \A k \in 0 .. v.j - 1 : k \in Words(call) /\ k # v.j
        BY <1>1, <1>3 DEF Words
  <2>2. DOMAIN v.buf = Words(call)
        BY <1>3 DEF IsLocals
  <2> QED BY <1>5, <2>1, <2>2
<1>7. v'.good \in BOOLEAN /\ (v'.good = TRUE => v.good = TRUE /\ w # "garbled")
      /\ (v'.good = FALSE => v.good = FALSE \/ w = "garbled")
      BY <1>3, <1>5
<1>8. /\ PassedBy(hw', hw) /\ hw'.store = hw.store
      /\ hw'.error = IF w = "buserr" /\ hw.error = None THEN call.start + v.j ELSE hw.error
      BY <1>3, <1>h, <1>4, NextWordIs, BusErrorIs
<1>9. /\ faults' \in Nat /\ faults <= faults' /\ faults' <= MaxFaults
      /\ w = "garbled" => "word" \in setup.faults /\ faults' = faults + 1
      /\ w = "buserr" => "bus" \in setup.faults /\ hw.module = "WISHBONE" /\ faults' = faults + 1
  <2>1. CASE w = "intact"
        BY <1>1, <1>4, <2>1, Counted
  <2>2. CASE w = "garbled"
        BY <1>1, <1>4, <2>2, Counted
  <2>3. CASE w = "buserr"
        BY <1>1, <1>4, <2>3, Counted
  <2> QED BY <2>1, <2>2, <2>3
<1>10. Counts'
  <2>1. v.faults + v.buserrs + Latched <= faults /\ (v.good = FALSE => v.faults < faults)
        BY <1>1 DEF AtBurst, Counts
  <2>2. /\ Latched \in Nat /\ Latched' \in Nat /\ Latched' <= Latched + 1
        /\ w # "buserr" => Latched' = Latched
        BY <1>8 DEF Latched
  <2>3. CASE w = "intact"
        BY <1>3, <1>5, <1>7, <1>9, <2>1, <2>2, <2>3 DEF Counts
  <2>4. CASE w = "garbled"
    <3>1. faults' = faults + 1 /\ Latched' = Latched
          BY <1>9, <2>2, <2>4
    <3> QED BY <1>3, <1>5, <2>1, <2>2, <3>1 DEF Counts
  <2>5. CASE w = "buserr"
    <3>1. faults' = faults + 1
          BY <1>9, <2>5
    <3> QED BY <1>3, <1>5, <2>1, <2>2, <3>1 DEF Counts
  <2> QED BY <2>3, <2>4, <2>5
<1>11. ASSUME v'.good = TRUE PROVE Prefix(v.j)'
  <2>1. Prefix(v.j) /\ w # "garbled"
        BY <1>1, <1>7, <1>11 DEF AtBurst
  <2>2. w = "intact" => v'.buf[v.j] = hw'.store[call.want][call.start + v.j]
        BY <1>3, <1>h, <1>6, <1>8 DEF WordRead
  <2>3. \/ /\ hw'.error = hw.error
           /\ call.op = "read" => v'.buf[v.j] = hw'.store[call.want][call.start + v.j]
           /\ call.op = "write" => hw'.store[call.want][call.start + v.j] = Data(v.j)
        \/ hw'.error = IF hw.error = None THEN call.start + v.j ELSE hw.error
        BY <1>1, <1>8, <2>1, <2>2
  <2> QED BY <1>1, <1>5, <1>6, <1>8, <2>1, <2>3, PrefixGrows
<1>12. /\ hw'.error \in Addrs \cup {None} /\ (v'.good = FALSE => "word" \in setup.faults)
       /\ hw'.error # None => "bus" \in setup.faults /\ hw.module = "WISHBONE"
      BY <1>1, <1>h, <1>7, <1>8, <1>9 DEF AtBurst
<1>13. pc' = (IF v.j + 1 >= call.count THEN "crc"
              ELSE IF call.op = "write" \/ setup.hispeed THEN "word" ELSE "status")
      BY <1>1, <1>4
<1>14. IsStore(hw'.store)
      BY <1>h, <1>8
<1> QED BY <1>1, <1>5, <1>6, <1>7, <1>8, <1>9, <1>10, <1>11, <1>12, <1>13, <1>14, WordPassed


\* A word is written: as given, garbled, or lost to a bus error.
LEMMA WordSent ==
  ASSUME AllHandled, UnitInv, AtBurst, v.j < call.count, call.op = "write",
         setup' = setup, call' = call, sel' = sel, NEW w \in {"intact", "garbled", "buserr"},
         w = "intact" => NoFault, w = "garbled" => Fault("word"),
         w = "buserr" => hw.module = "WISHBONE" /\ Fault("bus"),
         w = "intact" => hw' = WordWritten(hw, Data(v.j)), w = "garbled" => hw' = WordWritten(hw, Bad),
         w = "buserr" => hw' = BusError(hw),
         NEW good \in BOOLEAN, good = FALSE <=> w = "garbled",
         v' = [v EXCEPT !.j = @ + 1, !.good = @ /\ good],
         pc' = IF v.j + 1 >= call.count THEN "crc" ELSE "word"
  PROVE  ApiInv' /\ Asked
<1>3. /\ IsLocals /\ call.count \in Nat /\ call.start \in Nat /\ v.i \in Nat /\ v.j \in Nat /\ v.good \in BOOLEAN
      /\ v.buserrs \in Nat /\ v.faults \in Nat /\ faults \in Nat /\ call.count <= MaxCount
      BY BurstFacts
<1>h. /\ IsHw(hw) /\ IsStore(hw.store) /\ hw.module = call.want /\ call.start + v.j \in Addrs
      /\ hw.burst.addr = call.start + v.j /\ hw.error \in Addrs \cup {None} /\ call.want \in Stores
      BY BurstFacts
<1>4. Data(v.j) \in Word /\ Bad \in Word
      BY <1>3, CountAssumption DEF Word, Data
<1>5. /\ DOMAIN v' = LocalFields /\ v'.i = v.i /\ v'.j = v.j + 1 /\ v'.buserrs = v.buserrs /\ v'.faults = v.faults
      /\ v'.good = (v.good /\ good) /\ v'.buf = v.buf
      BY <1>3 DEF IsLocals, LocalFields
<1>6. DOMAIN v'.buf = Words(call)
      BY <1>3, <1>5 DEF IsLocals
<1>7. /\ v'.good \in BOOLEAN /\ (v'.good = TRUE => v.good = TRUE /\ w # "garbled")
      /\ (v'.good = FALSE => v.good = FALSE \/ w = "garbled")
      BY <1>3, <1>5
<1>8. /\ PassedBy(hw', hw) /\ IsStore(hw'.store)
      /\ hw'.error = IF w = "buserr" /\ hw.error = None THEN call.start + v.j ELSE hw.error
      /\ \A x \in Stores, y \in Addrs :
            hw'.store[x][y] # hw.store[x][y] => x = call.want /\ y = call.start + v.j
      /\ w = "buserr" => hw'.store = hw.store
      /\ w = "intact" => hw'.store[call.want][call.start + v.j] = Data(v.j)
      /\ w = "garbled" => hw'.store[call.want][call.start + v.j] = Bad
  <2>1. CASE w = "intact"
        BY <1>h, <1>4, <2>1, WordWrittenIs
  <2>2. CASE w = "garbled"
        BY <1>h, <1>4, <2>2, WordWrittenIs
  <2>3. CASE w = "buserr"
        BY <1>h, <2>3, BusErrorIs
  <2> QED BY <2>1, <2>2, <2>3
<1>9. /\ faults' \in Nat /\ faults <= faults' /\ faults' <= MaxFaults
      /\ w = "garbled" => "word" \in setup.faults /\ faults' = faults + 1
      /\ w = "buserr" => "bus" \in setup.faults /\ hw.module = "WISHBONE" /\ faults' = faults + 1
  <2>1. CASE w = "intact"
        BY <2>1, Counted
  <2>2. CASE w = "garbled"
        BY <2>2, Counted
  <2>3. CASE w = "buserr"
        BY <2>3, Counted
  <2> QED BY <2>1, <2>2, <2>3
<1>10. Counts'
  <2>1. v.faults + v.buserrs + Latched <= faults /\ (v.good = FALSE => v.faults < faults)
        BY DEF AtBurst, Counts
  <2>2. /\ Latched \in Nat /\ Latched' \in Nat /\ Latched' <= Latched + 1
        /\ w # "buserr" => Latched' = Latched
        BY <1>8 DEF Latched
  <2>3. CASE w = "intact"
        BY <1>3, <1>5, <1>7, <1>9, <2>1, <2>2, <2>3 DEF Counts
  <2>4. CASE w = "garbled"
    <3>1. faults' = faults + 1 /\ Latched' = Latched
          BY <1>9, <2>2, <2>4
    <3> QED BY <1>3, <1>5, <2>1, <2>2, <3>1 DEF Counts
  <2>5. CASE w = "buserr"
    <3>1. faults' = faults + 1
          BY <1>9, <2>5
    <3> QED BY <1>3, <1>5, <2>1, <2>2, <3>1 DEF Counts
  <2> QED BY <2>3, <2>4, <2>5
<1>k. \A k \in 0 .. v.j - 1 : call.start + k \in Addrs /\ call.start + k # call.start + v.j
  <2>1. \A k \in 0 .. v.j - 1 : k \in Words(call) /\ call.start + k # call.start + v.j
        BY <1>3 DEF Words
  <2> QED BY <2>1, BurstFacts DEF IsCall
<1>11. ASSUME v'.good = TRUE PROVE Prefix(v.j)'
  <2>1. Prefix(v.j) /\ w # "garbled"
        BY <1>7, <1>11 DEF AtBurst
  <2>2. \A k \in 0 .. v.j - 1 : hw'.store[call.want][call.start + k] = hw.store[call.want][call.start + k]
        BY <1>h, <1>k, <1>8
  <2>3. \/ /\ hw'.error = hw.error
           /\ call.op = "read" => v'.buf[v.j] = hw'.store[call.want][call.start + v.j]
           /\ call.op = "write" => hw'.store[call.want][call.start + v.j] = Data(v.j)
        \/ hw'.error = IF hw.error = None THEN call.start + v.j ELSE hw.error
        BY <1>8, <2>1
  <2> QED BY <1>5, <2>1, <2>2, <2>3, PrefixGrows
<1>12. /\ hw'.error \in Addrs \cup {None} /\ (v'.good = FALSE => "word" \in setup.faults)
       /\ hw'.error # None => "bus" \in setup.faults /\ hw.module = "WISHBONE"
      BY <1>h, <1>7, <1>8, <1>9 DEF AtBurst
<1>13. pc' = (IF v.j + 1 >= call.count THEN "crc"
              ELSE IF call.op = "write" \/ setup.hispeed THEN "word" ELSE "status")
      OBVIOUS
<1>14. ApiInv'
      BY <1>5, <1>6, <1>7, <1>8, <1>9, <1>10, <1>11, <1>12, <1>13, WordPassed
<1>15. Asked
  <2> SUFFICES ASSUME NEW m \in Stores, NEW a \in Addrs, hw'.store[m][a] # hw.store[m][a]
               PROVE  /\ call.want = m /\ a - call.start \in Words(call)
                      /\ hw'.store[m][a] \in {Data(a - call.start), Bad}
        BY DEF Asked
  <2>1. m = call.want /\ a = call.start + v.j /\ w # "buserr"
        BY <1>8
  <2>2. a - call.start = v.j
        BY <1>3, <2>1
  <2>3. v.j \in Words(call)
        BY <1>3 DEF Words
  <2> QED BY <1>8, <2>1, <2>2, <2>3
<1> QED BY <1>14, <1>15


\* A burst broken off by the cable or a bus that was not ready goes on at the
\* word it broke off at.
LEMMA BrokenOff ==
  ASSUME AllHandled, UnitInv, AtBurst, v.j < call.count, setup' = setup, call' = call,
         setup.hispeed = FALSE, NEW kind \in {"timeout", "cable"}, Fault(kind),
         NEW g, Sound(g), IsStore(g.store),
         \A k \in 0 .. v.j - 1 : g.store[call.want][call.start + k] = hw.store[call.want][call.start + k],
         \/ retry_do([Now EXCEPT !.hw = g], RetryPartial, Return("retries"))
         \/ retry_do([Now EXCEPT !.hw = g], RetryPartial, Exit)
  PROVE  ApiInv' /\ hw'.store = g.store
<1> DEFINE s == [Now EXCEPT !.hw = g]
<1>1. faults' \in Nat /\ faults <= faults' /\ faults' <= MaxFaults /\ kind \in setup.faults
      BY Counted
<1>0. IsHw(g) /\ g.tap \in DOMAIN TapNext
      BY DEF Sound
<1>3. s.hw = g /\ s.sel = sel
      BY NowIs DEF IsPair
<1> HIDE DEF s
<1>a. CASE ~ (setup.retries > 0)
  <2>1. setup.retries \in Nat /\ sel.soft_retry_no = 0 /\ DOMAIN v = LocalFields
        BY BurstIsSound
  <2>2. ~ (s.sel.soft_retry_no < setup.retries)
        BY <1>3, <1>a, <2>1
  <2>3. hw' = g /\ sel' = sel /\ (Return("retries") \/ Exit)
        BY <1>3, <2>2 DEF retry_do, Become, s
  <2>4. v.faults < faults'
        BY Counted, BurstFacts DEF InCall
  <2>5. /\ DOMAIN sel' = SelFields /\ sel'.current_chain \in Modules \cup {NoChain}
        /\ sel'.soft_retry_no \in Nat /\ sel'.soft_retry_no <= setup.retries
        BY <2>3 DEF UnitInv
  <2>6. CASE Return("retries")
        BY <1>1, <2>1, <2>3, <2>4, <2>5, <2>6, GoneStep DEF Sound
  <2>7. CASE Exit
        BY <1>1, <2>1, <2>3, <2>4, <2>5, <2>7, LostStep DEF Exit
  <2> QED BY <2>3, <2>6, <2>7
<1>b. SUFFICES ASSUME setup.retries > 0 PROVE ApiInv' /\ hw'.store = g.store
      BY <1>a
<1>2. setup.retries > 0 /\ setup.retries \in Nat /\ Done(v.j)
      BY <1>1, <1>b, Resumable, BurstFacts
<1>4. ~ (s.sel.soft_retry_no >= setup.retries)
      BY <1>2, <1>3 DEF AtBurst
<1>5. /\ hw' = tap_enable_debug_module(tap_reset(s.hw))
      /\ sel' = [s.sel EXCEPT !.current_chain = NoChain, !.current_reg_idx = {}, !.soft_retry_no = @ + 1]
      /\ RetryPartial
      BY <1>4 DEF retry_do, s
<1>6. \A k \in 0 .. v.j - 1 :
         /\ call.op = "read" => v.buf[k] = g.store[call.want][call.start + k]
         /\ call.op = "write" => g.store[call.want][call.start + k] = Data(k)
      BY <1>2 DEF Done
<1> QED BY <1>0, <1>1, <1>2, <1>3, <1>5, <1>6, BurstRetried

\* The word of a write burst is sent, and garbled, refused or broken off.
LEMMA WriteWordStep == ASSUME AllHandled, ApiInv, WriteWord PROVE ApiInv' /\ Asked
<1> DEFINE last == pc' = IF v.j + 1 >= call.count THEN "crc" ELSE "word"
           sent(good) == sel' = sel /\ v' = [v EXCEPT !.j = @ + 1, !.good = @ /\ good] /\ last
<1>1. /\ UnitInv /\ AtBurst /\ setup' = setup /\ call' = call
      /\ call.op = "write" /\ v.j < call.count
      BY DEF ApiInv, WriteWord
<1>2. InBurst(hw, "write")
      BY <1>1, BurstIsOpen
<1>3. \/ NoFault /\ hw' = WordWritten(hw, Data(v.j)) /\ sent(TRUE)
      \/ Fault("word") /\ hw' = WordWritten(hw, Bad) /\ sent(FALSE)
      \/ hw.module = "WISHBONE" /\ Fault("bus") /\ hw' = BusError(hw) /\ sent(TRUE)
      \/ /\ ~ setup.hispeed /\ Fault("timeout")
         /\ retry_do([Now EXCEPT !.hw = NextWord(hw)], RetryPartial, Exit)
      BY <1>2 DEF WriteWord
<1>4. CASE NoFault /\ hw' = WordWritten(hw, Data(v.j)) /\ sent(TRUE)
  <2> DEFINE w == "intact"
  <2>1. w \in {"intact", "garbled", "buserr"} /\ w # "garbled" /\ w # "buserr" /\ TRUE \in BOOLEAN
        OBVIOUS
  <2> HIDE DEF w
  <2> QED BY <1>1, <1>4, <2>1, WordSent, ZenonT(60)
<1>5. CASE Fault("word") /\ hw' = WordWritten(hw, Bad) /\ sent(FALSE)
  <2> DEFINE w == "garbled"
  <2>1. w \in {"intact", "garbled", "buserr"} /\ w = "garbled" /\ FALSE \in BOOLEAN
        OBVIOUS
  <2> HIDE DEF w
  <2> QED BY <1>1, <1>5, <2>1, WordSent, ZenonT(60)
<1>6. CASE hw.module = "WISHBONE" /\ Fault("bus") /\ hw' = BusError(hw) /\ sent(TRUE)
  <2> DEFINE w == "buserr"
  <2>1. w \in {"intact", "garbled", "buserr"} /\ w # "garbled" /\ w # "intact" /\ TRUE \in BOOLEAN
        OBVIOUS
  <2> HIDE DEF w
  <2> QED BY <1>1, <1>6, <2>1, WordSent, ZenonT(60)
<1>7. CASE /\ ~ setup.hispeed /\ Fault("timeout")
           /\ retry_do([Now EXCEPT !.hw = NextWord(hw)], RetryPartial, Exit)
  <2> DEFINE g == NextWord(hw)
  <2>1. setup.hispeed = FALSE /\ IsHw(hw) /\ IsStore(hw.store) /\ hw.tap \in DOMAIN TapNext
        BY <1>1, <1>7, BurstFacts, TapMoves
  <2>2. Sound(g) /\ g.store = hw.store
    <3>1. PassedBy(g, hw) /\ g.error = hw.error /\ g.store = hw.store
          BY <2>1, NextWordIs
    <3>2. Sound(hw) /\ hw.burst.open = TRUE
          BY <1>1, BurstIsSound DEF AtBurst
    <3> QED BY <3>1, <3>2, PassedIsSound
  <2> HIDE DEF g
  <2>3. ApiInv' /\ hw'.store = g.store
        BY <1>1, <1>7, <2>1, <2>2, BrokenOff DEF g
  <2> QED BY <2>2, <2>3 DEF Asked
<1> QED BY <1>3, <1>4, <1>5, <1>6, <1>7

\* A read broken off by the cable.
LEMMA ReadErrorStep == ASSUME AllHandled, ApiInv, ReadError PROVE ApiInv' /\ hw'.store = hw.store
<1>1. /\ UnitInv /\ AtBurst /\ setup' = setup /\ call' = call
      /\ call.op = "read" /\ v.j < call.count
      BY DEF ApiInv, ReadError
<1>2. InBurst(hw, "read")
      BY <1>1, BurstIsOpen
<1>3. IsHw(hw) /\ IsStore(hw.store) /\ hw.tap \in DOMAIN TapNext /\ setup.hispeed \in BOOLEAN
      BY <1>1, BurstFacts, TapMoves
<1>4. PICK g \in {hw, NextWord(hw)} : 
         /\ setup.hispeed = FALSE /\ Fault("cable")
         /\ retry_do([Now EXCEPT !.hw = g], RetryPartial, Return("retries"))
      BY <1>2, <1>3 DEF ReadError, CableError
<1>5. Sound(g) /\ g.store = hw.store
  <2>1. Sound(hw) /\ hw.burst.open = TRUE
        BY <1>1, BurstIsSound DEF AtBurst
  <2> QED BY <1>3, <2>1, NextWordIs, PassedIsSound
<1> QED BY <1>1, <1>3, <1>4, <1>5, BrokenOff

\* A write broken off by the cable; the word it struck was stored or not.
LEMMA WriteErrorStep == ASSUME AllHandled, ApiInv, WriteError PROVE ApiInv' /\ Asked
<1>1. /\ UnitInv /\ AtBurst /\ setup' = setup /\ call' = call
      /\ call.op = "write" /\ v.j < call.count
      BY DEF ApiInv, WriteError
<1>2. InBurst(hw, "write")
      BY <1>1, BurstIsOpen
<1>3. /\ IsHw(hw) /\ IsStore(hw.store) /\ hw.tap \in DOMAIN TapNext /\ setup.hispeed \in BOOLEAN
      /\ hw.module = call.want /\ call.want \in Stores /\ call.start + v.j \in Addrs
      /\ hw.burst.addr = call.start + v.j
      BY <1>1, BurstFacts, TapMoves
<1>n. /\ IsCall(call) /\ call.count \in Nat /\ call.start \in Nat /\ v.j \in Nat /\ call.count <= MaxCount
      BY <1>1, BurstFacts
<1>4. PICK g \in {hw, WordWritten(hw, Data(v.j))} :
         /\ setup.hispeed = FALSE /\ Fault("cable")
         /\ retry_do([Now EXCEPT !.hw = g], RetryPartial, Return("retries"))
      BY <1>2, <1>3 DEF WriteError, CableError
<1>5. Data(v.j) \in Word
      BY <1>1, <1>n, CountAssumption DEF Word, Data
<1>s. Sound(hw) /\ hw.burst.open = TRUE
      BY <1>1, BurstIsSound DEF AtBurst
<1>6. /\ Sound(g) /\ IsStore(g.store)
      /\ \A x \in Stores, y \in Addrs : g.store[x][y] # hw.store[x][y] =>
           x = call.want /\ y = call.start + v.j /\ g.store[x][y] = Data(v.j)
  <2>1. CASE g = hw
        BY <1>3, <1>s, <2>1
  <2>2. CASE g = WordWritten(hw, Data(v.j))
    <3>1. /\ PassedBy(g, hw) /\ g.error = hw.error /\ IsStore(g.store)
          /\ g.store[call.want][call.start + v.j] = Data(v.j)
          /\ \A x \in Stores, y \in Addrs : x # call.want \/ y # call.start + v.j => g.store[x][y] = hw.store[x][y]
          BY <1>3, <1>5, <2>2, WordWrittenIs
    <3>2. Sound(g)
          BY <1>s, <3>1, PassedIsSound
    <3> QED BY <3>1, <3>2
  <2> QED BY <2>1, <2>2
<1>7. \A k \in 0 .. v.j - 1 : call.start + k \in Addrs /\ call.start + k # call.start + v.j
  <2>1. \A k \in 0 .. v.j - 1 : k \in Words(call) /\ call.start + k # call.start + v.j
        BY <1>1, <1>n DEF Words
  <2> QED BY <1>n, <2>1 DEF IsCall
<1>8. \A k \in 0 .. v.j - 1 : g.store[call.want][call.start + k] = hw.store[call.want][call.start + k]
      BY <1>3, <1>6, <1>7
<1>9. ApiInv' /\ hw'.store = g.store
      BY <1>1, <1>4, <1>6, <1>8, BrokenOff
<1>10. Asked
  <2> SUFFICES ASSUME NEW m \in Stores, NEW a \in Addrs, hw'.store[m][a] # hw.store[m][a]
               PROVE  /\ call.want = m /\ a - call.start \in Words(call)
                      /\ hw'.store[m][a] \in {Data(a - call.start), Bad}
        BY <1>1 DEF Asked
  <2>1. m = call.want /\ a = call.start + v.j /\ hw'.store[m][a] = Data(v.j)
        BY <1>6, <1>9
  <2>2. a - call.start = v.j
        BY <1>n, <2>1
  <2>3. v.j \in Words(call)
        BY <1>1, <1>n DEF Words
  <2> QED BY <2>1, <2>2, <2>3
<1> QED BY <1>9, <1>10


\* The CRC matched: the burst is over, and every word is where it belongs up
\* to a bus error, which the error register of the Wishbone module holds.
LEMMA AfterCrcStep ==
  ASSUME AllHandled, UnitInv, AtBurst, v.j = call.count, v.good = TRUE,
         setup' = setup, call' = call, faults' = faults, AfterCrc
  PROVE  ApiInv' /\ hw'.store = hw.store
<1> DEFINE g == tap_exit_to_idle(Clock(Bits(hw, Nop), 1))
           e == [Now EXCEPT !.hw = g]
           t == retry_ok(e)
<1>1. /\ InCall /\ IsCall(call) /\ IsLocals /\ setup \in Setups /\ setup.adv = TRUE /\ setup.bscan \in BOOLEAN
      /\ call.op \in {"read", "write"} /\ call.chain = call.want /\ call.want \in Modules
      /\ IsHw(hw) /\ hw.module = call.want
      BY BurstFacts
<1>2. Quiet(g) /\ SameUnit(g, hw)
      BY <1>1, BurstEnds DEF AtBurst
<1>3. hw' = t.hw /\ sel' = t.sel
      BY DEF AfterCrc, Become, Ended
<1> HIDE DEF g
<1>4. IsPair(e) /\ e.hw = g /\ e.sel = sel
      BY NowIs DEF IsPair
<1> HIDE DEF e
<1>5. /\ hw' = g /\ DOMAIN sel' = SelFields /\ sel'.soft_retry_no = 0
      /\ sel'.current_chain = sel.current_chain /\ sel'.desired_chain = sel.desired_chain
      BY <1>3, <1>4, RetryOk DEF IsPair
<1>6. /\ Quiet(hw') /\ hw'.module = call.chain /\ hw'.error = hw.error /\ hw'.store = hw.store
      BY <1>1, <1>2, <1>5 DEF SameUnit
<1>7. Known(hw', sel')
      BY <1>5, <1>6 DEF Known, AtBurst
<1>8. IF sel.current_chain = "WISHBONE" THEN pc' = "errreg" /\ v' = v ELSE Return("ok")
      BY DEF AfterCrc
<1>9. SameLocals(v', v) /\ pc' \in {"errreg", "done"}
  <2>1. CASE Return("ok")
        BY <1>1, <2>1, Returns
  <2>2. CASE pc' = "errreg" /\ v' = v
        BY <1>1, <2>2 DEF SameLocals, IsLocals
  <2> QED BY <1>8, <2>1, <2>2
<1>10. faults' \in Nat /\ faults <= faults' /\ faults' <= MaxFaults
      BY DEF UnitInv
<1>11. sel.current_chain \in Modules \cup {NoChain} /\ hw.error \in Addrs \cup {None} /\ hw.module \in Modules
      BY DEF UnitInv
<1>12. UnitInv'
  <2>1. IsHw(hw') /\ hw'.tap \in DOMAIN TapNext
        BY <1>6, TapMoves DEF Quiet
  <2> QED BY <1>1, <1>5, <1>6, <1>9, <1>10, <1>11, <2>1, UnitKept DEF Labels
<1>13. InCall'
      BY <1>1, <1>9, <1>10, StillInCall
<1>14. Prefix(call.count)'
      BY <1>6, <1>9 DEF AtBurst, Prefix, Done, SameLocals
<1>15. CASE sel.current_chain = "WISHBONE"
  <2>1. pc' = "errreg" /\ v' = v
        BY <1>8, <1>15
  <2>2. call.chain = "WISHBONE"
        BY <1>15 DEF AtBurst, NoChain
  <2>3. Counts' /\ Transfer'
        BY <1>6, <2>1 DEF AtBurst, Counts, Latched, Transfer
  <2>4. hw'.error # None => "bus" \in setup'.faults
        BY <1>6 DEF AtBurst
  <2>5. AtErrReg'
        BY <1>1, <1>5, <1>6, <1>7, <1>13, <1>14, <1>15, <2>2, <2>3, <2>4 DEF AtErrReg
  <2> QED BY <1>6, <1>12, <2>1, <2>5 DEF ApiInv, LegacyLabels
<1>16. CASE sel.current_chain # "WISHBONE"
  <2>1. pc' = "done" /\ v'.err = "ok"
        BY <1>1, <1>8, <1>16, Returns
  <2>2. hw.error = None
    <3> SUFFICES ASSUME hw.error # None PROVE FALSE
        OBVIOUS
    <3>1. "bus" \in setup.faults /\ hw.module = "WISHBONE"
          BY DEF AtBurst
    <3>2. setup.bscan = FALSE
          BY <1>1, <3>1, SetupIs
    <3> QED BY <1>16, <3>1, <3>2 DEF AtBurst
  <2>3. Done(call.count)'
        BY <1>6, <1>14, <2>2 DEF Prefix
  <2>4. Between'
        BY <1>6, <1>7, <2>2 DEF Between
  <2>5. AtDone'
        BY <1>1, <1>13, <2>1, <2>3, <2>4 DEF AtDone
  <2> QED BY <1>6, <1>12, <2>1, <2>5 DEF ApiInv, LegacyLabels
<1> QED BY <1>15, <1>16

\* The CRC did not match: the whole burst again, or the call fails, or
\* (a write) the bridge exits; a word was garbled in this call.
LEMMA BadCrcStep ==
  ASSUME AllHandled, UnitInv, AtBurst, v.good = FALSE, setup' = setup, call' = call, faults' = faults,
         retry_do(Ended, RetryFull, Return("crc")) \/ retry_do(Ended, RetryFull, Exit)
  PROVE  ApiInv' /\ hw'.store = hw.store
<1> DEFINE g == tap_exit_to_idle(Clock(Bits(hw, Nop), 1))
           e == [Now EXCEPT !.hw = g]
<1>1. /\ InCall /\ IsCall(call) /\ IsLocals /\ setup \in Setups /\ setup.adv = TRUE
      /\ call.op \in {"read", "write"} /\ call.chain = call.want /\ call.want \in Modules
      /\ IsHw(hw) /\ hw.module = call.want
      BY BurstFacts
<1>2. Quiet(g) /\ SameUnit(g, hw)
      BY <1>1, BurstEnds DEF AtBurst
<1>3. e = Ended
      BY DEF Ended
<1> HIDE DEF g
<1>4. IsPair(e) /\ e.hw = g /\ e.sel = sel
      BY NowIs DEF IsPair
<1> HIDE DEF e
<1>5. /\ IsHw(g) /\ g.tap \in DOMAIN TapNext /\ IsStore(g.store) /\ g.store = hw.store /\ g.module = call.chain
      /\ g.error = hw.error
      BY <1>1, <1>2, TapMoves DEF Quiet, SameUnit, UnitInv
<1>6. faults' \in Nat /\ faults <= faults' /\ faults' <= MaxFaults
      BY DEF UnitInv
<1>7. v.faults < faults /\ "word" \in setup.faults
      BY DEF AtBurst, Counts
<1>8. setup.retries \in Nat /\ sel.soft_retry_no = 0
      BY BurstFacts DEF AtBurst
<1>9. CASE 0 < setup.retries
  <2>1. ~ (e.sel.soft_retry_no >= setup.retries)
        BY <1>4, <1>8, <1>9
  <2>2. /\ hw' = tap_enable_debug_module(tap_reset(e.hw))
        /\ sel' = [e.sel EXCEPT !.current_chain = NoChain, !.current_reg_idx = {}, !.soft_retry_no = @ + 1]
        /\ RetryFull
        BY <1>3, <2>1 DEF retry_do
  <2> QED BY <1>4, <1>5, <1>6, <1>9, <2>2, BurstRetried
<1>10. CASE ~ (0 < setup.retries)
  <2>1. ~ (e.sel.soft_retry_no < setup.retries)
        BY <1>4, <1>8, <1>10
  <2>2. Become(e) /\ (Return("crc") \/ Exit)
        BY <1>3, <2>1 DEF retry_do
  <2>3. hw' = g /\ sel' = sel
        BY <1>4, <2>2 DEF Become
  <2>5. hw.error = None => Between'
        BY <1>1, <1>2, <1>5, <2>3 DEF Between, Known, AtBurst
  <2>6. SameLocals(v', v) /\ (pc' = "exited" \/ (pc' = "done" /\ v'.err = "crc"))
    <3>1. CASE Return("crc")
          BY <1>1, <3>1, Returns
    <3>2. CASE Exit
      <4>1. pc' = "exited" /\ v' = v
            BY <3>2 DEF Exit
      <4>2. SameLocals(v', v)
            BY <1>1, <4>1 DEF SameLocals, IsLocals
      <4> QED BY <4>1, <4>2
    <3> QED BY <2>2, <3>1, <3>2
  <2>7. sel.current_chain \in Modules \cup {NoChain} /\ DOMAIN sel = SelFields /\ call.chain \in Modules
        BY <1>1 DEF UnitInv
  <2>8. UnitInv'
        BY <1>1, <1>5, <1>6, <2>3, <2>6, <2>7, UnitKept DEF Labels
  <2>9. InCall' /\ v'.faults < faults'
    <3>1. InCall'
          BY <1>1, <1>6, <2>6, StillInCall
    <3> QED BY <1>7, <2>6, <3>1 DEF SameLocals
  <2>10. pc' = "done" => AtDone' \/ Gone'
    <3>1. CASE hw.error = None
          BY <2>5, <2>6, <2>9, <3>1 DEF AtDone
    <3>2. CASE hw.error # None
          BY <1>5, <2>3, <2>6, <2>9, <3>2 DEF Gone, Unclean
    <3> QED BY <3>1, <3>2
  <2> QED BY <1>5, <2>3, <2>6, <2>8, <2>9, <2>10 DEF ApiInv, LegacyLabels
<1> QED BY <1>9, <1>10

\* The CRC that ends a burst agrees, or the whole burst is sent again.
LEMMA CrcStep == ASSUME AllHandled, ApiInv, ReadCrc \/ WriteCrc PROVE ApiInv' /\ hw'.store = hw.store
<1>1. /\ UnitInv /\ AtBurst /\ v.j = call.count /\ setup' = setup /\ call' = call /\ faults' = faults
      BY DEF ApiInv, ReadCrc, WriteCrc
<1>2. hw.burst.open = TRUE /\ hw.burst.left = 0 /\ v.good \in BOOLEAN
  <2>1. v.j \in Nat /\ v.good \in BOOLEAN
        BY <1>1, BurstFacts
  <2>2. v.j - v.j = 0
        BY <2>1
  <2> QED BY <1>1, <2>1, <2>2 DEF AtBurst
<1>3. CASE v.good = TRUE
  <2>1. AfterCrc
        BY <1>2, <1>3 DEF ReadCrc, WriteCrc, CrcGood
  <2> QED BY <1>1, <1>3, <2>1, AfterCrcStep
<1>4. CASE v.good = FALSE
  <2>1. retry_do(Ended, RetryFull, Return("crc")) \/ retry_do(Ended, RetryFull, Exit)
        BY <1>2, <1>4 DEF ReadCrc, WriteCrc, CrcGood
  <2> QED BY <1>1, <1>4, <2>1, BadCrcStep
<1> QED BY <1>2, <1>3, <1>4

\* The cable fails in the scan that ends a burst: the error is kept, and the
\* code goes on as if there had been a good CRC or a bad one.
LEMMA CrcLostStep == ASSUME AllHandled, ApiInv, CrcLost PROVE ApiInv' /\ hw'.store = hw.store
<1>1. UnitInv /\ AtBurst /\ setup' = setup /\ call' = call /\ Fault("cable")
      BY DEF ApiInv, CrcLost
<1>2. /\ Sound(hw) /\ SoundPair(Now) /\ Now.hw = hw /\ Now.sel = sel /\ setup.retries \in Nat
      /\ sel.soft_retry_no = 0 /\ sel.desired_chain \in Modules /\ DOMAIN v = LocalFields
      BY <1>1, BurstIsSound
<1>3. setup.adv = TRUE /\ call.op \in {"read", "write"} /\ InCall /\ setup \in Setups /\ IsStore(hw.store)
      BY <1>1, BurstFacts
<1>f. faults' \in Nat /\ faults' <= MaxFaults /\ v.faults < faults'
      BY <1>1, <1>3, Counted DEF InCall, IsLocals, UnitInv
<1>4. PICK h \in TornEnd({hw}, Nop) :
        LET s == [Now EXCEPT !.hw = h]
        IN  \/ /\ Become(retry_ok(s))
               /\ IF sel.current_chain = "WISHBONE"
                    THEN pc' = "errlost" /\ UNCHANGED v
                    ELSE Return("cable")
            \/ retry_do(s, pc' = "cmdlost" /\ UNCHANGED v,
                        IF call.op = "read" THEN Return("cable") ELSE Exit)
      BY DEF CrcLost
<1> DEFINE s == [Now EXCEPT !.hw = h]
<1>5. Sound(h) /\ h.store = hw.store
  <2>1. SoundSet({hw}, hw.store) /\ Names(Nop)
        BY <1>2 DEF SoundSet, Names, Nop
  <2>2. SoundSet(TornEnd({hw}, Nop), hw.store)
        BY <2>1, TornEndSound
  <2> QED BY <2>2 DEF SoundSet
<1>6. SoundPair(s) /\ s.hw = h /\ s.sel = sel
  <2>1. IsPair(s) /\ s.hw = h /\ s.sel = sel
        BY <1>2 DEF SoundPair, IsPair
  <2> QED BY <1>2, <1>5, <2>1 DEF SoundPair
<1> HIDE DEF s
<1>7. CASE /\ Become(retry_ok(s))
           /\ IF sel.current_chain = "WISHBONE" THEN pc' = "errlost" /\ UNCHANGED v ELSE Return("cable")
  <2>1. SoundPair(retry_ok(s)) /\ retry_ok(s).hw = h
        BY <1>2, <1>6, SoundRetryOk
  <2>2. hw' = h /\ sel' = retry_ok(s).sel
        BY <1>7, <2>1 DEF Become
  <2>3. CASE pc' = "errlost" /\ v' = v
        BY <1>1, <1>2, <1>3, <1>5, <1>f, <2>1, <2>2, <2>3, LostStep DEF SoundPair, IsPair
  <2>4. CASE Return("cable")
        BY <1>1, <1>2, <1>3, <1>5, <1>f, <2>1, <2>2, <2>4, GoneStep DEF SoundPair, IsPair, Sound
  <2> QED BY <1>5, <1>7, <2>2, <2>3, <2>4
<1>8. CASE /\ s.sel.soft_retry_no < setup.retries
           /\ hw' = tap_enable_debug_module(tap_reset(s.hw))
           /\ sel' = [s.sel EXCEPT !.current_chain = NoChain, !.current_reg_idx = {}, !.soft_retry_no = @ + 1]
           /\ pc' = "cmdlost" /\ v' = v
  <2>1. /\ Quiet(hw') /\ hw'.module = "WISHBONE" /\ hw'.error = None /\ hw'.store = h.store
        /\ DOMAIN sel' = SelFields /\ sel'.current_chain = NoChain /\ sel'.desired_chain = sel.desired_chain
        /\ sel'.soft_retry_no = sel.soft_retry_no + 1
        BY <1>6, <1>8, AfterRetry, ZenonT(60) DEF SoundPair, Sound
  <2>2. Sound(hw')
        BY <2>1, QuietIsSound DEF Modules
  <2>3. sel'.soft_retry_no \in Nat /\ sel'.soft_retry_no <= setup.retries
        BY <1>2, <1>6, <1>8, <2>1
  <2>4. IsStore(hw'.store)
        BY <1>3, <1>5, <2>1
  <2> QED BY <1>1, <1>2, <1>3, <1>5, <1>8, <1>f, <2>1, <2>2, <2>3, <2>4, LostStep
<1>9. CASE Become(s) /\ IF call.op = "read" THEN Return("cable") ELSE Exit
  <2>1. hw' = h /\ sel' = sel
        BY <1>6, <1>9 DEF Become
  <2>2. CASE Return("cable")
        BY <1>1, <1>2, <1>3, <1>5, <1>6, <1>f, <2>1, <2>2, GoneStep DEF SoundPair, IsPair, Sound
  <2>3. CASE Exit
        BY <1>1, <1>2, <1>3, <1>5, <1>6, <1>f, <2>1, <2>3, LostStep DEF SoundPair, IsPair, Exit
  <2> QED BY <1>5, <1>9, <2>1, <2>2, <2>3
<1> QED BY <1>4, <1>7, <1>8, <1>9 DEF retry_do, s

\* The command of the repeated burst is still sent; then the error is returned.
LEMMA CommandLostStep == ASSUME AllHandled, ApiInv, CommandLost PROVE ApiInv' /\ hw'.store = hw.store
<1> DEFINE t == adbg_burst_command(Now, call.op, call.start, call.count)
<1>1. UnitInv /\ AtLost /\ setup' = setup /\ faults' = faults /\ Become(t) /\ Return("cable")
      BY DEF ApiInv, CommandLost
<1>2. SoundPair(Now) /\ Now.hw = hw /\ setup.retries \in Nat
      BY <1>1, NowSound DEF AtLost
<1>3. SoundPair(t) /\ t.hw.store = hw.store
      BY <1>2, SoundBurstCommand
<1> HIDE DEF t
<1>4. hw' = t.hw /\ sel' = t.sel
      BY <1>1 DEF Become
<1>5. DOMAIN v = LocalFields /\ v.faults < faults' /\ faults' \in Nat /\ faults' <= MaxFaults /\ IsStore(hw'.store)
      BY <1>1, <1>3, <1>4 DEF AtLost, UnitInv
<1> QED BY <1>1, <1>3, <1>4, <1>5, GoneStep DEF SoundPair, IsPair, Sound

\* The error register is read, and a burst perhaps announced again, after an
\* error of the cable or with one; then the error is returned.
LEMMA ErrorRegisterLostStep == ASSUME AllHandled, ApiInv, ErrorRegisterLost PROVE ApiInv' /\ hw'.store = hw.store
<1>1. UnitInv /\ setup' = setup
      BY DEF ApiInv, ErrorRegisterLost
<1>2. /\ Sound(hw) /\ sel.desired_chain \in Modules /\ DOMAIN v = LocalFields
      /\ faults' \in Nat /\ faults' <= MaxFaults /\ v.faults < faults'
  <2>1. CASE pc = "errlost" /\ NoFault
        BY <1>1, <2>1 DEF ApiInv, AtLost, NoFault, UnitInv
  <2>2. CASE pc = "errreg" /\ Fault("cable")
    <3>1. AtErrReg /\ InCall
          BY <2>2 DEF ApiInv, AtErrReg
    <3>2. Sound(hw)
          BY <1>1, <3>1, QuietIsSound DEF AtErrReg, UnitInv
    <3>3. sel.desired_chain \in Modules
          BY <3>1 DEF AtErrReg, Known, Modules, NoChain
    <3> QED BY <1>1, <2>2, <3>1, <3>2, <3>3, Counted DEF InCall, IsLocals, UnitInv
  <2> QED BY <2>1, <2>2 DEF ErrorRegisterLost
<1>3. SoundPair(Now) /\ Now.hw = hw /\ setup.retries \in Nat
      BY <1>1, <1>2, NowSound
<1>4. PICK h \in ScanTorn(hw, Nop), e \in {None} \cup Addrs :
        LET s == [adbg_ctrl_read(Now) EXCEPT !.hw = h]
            again == e # None /\ v.buserrs < MAX_BUS_ERRORS
        IN  /\ Become(IF again
                      THEN adbg_burst_command(adbg_ctrl_write(s, 1), call.op, e,
                                              call.count - (e - call.start))
                      ELSE s)
            /\ Return("cable")
      BY DEF ErrorRegisterLost
<1> DEFINE r == adbg_ctrl_read(Now)
           s == [r EXCEPT !.hw = h]
           w == adbg_ctrl_write(s, 1)
           t == adbg_burst_command(w, call.op, e, call.count - (e - call.start))
<1>5. Sound(h) /\ h.store = hw.store
  <2>1. Names(Nop)
        BY DEF Names, Nop
  <2> QED BY <1>2, <2>1, ScanTornSound DEF SoundSet
<1>6. PICK q : Become(q) /\ Return("cable") /\ (q = t \/ q = s)
      BY <1>4
<1>7. SoundPair(s) /\ s.hw.store = hw.store
  <2>1. SoundPair(r)
        BY <1>3, SoundCtrlRead
  <2> HIDE DEF r
  <2>2. IsPair(s) /\ s.hw = h /\ s.sel = r.sel
        BY <2>1 DEF SoundPair, IsPair
  <2> QED BY <1>5, <2>1, <2>2 DEF SoundPair
<1> HIDE DEF s
<1>8. SoundPair(w) /\ w.hw.store = hw.store
      BY <1>3, <1>7, SoundCtrlWrite
<1> HIDE DEF w
<1>9. SoundPair(t) /\ t.hw.store = hw.store
      BY <1>3, <1>8, SoundBurstCommand
<1> HIDE DEF t
<1>10. SoundPair(q) /\ q.hw.store = hw.store /\ hw' = q.hw /\ sel' = q.sel
      BY <1>6, <1>7, <1>9 DEF Become
<1>11. IsStore(hw'.store)
      BY <1>1, <1>10 DEF UnitInv
<1> QED BY <1>1, <1>2, <1>6, <1>10, <1>11, GoneStep DEF SoundPair, IsPair, Sound


-----------------------------------------------------------------------------
(***************************************************************************)
(* The legacy unit.                                                        *)
(***************************************************************************)
\* A unit in SHIFT_DR, with no burst due and an empty shift register.
Hearing(h) ==
  /\ IsHw(h) /\ h.tap = "shiftDR" /\ h.ir = "DEBUG" /\ h.sr = Nop
  /\ h.burst.open = FALSE /\ h.burst.left = 0

\* tap_set_shift_dr makes a unit at rest listen.
LEMMA LegacyListens ==
  ASSUME NEW h, Quiet(h)
  PROVE  LET g == tap_set_shift_dr(h) IN Hearing(g) /\ SameUnit(g, h) /\ Listening(g)
<1> DEFINE g == tap_set_shift_dr(h)
<1>1. (h.burst.left > 0) = FALSE
      BY DEF Quiet
<1>2. /\ IsHw(g) /\ g.tap = "shiftDR" /\ g.ir = "DEBUG" /\ g.sr = Nop /\ SameUnit(g, h)
      /\ g.burst.open = (h.burst.left > 0) /\ g.burst.left = h.burst.left
      BY ShiftDr DEF Quiet
<1> HIDE DEF g
<1>3. Hearing(g) /\ SameUnit(g, h) /\ Listening(g)
      BY <1>1, <1>2 DEF Hearing, Listening, Quiet
<1> QED BY <1>3 DEF g

\* The answer's last bit takes the TAP out of SHIFT_DR and does nothing else.
LEMMA LegacyAnswers ==
  ASSUME NEW h, Hearing(h), h.module \in Modules, h.error \in Addrs \cup {None}
  PROVE  LET g == legacy_read_stream(h) IN
         Sound(g) /\ IsHw(g) /\ g.tap = "exit1DR" /\ g.tap \in DOMAIN TapNext /\ SameUnit(g, h)
<1> DEFINE g == Clock(h, 1)
<1>1. IsHw(g) /\ g.tap = "exit1DR" /\ SameUnit(g, h) /\ g.sr = Nop
      BY TapMoves, ClockMoves DEF Hearing
<1>2. g = legacy_read_stream(h)
      BY DEF legacy_read_stream
<1> HIDE DEF g
<1>3. Names(g.sr) /\ g.module \in Modules /\ g.error \in Addrs \cup {None} /\ g.tap \in DOMAIN TapNext
      BY <1>1, TapMoves DEF Names, Nop, SameUnit
<1> QED BY <1>1, <1>2, <1>3 DEF Sound

\* A good answer is followed by tap_exit_to_idle: the unit is at rest again.
LEMMA LegacyEndsScan ==
  ASSUME NEW h, Hearing(h)
  PROVE  LET g == tap_exit_to_idle(legacy_read_stream(h)) IN Quiet(g) /\ SameUnit(g, h)
BY LegacyEnds DEF Hearing, legacy_read_stream

\* The command a call is about to send.
Fits(p) ==
  /\ p \in LegacyLabels
  /\ p \in {"lcommand", "lgo"} => call.op \in {"read", "write"}
  /\ p = "lctrlread" => call.op = "ctrlread"
  /\ p = "lctrlwrite" => call.op = "ctrlwrite"

\* A refused scan is sent again, from the selection of its chain.
LEMMA LegacyRetried ==
  ASSUME AllHandled, UnitInv, InCall, setup.adv = FALSE, Fault("word"), setup' = setup, call' = call,
         sel.soft_retry_no < setup.retries,
         NEW s, IsPair(s), IsHw(s.hw), s.hw.tap \in DOMAIN TapNext, s.hw.store = hw.store,
         s.sel.soft_retry_no = sel.soft_retry_no,
         hw' = tap_enable_debug_module(tap_reset(s.hw)),
         sel' = [s.sel EXCEPT !.current_chain = NoChain, !.current_reg_idx = {}, !.soft_retry_no = @ + 1],
         pc' = "lchain", SameLocals(v', v), Fits(v'.next), v'.next # "lgo"
  PROVE  ApiInv' /\ hw'.store = hw.store
<1>1. /\ Quiet(hw') /\ hw'.module = "WISHBONE" /\ hw'.error = None /\ hw'.store = hw.store
      /\ DOMAIN sel' = SelFields /\ sel'.current_chain = NoChain
      /\ sel'.soft_retry_no = sel.soft_retry_no + 1 /\ Known(hw', sel')
      BY AfterRetry, ZenonT(60)
<1>2. /\ sel.soft_retry_no \in Nat /\ setup.retries \in Nat
      /\ faults' \in Nat /\ faults <= faults' /\ faults' <= MaxFaults
      BY Counted, SetupsAssumption DEF UnitInv
<1>3. sel'.soft_retry_no \in Nat /\ sel'.soft_retry_no <= setup'.retries
      BY <1>1, <1>2
<1>4. IsHw(hw') /\ hw'.tap \in DOMAIN TapNext /\ hw'.module \in Modules
      BY <1>1, TapMoves DEF Quiet, Modules
<1>5. UnitInv'
      BY <1>1, <1>2, <1>3, <1>4 DEF UnitInv, Labels
<1>6. InCall'
      BY <1>2, StillInCall
<1>7. v'.next \in LegacyLabels /\ LegacyInv(v.next)'
      BY <1>1, <1>6 DEF LegacyInv, Fits, Between
<1> QED BY <1>1, <1>5, <1>7 DEF ApiInv, LegacyLabels

\* legacy_dbg_set_chain: the chain is selected, unless it is known to be.
LEMMA SetChainStep == ASSUME AllHandled, ApiInv, legacy_dbg_set_chain PROVE ApiInv' /\ hw'.store = hw.store
<1> DEFINE p == [cmd |-> "select", module |-> call.chain]
           h1 == tap_set_shift_dr(hw)
           h2 == [h1 EXCEPT !.module = call.chain]
           g == tap_exit_to_idle(legacy_read_stream(h2))
           s(h) == [Now EXCEPT !.hw = legacy_read_stream(h)]
           t(h) == [s(h) EXCEPT !.sel.current_chain = NoChain, !.sel.desired_chain = call.chain]
<1>1. /\ UnitInv /\ LegacyInv(v.next) /\ v.next \in LegacyLabels /\ setup' = setup /\ call' = call
      BY DEF ApiInv, legacy_dbg_set_chain
<1>2. /\ InCall /\ IsCall(call) /\ IsLocals /\ Quiet(hw) /\ hw.error = None /\ Known(hw, sel) /\ Fits(v.next)
      /\ call.chain \in Modules /\ setup \in Setups /\ DOMAIN sel = SelFields
      BY <1>1 DEF LegacyInv, InCall, IsCall, Between, UnitInv, Fits
<1>3. setup.adv = FALSE
      BY <1>1, <1>2, SetupIs DEF LegacyInv
<1>4. CASE /\ sel.current_chain = call.chain /\ NoFault
           /\ sel' = [sel EXCEPT !.desired_chain = call.chain]
           /\ pc' = v.next /\ UNCHANGED <<hw, v>>
  <2>1. /\ DOMAIN sel' = SelFields /\ sel'.current_chain = call.chain /\ sel'.desired_chain = call.chain
        /\ sel'.soft_retry_no = sel.soft_retry_no
        BY <1>2, <1>4 DEF SelFields
  <2>2. faults' = faults /\ faults' \in Nat /\ faults <= faults' /\ faults' <= MaxFaults
        BY <1>1, <1>4 DEF NoFault, UnitInv
  <2>3. UnitInv'
        BY <1>1, <1>2, <1>4, <2>1, <2>2, UnitKept DEF Labels, LegacyLabels, UnitInv
  <2>4. InCall'
        BY <1>1, <1>2, <1>4, <2>2, StillInCall DEF SameLocals, IsLocals
  <2>5. Between'
        BY <1>2, <1>4, <2>1 DEF Between, Known, Modules, NoChain
  <2>6. LegacyInv(pc)' /\ pc' \in LegacyLabels
        BY <1>1, <1>4, <2>1, <2>4, <2>5 DEF LegacyInv
  <2> QED BY <1>1, <1>4, <2>1, <2>3, <2>6 DEF ApiInv, LegacyLabels
<1>5. CASE /\ sel.current_chain # call.chain
           /\ \/ /\ NoFault /\ hw' = g /\ pc' = v.next /\ UNCHANGED v
                 /\ sel' = [sel EXCEPT !.current_chain = call.chain, !.soft_retry_no = 0,
                                       !.desired_chain = call.chain]
              \/ /\ Fault("word")
                 /\ \E h \in {h1, h2} :
                      retry_do(t(h), pc' = "lchain" /\ UNCHANGED v,
                               IF v.first THEN Return("crc") ELSE pc' = v.next /\ UNCHANGED v)
  <2>1. v.next # "lgo"
        BY <1>1, <1>5 DEF LegacyInv
  <2>2. Hearing(h1) /\ SameUnit(h1, hw)
        BY <1>2, LegacyListens
  <2> HIDE DEF h1
  <2>3. Hearing(h2) /\ h2.module = call.chain /\ h2.error = hw.error /\ h2.store = hw.store
        BY <2>2 DEF Hearing, IsHw, HwFields, SameUnit
  <2> HIDE DEF h2
  <2>4. CASE /\ NoFault /\ hw' = g /\ pc' = v.next /\ UNCHANGED v
             /\ sel' = [sel EXCEPT !.current_chain = call.chain, !.soft_retry_no = 0,
                                   !.desired_chain = call.chain]
    <3>1. Quiet(g) /\ SameUnit(g, h2)
          BY <2>3, LegacyEndsScan
    <3> HIDE DEF g
    <3>2. /\ Quiet(hw') /\ hw'.module = call.chain /\ hw'.error = None /\ hw'.store = hw.store
          BY <1>2, <2>3, <2>4, <3>1 DEF SameUnit
    <3>3. /\ DOMAIN sel' = SelFields /\ sel'.current_chain = call.chain /\ sel'.desired_chain = call.chain
          /\ sel'.soft_retry_no = 0
          BY <1>2, <2>4 DEF SelFields
    <3>4. faults' = faults /\ faults' \in Nat /\ faults <= faults' /\ faults' <= MaxFaults
          BY <1>1, <2>4 DEF NoFault, UnitInv
    <3>5. IsHw(hw') /\ hw'.tap \in DOMAIN TapNext
          BY <3>2, TapMoves DEF Quiet
    <3>6. UnitInv'
          BY <1>1, <1>2, <2>4, <3>2, <3>3, <3>4, <3>5, UnitKept DEF Labels, LegacyLabels
    <3>7. InCall'
          BY <1>1, <1>2, <2>4, <3>4, StillInCall DEF SameLocals, IsLocals
    <3>8. Between'
          BY <3>2, <3>3 DEF Between, Known
    <3>9. LegacyInv(pc)' /\ pc' \in LegacyLabels
          BY <1>1, <2>1, <2>4, <3>7, <3>8 DEF LegacyInv
    <3> QED BY <1>1, <3>2, <3>3, <3>6, <3>9 DEF ApiInv, LegacyLabels
  <2>5. CASE /\ Fault("word")
             /\ \E h \in {h1, h2} :
                  retry_do(t(h), pc' = "lchain" /\ UNCHANGED v,
                           IF v.first THEN Return("crc") ELSE pc' = v.next /\ UNCHANGED v)
    <3>1. PICK h \in {h1, h2} :
                  retry_do(t(h), pc' = "lchain" /\ UNCHANGED v,
                           IF v.first THEN Return("crc") ELSE pc' = v.next /\ UNCHANGED v)
          BY <2>5
    <3> DEFINE r == legacy_read_stream(h)
               c == [sel EXCEPT !.current_chain = NoChain, !.desired_chain = call.chain]
    <3>2. Sound(r) /\ IsHw(r) /\ r.tap = "exit1DR" /\ r.tap \in DOMAIN TapNext /\ r.store = hw.store
      <4>1. /\ Hearing(h) /\ h.module \in Modules /\ h.error \in Addrs \cup {None} /\ h.store = hw.store
            BY <1>1, <1>2, <2>2, <2>3 DEF SameUnit, UnitInv
      <4> QED BY <4>1, LegacyAnswers DEF SameUnit
    <3>3. DOMAIN c = SelFields /\ c.soft_retry_no = sel.soft_retry_no /\ c.current_chain = NoChain
          BY <1>2 DEF SelFields
    <3> DEFINE q == [Now EXCEPT !.hw = r]
    <3>4. /\ t(h) = [q EXCEPT !.sel.current_chain = NoChain, !.sel.desired_chain = call.chain]
          /\ DOMAIN q = {"hw", "sel"} /\ q.hw = r /\ q.sel = sel
      <4>1. t(h) = [q EXCEPT !.sel.current_chain = NoChain, !.sel.desired_chain = call.chain]
            OBVIOUS
      <4> HIDE DEF r, t
      <4> QED BY <4>1 DEF Now
    <3>a. DOMAIN t(h) = {"hw", "sel"} /\ t(h).hw = r /\ t(h).sel = c
      <4> HIDE DEF r, t, q
      <4> QED BY <1>2, <3>4 DEF SelFields
    <3> HIDE DEF r, c, t, q
    <3>5. IsPair(t(h)) /\ t(h).hw = r /\ t(h).sel = c
          BY <3>3, <3>a DEF IsPair
    <3>b. Fault("word")
          BY <2>5
    <3>c. sel.soft_retry_no \in Nat /\ setup.retries \in Nat /\ sel.soft_retry_no <= setup.retries
          BY <1>1, SetupsAssumption DEF UnitInv
    <3>d. faults' \in Nat /\ faults' <= MaxFaults /\ v.faults < faults'
          BY <1>1, <1>2, <3>b, Counted DEF InCall, IsLocals, UnitInv
    <3>6. CASE sel.soft_retry_no < setup.retries
      <4>1. ~ (t(h).sel.soft_retry_no >= setup.retries)
            BY <3>c, <3>3, <3>5, <3>6
      <4>2. /\ hw' = tap_enable_debug_module(tap_reset(t(h).hw))
            /\ sel' = [t(h).sel EXCEPT !.current_chain = NoChain, !.current_reg_idx = {}, !.soft_retry_no = @ + 1]
            /\ pc' = "lchain" /\ v' = v
            BY <3>1, <4>1 DEF retry_do
      <4>3. SameLocals(v', v)
            BY <1>2, <4>2 DEF SameLocals, IsLocals
      <4> QED BY <1>1, <1>2, <1>3, <2>1, <3>b, <3>2, <3>3, <3>5, <3>6, <4>2, <4>3, LegacyRetried, ZenonT(60)
    <3>7. CASE ~ (sel.soft_retry_no < setup.retries)
      <4>1. ~ (t(h).sel.soft_retry_no < setup.retries)
            BY <3>3, <3>5, <3>7
      <4>2. /\ Become(t(h))
            /\ IF v.first THEN Return("crc") ELSE pc' = v.next /\ UNCHANGED v
            BY <3>1, <4>1 DEF retry_do
      <4>3. hw' = r /\ sel' = c
            BY <3>5, <4>2 DEF Become
      <4>4. /\ IsStore(hw'.store) /\ hw'.store = hw.store
            /\ sel'.soft_retry_no \in Nat /\ sel'.soft_retry_no <= setup.retries
            BY <1>1, <3>2, <3>3, <3>c, <4>3 DEF UnitInv
      <4>5. CASE v.first
        <5>1. Return("crc")
              BY <4>2, <4>5
        <5> QED BY <1>1, <1>2, <1>3, <3>2, <3>3, <3>d, <4>3, <4>4, <5>1, GoneStep DEF Sound, IsLocals
      <4>6. CASE ~ v.first
        <5>1. pc' = v.next /\ v' = v
              BY <4>2, <4>6
        <5>2. UnitInv'
              BY <1>1, <3>2, <3>3, <3>d, <4>3, <4>4, <5>1 DEF UnitInv, Labels, LegacyLabels, Sound
        <5>3. LegacyLost'
              BY <1>1, <1>2, <1>3, <3>2, <3>3, <3>7, <3>c, <3>d, <4>3, <5>1 DEF LegacyLost, IsLocals
        <5>4. pc' \in LegacyLabels
              BY <1>1, <5>1
        <5> QED BY <4>4, <5>2, <5>3, <5>4 DEF ApiInv, LegacyLabels
      <4> QED BY <4>5, <4>6
    <3> QED BY <3>6, <3>7
  <2> QED BY <1>5, <2>4, <2>5
<1> QED
  <2>1. Listening(h1)
        BY <1>2, LegacyListens
  <2>2. legacy_write_stream(h1, p) = h2
        BY <2>1 DEF legacy_write_stream, LegacyObey
  <2> QED BY <1>4, <1>5, <2>1, <2>2 DEF legacy_dbg_set_chain, LegacyScan


\* A command the unit did not answer well is sent again.
LEMMA LegacyRefused ==
  ASSUME AllHandled, UnitInv, InCall, setup.adv = FALSE, Fault("word"), setup' = setup, call' = call,
         NEW here, here # "lgo", Fits(here), NEW h, Hearing(h), h.store = hw.store,
         h.module = hw.module, h.error = hw.error,
         retry_do([Now EXCEPT !.hw = legacy_read_stream(h)], ToChain(here), Return("crc"))
  PROVE  ApiInv' /\ hw'.store = hw.store
<1> DEFINE r == legacy_read_stream(h)
           s == [Now EXCEPT !.hw = r]
<1>1. Sound(r) /\ IsHw(r) /\ r.tap \in DOMAIN TapNext /\ r.store = hw.store
      BY LegacyAnswers DEF SameUnit, UnitInv
<1>2. retry_do(s, ToChain(here), Return("crc"))
      OBVIOUS
<1> HIDE DEF r
<1>3. IsPair(s) /\ s.hw = r /\ s.sel = sel
      BY NowIs DEF IsPair
<1> HIDE DEF s
<1>4. sel.soft_retry_no \in Nat /\ setup.retries \in Nat
      BY SetupsAssumption DEF UnitInv
<1>5. CASE sel.soft_retry_no < setup.retries
  <2>1. ~ (s.sel.soft_retry_no >= setup.retries)
        BY <1>3, <1>4, <1>5
  <2>2. /\ hw' = tap_enable_debug_module(tap_reset(s.hw))
        /\ sel' = [s.sel EXCEPT !.current_chain = NoChain, !.current_reg_idx = {}, !.soft_retry_no = @ + 1]
        /\ ToChain(here)
        BY <1>2, <2>1 DEF retry_do
  <2>3. pc' = "lchain" /\ SameLocals(v', v) /\ v'.next = here
        BY <2>2 DEF ToChain, InCall, IsLocals, SameLocals, LocalFields
  <2> QED BY <1>1, <1>3, <1>5, <2>2, <2>3, LegacyRetried, ZenonT(60)
<1>6. CASE ~ (sel.soft_retry_no < setup.retries)
  <2>1. Become(s) /\ Return("crc")
        BY <1>2, <1>3, <1>6 DEF retry_do
  <2>2. hw' = r /\ sel' = sel
        BY <1>3, <2>1 DEF Become
  <2>3. faults' \in Nat /\ faults' <= MaxFaults /\ v.faults < faults'
        BY Counted DEF InCall, IsLocals, UnitInv
  <2> QED BY <1>1, <2>1, <2>2, <2>3, GoneStep DEF Sound, UnitInv, InCall, IsLocals
<1> QED BY <1>5, <1>6

\* From EXIT1_DR tap_set_shift_dr ends in RUN_TEST/IDLE: the scan is not heard.
LEMMA LostUnheard ==
  ASSUME NEW h, Sound(h), h.tap = "exit1DR"
  PROVE  LET g == tap_set_shift_dr(h) IN
         ~ Listening(g) /\ Sound(legacy_read_stream(g)) /\ legacy_read_stream(g).store = h.store
<1> DEFINE a == Clock(h, 1)
           b == Clock(a, 0)
           c == Clock(b, 0)
           d == Clock(c, 1)
<1>1. Sound(a) /\ a.store = h.store /\ a.tap = "updateDR"
  <2>1. IsHw(h)
        BY Zenon DEF Sound
  <2>2. a.tap = "updateDR"
        BY <2>1, ClockAny, TapMoves
  <2> QED BY <2>2, SoundClock
<1> HIDE DEF a
<1>2. Sound(b) /\ b.store = h.store /\ b.tap = "idle"
  <2>1. IsHw(a)
        BY <1>1, Zenon DEF Sound
  <2>2. b.tap = "idle"
        BY <1>1, <2>1, ClockAny, TapMoves
  <2> QED BY <1>1, <2>2, SoundClock
<1> HIDE DEF b
<1>3. Sound(c) /\ c.store = h.store /\ c.tap = "idle"
  <2>1. IsHw(b)
        BY <1>2, Zenon DEF Sound
  <2>2. c.tap = "idle"
        BY <1>2, <2>1, ClockAny, TapMoves
  <2> QED BY <1>2, <2>2, SoundClock
<1> HIDE DEF c
<1>4. Sound(d) /\ d.store = h.store
      BY <1>3, SoundClock
<1>5. tap_set_shift_dr(h) = c /\ legacy_read_stream(c) = d
      BY DEF a, b, c, d, tap_set_shift_dr, legacy_read_stream
<1> HIDE DEF d
<1> QED BY <1>3, <1>4, <1>5 DEF Listening

\* The command that follows a chain refused once too often ends the call.
LEMMA LegacyLostStep ==
  ASSUME AllHandled, ApiInv, LegacyLost, setup' = setup, NoFault,
         Become([Now EXCEPT !.hw = legacy_read_stream(tap_set_shift_dr(hw))]), Return("crc")
  PROVE  ApiInv' /\ hw'.store = hw.store
<1> DEFINE r == legacy_read_stream(tap_set_shift_dr(hw))
<1>1. Sound(r) /\ r.store = hw.store
      BY LostUnheard DEF LegacyLost
<1>2. Become([Now EXCEPT !.hw = r])
      OBVIOUS
<1> HIDE DEF r
<1>3. UnitInv /\ faults' = faults
      BY DEF ApiInv, NoFault
<1>4. hw' = r /\ sel' = sel
      BY <1>2, <1>3, NowIs DEF Become, IsPair
<1> QED BY <1>1, <1>3, <1>4, GoneStep DEF LegacyLost, Sound, UnitInv

\* The facts of a legacy command that the steps below share.
LEMMA LegacyFacts ==
  ASSUME AllHandled, ApiInv, pc \in LegacyLabels, ~ LegacyLost
  PROVE  /\ UnitInv /\ LegacyInv(pc) /\ InCall /\ IsCall(call) /\ IsLocals /\ Between /\ Fits(pc)
         /\ Quiet(hw) /\ hw.error = None /\ Known(hw, sel) /\ DOMAIN sel = SelFields
         /\ sel.current_chain = call.chain /\ sel.desired_chain = call.chain
         /\ call.chain = call.want /\ hw.module = call.want /\ call.want \in Modules
         /\ setup \in Setups /\ setup.adv = FALSE /\ IsStore(hw.store)
<1>1. UnitInv /\ LegacyInv(pc) /\ sel.current_chain = call.chain
      BY DEF ApiInv
<1>2. /\ InCall /\ IsCall(call) /\ IsLocals /\ Between /\ Fits(pc)
      /\ Quiet(hw) /\ hw.error = None /\ Known(hw, sel) /\ DOMAIN sel = SelFields
      /\ call.chain = call.want /\ call.want \in Modules /\ setup \in Setups /\ IsStore(hw.store)
      BY <1>1 DEF LegacyInv, InCall, IsCall, Between, UnitInv, Fits
<1>3. setup.adv = FALSE
      BY <1>1, <1>2, SetupIs DEF LegacyInv
<1>4. sel.desired_chain = call.chain /\ hw.module = call.want
      BY <1>1, <1>2 DEF Known, Modules, NoChain
<1> QED BY <1>1, <1>2, <1>3, <1>4

\* A command the unit answered well: it is at rest, and the cache still right.
LEMMA LegacyAccepted ==
  ASSUME AllHandled, ApiInv, pc \in LegacyLabels, ~ LegacyLost, setup' = setup, pc' \in Labels,
         NoFault, NEW h, Hearing(h), h.module = hw.module, h.error = hw.error, IsStore(h.store),
         hw' = tap_exit_to_idle(legacy_read_stream(h)), sel' = [sel EXCEPT !.soft_retry_no = 0]
  PROVE  /\ UnitInv' /\ SameUnit(hw', h) /\ sel'.current_chain = sel.current_chain
         /\ Quiet(hw') /\ hw'.error = None /\ Known(hw', sel')
         /\ faults' = faults /\ faults \in Nat
<1>1. /\ UnitInv /\ DOMAIN sel = SelFields /\ Known(hw, sel) /\ hw.error = None /\ hw.module \in Modules
      BY LegacyFacts
<1>2. Quiet(hw') /\ SameUnit(hw', h)
      BY LegacyEndsScan
<1>3. /\ DOMAIN sel' = SelFields /\ sel'.current_chain = sel.current_chain
      /\ sel'.desired_chain = sel.desired_chain /\ sel'.soft_retry_no = 0
      BY <1>1 DEF SelFields
<1>4. faults' = faults /\ faults \in Nat /\ faults <= MaxFaults /\ setup.retries \in Nat
      BY <1>1, SetupIs DEF NoFault, UnitInv
<1>5. /\ hw'.module = hw.module /\ hw'.error = None /\ IsStore(hw'.store)
      BY <1>1, <1>2 DEF SameUnit
<1>6. Known(hw', sel')
      BY <1>1, <1>3, <1>5 DEF Known
<1>7. IsHw(hw') /\ hw'.tap \in DOMAIN TapNext
      BY <1>2, TapMoves DEF Quiet
<1>8. UnitInv'
      BY <1>1, <1>3, <1>4, <1>5, <1>7 DEF UnitInv
<1> QED BY <1>2, <1>3, <1>4, <1>5, <1>6, <1>8

\* legacy_dbg_command: the unit holds the command that legacy_dbg_go starts.
LEMMA LegacyCommandStep == ASSUME AllHandled, ApiInv, legacy_dbg_command PROVE ApiInv' /\ hw'.store = hw.store
<1> DEFINE p == [cmd |-> "command", op |-> call.op, addr |-> call.start, len |-> call.count]
           h1 == tap_set_shift_dr(hw)
           h2 == [h1 EXCEPT !.lcmd = p]
           g == tap_exit_to_idle(legacy_read_stream(h2))
<1>1. pc = "lcommand" /\ setup' = setup /\ call' = call /\ pc \in LegacyLabels
      BY DEF legacy_dbg_command, LegacySend, LegacyLabels
<1>0. CASE LegacyLost
  <2>1. ~ Listening(h1)
        BY <1>0, LostUnheard DEF LegacyLost
  <2>2. NoFault /\ retry_do([Now EXCEPT !.hw = legacy_read_stream(h1)], ToChain("lcommand"), Return("crc"))
        BY <2>1 DEF legacy_dbg_command, LegacySend, LegacyScan
  <2>3. NoFault /\ Become([Now EXCEPT !.hw = legacy_read_stream(h1)]) /\ Return("crc")
    <3>1. Now.sel = sel /\ sel.soft_retry_no \in Nat /\ setup.retries \in Nat
          BY SetupsAssumption, NowIs DEF ApiInv, UnitInv
    <3>2. ~ ([Now EXCEPT !.hw = legacy_read_stream(h1)].sel.soft_retry_no < setup.retries)
          BY <1>0, <3>1, NowIs DEF LegacyLost, ApiInv, IsPair
    <3> QED BY <2>2, <3>2 DEF retry_do
  <2> QED BY <1>0, <1>1, <2>3, LegacyLostStep
<1> SUFFICES ASSUME ~ LegacyLost PROVE ApiInv' /\ hw'.store = hw.store
      BY <1>0
<1>2. /\ UnitInv /\ InCall /\ IsCall(call) /\ IsLocals /\ Fits("lcommand") /\ Quiet(hw) /\ setup.adv = FALSE
      /\ sel.current_chain = call.chain /\ IsStore(hw.store)
      BY <1>1, LegacyFacts
<1>3. Hearing(h1) /\ SameUnit(h1, hw) /\ Listening(h1)
      BY <1>2, LegacyListens
<1>4. legacy_write_stream(h1, p) = h2
      BY <1>3 DEF legacy_write_stream, LegacyObey
<1>5. \/ /\ NoFault /\ hw' = g /\ sel' = [sel EXCEPT !.soft_retry_no = 0] /\ ToChain("lgo")
      \/ /\ Fault("word")
         /\ \E h \in {h1, h2} :
              retry_do([Now EXCEPT !.hw = legacy_read_stream(h)], ToChain("lcommand"), Return("crc"))
      BY <1>3, <1>4 DEF legacy_dbg_command, LegacySend, LegacyScan
<1> HIDE DEF h1, p
<1>6. Hearing(h2) /\ h2.module = hw.module /\ h2.error = hw.error /\ h2.store = hw.store /\ h2.lcmd = p
      BY <1>3 DEF Hearing, IsHw, HwFields, SameUnit
<1> HIDE DEF h2
<1>7. CASE NoFault /\ hw' = g /\ sel' = [sel EXCEPT !.soft_retry_no = 0] /\ ToChain("lgo")
  <2>1. pc' = "lchain" /\ SameLocals(v', v) /\ v'.next = "lgo" /\ pc' \in Labels
        BY <1>2, <1>7 DEF ToChain, IsLocals, SameLocals, LocalFields, Labels
  <2>2. /\ UnitInv' /\ SameUnit(hw', h2) /\ sel'.current_chain = sel.current_chain
        /\ Quiet(hw') /\ hw'.error = None /\ Known(hw', sel') /\ faults' = faults /\ faults \in Nat
        BY <1>1, <1>2, <1>6, <1>7, <2>1, LegacyAccepted
  <2>3. InCall'
        BY <1>1, <1>2, <2>1, <2>2, StillInCall
  <2>4. hw'.lcmd.op = call.op /\ hw'.lcmd.addr = call.start /\ hw'.lcmd.len = call.count
        BY <1>6, <2>2 DEF SameUnit, p
  <2>5. v'.next \in LegacyLabels /\ LegacyInv(v.next)'
        BY <1>1, <1>2, <2>1, <2>2, <2>3, <2>4 DEF LegacyInv, Fits, Between, LegacyLabels
  <2>6. hw'.store = hw.store
        BY <1>6, <2>2 DEF SameUnit
  <2> QED BY <2>1, <2>2, <2>5, <2>6 DEF ApiInv, LegacyLabels
<1>8. CASE /\ Fault("word")
           /\ \E h \in {h1, h2} :
                retry_do([Now EXCEPT !.hw = legacy_read_stream(h)], ToChain("lcommand"), Return("crc"))
  <2>1. PICK h \in {h1, h2} :
          retry_do([Now EXCEPT !.hw = legacy_read_stream(h)], ToChain("lcommand"), Return("crc"))
        BY <1>8
  <2>2. Hearing(h) /\ h.store = hw.store /\ h.module = hw.module /\ h.error = hw.error
        BY <1>3, <1>6 DEF SameUnit
  <2> QED BY <1>1, <1>2, <1>8, <2>1, <2>2, LegacyRefused
<1> QED BY <1>5, <1>7, <1>8

\* legacy_dbg_ctrl: the CPU's stall bit is written.
LEMMA LegacyCtrlStep == ASSUME AllHandled, ApiInv, legacy_dbg_ctrl PROVE ApiInv' /\ hw'.store = hw.store
<1> DEFINE p == [cmd |-> "ctrl", data |-> call.ctl % 2]
           h1 == tap_set_shift_dr(hw)
           h2 == [h1 EXCEPT !.ctl[h1.module] = call.ctl % 2]
           g == tap_exit_to_idle(legacy_read_stream(h2))
<1>1. pc = "lctrlwrite" /\ setup' = setup /\ call' = call /\ pc \in LegacyLabels
      BY DEF legacy_dbg_ctrl, LegacySend, LegacyLabels
<1>0. CASE LegacyLost
  <2>1. ~ Listening(h1)
        BY <1>0, LostUnheard DEF LegacyLost
  <2>2. NoFault /\ retry_do([Now EXCEPT !.hw = legacy_read_stream(h1)], ToChain("lctrlwrite"), Return("crc"))
        BY <2>1 DEF legacy_dbg_ctrl, LegacySend, LegacyScan
  <2>3. NoFault /\ Become([Now EXCEPT !.hw = legacy_read_stream(h1)]) /\ Return("crc")
    <3>1. Now.sel = sel /\ sel.soft_retry_no \in Nat /\ setup.retries \in Nat
          BY SetupsAssumption, NowIs DEF ApiInv, UnitInv
    <3>2. ~ ([Now EXCEPT !.hw = legacy_read_stream(h1)].sel.soft_retry_no < setup.retries)
          BY <1>0, <3>1, NowIs DEF LegacyLost, ApiInv, IsPair
    <3> QED BY <2>2, <3>2 DEF retry_do
  <2> QED BY <1>0, <1>1, <2>3, LegacyLostStep
<1> SUFFICES ASSUME ~ LegacyLost PROVE ApiInv' /\ hw'.store = hw.store
      BY <1>0
<1>2. /\ UnitInv /\ InCall /\ IsCall(call) /\ IsLocals /\ Fits("lctrlwrite") /\ Quiet(hw) /\ setup.adv = FALSE
      /\ hw.module = call.want /\ IsStore(hw.store)
      BY <1>1, LegacyFacts
<1>c. call.op = "ctrlwrite" /\ call.want \in Cpus /\ call.ctl % 2 = call.ctl
      BY <1>2 DEF Fits, IsCall
<1>3. Hearing(h1) /\ SameUnit(h1, hw) /\ Listening(h1)
      BY <1>2, LegacyListens
<1>4. legacy_write_stream(h1, p) = h2
      BY <1>3 DEF legacy_write_stream, LegacyObey
<1>5. \/ /\ NoFault /\ hw' = g /\ sel' = [sel EXCEPT !.soft_retry_no = 0] /\ Return("ok")
      \/ /\ Fault("word")
         /\ \E h \in {h1, h2} :
              retry_do([Now EXCEPT !.hw = legacy_read_stream(h)], ToChain("lctrlwrite"), Return("crc"))
      BY <1>3, <1>4 DEF legacy_dbg_ctrl, LegacySend, LegacyScan
<1> HIDE DEF h1, p
<1>6. Hearing(h2) /\ h2.module = hw.module /\ h2.error = hw.error /\ h2.store = hw.store /\ h2.ctl[call.want] = call.ctl
  <2>1. h2.ctl = [h1.ctl EXCEPT ![call.want] = call.ctl]
        BY <1>2, <1>3, <1>c DEF Hearing, IsHw, HwFields, SameUnit
  <2>2. DOMAIN h2.ctl = Cpus /\ h2.ctl[call.want] = call.ctl
        BY <1>3, <1>c, <2>1 DEF Hearing, IsHw
  <2> QED BY <1>3, <2>2 DEF Hearing, IsHw, HwFields, SameUnit
<1> HIDE DEF h2
<1>7. CASE NoFault /\ hw' = g /\ sel' = [sel EXCEPT !.soft_retry_no = 0] /\ Return("ok")
  <2>1. pc' = "done" /\ SameLocals(v', v) /\ v'.err = "ok" /\ pc' \in Labels
        BY <1>2, <1>7, Returns DEF Labels
  <2>2. /\ UnitInv' /\ SameUnit(hw', h2) /\ sel'.current_chain = sel.current_chain
        /\ Quiet(hw') /\ hw'.error = None /\ Known(hw', sel') /\ faults' = faults /\ faults \in Nat
        BY <1>1, <1>2, <1>6, <1>7, <2>1, LegacyAccepted
  <2>3. InCall'
        BY <1>1, <1>2, <2>1, <2>2, StillInCall
  <2>4. AtDone'
        BY <1>1, <1>c, <1>6, <2>1, <2>2, <2>3 DEF AtDone, Between, SameUnit
  <2>5. hw'.store = hw.store
        BY <1>6, <2>2 DEF SameUnit
  <2> QED BY <2>1, <2>2, <2>4, <2>5 DEF ApiInv, LegacyLabels
<1>8. CASE /\ Fault("word")
           /\ \E h \in {h1, h2} :
                retry_do([Now EXCEPT !.hw = legacy_read_stream(h)], ToChain("lctrlwrite"), Return("crc"))
  <2>1. PICK h \in {h1, h2} :
          retry_do([Now EXCEPT !.hw = legacy_read_stream(h)], ToChain("lctrlwrite"), Return("crc"))
        BY <1>8
  <2>2. Hearing(h) /\ h.store = hw.store /\ h.module = hw.module /\ h.error = hw.error
        BY <1>3, <1>6 DEF SameUnit
  <2> QED BY <1>1, <1>2, <1>8, <2>1, <2>2, LegacyRefused
<1> QED BY <1>5, <1>7, <1>8


\* legacy_dbg_ctrl_read: the CPU's stall bit is read.
LEMMA LegacyCtrlReadStep == ASSUME AllHandled, ApiInv, legacy_dbg_ctrl_read PROVE ApiInv' /\ hw'.store = hw.store
<1> DEFINE p == [cmd |-> "ctrlread"]
           h1 == tap_set_shift_dr(hw)
           g == tap_exit_to_idle(legacy_read_stream(h1))
           read == pc' = "done" /\ v' = [v EXCEPT !.err = "ok", !.ctl = CtlRead(hw')]
<1>1. pc = "lctrlread" /\ setup' = setup /\ call' = call /\ pc \in LegacyLabels
      BY DEF legacy_dbg_ctrl_read, LegacySend, LegacyLabels
<1>0. CASE LegacyLost
  <2>1. ~ Listening(h1)
        BY <1>0, LostUnheard DEF LegacyLost
  <2>2. NoFault /\ retry_do([Now EXCEPT !.hw = legacy_read_stream(h1)], ToChain("lctrlread"), Return("crc"))
        BY <2>1 DEF legacy_dbg_ctrl_read, LegacySend, LegacyScan
  <2>3. NoFault /\ Become([Now EXCEPT !.hw = legacy_read_stream(h1)]) /\ Return("crc")
    <3>1. Now.sel = sel /\ sel.soft_retry_no \in Nat /\ setup.retries \in Nat
          BY SetupsAssumption, NowIs DEF ApiInv, UnitInv
    <3>2. ~ ([Now EXCEPT !.hw = legacy_read_stream(h1)].sel.soft_retry_no < setup.retries)
          BY <1>0, <3>1, NowIs DEF LegacyLost, ApiInv, IsPair
    <3> QED BY <2>2, <3>2 DEF retry_do
  <2> QED BY <1>0, <1>1, <2>3, LegacyLostStep
<1> SUFFICES ASSUME ~ LegacyLost PROVE ApiInv' /\ hw'.store = hw.store
      BY <1>0
<1>2. /\ UnitInv /\ InCall /\ IsCall(call) /\ IsLocals /\ Fits("lctrlread") /\ Quiet(hw) /\ setup.adv = FALSE
      /\ hw.module = call.want /\ IsStore(hw.store) /\ call.op = "ctrlread"
      BY <1>1, LegacyFacts DEF Fits
<1>3. Hearing(h1) /\ SameUnit(h1, hw) /\ Listening(h1)
      BY <1>2, LegacyListens
<1>4. legacy_write_stream(h1, p) = h1
      BY <1>3 DEF legacy_write_stream, LegacyObey
<1>5. \/ /\ NoFault /\ hw' = g /\ sel' = [sel EXCEPT !.soft_retry_no = 0] /\ read
      \/ /\ Fault("word")
         /\ retry_do([Now EXCEPT !.hw = legacy_read_stream(h1)], ToChain("lctrlread"), Return("crc"))
      BY <1>3, <1>4 DEF legacy_dbg_ctrl_read, LegacySend, LegacyScan
<1> HIDE DEF h1
<1>6. h1.module = hw.module /\ h1.error = hw.error /\ h1.store = hw.store
      BY <1>3 DEF SameUnit
<1>7. CASE NoFault /\ hw' = g /\ sel' = [sel EXCEPT !.soft_retry_no = 0] /\ read
  <2>1. /\ pc' = "done" /\ pc' \in Labels
        /\ DOMAIN v' = LocalFields /\ v'.i = v.i /\ v'.j = v.j /\ v'.good = v.good /\ v'.buserrs = v.buserrs
        /\ v'.faults = v.faults /\ v'.buf = v.buf /\ v'.err = "ok" /\ v'.ctl = CtlRead(hw')
        BY <1>2, <1>7 DEF IsLocals, LocalFields, Labels
  <2>2. /\ UnitInv' /\ SameUnit(hw', h1) /\ sel'.current_chain = sel.current_chain
        /\ Quiet(hw') /\ hw'.error = None /\ Known(hw', sel') /\ faults' = faults /\ faults \in Nat
        BY <1>1, <1>2, <1>3, <1>6, <1>7, <2>1, LegacyAccepted
  <2>3. InCall'
    <3>1. IsCall(call)' /\ Words(call)' = Words(call)
          BY <1>1, <1>2 DEF IsCall, Words
    <3>2. IsLocals'
          BY <1>2, <2>1, <3>1 DEF IsLocals
    <3> QED BY <1>2, <2>1, <2>2, <3>1, <3>2 DEF InCall
  <2>4. hw'.store = hw.store /\ hw'.module = call.want
        BY <1>2, <1>6, <2>2 DEF SameUnit
  <2>5. v'.ctl = hw'.ctl[call.want]
    <3>1. call.want \in {"CPU0", "CPU1"}
          BY <1>2 DEF IsCall, Cpus
    <3> QED BY <2>1, <2>4, <3>1 DEF CtlRead
  <2>6. AtDone'
        BY <1>1, <1>2, <2>1, <2>2, <2>3, <2>4, <2>5 DEF AtDone, Between
  <2> QED BY <2>1, <2>2, <2>4, <2>6 DEF ApiInv, LegacyLabels
<1>8. CASE /\ Fault("word")
           /\ retry_do([Now EXCEPT !.hw = legacy_read_stream(h1)], ToChain("lctrlread"), Return("crc"))
      BY <1>1, <1>2, <1>3, <1>6, <1>8, LegacyRefused
<1> QED BY <1>5, <1>7, <1>8

\* DI_GO: the unit moves the words the command it holds is about.
LEMMA GoMoves ==
  ASSUME NEW h, Hearing(h), IsStore(h.store), IsCall(call), call.op \in {"read", "write"}, h.module = call.want,
         h.lcmd.op = call.op, h.lcmd.addr = call.start, h.lcmd.len = call.count
  PROVE  LET g == LegacyObey(h, [cmd |-> "go"]) IN
         /\ Hearing(g) /\ g.module = h.module /\ g.error = h.error /\ IsStore(g.store)
         /\ call.op = "read" => g.store = h.store
         /\ \A m \in Stores, a \in Addrs : g.store[m][a] # h.store[m][a] =>
              /\ call.op = "write" /\ m = call.want /\ a - call.start \in Words(call)
              /\ g.store[m][a] = Data(a - call.start)
         /\ call.op = "write" => \A k \in Words(call) : g.store[call.want][call.start + k] = Data(k)
<1> DEFINE g == LegacyObey(h, [cmd |-> "go"])
<1>1. CASE call.op = "read"
  <2>1. g = h
        BY <1>1 DEF LegacyObey
  <2> QED BY <1>1, <2>1
<1>2. CASE call.op = "write"
  <2> DEFINE f == [a \in Addrs |-> IF a - h.lcmd.addr \in 0 .. h.lcmd.len - 1
                                   THEN Data(a - h.lcmd.addr) ELSE h.store[h.module][a]]
             st == [h.store EXCEPT ![h.module] = f]
  <2>1. g = [h EXCEPT !.store = st]
        BY <1>2 DEF LegacyObey, Hearing, IsHw, HwFields
  <2>2. DOMAIN f = Addrs /\ \A a \in Addrs : f[a] = IF a - call.start \in Words(call)
                                                    THEN Data(a - call.start) ELSE h.store[call.want][a]
        BY DEF Words
  <2>3. call.want \in Stores
        BY <1>2 DEF IsCall
  <2> HIDE DEF f
  <2>4. DOMAIN st = Stores /\ st[call.want] = f /\ \A m \in Stores : m # call.want => st[m] = h.store[m]
        BY <2>3 DEF IsStore
  <2> HIDE DEF st, g
  <2>5. Hearing(g) /\ g.module = h.module /\ g.error = h.error /\ g.store = st
        BY <2>1 DEF Hearing, IsHw, HwFields
  <2>6. call.count \in Nat /\ call.start \in Nat /\ call.count <= MaxCount
        BY DEF IsCall
  <2>7. \A k \in Words(call) : Data(k) \in Word
        BY <2>6, CountAssumption DEF Words, Data, Word
  <2>8. \A a \in Addrs : f[a] \in Word
        BY <2>2, <2>3, <2>7, ZenonT(60) DEF IsStore
  <2>9. IsStore(st)
        BY <2>2, <2>4, <2>8 DEF IsStore
  <2>10. \A k \in Words(call) : call.start + k \in Addrs /\ (call.start + k) - call.start = k
    <3>1. \A k \in Words(call) : (call.start + k) - call.start = k
          BY <2>6 DEF Words
    <3> QED BY <3>1 DEF IsCall
  <2>11. \A k \in Words(call) : st[call.want][call.start + k] = Data(k)
        BY <2>2, <2>4, <2>10
  <2>12. \A m \in Stores, a \in Addrs : st[m][a] # h.store[m][a] =>
              m = call.want /\ a - call.start \in Words(call) /\ st[m][a] = Data(a - call.start)
        BY <2>2, <2>4
  <2> QED BY <1>2, <2>5, <2>9, <2>11, <2>12 DEF g
<1> QED BY <1>1, <1>2

\* legacy_dbg_go: the block is moved.
LEMMA LegacyGoStep == ASSUME AllHandled, ApiInv, legacy_dbg_go PROVE ApiInv' /\ Asked
<1> DEFINE p == [cmd |-> "go"]
           h1 == tap_set_shift_dr(hw)
           h2 == LegacyObey(h1, p)
           g == tap_exit_to_idle(legacy_read_stream(h2))
<1>1. pc = "lgo" /\ setup' = setup /\ call' = call /\ pc \in LegacyLabels
      BY DEF legacy_dbg_go, LegacyLabels
<1>0. CASE LegacyLost
  <2>1. ~ Listening(h1)
        BY <1>0, LostUnheard DEF LegacyLost
  <2>2. NoFault /\ Become([Now EXCEPT !.hw = legacy_read_stream(h1)]) /\ Return("crc")
        BY <2>1 DEF legacy_dbg_go, LegacyScan
  <2> QED BY <1>0, <1>1, <2>2, LegacyLostStep DEF Asked
<1> SUFFICES ASSUME ~ LegacyLost PROVE ApiInv' /\ Asked
      BY <1>0
<1>2. /\ UnitInv /\ InCall /\ IsCall(call) /\ IsLocals /\ Fits("lgo") /\ Quiet(hw) /\ setup.adv = FALSE
      /\ hw.module = call.want /\ IsStore(hw.store) /\ LegacyInv("lgo") /\ setup \in Setups
      BY <1>1, LegacyFacts
<1>c. call.op \in {"read", "write"} /\ call.want \in Stores
      BY <1>2 DEF Fits, IsCall
<1>3. Hearing(h1) /\ SameUnit(h1, hw) /\ Listening(h1)
      BY <1>2, LegacyListens
<1>4. legacy_write_stream(h1, p) = h2
      BY <1>3 DEF legacy_write_stream
<1>5. \/ /\ NoFault /\ hw' = g /\ sel' = [sel EXCEPT !.soft_retry_no = 0] /\ pc' = "done"
         /\ v' = [v EXCEPT !.err = "ok",
                    !.buf = [k \in DOMAIN @ |-> IF call.op = "read" /\ call.start + k \in Addrs
                               THEN g.store[g.module][call.start + k] ELSE Bad]]
      \/ /\ Fault("go")
         /\ \E h \in {h1, h2} : Become([Now EXCEPT !.hw = legacy_read_stream(h)]) /\ Return("crc")
  <2> HIDE DEF h2
  <2> QED BY <1>3, <1>4 DEF legacy_dbg_go, LegacyScan
<1> HIDE DEF h1
<1>6. h1.module = call.want /\ h1.error = hw.error /\ h1.store = hw.store
      BY <1>2, <1>3 DEF SameUnit
<1>7. h1.lcmd.op = call.op /\ h1.lcmd.addr = call.start /\ h1.lcmd.len = call.count
      BY <1>2, <1>3 DEF SameUnit, LegacyInv
<1>8. /\ Hearing(h2) /\ h2.module = h1.module /\ h2.error = h1.error /\ IsStore(h2.store)
      /\ call.op = "read" => h2.store = h1.store
      /\ \A m \in Stores, a \in Addrs : h2.store[m][a] # h1.store[m][a] =>
           /\ call.op = "write" /\ m = call.want /\ a - call.start \in Words(call)
           /\ h2.store[m][a] = Data(a - call.start)
      /\ call.op = "write" => \A k \in Words(call) : h2.store[call.want][call.start + k] = Data(k)
      BY <1>2, <1>3, <1>c, <1>6, <1>7, GoMoves
<1> HIDE DEF h2
<1>f. CASE /\ Fault("go")
           /\ \E h \in {h1, h2} : Become([Now EXCEPT !.hw = legacy_read_stream(h)]) /\ Return("crc")
  <2>1. PICK h \in {h1, h2} : Become([Now EXCEPT !.hw = legacy_read_stream(h)]) /\ Return("crc")
        BY <1>f
  <2>2. /\ Hearing(h) /\ h.module \in Modules /\ h.error \in Addrs \cup {None} /\ IsStore(h.store)
        BY <1>2, <1>3, <1>6, <1>8 DEF UnitInv, IsCall
  <2> DEFINE r == legacy_read_stream(h)
  <2>3. Sound(r) /\ r.store = h.store
        BY <2>2, LegacyAnswers DEF SameUnit
  <2>4. Become([Now EXCEPT !.hw = r]) /\ Return("crc")
        BY <2>1
  <2> HIDE DEF r
  <2>5. hw' = r /\ sel' = sel
        BY <1>2, <2>4, NowIs DEF Become, IsPair
  <2>6. faults' \in Nat /\ faults' <= MaxFaults /\ v.faults < faults'
        BY <1>2, <1>f, Counted DEF InCall, IsLocals, UnitInv
  <2>7. ApiInv'
        BY <1>1, <1>2, <2>2, <2>3, <2>4, <2>5, <2>6, GoneStep DEF Sound, UnitInv, IsLocals
  <2>8. Asked
        BY <1>6, <1>8, <2>3, <2>5 DEF Asked
  <2> QED BY <2>7, <2>8
<1> SUFFICES ASSUME /\ NoFault /\ hw' = g /\ sel' = [sel EXCEPT !.soft_retry_no = 0] /\ pc' = "done"
                    /\ v' = [v EXCEPT !.err = "ok",
                               !.buf = [k \in DOMAIN @ |-> IF call.op = "read" /\ call.start + k \in Addrs
                                          THEN g.store[g.module][call.start + k] ELSE Bad]]
             PROVE  ApiInv' /\ Asked
      BY <1>5, <1>f
<1>s. /\ NoFault /\ hw' = g /\ sel' = [sel EXCEPT !.soft_retry_no = 0] /\ pc' = "done"
      /\ v' = [v EXCEPT !.err = "ok",
                 !.buf = [k \in DOMAIN @ |-> IF call.op = "read" /\ call.start + k \in Addrs
                            THEN hw'.store[hw'.module][call.start + k] ELSE Bad]]
  <2> HIDE DEF g
  <2> QED OBVIOUS
<1>9. pc' \in Labels
      BY <1>s DEF Labels
<1>10. /\ UnitInv' /\ SameUnit(hw', h2) /\ Quiet(hw') /\ hw'.error = None /\ Known(hw', sel')
       /\ faults' = faults /\ faults \in Nat
      BY <1>1, <1>2, <1>s, <1>6, <1>8, <1>9, LegacyAccepted
<1>11. hw'.store = h2.store /\ hw'.module = call.want
      BY <1>6, <1>8, <1>10 DEF SameUnit
<1>12. /\ DOMAIN v' = LocalFields /\ v'.i = v.i /\ v'.j = v.j /\ v'.good = v.good /\ v'.buserrs = v.buserrs
       /\ v'.faults = v.faults /\ v'.err = "ok"
       /\ v'.buf = [k \in DOMAIN v.buf |-> IF call.op = "read" /\ call.start + k \in Addrs
                      THEN hw'.store[hw'.module][call.start + k] ELSE Bad]
      BY <1>2, <1>s DEF IsLocals, LocalFields
<1>13. /\ DOMAIN v'.buf = Words(call)
       /\ call.op = "read" => \A k \in Words(call) : v'.buf[k] = hw'.store[call.want][call.start + k]
      BY <1>2, <1>11, <1>12 DEF IsLocals, IsCall
<1>14. InCall'
  <2>1. IsCall(call)' /\ Words(call)' = Words(call)
        BY <1>1, <1>2 DEF IsCall, Words
  <2>2. IsLocals'
        BY <1>2, <1>12, <1>13, <2>1 DEF IsLocals
  <2> QED BY <1>2, <1>10, <1>12, <2>1, <2>2 DEF InCall
<1>15. Done(call.count)'
      BY <1>1, <1>8, <1>11, <1>13 DEF Done, Words
<1>16. AtDone'
      BY <1>1, <1>c, <1>10, <1>12, <1>14, <1>15 DEF AtDone, Between
<1>17. ApiInv'
      BY <1>s, <1>10, <1>16 DEF ApiInv, LegacyLabels
<1>18. Asked
      BY <1>6, <1>8, <1>11 DEF Asked
<1> QED BY <1>17, <1>18


-----------------------------------------------------------------------------
\* Every step of the bridge keeps the invariant, and writes only the words the
\* call in progress is about.
LEMMA NextKeeps == ASSUME AllHandled, ApiInv, [Next]_vars PROVE Asked /\ (~ harmed' => ApiInv')
<1>0. hw'.store = hw.store => Asked
      BY DEF Asked
<1>1. CASE Begin
      BY <1>0, <1>1, BeginStep
<1>2. CASE End
  <2>1. hw' = hw
        BY <1>2 DEF End
  <2> QED BY <1>0, <1>2, <2>1, EndStep
<1>3. CASE Select
      BY <1>0, <1>3, SelectStep
<1>4. CASE Command
      BY <1>0, <1>4, CommandStep
<1>5. CASE ReadStatus
      BY <1>0, <1>5, ReadStatusStep
<1>6. CASE ReadWord
      BY <1>0, <1>6, ReadWordStep
<1>7. CASE ReadCrc \/ WriteCrc
      BY <1>0, <1>7, CrcStep
<1>8. CASE ReadError
      BY <1>0, <1>8, ReadErrorStep
<1>9. CASE WriteWord
      BY <1>9, WriteWordStep
<1>10. CASE WriteError
      BY <1>10, WriteErrorStep
<1>11. CASE ErrorRegister
      BY <1>0, <1>11, ErrorRegisterStep
<1>12. CASE Control
      BY <1>0, <1>12, ControlStep
<1>13. CASE Serial
      BY <1>0, <1>13, SerialStep
<1>14. CASE legacy_dbg_set_chain
      BY <1>0, <1>14, SetChainStep
<1>15. CASE legacy_dbg_command
      BY <1>0, <1>15, LegacyCommandStep
<1>16. CASE legacy_dbg_ctrl
      BY <1>0, <1>16, LegacyCtrlStep
<1>17. CASE legacy_dbg_ctrl_read
      BY <1>0, <1>17, LegacyCtrlReadStep
<1>18. CASE legacy_dbg_go
      BY <1>18, LegacyGoStep
<1>19. CASE CrcLost
      BY <1>0, <1>19, CrcLostStep
<1>20. CASE CommandLost
      BY <1>0, <1>20, CommandLostStep
<1>21. CASE ErrorRegisterLost
      BY <1>0, <1>21, ErrorRegisterLostStep
<1>22. CASE UNCHANGED vars
  <2> USE <1>22 DEF vars
  <2>1. UnitInv' /\ Between' = Between /\ InCall' = InCall /\ Counts' = Counts /\ Transfer' = Transfer
        BY DEF ApiInv, UnitInv, Between, InCall, IsCall, IsLocals, Words, Counts, Latched, Transfer
  <2>2. AtDone' = AtDone /\ AtSelect' = AtSelect /\ AtCommand' = AtCommand
        BY DEF AtDone, AtSelect, AtCommand, Between, InCall, IsCall, IsLocals, Words, Counts, Latched, Transfer, Done
  <2>3. AtBurst' = AtBurst /\ AtErrReg' = AtErrReg /\ AtRegister' = AtRegister
        BY DEF AtBurst, AtErrReg, AtRegister, Between, InCall, IsCall, IsLocals, Words, Counts, Latched,
               Transfer, Prefix, Done
  <2>4. LegacyInv(v.next)' = LegacyInv(v.next) /\ LegacyInv(pc)' = LegacyInv(pc)
        BY DEF LegacyInv, Between, InCall, IsCall, IsLocals, Words
  <2>5. Gone' = Gone /\ AtLost' = AtLost /\ LegacyLost' = LegacyLost
        BY DEF Gone, Unclean, AtLost, LegacyLost
  <2>6. ApiInv'
        BY <2>1, <2>2, <2>3, <2>4, <2>5 DEF ApiInv
  <2> QED BY <1>0, <2>6
<1> QED BY <1>1, <1>2, <1>3, <1>4, <1>5, <1>6, <1>7, <1>8, <1>9, <1>10, <1>11, <1>12, <1>13, <1>14, <1>15,
           <1>16, <1>17, <1>18, <1>19, <1>20, <1>21, <1>22 DEF Next, AdvNext, LegacyNext

\* A call's unclean error is never forgotten.
LEMMA HarmStays == ASSUME [Next]_vars PROVE harmed => harmed'
<1>1. CASE Begin \/ End \/ UNCHANGED vars
      BY <1>1 DEF Begin, End, vars
<1>2. CASE AdvNext
  <2>1. Select => harmed' = harmed
        BY DEF Select
  <2>2. Command => harmed' = harmed
        BY DEF Command
  <2>3. ReadStatus => harmed' = harmed
        BY DEF ReadStatus
  <2>4. ReadWord => harmed' = harmed
        BY DEF ReadWord
  <2>5. ReadCrc => harmed' = harmed
        BY DEF ReadCrc
  <2>6. ReadError => harmed' = harmed
        BY DEF ReadError
  <2>7. WriteWord => harmed' = harmed
        BY DEF WriteWord
  <2>8. WriteCrc => harmed' = harmed
        BY DEF WriteCrc
  <2>9. WriteError => harmed' = harmed
        BY DEF WriteError
  <2>10. ErrorRegister => harmed' = harmed
        BY DEF ErrorRegister
  <2>11. Control => harmed' = harmed
        BY DEF Control
  <2>12. Serial => harmed' = harmed
        BY DEF Serial
  <2>13. CrcLost => harmed' = harmed
        BY DEF CrcLost
  <2>14. CommandLost => harmed' = harmed
        BY DEF CommandLost
  <2>15. ErrorRegisterLost => harmed' = harmed
        BY DEF ErrorRegisterLost
  <2> QED BY <1>2, <2>1, <2>2, <2>3, <2>4, <2>5, <2>6, <2>7, <2>8, <2>9, <2>10, <2>11, <2>12, <2>13, <2>14, <2>15, ZenonT(30) DEF AdvNext
<1>3. CASE LegacyNext
      BY <1>3 DEF LegacyNext, legacy_dbg_set_chain, legacy_dbg_command, legacy_dbg_ctrl,
                  legacy_dbg_ctrl_read, legacy_dbg_go, LegacySend
<1> QED BY <1>1, <1>2, <1>3 DEF Next

\* What holds at each point of the code until a call has returned an error
\* after which the unit is not at rest.
Calm == ~ harmed => ApiInv

\* The invariant says what the properties say.
LEMMA InvImplies ==
  ASSUME AllHandled, Calm
  PROVE  (~ harmed => TypeOK) /\ SuccessIsExact /\ CleanCallSucceeds /\ RestsClean
<1>h. harmed => (~ harmed => TypeOK) /\ SuccessIsExact /\ CleanCallSucceeds /\ RestsClean
      BY DEF SuccessIsExact, CleanCallSucceeds, RestsClean
<1> SUFFICES ASSUME ApiInv PROVE TypeOK /\ SuccessIsExact /\ CleanCallSucceeds /\ RestsClean
      BY <1>h DEF Calm
<1>u. UnitInv
      BY DEF ApiInv
<1>1. TypeOK
  <2>1. faults \in 0 .. MaxFaults /\ sel.soft_retry_no \in 0 .. setup.retries
    <3>1. MaxFaults \in Nat /\ setup.retries \in Nat
          BY <1>u, SetupIs DEF UnitInv
    <3> QED BY <1>u, <3>1 DEF UnitInv
  <2> QED BY <1>u, <2>1 DEF UnitInv, TypeOK, IsStore, Word
<1>2. SuccessIsExact
  <2> SUFFICES ASSUME pc = "done", v.err = "ok"
               PROVE  CASE call.op = "read" ->
                             \A k \in Words(call) : v.buf[k] = hw.store[call.want][call.start + k]
                        [] call.op = "write" ->
                             \A k \in Words(call) : hw.store[call.want][call.start + k] = Data(k)
                        [] call.op = "ctrlwrite" -> hw.ctl[call.want] = call.ctl
                        [] call.op = "ctrlread" -> v.ctl = hw.ctl[call.want]
                        [] OTHER -> TRUE
        BY DEF SuccessIsExact
  <2>1. AtDone
        BY DEF ApiInv, Gone, Unclean
  <2> QED BY <2>1 DEF AtDone, Done, Words
<1>3. CleanCallSucceeds
  <2>1. faults \in Nat
        BY <1>u DEF UnitInv
  <2>2. pc = "done" /\ v.err # "ok" => v.faults < faults
        BY DEF ApiInv, AtDone, Gone
  <2>3. pc = "exited" => v.faults < faults
        BY DEF ApiInv
  <2> QED BY <2>1, <2>2, <2>3 DEF CleanCallSucceeds
<1>4. RestsClean
      BY DEF ApiInv, RestsClean, Between, Quiet, Known
<1> QED BY <1>1, <1>2, <1>3, <1>4

\* What is true at each point of the code, of the unit, of the cache and of the
\* call in progress, stays true whatever faults occur, are retried or are
\* returned, until an error is returned that leaves the unit as it was.
THEOREM ApiInductive == ASSUME AllHandled PROVE Spec => []Calm
<1>1. Init => Calm
      BY InitInv DEF Calm
<1>2. Calm /\ [Next]_vars => Calm'
      BY NextKeeps, HarmStays DEF Calm
<1> QED BY <1>1, <1>2, PTL DEF Spec

\* Until then the unit's, the cache's and the target's words stay within their
\* types, and no more retries are made than were compiled in.
THEOREM ApiTypes == ASSUME AllHandled PROVE Spec => [](~ harmed => TypeOK)
<1>1. Calm => (~ harmed => TypeOK)
      BY InvImplies
<1> QED BY <1>1, ApiInductive, PTL

\* A call of dbg_api.c that returns APP_ERR_NONE did what it was asked, unless
\* an earlier one has returned an unclean error.
THEOREM SuccessesAreExact == ASSUME AllHandled PROVE Spec => []SuccessIsExact
<1>1. Calm => SuccessIsExact
      BY InvImplies
<1> QED BY <1>1, ApiInductive, PTL

\* A call during which nothing goes wrong succeeds, whatever went wrong before
\* and was retried, repeated or cleanly returned: with no retries compiled in,
\* with any of the faults, in the advanced and in the legacy unit.
THEOREM CleanCallsSucceed == ASSUME AllHandled PROVE Spec => []CleanCallSucceeds
<1>1. Calm => CleanCallSucceeds
      BY InvImplies
<1> QED BY <1>1, ApiInductive, PTL

\* Between calls the TAP and the unit are at rest and the cache is right; the
\* only returns after which they are not are the unclean errors: a scan the
\* cable failed in, a burst given up, bus errors past MAX_BUS_ERRORS, and a CRC
\* error with a bus error latched or in the legacy unit.
THEOREM UnitRestsClean == ASSUME AllHandled PROVE Spec => []RestsClean
<1>1. Calm => RestsClean
      BY InvImplies
<1> QED BY <1>1, ApiInductive, PTL

\* No retry, whatever it follows, writes a word the call did not mean; nor does
\* the call that is about to return an unclean error.
THEOREM WritesOnlyAsked == ASSUME AllHandled PROVE Spec => OnlyAsked
<1>1. Calm /\ [Next]_vars =>
        [\A m \in Stores, a \in Addrs :
            ~ harmed /\ hw'.store[m][a] # hw.store[m][a] =>
              /\ call.op = "write" /\ call.want = m /\ a - call.start \in Words(call)
              /\ hw'.store[m][a] \in {Data(a - call.start), Bad}]_vars
      BY NextKeeps DEF Asked, Calm
<1> QED BY <1>1, ApiInductive, PTL DEF Spec, OnlyAsked

=============================================================================
