--------------------------- MODULE StallRegProofs ---------------------------
(***************************************************************************)
(* Proofs about the stall register, for any relative speed of the clocks.  *)
(***************************************************************************)
EXTENDS StallReg, TLAPS

\* Why a breakpoint is not lost between its two latches.  While it is owed,
\* stall_reg can only rise, so a 1 in the synchronizer has a 1 behind it; the
\* one exception is an old 1 that reaches stall_reg_cpu just as bp_i rises.
Handover ==
  /\ owed /\ stall_reg_csff => stall_reg
  /\ owed /\ stall_reg_cpu => stall_reg_csff \/ bp_i
  /\ owed /\ ~bp_i => stall_bp \/ stall_reg_cpu

\* What each count of settled clocks guarantees.
Settling ==
  /\ settled > 0 => stall_reg /\ ~bp_i /\ stall_reg_csff
  /\ settled > 1 => stall_reg_cpu
  /\ settled > 2 => ~stall_bp
  /\ settled > 3 => ~stall_bp_csff
  /\ settled > 4 => ~stall_bp_tck

StallInv == TypeOK /\ Handover /\ Settling

\* The invariant holds after reset.
LEMMA StallInit == Init => StallInv
<1> SUFFICES ASSUME Init PROVE StallInv
    OBVIOUS
<1> USE DEF Init
<1>1. settled \in 0..Settle
      BY DEF Settle, CpuSettle
<1>2. TypeOK
      BY <1>1, Zenon DEF TypeOK
<1>3. Handover
      BY Zenon DEF Handover
<1>4. Settling
      BY SMT DEF Settling
<1> QED BY <1>2, <1>3, <1>4 DEF StallInv

\* Every clock edge and every input change preserves it.
LEMMA StallNext == StallInv /\ [Next]_vars => StallInv'
<1> SUFFICES ASSUME StallInv, [Next]_vars PROVE StallInv'
    OBVIOUS
<1> USE DEF StallInv
<1>1. CASE CpuClk
  <2> USE <1>1 DEF CpuClk
  <2>0. settled' \in 0..Settle
        BY DEF TypeOK, Settle, CpuSettle
  <2>1. TypeOK'
        BY <2>0, Zenon DEF TypeOK, NextStallBp
  <2>2. Handover'
        BY DEF TypeOK, Handover, NextStallBp, cpu_stall_o
  <2>3. Settling'
        BY DEF TypeOK, Settling, NextStallBp, Settle, CpuSettle
  <2> QED BY <2>1, <2>2, <2>3
<1>2. ASSUME NEW we \in BOOLEAN, NEW d \in BOOLEAN, NEW r \in BOOLEAN,
             Tck(we, d, r)
      PROVE  StallInv'
  <2> USE <1>2 DEF Tck
  <2>0. settled' \in 0..Settle
        BY DEF TypeOK, Settle, CpuSettle
  <2>1. TypeOK'
        BY <2>0, Zenon DEF TypeOK, NextStallReg
  <2>2. Handover'
        BY DEF TypeOK, Handover, NextStallReg
  <2>3. Settling'
        BY DEF TypeOK, Settling, NextStallReg, Settle, CpuSettle
  <2> QED BY <2>1, <2>2, <2>3
<1>3. CASE UNCHANGED vars
      BY <1>3 DEF vars, stallVars, resetVars, TypeOK, Handover, Settling
<1> QED BY <1>1, <1>2, <1>3 DEF Next, HostWrite, TckIdle

\* The registers and the history counters keep their types.
THEOREM StallRegTypeCorrect == Spec => []TypeOK
<1>1. StallInv => TypeOK
      BY DEF StallInv
<1> QED BY <1>1, StallInit, StallNext, PTL DEF Spec

\* A CPU that a breakpoint stopped is held by bp_i, by the latch stall_bp or by
\* the host's stall bit, without a gap, until the host clears that bit.
THEOREM BreakpointIsHeld == Spec => []BreakpointHeld
<1>1. StallInv => BreakpointHeld
      BY DEF StallInv, TypeOK, Handover, BreakpointHeld, cpu_stall_o
<1> QED BY <1>1, StallInit, StallNext, PTL DEF Spec

\* After CpuSettle clocks of the CPU and two of tck with the stall bit set, the
\* breakpoint input of stall_reg is low: the host's write of 0 takes effect.
THEOREM UnstallIsAccepted == Spec => []UnstallAccepted
<1>1. StallInv => UnstallAccepted
      BY DEF StallInv, TypeOK, Settling, UnstallAccepted, Settle, CpuSettle
<1> QED BY <1>1, StallInit, StallNext, PTL DEF Spec

=============================================================================
