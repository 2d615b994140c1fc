------------------------------ MODULE StallReg ------------------------------
(***************************************************************************)
(* adbg_or1k_status_reg.v: the register through which the debug host and a *)
(* CPU breakpoint both stall the CPU.  It is the "stalled" of RunControl   *)
(* in detail: two clocks that run at any relative speed, and a two-stage   *)
(* synchronizer in each direction between them.                            *)
(*                                                                         *)
(*   tck domain:  stall_reg, cpu_reset, stall_bp_csff, stall_bp_tck        *)
(*   cpu domain:  stall_bp, stall_reg_csff, stall_reg_cpu, the reset pair  *)
(***************************************************************************)
EXTENDS Integers

VARIABLES
  bp_i,             \* breakpoint output of the CPU, a register of its clock
  stall_bp,
  stall_bp_csff, stall_bp_tck,      \* stall_bp synchronized to tck
  stall_reg,
  stall_reg_csff, stall_reg_cpu,    \* stall_reg synchronized to cpu_clk
  cpu_reset, cpu_reset_csff, cpu_rst_o,
  owed,     \* history: a breakpoint the host has not cleared yet
  settled   \* history: clocks both domains had to see stall_reg = 1

stallVars == <<stall_bp, stall_bp_csff, stall_bp_tck, stall_reg,
               stall_reg_csff, stall_reg_cpu>>
resetVars == <<cpu_reset, cpu_reset_csff, cpu_rst_o>>
vars == <<bp_i, stallVars, resetVars, owed, settled>>

\* Clocks until a breakpoint has been handed over: the CPU side sees stall_reg
\* and drops stall_bp (3), then the tck side sees that (2).
CpuSettle == 3
Settle == CpuSettle + 2

cpu_stall_o == bp_i \/ stall_bp \/ stall_reg_cpu

\* rst_i clears every register.
Init ==
  /\ bp_i = FALSE
  /\ stall_bp = FALSE
  /\ stall_bp_csff = FALSE
  /\ stall_bp_tck = FALSE
  /\ stall_reg = FALSE
  /\ stall_reg_csff = FALSE
  /\ stall_reg_cpu = FALSE
  /\ cpu_reset = FALSE
  /\ cpu_reset_csff = FALSE
  /\ cpu_rst_o = FALSE
  /\ owed = FALSE
  /\ settled = 0

\* Mutants of NextStallBp: the clear wins over a new breakpoint; no clear.
StallBpClearFirst == (stall_bp \/ bp_i) /\ ~stall_reg_cpu
StallBpSticky == stall_bp \/ bp_i

\* "if(bp_i) ... else if(stall_reg_cpu)" of the breakpoint latch.
NextStallBp == IF bp_i THEN TRUE ELSE stall_bp /\ ~stall_reg_cpu

\* A rising edge of cpu_clk_i.  The CPU raises bp_i only while it executes; it
\* may hold it for any number of clocks.
CpuClk ==
  /\ stall_bp' = NextStallBp
  /\ stall_reg_csff' = stall_reg
  /\ stall_reg_cpu' = stall_reg_csff
  /\ cpu_reset_csff' = cpu_reset
  /\ cpu_rst_o' = cpu_reset_csff
  /\ bp_i' \in {b \in BOOLEAN : b => (bp_i \/ ~cpu_stall_o)}
  /\ owed' = (owed \/ bp_i')
  /\ settled' = IF bp_i \/ bp_i' \/ ~stall_reg THEN 0
                ELSE IF settled < CpuSettle THEN settled + 1 ELSE settled
  /\ UNCHANGED <<stall_bp_csff, stall_bp_tck, stall_reg, cpu_reset>>

\* Mutant of NextStallReg: breakpoints do not reach the host's stall bit.
StallRegHostOnly(we, d) == IF we THEN d ELSE stall_reg

\* The stall bit after a tck edge; the host writes d when we_i is up.
NextStallReg(we, d) == IF stall_bp_tck THEN TRUE ELSE IF we THEN d ELSE stall_reg

\* A rising edge of tck_i, with or without a host write of {reset, stall}.
Tck(we, d, r) ==
  /\ stall_bp_csff' = stall_bp
  /\ stall_bp_tck' = stall_bp_csff
  /\ stall_reg' = NextStallReg(we, d)
  /\ cpu_reset' = IF we THEN r ELSE cpu_reset
  /\ owed' = (owed /\ (stall_reg => stall_reg'))
  /\ settled' = IF ~stall_reg' THEN 0
                ELSE IF CpuSettle <= settled /\ settled < Settle
                THEN settled + 1 ELSE settled
  /\ UNCHANGED <<bp_i, stall_bp, stall_reg_csff, stall_reg_cpu,
                 cpu_reset_csff, cpu_rst_o>>

HostWrite == \E d, r \in BOOLEAN : Tck(TRUE, d, r)
TckIdle == Tck(FALSE, FALSE, FALSE)

Next == CpuClk \/ TckIdle \/ HostWrite

\* Both clocks keep running: the monitor polls this register over JTAG.
Spec == Init /\ [][Next]_vars /\ WF_vars(CpuClk) /\ WF_vars(TckIdle)

-----------------------------------------------------------------------------
\* Every register is a bit and every counter stays in its range.
TypeOK ==
  /\ bp_i \in BOOLEAN
  /\ stall_bp \in BOOLEAN
  /\ stall_bp_csff \in BOOLEAN
  /\ stall_bp_tck \in BOOLEAN
  /\ stall_reg \in BOOLEAN
  /\ stall_reg_csff \in BOOLEAN
  /\ stall_reg_cpu \in BOOLEAN
  /\ cpu_reset \in BOOLEAN
  /\ cpu_reset_csff \in BOOLEAN
  /\ cpu_rst_o \in BOOLEAN
  /\ owed \in BOOLEAN
  /\ settled \in 0..Settle

\* A CPU stopped by a breakpoint stays stalled, at every clock of either
\* domain, until the host has seen the stall bit and cleared it.
BreakpointHeld == owed => cpu_stall_o

\* Once both domains have settled on the stall bit, a host write of 0 is not
\* overridden by the breakpoint it answers.
UnstallAccepted == settled = Settle => ~stall_bp_tck

\* The host sees every breakpoint as a stall bit that reads 1.
BreakpointVisible == owed ~> stall_reg

=============================================================================
