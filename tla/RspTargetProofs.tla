--------------------------- MODULE RspTargetProofs ---------------------------
(***************************************************************************)
(* Proofs about what the RSP server does to the stopped target, for any    *)
(* program, any register values and any breakpoints.                       *)
(***************************************************************************)
EXTENDS RspTarget, TLAPS

(***************************************************************************)
(* The program in memory.  It needs nothing but its own types: no request  *)
(* and no failure is excluded, that of a breakpoint's own accesses to      *)
(* memory included.                                                        *)
(***************************************************************************)
MemTypes ==
    /\ mem \in [Addrs -> Texts \cup {TRAP}]
    /\ text \in [Addrs -> Texts]
    /\ DOMAIN mp_hash \subseteq Addrs /\ \A a \in DOMAIN mp_hash : mp_hash[a] \in Texts \cup {TRAP}
    /\ lost \subseteq Addrs
    /\ missed \in 0 .. MaxMissed
    /\ missed = 0 => lost = {}

MemInv == MemTypes /\ TextKept

\* A block is written where no breakpoint is inserted.
LEMMA WriteBlockKeeps ==
    ASSUME MemInv, NEW a \in Addrs, NEW n, NEW word \in Texts, WriteBlock(a, n, word),
           UNCHANGED breakpoints, MayWrite(a, n)
    PROVE  MemInv'
<1>1. PICK done \in SUBSET Cells(a, n) :
         /\ mem' = [b \in Addrs |-> IF b \in done THEN word ELSE mem[b]]
         /\ text' = [b \in Addrs |-> IF b \in done THEN word ELSE text[b]]
         /\ lost' = lost \ done
      BY DEF WriteBlock
<1>2. done \cap DOMAIN mp_hash = {} /\ mp_hash' = mp_hash /\ missed' = missed
      BY <1>1 DEF MayWrite, breakpoints
<1>3. MemTypes'
      BY <1>1, <1>2 DEF MemInv, MemTypes
<1>4. TextKept'
      BY <1>1, <1>2 DEF MemInv, MemTypes, TextKept, BreakpointWords
<1> QED BY <1>3, <1>4 DEF MemInv

\* Every step keeps the program behind its breakpoints.
LEMMA MemNext == MemInv /\ [Next]_vars => MemInv'
<1> SUFFICES ASSUME MemInv, [Next]_vars PROVE MemInv'
    OBVIOUS
<1>1. ASSUME UNCHANGED <<mem, text, lost, mp_hash, missed>> PROVE MemInv'
      BY <1>1 DEF MemInv, MemTypes, TextKept, BreakpointWords
<1>2. CASE rsp_write_mem
  <2>1. PICK a \in Addrs, len \in 0 .. 2, supplied \in 0 .. 2, word \in Texts :
           /\ MayWrite(a, len)
           /\ IF len * 2 = supplied * 2 THEN WriteBlock(a, len, word) ELSE UNCHANGED memory
        BY <1>2 DEF rsp_write_mem
  <2>2. UNCHANGED breakpoints
        BY <1>2 DEF rsp_write_mem
  <2> QED BY <1>1, <2>1, <2>2, WriteBlockKeeps DEF memory, breakpoints
<1>3. CASE rsp_write_mem_bin
  <2>1. PICK a \in Addrs, len \in 0 .. 2, newlen \in 0 .. 2, word \in Texts :
           /\ MayWrite(a, len)
           /\ WriteBlock(a, IF newlen < len THEN newlen ELSE len, word)
        BY <1>3 DEF rsp_write_mem_bin
  <2>2. UNCHANGED breakpoints
        BY <1>3 DEF rsp_write_mem_bin
  <2> DEFINE n == IF newlen < len THEN newlen ELSE len
  <2>3. Cells(a, n) \subseteq Cells(a, len)
        BY TargetAssumption DEF Cells, Addrs
  <2>4. MayWrite(a, n)
        BY <2>1, <2>3 DEF MayWrite
  <2> HIDE DEF n
  <2> QED BY <2>1, <2>2, <2>4, WriteBlockKeeps DEF n
<1>4. ASSUME NEW a \in Addrs, InsertMemory(a), UNCHANGED text PROVE MemInv'
  <2>1. PICK read \in Works("bp"), written \in Works("bp"), word \in Texts \cup {TRAP} :
           /\ ReadWord(a, read, word) /\ mp_hash_add(a, word) /\ WriteWord(a, written, TRAP)
           /\ lost' = IF read \/ a \in DOMAIN mp_hash THEN lost ELSE lost \cup {a}
           /\ Missed(~read \/ ~written)
        BY <1>4 DEF InsertMemory
  <2>2. /\ read => word = mem[a]
        /\ mp_hash' = [b \in DOMAIN mp_hash \cup {a} |-> IF b \in DOMAIN mp_hash THEN mp_hash[b] ELSE word]
        /\ mem' = [mem EXCEPT ![a] = TRAP] \/ (~written /\ mem' = mem)
        /\ missed' \in 0 .. MaxMissed /\ (~read \/ ~written => missed' > 0) /\ missed' >= missed
        BY <2>1, TargetAssumption DEF ReadWord, mp_hash_add, WriteWord, Missed, MemInv, MemTypes
  <2>3. MemTypes'
        BY <1>4, <2>1, <2>2 DEF MemInv, MemTypes
  <2>4. ASSUME NEW b \in Addrs \ lost'
        PROVE  IF b \in DOMAIN mp_hash' THEN mem'[b] \in BreakpointWords(b)' /\ mp_hash'[b] = text'[b]
               ELSE mem'[b] = text'[b]
    <3>1. b \notin lost /\ (b = a => read \/ a \in DOMAIN mp_hash)
          BY <2>1
    <3>2. IF b \in DOMAIN mp_hash THEN mem[b] \in BreakpointWords(b) /\ mp_hash[b] = text[b]
          ELSE mem[b] = text[b]
          BY <3>1 DEF MemInv, TextKept
    <3>3. CASE b # a
          BY <1>4, <2>2, <3>2, <3>3 DEF MemInv, MemTypes, BreakpointWords
    <3>4. CASE b = a
          BY <1>4, <2>2, <3>1, <3>2, <3>4 DEF MemInv, MemTypes, BreakpointWords
    <3> QED BY <3>3, <3>4
  <2> QED BY <2>3, <2>4 DEF MemInv, TextKept
<1>5. ASSUME NEW a \in Addrs, RemoveMemory(a), UNCHANGED text PROVE MemInv'
  <2>1. CASE UNCHANGED <<mp_hash, mem, lost, missed>>
        BY <1>1, <1>5, <2>1
  <2>2. CASE ~UNCHANGED <<mp_hash, mem, lost, missed>>
    <3>1. PICK written \in Works("bp") :
             /\ a \in DOMAIN mp_hash /\ mp_hash' = [b \in DOMAIN mp_hash \ {a} |-> mp_hash[b]]
             /\ WriteWord(a, written, mp_hash[a])
             /\ lost' = IF written THEN lost ELSE lost \cup {a}
             /\ Missed(~written)
          BY <1>5, <2>2 DEF RemoveMemory
    <3>2. /\ mem' = [mem EXCEPT ![a] = mp_hash[a]] \/ (~written /\ mem' = mem)
          /\ missed' \in 0 .. MaxMissed /\ (~written => missed' > 0) /\ missed' >= missed
          BY <3>1, TargetAssumption DEF WriteWord, Missed, MemInv, MemTypes
    <3>3. MemTypes'
          BY <1>5, <3>1, <3>2 DEF MemInv, MemTypes
    <3>4. ASSUME NEW b \in Addrs \ lost'
          PROVE  IF b \in DOMAIN mp_hash' THEN mem'[b] \in BreakpointWords(b)' /\ mp_hash'[b] = text'[b]
                 ELSE mem'[b] = text'[b]
      <4>1. b \notin lost /\ (b = a => written)
            BY <3>1
      <4>2. IF b \in DOMAIN mp_hash THEN mem[b] \in BreakpointWords(b) /\ mp_hash[b] = text[b]
            ELSE mem[b] = text[b]
            BY <4>1 DEF MemInv, TextKept
      <4>3. CASE b # a
            BY <1>5, <3>1, <3>2, <4>2, <4>3 DEF MemInv, MemTypes, BreakpointWords
      <4>4. CASE b = a
            BY <1>5, <3>1, <3>2, <4>1, <4>2, <4>4 DEF MemInv, MemTypes, BreakpointWords
      <4> QED BY <4>3, <4>4
    <3> QED BY <3>3, <3>4 DEF MemInv, TextKept
  <2> QED BY <2>1, <2>2
<1>6. CASE rsp_insert_matchpoint \/ rsp_remove_matchpoint
      BY <1>1, <1>4, <1>5, <1>6, Zenon DEF rsp_insert_matchpoint, rsp_remove_matchpoint
<1>7. CASE ~(rsp_insert_matchpoint \/ rsp_remove_matchpoint \/ rsp_write_mem \/ rsp_write_mem_bin)
  <2> USE DEF memory, breakpoints
  <2>1. CASE rsp_read_reg \/ rsp_read_all_regs \/ rsp_read_mem \/ rsp_query \/ GdbTakes \/ UNCHANGED vars
        BY <1>1, <2>1, Zenon DEF rsp_read_reg, rsp_read_all_regs, rsp_read_mem, rsp_query, GdbTakes, vars
  <2>2. CASE WriteRegs \/ rsp_command \/ rsp_continue \/ rsp_step \/ rsp_restart
        BY <1>1, <2>2, Zenon DEF WriteRegs, rsp_command, rsp_continue, rsp_step, rsp_restart
  <2>3. CASE StopNotice \/ CpuTrap \/ CpuExecute \/ Interrupt
        BY <1>1, <2>3, Zenon DEF StopNotice, CpuTrap, CpuExecute, Interrupt
  <2> QED BY <1>7, <2>1, <2>2, <2>3, Zenon DEF Next, rsp_client_request
<1> QED BY <1>2, <1>3, <1>6, <1>7

\* A failure that nobody was told of is not taken back.
LEMMA MissedGrows ==
    ASSUME MemInv, [Next]_vars, missed' = 0
    PROVE  missed = 0
<1>1. CASE UNCHANGED missed
      BY <1>1
<1>2. ASSUME NEW failed, Missed(failed) PROVE missed = 0
      BY <1>2, TargetAssumption DEF Missed, MemInv, MemTypes
<1>3. CASE rsp_insert_matchpoint
      BY <1>1, <1>2, <1>3, Zenon DEF rsp_insert_matchpoint, InsertMemory
<1>4. CASE rsp_remove_matchpoint
      BY <1>1, <1>2, <1>4, Zenon DEF rsp_remove_matchpoint, RemoveMemory
<1>5. CASE ~(rsp_insert_matchpoint \/ rsp_remove_matchpoint)
  <2> USE DEF breakpoints
  <2>1. CASE rsp_read_reg \/ rsp_read_all_regs \/ rsp_read_mem \/ rsp_query \/ GdbTakes \/ UNCHANGED vars
        BY <1>1, <2>1, Zenon DEF rsp_read_reg, rsp_read_all_regs, rsp_read_mem, rsp_query, GdbTakes, vars
  <2>2. CASE WriteRegs \/ rsp_command \/ rsp_continue \/ rsp_step \/ rsp_restart
        BY <1>1, <2>2, Zenon DEF WriteRegs, rsp_command, rsp_continue, rsp_step, rsp_restart
  <2>3. CASE StopNotice \/ CpuTrap \/ CpuExecute \/ Interrupt \/ rsp_write_mem \/ rsp_write_mem_bin
        BY <1>1, <2>3, Zenon DEF StopNotice, CpuTrap, CpuExecute, Interrupt, rsp_write_mem, rsp_write_mem_bin
  <2> QED BY <1>5, <2>1, <2>2, <2>3, Zenon DEF Next, rsp_client_request
<1> QED BY <1>3, <1>4, <1>5

\* The program is as GDB wrote it when the server starts.
LEMMA MemInit == Init => MemInv
<1> SUFFICES ASSUME Init PROVE MemTypes /\ TextKept
    BY DEF MemInv
<1>1. mem = [a \in Addrs |-> "old"] /\ text = mem /\ DOMAIN mp_hash = {} /\ lost = {} /\ missed = 0
      BY DEF Init
<1>2. MemTypes
      BY <1>1, TargetAssumption DEF MemTypes, Texts
<1> QED BY <1>1, <1>2 DEF TextKept

\* Whatever GDB sends, the program behind the breakpoints is as GDB wrote it,
\* except where a breakpoint's own read or restoring write failed since GDB
\* last wrote there (rsp_insert_matchpoint, rsp_remove_matchpoint, rsp_write_mem).
THEOREM TextIsKept == Spec => []TextKept
<1>1. MemInv => TextKept
      BY DEF MemInv
<1> QED BY <1>1, MemInit, MemNext, PTL DEF Spec

-----------------------------------------------------------------------------
(***************************************************************************)
(* Types.  The NPC is cached from the PPC when the target stops; that this *)
(* is an address needs the PPC to be one whenever the CPU has run.  The    *)
(* packet 'G' is left out: what hex2reg makes of a packet is a fold.       *)
(***************************************************************************)
CpuType == [pc : {"stopped", "running", "halted"}, npc : Addrs, unread : BOOLEAN,
            reg : [Regs -> RegValues], drr : DOMAIN Signal, wbs : BOOLEAN, step : BOOLEAN,
            moved : BOOLEAN]
RspType == [cached_npc : Addrs \cup {NotCached},
            sigval : {"none"} \cup {Signal[d] : d \in DOMAIN Signal}]
ViewType == [reg : [Regs -> RegValues], npc : Addrs]

TargetTypes ==
    /\ cpu \in CpuType
    /\ rsp \in RspType
    /\ view \in ViewType
    /\ cpu.pc = "running" /\ cpu.moved => cpu.reg["ppc"] \in Addrs
    /\ cpu.pc = "halted" => cpu.reg["ppc"] \in Addrs

\* What the constants are.
LEMMA ConstantFacts ==
    /\ 0 \in Addrs /\ Addrs \subseteq RegValues /\ Words \subseteq RegValues
    /\ \A a \in Addrs : After(a) \in Addrs
    /\ HwAddrs \subseteq Addrs /\ NotCached \notin Addrs
    /\ "gpr" \in Regs /\ "ppc" \in Regs
BY TargetAssumption DEF Addrs, After, NotCached, Regs

\* The causes of a stop that the CPU of the model has.
LEMMA SignalFacts ==
    /\ "none" \in DOMAIN Signal /\ Signal["none"] = "TRAP"
    /\ "TE" \in DOMAIN Signal /\ Signal["TE"] = "TRAP"
    /\ "IIE" \in DOMAIN Signal /\ Signal["IIE"] = "ILL"
BY DEF Signal

\* Every step keeps the types.
LEMMA TargetTypesNext ==
    ASSUME "G" \notin Requests
    PROVE  MemTypes /\ TargetTypes /\ [Next]_vars => TargetTypes'
<1> SUFFICES ASSUME MemTypes, TargetTypes, [Next]_vars PROVE TargetTypes'
    OBVIOUS
<1> USE ConstantFacts DEF TargetTypes, CpuType, RspType, ViewType
<1>1. CASE UNCHANGED <<cpu, rsp, view>>
      BY <1>1
<1>2. CASE rsp_write_reg
  <2>1. ASSUME NEW r \in Regs, NEW val \in Words, WriteReg(r, val), UNCHANGED rsp, cpu.pc = "stopped"
        PROVE  TargetTypes'
    <3>1. PICK v \in {val, cpu.reg[r]} :
             cpu' = [cpu EXCEPT !.reg[r] = v] /\ view' = [view EXCEPT !.reg[r] = v]
          BY <2>1 DEF WriteReg
    <3>2. v \in RegValues
          BY <2>1, <3>1
    <3> QED BY <2>1, <3>1, <3>2
  <2>2. ASSUME NEW addr \in Addrs, NEW ok, set_npc(cpu, addr, ok), cpu.pc = "stopped",
               view' = [view EXCEPT !.npc = cpu'.npc]
        PROVE  TargetTypes'
    <3>1. cpu' \in CpuType /\ cpu'.pc = "stopped"
          BY <2>2 DEF set_npc
    <3>2. rsp' \in RspType /\ view' \in ViewType
          BY <2>2, <3>1 DEF set_npc
    <3> QED BY <3>1, <3>2
  <2> QED BY <1>1, <1>2, <2>1, <2>2 DEF rsp_write_reg, Asked
<1>3. CASE rsp_command
  <2>1. CASE UNCHANGED <<cpu, view>>
        BY <1>1, <1>3, <2>1 DEF rsp_command
  <2>2. ASSUME NEW r \in Regs, NEW val \in Words, NEW ok, cpu.pc = "stopped", UNCHANGED rsp,
               cpu' = IF ok THEN [cpu EXCEPT !.reg[r] = val] ELSE cpu,
               view' = [view EXCEPT !.reg[r] = val]
        PROVE  TargetTypes'
        BY <2>2
  <2>3. ASSUME NEW a \in Addrs, cpu.pc = "stopped", UNCHANGED rsp,
               cpu' = [cpu EXCEPT !.npc = a, !.unread = TRUE],
               view' = [view EXCEPT !.npc = a]
        PROVE  TargetTypes'
        BY <2>3
  <2> QED BY <1>3, <2>1, <2>2, <2>3 DEF rsp_command, Asked
<1>4. CASE rsp_insert_matchpoint \/ rsp_remove_matchpoint
      BY <1>1, <1>4 DEF rsp_insert_matchpoint, rsp_remove_matchpoint
<1>5. CASE rsp_continue \/ rsp_step
  <2>1. rsp' = Uncached /\ rsp' \in RspType
        BY <1>5 DEF rsp_continue, rsp_step, Uncached
  <2>2. view' \in ViewType
        BY <1>5 DEF rsp_continue, rsp_step
  <2>3. ASSUME NEW c \in CpuType, NEW st \in BOOLEAN
        PROVE  LET d == Resume(c, st) IN d \in CpuType /\ d.pc = "running" /\ d.moved = FALSE
        BY SignalFacts DEF Resume
  <2>4. PICK c \in CpuType, st \in BOOLEAN : cpu' = Resume(c, st)
    <3>1. ASSUME NEW a \in Addrs, NEW ok
          PROVE  (IF ok THEN [cpu EXCEPT !.npc = a, !.unread = TRUE] ELSE cpu) \in CpuType
          OBVIOUS
    <3> QED BY <1>5, <3>1 DEF rsp_continue, rsp_step
  <2>5. cpu' \in CpuType /\ cpu'.pc = "running" /\ cpu'.moved = FALSE
        BY <2>3, <2>4, Zenon
  <2> HIDE DEF CpuType, RspType, ViewType
  <2> QED BY <2>1, <2>2, <2>5
<1>6. CASE rsp_restart
  <2>1. PICK ok : set_npc(cpu, 0, ok) /\ view' = [view EXCEPT !.npc = 0] /\ cpu.pc = "stopped"
        BY <1>6 DEF rsp_restart, Asked
  <2> QED BY <2>1 DEF set_npc
<1>7. CASE StopNotice
  <2> DEFINE stopped == [cpu EXCEPT !.pc = "stopped"]
             Stop(drr, ppc, written) ==
               IF Signal[drr] = "TRAP" /\ IsBreakpoint(ppc, cpu.wbs)
               THEN /\ cpu' = IF written THEN [stopped EXCEPT !.npc = ppc, !.unread = TRUE] ELSE stopped
                    /\ rsp' = [cached_npc |-> ppc, sigval |-> Signal[drr]]
               ELSE cpu' = stopped /\ rsp' = [rsp EXCEPT !.sigval = Signal[drr]]
  <2>1. cpu.drr \in DOMAIN Signal /\ cpu.reg.ppc \in Addrs
        BY <1>7 DEF StopNotice
  <2>2. PICK drr \in DOMAIN Signal, ppc \in Addrs, written \in Works("npc") : Stop(drr, ppc, written)
    <3> HIDE DEF TargetTypes, CpuType, RspType, ViewType
    <3>1. PICK ok \in Works("stop"), written \in Works("npc") :
            \E drr \in IF ok THEN {cpu.drr} ELSE DOMAIN Signal,
               ppc \in IF ok THEN {cpu.reg.ppc} ELSE Addrs : Stop(drr, ppc, written)
          BY <1>7, Zenon DEF StopNotice
    <3>2. PICK drr \in IF ok THEN {cpu.drr} ELSE DOMAIN Signal,
               ppc \in IF ok THEN {cpu.reg.ppc} ELSE Addrs : Stop(drr, ppc, written)
          BY <3>1
    <3>3. drr \in DOMAIN Signal /\ ppc \in Addrs
          BY <2>1, <3>2
    <3> HIDE DEF Stop
    <3> QED BY <3>2, <3>3
  <2>3. UNCHANGED view
        BY <1>7 DEF StopNotice
  <2>4. /\ stopped \in CpuType /\ stopped.pc = "stopped"
        /\ LET c == [stopped EXCEPT !.npc = ppc, !.unread = TRUE] IN c \in CpuType /\ c.pc = "stopped"
        OBVIOUS
  <2>5. cpu' \in CpuType /\ cpu'.pc = "stopped"
    <3> HIDE DEF stopped, CpuType, RspType
    <3> QED BY <2>2, <2>4
  <2>6. rsp' \in RspType
        BY <2>2
  <2> HIDE DEF CpuType, RspType, ViewType
  <2> QED BY <2>3, <2>5, <2>6
<1>8. CASE CpuTrap \/ CpuExecute
  <2>1. ASSUME NEW d \in {"TE", "none", "IIE"}, NEW pc \in {"running", "halted"}
        PROVE  LET p == Passed(d, pc) IN p \in CpuType /\ p.reg["ppc"] \in Addrs
        BY SignalFacts DEF Passed
  <2>2. ASSUME NEW p \in CpuType, p.reg["ppc"] \in Addrs, NEW b \in BOOLEAN
        PROVE  LET q == [p EXCEPT !.wbs = b] IN q \in CpuType /\ q.reg["ppc"] \in Addrs
        BY <2>2
  <2>3. cpu' \in CpuType /\ cpu'.reg["ppc"] \in Addrs
    <3>1. CASE CpuTrap
      <4> DEFINE p == Passed("TE", "halted")
                 b == cpu.wbs \/ Watched
      <4>1. cpu' = [p EXCEPT !.wbs = b] /\ b \in BOOLEAN
            BY <3>1 DEF CpuTrap, Watched
      <4>2. p \in CpuType /\ p.reg["ppc"] \in Addrs
            BY <2>1, Zenon
      <4> HIDE DEF p, b, CpuType
      <4> QED BY <2>2, <4>1, <4>2, Zenon
    <3>2. CASE CpuExecute
      <4>1. PICK d \in {"TE", "none", "IIE"}, pc \in {"running", "halted"} : cpu' = Passed(d, pc)
            BY <3>2 DEF CpuExecute
      <4> DEFINE p == Passed(d, pc)
      <4>2. p \in CpuType /\ p.reg["ppc"] \in Addrs
            BY <2>1, Zenon
      <4> HIDE DEF p, CpuType
      <4>3. cpu' = p
            BY <4>1 DEF p
      <4> QED BY <4>2, <4>3, Zenon
    <3> QED BY <1>8, <3>1, <3>2
  <2>4. view' \in ViewType
        BY <1>8 DEF CpuTrap, CpuExecute
  <2> QED BY <1>8, <2>3, <2>4 DEF CpuTrap, CpuExecute
<1>9. CASE Interrupt
      BY <1>9 DEF Interrupt
<1>10. CASE rsp_read_reg \/ rsp_read_all_regs \/ rsp_read_mem \/ rsp_write_mem \/ rsp_write_mem_bin
            \/ rsp_query \/ GdbTakes \/ UNCHANGED vars
      BY <1>1, <1>10 DEF rsp_read_reg, rsp_read_all_regs, rsp_read_mem, rsp_write_mem, rsp_write_mem_bin,
                         rsp_query, GdbTakes, vars
<1>11. ~rsp_write_all_regs
      BY DEF rsp_write_all_regs, Asked
<1> QED BY <1>2, <1>3, <1>4, <1>5, <1>6, <1>7, <1>8, <1>9, <1>10, <1>11
        DEF Next, rsp_client_request, WriteRegs

\* They hold when the server starts.
LEMMA TargetTypesInit == Init => TargetTypes
BY ConstantFacts, SignalFacts DEF Init, TargetTypes, CpuType, RspType, ViewType, NotCached

\* The units and the entries mp_hash has for them.
HwpType == [unit : [Units -> HwAddrs \cup {None}], key : [HwAddrs -> Units \cup {None}]]
HwpTypes == hwp \in HwpType

\* They keep their types: a unit is taken where one is free.
LEMMA HwpTypesNext == HwpTypes /\ [Next]_vars => HwpTypes'
<1> SUFFICES ASSUME hwp \in HwpType, [Next]_vars PROVE hwp' \in HwpType
    BY DEF HwpTypes
<1>1. ASSUME NEW a \in HwAddrs, InsertHardware(a) PROVE hwp' \in HwpType
  <2>1. ASSUME NEW u \in Units,
               hwp' = [unit |-> [hwp.unit EXCEPT ![u] = a],
                       key |-> [hwp.key EXCEPT ![a] = IF @ = None THEN u ELSE @]]
        PROVE  hwp' \in HwpType
        BY <2>1 DEF HwpType
  <2> QED BY <1>1, <2>1 DEF InsertHardware
<1>2. ASSUME NEW a \in HwAddrs, RemoveHardware(a) PROVE hwp' \in HwpType
      BY <1>2 DEF RemoveHardware, HwpType
<1>3. CASE rsp_insert_matchpoint \/ rsp_remove_matchpoint
      BY <1>1, <1>2, <1>3 DEF rsp_insert_matchpoint, rsp_remove_matchpoint
<1>4. CASE UNCHANGED hwp
      BY <1>4
<1>5. CASE ~(rsp_insert_matchpoint \/ rsp_remove_matchpoint)
  <2> USE DEF breakpoints
  <2>1. CASE rsp_read_reg \/ rsp_read_all_regs \/ rsp_read_mem \/ rsp_query \/ GdbTakes \/ UNCHANGED vars
        BY <1>4, <2>1, Zenon DEF rsp_read_reg, rsp_read_all_regs, rsp_read_mem, rsp_query, GdbTakes, vars
  <2>2. CASE WriteRegs \/ rsp_command \/ rsp_continue \/ rsp_step \/ rsp_restart
        BY <1>4, <2>2, Zenon DEF WriteRegs, rsp_command, rsp_continue, rsp_step, rsp_restart
  <2>3. CASE StopNotice \/ CpuTrap \/ CpuExecute \/ Interrupt \/ rsp_write_mem \/ rsp_write_mem_bin
        BY <1>4, <2>3, Zenon DEF StopNotice, CpuTrap, CpuExecute, Interrupt, rsp_write_mem, rsp_write_mem_bin
  <2> QED BY <1>5, <2>1, <2>2, <2>3, Zenon DEF Next, rsp_client_request
<1> QED BY <1>3, <1>5

\* Every variable keeps its type, whichever accesses fail; the cached NPC is
\* an address of the program although it may come from the PPC (handle_rsp).
THEOREM TargetTypeCorrect == ASSUME "G" \notin Requests PROVE Spec => []TypeOK
<1>1. MemInv => MemTypes
      BY DEF MemInv
<1>2. MemTypes /\ TargetTypes /\ HwpTypes => TypeOK
      BY DEF MemTypes, TargetTypes, TypeOK, CpuType, RspType, ViewType, HwpTypes, HwpType
<1>3. Init => HwpTypes
      BY DEF Init, HwpTypes, HwpType
<1> QED BY <1>1, <1>2, <1>3, MemInit, MemNext, HwpTypesNext, TargetTypesInit, TargetTypesNext, PTL DEF Spec

-----------------------------------------------------------------------------
(***************************************************************************)
(* Where the program goes on.  GDB's view of the NPC is right, and the CPU *)
(* resumes there, because                                                  *)
(*   - an NPC that was written, which the hardware then does not show, is  *)
(*     cached; a resume drops the cache, and every executed instruction    *)
(*     makes the NPC readable again before the target can stop;            *)
(*   - a stop is taken for a breakpoint exactly when the CPU trapped: an   *)
(*     instruction that was executed was not behind a breakpoint.          *)
(* It needs the accesses that set the NPC and read the cause of a stop to  *)
(* work, none of the requests that bypass set_npc, and holds until a       *)
(* breakpoint's own access to memory fails.                                *)
(***************************************************************************)
Disciplined ==
    /\ Requests \cap {"G", "s addr", "writespr npc"} = {}
    /\ MayFail \cap {"spr", "npc", "stop"} = {}

\* GDB's view of the registers, and replies only from a stopped target.
ViewInv ==
    /\ view.reg = cpu.reg
    /\ cpu.pc # "stopped" => reply = NoReply

\* The program counters in each state of the CPU.
StoppedInv ==
    cpu.pc = "stopped" =>
        /\ cpu.npc = view.npc
        /\ Cached => rsp.cached_npc = view.npc
        /\ ~Cached => ~cpu.unread
RunningInv ==
    cpu.pc = "running" =>
        /\ ~Cached
        /\ cpu.npc = view.npc
        /\ ~cpu.wbs
        /\ cpu.drr = "none"
        /\ cpu.moved => ~cpu.unread /\ cpu.reg["ppc"] \notin DOMAIN mp_hash
HaltedInv ==
    cpu.pc = "halted" =>
        /\ ~Cached
        /\ ~cpu.unread
        /\ cpu.drr = "TE" => cpu.reg["ppc"] = view.npc /\ IsBreakpoint(cpu.reg["ppc"], cpu.wbs)
        /\ cpu.drr # "TE" => cpu.npc = view.npc /\ ~IsBreakpoint(cpu.reg["ppc"], cpu.wbs)
        /\ cpu.drr \in {"TE", "none", "IIE"}

PcInv == ViewInv /\ StoppedInv /\ RunningInv /\ HaltedInv

PcInvUnlessMissed == missed = 0 => PcInv

TargetInv == MemInv /\ TargetTypes /\ PcInvUnlessMissed /\ ReadsTrue

\* Where the request is refused or only reads, nothing moves.
LEMMA PcFrame ==
    ASSUME PcInv, UNCHANGED <<cpu, rsp, view>>, cpu.pc = "stopped"
    PROVE  PcInv'
BY DEF PcInv, ViewInv, StoppedInv, RunningInv, HaltedInv, Cached

\* What the target is like after a request that leaves it stopped.
LEMMA PcStopped ==
    ASSUME cpu'.pc = "stopped", view'.reg = cpu'.reg, cpu'.npc = view'.npc,
           Cached' => rsp'.cached_npc = view'.npc, ~Cached' => ~cpu'.unread
    PROVE  PcInv'
BY DEF PcInv, ViewInv, StoppedInv, RunningInv, HaltedInv

\* Reading, and writing memory.
LEMMA PcReads ==
    ASSUME PcInv,
           rsp_read_reg \/ rsp_read_all_regs \/ rsp_read_mem \/ rsp_write_mem
             \/ rsp_write_mem_bin \/ rsp_query
    PROVE  PcInv'
BY PcFrame DEF rsp_read_reg, rsp_read_all_regs, rsp_read_mem, rsp_write_mem, rsp_write_mem_bin,
               rsp_query, Asked

\* Writing registers, the NPC among them.
LEMMA PcWrites ==
    ASSUME Disciplined, TargetTypes, PcInv, rsp_write_reg \/ rsp_command \/ rsp_restart
    PROVE  PcInv'
<1> USE ConstantFacts DEF TargetTypes, CpuType, RspType, ViewType
<1>1. /\ cpu.pc = "stopped" /\ view.reg = cpu.reg /\ cpu.npc = view.npc
      /\ (Cached => rsp.cached_npc = view.npc) /\ (~Cached => ~cpu.unread)
  <2>1. cpu.pc = "stopped"
        BY DEF rsp_write_reg, rsp_command, rsp_restart, Asked
  <2> QED BY <2>1 DEF PcInv, ViewInv, StoppedInv
<1>2. ASSUME NEW r \in Regs, NEW v \in RegValues, UNCHANGED rsp,
             cpu' = [cpu EXCEPT !.reg[r] = v], view' = [view EXCEPT !.reg[r] = v]
      PROVE  PcInv'
  <2>1. /\ cpu'.pc = "stopped" /\ view'.reg = cpu'.reg /\ cpu'.npc = cpu.npc /\ view'.npc = view.npc
        /\ cpu'.unread = cpu.unread
        BY <1>1, <1>2
  <2>2. Cached' = Cached
        BY <1>2 DEF Cached
  <2> QED BY <1>1, <1>2, <2>1, <2>2, PcStopped
<1>3. ASSUME NEW addr \in Addrs, NEW c, c = [cpu EXCEPT !.npc = addr, !.unread = TRUE], cpu' = c,
             rsp' = [rsp EXCEPT !.cached_npc = addr], view' = [view EXCEPT !.npc = addr]
      PROVE  PcInv'
  <2>1. /\ cpu'.pc = "stopped" /\ view'.reg = cpu'.reg /\ cpu'.npc = view'.npc
        /\ rsp'.cached_npc = view'.npc /\ rsp'.cached_npc # NotCached
        BY <1>1, <1>3
  <2>2. Cached'
        BY <2>1 DEF Cached
  <2> QED BY <2>1, <2>2, PcStopped
<1>4. Works("npc") = {TRUE} /\ Works("spr") = {TRUE}
      BY DEF Works, Disciplined
<1>5. CASE rsp_write_reg
  <2>1. CASE UNCHANGED <<cpu, rsp, view>>
        BY <1>1, <2>1, PcFrame
  <2>2. ASSUME NEW r \in Regs, NEW val \in Words, WriteReg(r, val), UNCHANGED rsp PROVE PcInv'
    <3>1. PICK v \in {val, cpu.reg[r]} :
             cpu' = [cpu EXCEPT !.reg[r] = v] /\ view' = [view EXCEPT !.reg[r] = v]
          BY <2>2 DEF WriteReg
    <3>2. v \in RegValues
          BY <2>2, <3>1
    <3> QED BY <1>2, <2>2, <3>1, <3>2
  <2>3. ASSUME NEW addr \in Addrs, set_npc(cpu, addr, TRUE), view' = [view EXCEPT !.npc = cpu'.npc]
        PROVE  PcInv'
    <3>1. cpu' = [cpu EXCEPT !.npc = addr, !.unread = TRUE] /\ rsp' = [rsp EXCEPT !.cached_npc = addr]
          BY <2>3 DEF set_npc
    <3>2. cpu'.npc = addr
          BY <3>1
    <3> HIDE DEF TargetTypes
    <3> QED BY <1>3, <2>3, <3>1, <3>2
  <2> HIDE DEF TargetTypes
  <2> QED BY <1>4, <1>5, <2>1, <2>2, <2>3 DEF rsp_write_reg
<1>6. CASE rsp_command
  <2>1. CASE UNCHANGED <<cpu, view>>
        BY <1>1, <1>6, <2>1, PcFrame DEF rsp_command
  <2>2. ASSUME NEW r \in Regs, NEW val \in Words,
               cpu' = [cpu EXCEPT !.reg[r] = val], view' = [view EXCEPT !.reg[r] = val]
        PROVE  PcInv'
        BY <1>2, <1>6, <2>2 DEF rsp_command
  <2>3. ~Asked("writespr npc")
        BY DEF Asked, Disciplined
  <2> HIDE DEF TargetTypes
  <2> QED BY <1>4, <1>6, <2>1, <2>2, <2>3 DEF rsp_command
<1>7. CASE rsp_restart
  <2>1. set_npc(cpu, 0, TRUE) /\ view' = [view EXCEPT !.npc = 0]
        BY <1>4, <1>7 DEF rsp_restart
  <2> HIDE DEF TargetTypes
  <2> QED BY <1>3, <2>1 DEF set_npc
<1> QED BY <1>5, <1>6, <1>7

\* Breakpoints are set and removed while the target is stopped.
LEMMA PcBreakpoints ==
    ASSUME PcInv, rsp_insert_matchpoint \/ rsp_remove_matchpoint
    PROVE  PcInv'
BY PcFrame DEF rsp_insert_matchpoint, rsp_remove_matchpoint, Asked

\* The target is resumed where GDB takes it to be.
LEMMA PcResume ==
    ASSUME Disciplined, TargetTypes, PcInv, rsp_continue \/ rsp_step
    PROVE  PcInv'
<1>1. cpu.pc = "stopped" /\ rsp' = Uncached /\ reply' = NoReply /\ view.reg = cpu.reg /\ cpu.npc = view.npc
  <2>1. cpu.pc = "stopped" /\ rsp' = Uncached /\ reply' = NoReply
        BY DEF rsp_continue, rsp_step, Asked
  <2> QED BY <2>1 DEF PcInv, ViewInv, StoppedInv
<1>2. ~Cached'
      BY <1>1 DEF Uncached, Cached, TargetTypes, RspType
<1>3. ASSUME NEW c \in CpuType, NEW st, cpu' = Resume(c, st), c.reg = view'.reg, c.npc = view'.npc
      PROVE  PcInv'
  <2>1. /\ cpu'.pc = "running" /\ cpu'.reg = c.reg /\ cpu'.npc = c.npc /\ cpu'.wbs = FALSE
        /\ cpu'.drr = "none" /\ cpu'.moved = FALSE
        BY <1>3 DEF Resume, CpuType
  <2> QED BY <1>1, <1>2, <1>3, <2>1 DEF PcInv, ViewInv, StoppedInv, RunningInv, HaltedInv
<1>4. CASE UNCHANGED view
  <2>1. (\E st : cpu' = Resume(cpu, st)) \/ Asked("c addr")
        BY DEF rsp_continue, rsp_step
  <2>2. CASE \E st : cpu' = Resume(cpu, st)
        BY <1>1, <1>3, <1>4, <2>2 DEF TargetTypes
  <2>3. CASE ~\E st : cpu' = Resume(cpu, st)
    <3>1. PICK a \in Addrs, ok \in Works("npc") :
             /\ cpu' = Resume(IF ok THEN [cpu EXCEPT !.npc = a, !.unread = TRUE] ELSE cpu, FALSE)
             /\ view' = [view EXCEPT !.npc = a]
          BY <2>3 DEF rsp_continue, rsp_step
    <3>2. ok = TRUE
          BY DEF Works, Disciplined
    <3> DEFINE c == [cpu EXCEPT !.npc = a, !.unread = TRUE]
    <3>3. c \in CpuType /\ c.reg = cpu.reg /\ c.npc = a
          BY DEF TargetTypes, CpuType
    <3>4. view'.npc = a /\ view'.reg = view.reg
          BY <3>1 DEF TargetTypes, ViewType
    <3>5. cpu' = Resume(c, FALSE)
          BY <3>1, <3>2
    <3> HIDE DEF c
    <3> QED BY <1>1, <1>3, <3>3, <3>4, <3>5
  <2> QED BY <2>2, <2>3
<1>5. CASE ~UNCHANGED view
  <2>1. PICK a \in Addrs, ok \in Works("npc") :
           /\ cpu' = Resume(IF ok THEN [cpu EXCEPT !.npc = a, !.unread = TRUE] ELSE cpu, FALSE)
           /\ view' = [view EXCEPT !.npc = a]
    <3>1. ~Asked("s addr")
          BY DEF Asked, Disciplined
    <3> QED BY <1>5, <3>1 DEF rsp_continue, rsp_step
  <2>2. ok = TRUE
        BY DEF Works, Disciplined
  <2> DEFINE c == [cpu EXCEPT !.npc = a, !.unread = TRUE]
  <2>3. c \in CpuType /\ c.reg = cpu.reg /\ c.npc = a
        BY DEF TargetTypes, CpuType
  <2>4. view'.npc = a /\ view'.reg = view.reg
        BY <2>1 DEF TargetTypes, ViewType
  <2>5. cpu' = Resume(c, FALSE)
        BY <2>1, <2>2
  <2> HIDE DEF c
  <2> QED BY <1>1, <1>3, <2>3, <2>4, <2>5
<1> QED BY <1>4, <1>5

\* A stop is taken for a breakpoint exactly when the CPU trapped.
LEMMA PcStop ==
    ASSUME Disciplined, TargetTypes, PcInv, StopNotice
    PROVE  PcInv'
<1>1. /\ cpu.pc = "halted" /\ ~Cached /\ ~cpu.unread /\ view.reg = cpu.reg
      /\ UNCHANGED view
      /\ cpu.drr = "TE" => cpu.reg["ppc"] = view.npc /\ IsBreakpoint(cpu.reg["ppc"], cpu.wbs)
      /\ cpu.drr # "TE" => cpu.npc = view.npc /\ ~IsBreakpoint(cpu.reg["ppc"], cpu.wbs)
      /\ cpu.reg["ppc"] \in Addrs
      BY DEF StopNotice, PcInv, ViewInv, HaltedInv, TargetTypes
<1>2. Works("npc") = {TRUE} /\ Works("stop") = {TRUE}
      BY DEF Works, Disciplined
<1> DEFINE stopped == [cpu EXCEPT !.pc = "stopped"]
           back == [stopped EXCEPT !.npc = cpu.reg["ppc"], !.unread = TRUE]
           trap == Signal[cpu.drr] = "TRAP" /\ IsBreakpoint(cpu.reg["ppc"], cpu.wbs)
<1>3. /\ trap => cpu' = back /\ rsp' = [cached_npc |-> cpu.reg["ppc"], sigval |-> Signal[cpu.drr]]
      /\ ~trap => cpu' = stopped /\ rsp' = [rsp EXCEPT !.sigval = Signal[cpu.drr]]
      BY <1>2 DEF StopNotice
<1>4. /\ stopped.pc = "stopped" /\ stopped.npc = cpu.npc /\ stopped.reg = cpu.reg
      /\ stopped.unread = cpu.unread
      /\ back.pc = "stopped" /\ back.npc = cpu.reg["ppc"] /\ back.reg = cpu.reg
      BY DEF TargetTypes, CpuType
<1>5. trap <=> cpu.drr = "TE"
      BY <1>1, SignalFacts
<1> HIDE DEF stopped, back, trap
<1>6. CASE cpu.drr = "TE"
  <2>1. Cached' /\ rsp'.cached_npc = view.npc
        BY <1>1, <1>3, <1>5, <1>6, ConstantFacts DEF Cached
  <2> QED BY <1>1, <1>3, <1>4, <1>5, <1>6, <2>1, PcStopped
<1>7. CASE cpu.drr # "TE"
  <2>1. ~Cached'
        BY <1>1, <1>3, <1>5, <1>7 DEF Cached, TargetTypes, RspType
  <2> QED BY <1>1, <1>3, <1>4, <1>5, <1>7, <2>1, PcStopped
<1> QED BY <1>6, <1>7

\* The CPU traps at a breakpoint, or executes an instruction of the program.
LEMMA PcCpu ==
    ASSUME MemInv, TargetTypes, PcInv, missed = 0, CpuTrap \/ CpuExecute
    PROVE  PcInv'
<1>1. /\ cpu.pc = "running" /\ ~Cached /\ cpu.npc = view.npc /\ ~cpu.wbs /\ view.reg = cpu.reg
      /\ cpu.npc \in Addrs /\ reply = NoReply
      /\ UNCHANGED <<rsp, mem, mp_hash, reply>>
      BY DEF memory, breakpoints, CpuTrap, CpuExecute, PcInv, ViewInv, RunningInv, TargetTypes, CpuType
<1>2. mem[cpu.npc] = TRAP <=> cpu.npc \in DOMAIN mp_hash
      BY <1>1 DEF MemInv, MemTypes, TextKept, BreakpointWords, Texts, TRAP
<1>3. ~Cached'
      BY <1>1 DEF Cached
<1>4. CASE CpuTrap
  <2> DEFINE p == Passed("TE", "halted")
  <2>1. cpu' = [p EXCEPT !.wbs = cpu.wbs \/ Watched]
        BY <1>4 DEF CpuTrap
  <2>2. /\ p.pc = "halted" /\ p.drr = "TE" /\ p.unread = FALSE
        /\ p.reg = [cpu.reg EXCEPT !["ppc"] = cpu.npc] /\ p.reg["ppc"] = cpu.npc
        BY ConstantFacts DEF Passed, TargetTypes, CpuType
  <2>3. /\ cpu'.pc = "halted" /\ cpu'.drr = "TE" /\ cpu'.unread = FALSE
        /\ cpu'.reg = [cpu.reg EXCEPT !["ppc"] = cpu.npc] /\ cpu'.reg["ppc"] = cpu.npc
        /\ cpu'.wbs = (cpu.wbs \/ Watched)
        BY <2>1, <2>2 DEF Passed, TargetTypes, CpuType
  <2>4. view'.npc = view.npc /\ view'.reg = [view.reg EXCEPT !["ppc"] = cpu.npc]
        BY <1>4 DEF CpuTrap, TargetTypes, ViewType
  <2>5. cpu.npc \in DOMAIN mp_hash' \/ cpu'.wbs
        BY <1>1, <1>2, <1>4, <2>3 DEF CpuTrap, Trapped
  <2> HIDE DEF p
  <2>6. view'.reg = cpu'.reg
        BY <1>1, <2>3, <2>4
  <2> QED BY <1>1, <1>3, <2>3, <2>4, <2>5, <2>6
          DEF PcInv, ViewInv, StoppedInv, RunningInv, HaltedInv, IsBreakpoint
<1>5. CASE CpuExecute
  <2>1. PICK d \in {"none", "IIE"}, pc \in {"running", "halted"} :
           cpu' = Passed(d, pc) /\ (pc = "running" => d = "none")
        BY <1>5 DEF CpuExecute
  <2>2. /\ cpu'.pc = pc /\ cpu'.drr = d /\ cpu'.npc = After(cpu.npc) /\ cpu'.unread = FALSE
        /\ cpu'.moved = TRUE /\ cpu'.wbs = cpu.wbs /\ cpu'.reg = [cpu.reg EXCEPT !["ppc"] = cpu.npc]
        /\ cpu'.reg["ppc"] = cpu.npc
        BY <2>1, ConstantFacts DEF Passed, TargetTypes, CpuType
  <2>3. view'.npc = After(view.npc) /\ view'.reg = [view.reg EXCEPT !["ppc"] = view.npc]
        BY <1>5 DEF CpuExecute
  <2>4. cpu.npc \notin DOMAIN mp_hash
        BY <1>2, <1>5 DEF CpuExecute, Trapped
  <2> QED BY <1>1, <1>3, <2>1, <2>2, <2>3, <2>4
          DEF PcInv, ViewInv, StoppedInv, RunningInv, HaltedInv, IsBreakpoint
<1> QED BY <1>4, <1>5

\* An interrupt stops a CPU that has executed something.
LEMMA PcInterrupt ==
    ASSUME TargetTypes, PcInv, Interrupt
    PROVE  PcInv'
<1>1. /\ cpu'.pc = "halted" /\ cpu'.reg = cpu.reg /\ cpu'.npc = cpu.npc /\ cpu'.unread = cpu.unread
      /\ cpu'.drr = cpu.drr /\ cpu'.wbs = cpu.wbs
      BY DEF Interrupt, TargetTypes, CpuType
<1>2. cpu.pc = "running" /\ cpu.moved /\ UNCHANGED <<rsp, mp_hash, reply, view>>
      BY DEF Interrupt, breakpoints
<1> QED BY <1>1, <1>2 DEF PcInv, ViewInv, StoppedInv, RunningInv, HaltedInv, IsBreakpoint, Cached

\* Every step keeps the program counters together.
LEMMA PcNext ==
    ASSUME Disciplined
    PROVE  MemInv /\ TargetTypes /\ PcInvUnlessMissed /\ [Next]_vars => PcInvUnlessMissed'
<1> SUFFICES ASSUME MemInv, TargetTypes, PcInvUnlessMissed, [Next]_vars, missed' = 0 PROVE PcInv'
    BY DEF PcInvUnlessMissed
<1>0. missed = 0 /\ PcInv
      BY MissedGrows DEF PcInvUnlessMissed
<1>1. CASE GdbTakes \/ UNCHANGED vars
      BY <1>0, <1>1 DEF GdbTakes, vars, breakpoints, PcInv, ViewInv, StoppedInv, RunningInv, HaltedInv, IsBreakpoint, Cached
<1>2. ~rsp_write_all_regs
      BY DEF rsp_write_all_regs, Asked, Disciplined
<1> QED BY <1>0, <1>1, <1>2, PcReads, PcWrites, PcBreakpoints, PcResume, PcStop, PcCpu, PcInterrupt
        DEF Next, rsp_client_request, WriteRegs

\* A reply that shows nothing of the target.
LEMMA SilentReply ==
    ASSUME reply'.kind \notin {"reg", "all", "npc", "mem"}
    PROVE  ReadsTrue'
BY DEF ReadsTrue

\* What GDB is shown of registers, of the NPC and of memory.
LEMMA ReadsShown ==
    ASSUME Disciplined, MemInv, TargetTypes, PcInvUnlessMissed,
           rsp_read_reg \/ rsp_read_all_regs \/ rsp_read_mem \/ rsp_command
    PROVE  ReadsTrue'
<1>1. missed = 0 => view.reg = cpu.reg /\ Npc = view.npc
  <2>1. cpu.pc = "stopped"
        BY DEF rsp_read_reg, rsp_read_all_regs, rsp_read_mem, rsp_command, Asked
  <2> QED BY <2>1 DEF PcInvUnlessMissed, PcInv, ViewInv, StoppedInv, Npc, NpcRead
<1>0. UNCHANGED <<mp_hash, text, lost, missed>>
      BY DEF rsp_read_reg, rsp_read_all_regs, rsp_read_mem, rsp_command, memory, breakpoints
<1>2. ASSUME reply' = E01 \/ reply' = OK PROVE ReadsTrue'
      BY <1>2, SilentReply DEF E01, OK
<1>3. ASSUME NEW R \in SUBSET Regs, reply' = [kind |-> "reg", of |-> R, reg |-> cpu.reg], UNCHANGED view
      PROVE  ReadsTrue'
      BY <1>0, <1>1, <1>3 DEF ReadsTrue
<1>4. CASE rsp_read_reg
  <2>1. UNCHANGED view
        BY <1>4 DEF rsp_read_reg
  <2>2. ASSUME reply' = [kind |-> "npc", npc |-> Npc] PROVE ReadsTrue'
        BY <1>0, <1>1, <2>1, <2>2 DEF ReadsTrue
  <2> QED BY <1>2, <1>3, <1>4, <2>1, <2>2 DEF rsp_read_reg
<1>5. CASE rsp_read_all_regs
  <2>1. UNCHANGED view
        BY <1>5 DEF rsp_read_all_regs
  <2>2. ASSUME reply' = [kind |-> "all", of |-> Regs, reg |-> cpu.reg, npc |-> Npc] PROVE ReadsTrue'
        BY <1>0, <1>1, <2>1, <2>2 DEF ReadsTrue
  <2> QED BY <1>2, <1>5, <2>2 DEF rsp_read_all_regs
<1>6. CASE rsp_read_mem
  <2>2. ASSUME NEW C \in SUBSET Addrs, reply' = [kind |-> "mem", mem |-> [b \in C |-> mem[b]]]
        PROVE  ReadsTrue'
    <3>1. reply'.kind = "mem" /\ DOMAIN reply'.mem = C /\ \A b \in C : reply'.mem[b] = mem[b]
          BY <2>2
    <3>2. \A b \in C \ lost : mem[b] \in IF b \in DOMAIN mp_hash THEN BreakpointWords(b) ELSE {text[b]}
          BY DEF MemInv, TextKept
    <3> QED BY <1>0, <3>1, <3>2 DEF ReadsTrue, BreakpointWords
  <2>3. \A a, n : Cells(a, n) \in SUBSET Addrs
        BY DEF Cells
  <2> QED BY <1>2, <1>6, <2>2, <2>3 DEF rsp_read_mem
<1>7. CASE rsp_command
  <2>1. Works("spr") = {TRUE}
        BY DEF Works, Disciplined
  <2>2. \A r \in Regs : [cpu.reg EXCEPT ![r] = cpu.reg[r]] = cpu.reg
        BY DEF TargetTypes, CpuType
  <2>3. \/ reply' = E01 \/ reply' = OK
        \/ \E r \in Regs : reply' = [kind |-> "reg", of |-> {r}, reg |-> cpu.reg] /\ UNCHANGED view
        BY <1>7, <2>1, <2>2 DEF rsp_command
  <2> QED BY <1>2, <1>3, <2>3
<1> QED BY <1>4, <1>5, <1>6, <1>7

\* Every step keeps what GDB was shown true until GDB has taken it.
LEMMA ReadsNext ==
    ASSUME Disciplined
    PROVE  MemInv /\ TargetTypes /\ PcInvUnlessMissed /\ ReadsTrue /\ [Next]_vars => ReadsTrue'
<1> SUFFICES ASSUME MemInv, TargetTypes, PcInvUnlessMissed, ReadsTrue, [Next]_vars PROVE ReadsTrue'
    OBVIOUS
<1>1. ASSUME reply' \in {NoReply, OK, E01} \/ reply'.kind = "stop" PROVE ReadsTrue'
      BY <1>1, SilentReply DEF NoReply, OK, E01
<1>2. CASE WriteRegs
      BY <1>1, <1>2 DEF WriteRegs, rsp_write_reg, WriteReg, rsp_write_all_regs
<1>3. CASE rsp_write_mem \/ rsp_write_mem_bin \/ rsp_insert_matchpoint \/ rsp_remove_matchpoint
  <2>1. ASSUME NEW a, NEW n, NEW word, WriteBlock(a, n, word) PROVE reply' \in {OK, E01}
        BY <2>1, Zenon DEF WriteBlock
  <2>2. CASE rsp_write_mem
        BY <1>1, <2>1, <2>2, Zenon DEF rsp_write_mem
  <2>3. CASE rsp_write_mem_bin
        BY <1>1, <2>1, <2>3, Zenon DEF rsp_write_mem_bin
  <2>4. CASE rsp_insert_matchpoint
    <3>1. reply' = OK \/ reply'.kind = "empty"
          BY <2>4 DEF rsp_insert_matchpoint, InsertMemory, InsertHardware
    <3> QED BY <3>1, <1>1, SilentReply
  <2>5. CASE rsp_remove_matchpoint
        BY <1>1, <2>5, Zenon DEF rsp_remove_matchpoint
  <2> QED BY <1>3, <2>2, <2>3, <2>4, <2>5
<1>4. CASE rsp_continue \/ rsp_step \/ rsp_restart \/ rsp_query \/ GdbTakes
  <2>1. CASE rsp_continue \/ rsp_step \/ GdbTakes
        BY <1>1, <2>1, Zenon DEF rsp_continue, rsp_step, GdbTakes
  <2>2. CASE rsp_restart
        BY <1>1, <2>2 DEF rsp_restart
  <2>3. CASE rsp_query
        BY <1>1, <2>3 DEF rsp_query, rsp_report_exception
  <2> QED BY <1>4, <2>1, <2>2, <2>3
<1>5. CASE StopNotice
  <2>1. reply'.kind = "stop"
        BY <1>5 DEF StopNotice
  <2> QED BY <1>1, <2>1
<1>6. CASE CpuTrap \/ CpuExecute \/ Interrupt
  <2>1. UNCHANGED <<reply, mp_hash, text, lost, missed>> /\ cpu.pc = "running"
        BY <1>6 DEF CpuTrap, CpuExecute, Interrupt, memory, breakpoints
  <2>2. CASE missed = 0
        BY <1>1, <2>1, <2>2 DEF PcInvUnlessMissed, PcInv, ViewInv
  <2>3. CASE missed # 0
        BY <2>1, <2>3 DEF ReadsTrue, BreakpointWords
  <2> QED BY <2>2, <2>3
<1>7. CASE UNCHANGED vars
      BY <1>7 DEF vars, ReadsTrue, BreakpointWords
<1> QED BY <1>2, <1>3, <1>4, <1>5, <1>6, <1>7, ReadsShown DEF Next, rsp_client_request

\* When the server starts GDB was shown nothing.
LEMMA TargetInit == Init => TargetInv
<1> SUFFICES ASSUME Init PROVE TargetInv
    OBVIOUS
<1>1. PcInvUnlessMissed
      BY DEF Init, PcInvUnlessMissed, PcInv, ViewInv, StoppedInv, RunningInv, HaltedInv, Cached
<1>2. ReadsTrue
      BY DEF Init, NoReply, ReadsTrue
<1> QED BY <1>1, <1>2, MemInit, TargetTypesInit DEF TargetInv

\* Every step keeps the whole invariant.
LEMMA TargetNext == ASSUME Disciplined PROVE TargetInv /\ [Next]_vars => TargetInv'
<1>1. "G" \notin Requests
      BY DEF Disciplined
<1> QED BY <1>1, MemNext, TargetTypesNext, PcNext, ReadsNext DEF TargetInv, MemInv

\* What GDB reads of registers, NPC and memory is true: the cached NPC stands
\* in for the one the hardware does not show (rsp_read_reg, set_npc); after a
\* breakpoint's access failed unnoticed, what it reads of memory elsewhere is.
THEOREM ReadsAreTrue == ASSUME Disciplined PROVE Spec => []ReadsTrue
<1>1. TargetInv => ReadsTrue
      BY DEF TargetInv
<1> QED BY <1>1, TargetInit, TargetNext, PTL DEF Spec

\* The instruction executed is always the program's next one: breakpoints are
\* gone back to, and nothing else is taken for one (handle_rsp), until a
\* breakpoint's own access to memory fails unnoticed.
THEOREM ExecutesInOrder == ASSUME Disciplined PROVE Spec => InstructionsInOrder
<1> DEFINE InOrder == missed = 0 /\ cpu.pc = "running" /\ view'.npc # view.npc
                        => cpu.npc = view.npc /\ mem[cpu.npc] = text[cpu.npc]
<1>1. TargetInv /\ [Next]_vars => [InOrder]_vars
  <2> SUFFICES ASSUME TargetInv, [Next]_vars, missed = 0, cpu.pc = "running", view'.npc # view.npc
               PROVE  cpu.npc = view.npc /\ mem[cpu.npc] = text[cpu.npc]
      OBVIOUS
  <2>1. CpuExecute
    <3>1. ~rsp_client_request
          BY DEF rsp_client_request, rsp_read_reg, rsp_read_all_regs, WriteRegs, rsp_write_reg,
                 rsp_write_all_regs, rsp_command, rsp_read_mem, rsp_write_mem, rsp_write_mem_bin,
                 rsp_insert_matchpoint, rsp_remove_matchpoint, rsp_continue, rsp_step, rsp_restart,
                 rsp_query, Asked
    <3>2. ~CpuTrap
          BY DEF CpuTrap, TargetInv, TargetTypes, ViewType
    <3> QED BY <3>1, <3>2 DEF Next, GdbTakes, StopNotice, Interrupt, vars
  <2>2. cpu.npc \in Addrs /\ cpu.npc = view.npc
        BY DEF TargetInv, TargetTypes, CpuType, PcInvUnlessMissed, PcInv, RunningInv
  <2>3. mem[cpu.npc] # TRAP
        BY <2>1 DEF CpuExecute, Trapped
  <2> QED BY <2>2, <2>3 DEF TargetInv, MemInv, MemTypes, TextKept, BreakpointWords
<1>2. InstructionsInOrder <=> [][InOrder]_vars
      BY DEF InstructionsInOrder
<1> QED BY <1>1, <1>2, TargetInit, TargetNext, PTL DEF Spec

==============================================================================
