------------------------------- MODULE RspTarget -------------------------------
(***************************************************************************)
(* The requests of rsp-server.c that read and change the stopped target:   *)
(* registers, memory, memory breakpoints, the program counter, and what    *)
(* the server does when the target stops again.  RunControl models when    *)
(* the target runs and stops, Matchpoints how the units are shared; here   *)
(* it is what GDB sees of a program and what becomes of the program.       *)
(*                                                                         *)
(* The program is a loop over Addrs.  The CPU is the OR1200 as the code    *)
(* takes it to be: a trap or a hardware breakpoint stops it with the PPC   *)
(* at the instruction that was not executed and the NPC behind it, and an  *)
(* NPC that was written reads as 0 until an instruction is executed.  A    *)
(* running CPU executes something before a Ctrl-C reaches it by JTAG.      *)
(***************************************************************************)
EXTENDS Integers, Sequences, FiniteSets, SequencesExt

CONSTANTS
    Top,        \* the last address of the program
    HwAddrs,    \* addresses GDB sets hardware breakpoints at
    Words,      \* bound: values GDB writes into registers
    DIGITS,     \* hex digits of a register (8 there)
    BASE,       \* values of a digit (16 there)
    BUF_MAX,    \* GDB_BUF_MAX
    HW_UNITS,   \* watchpoint units of the CPU (8 there)
    Requests,   \* the requests GDB makes, of AllRequests
    MaxMissed,  \* bound: failed accesses to the word of a breakpoint
    MayFail     \* the JTAG accesses that may fail, by what they are for: "reg",
                \* "spr", "npc", "mem", "bp" (the word of a breakpoint), "stop"

Addrs == 0 .. Top
TRAP == "l.trap"
Texts == {"old", "new"}             \* instructions GDB writes
RegValues == 0 .. BASE ^ DIGITS - 1
Units == 0 .. HW_UNITS - 1
AllRequests == {"p", "P", "P npc", "g", "G", "m", "M", "X", "Z0", "z0", "Z1", "z1", "c", "c addr",
                "s", "s addr", "R", "vRun", "readspr", "writespr", "writespr npc", "?", "other"}

ASSUME TargetAssumption ==
    /\ Top \in Nat /\ HwAddrs \subseteq Addrs
    /\ DIGITS \in Nat \ {0} /\ BASE \in Nat \ {0, 1} /\ BUF_MAX \in Nat \ {0} /\ HW_UNITS \in Nat /\ MaxMissed \in Nat
    /\ Addrs \cup Words \subseteq RegValues
    /\ Requests \subseteq AllRequests /\ MayFail \subseteq {"reg", "spr", "npc", "mem", "bp", "stop"}

VARIABLES
    cpu,      \* its registers, and what it is doing
    mem,      \* the program in memory
    rsp,      \* cached_npc (NotCached unless use_cached_npc is set), rsp.sigval
    mp_hash,  \* the instruction each memory breakpoint replaced
    hwp,      \* the address each unit compares, the unit mp_hash has for an address
    reply,    \* the server's last reply
    view,     \* history: the registers as GDB set them or the program left them
    text,     \* history: the program as GDB wrote it
    lost,     \* history: where the word a breakpoint replaced was not read or not put back
    missed    \* history: memory accesses of breakpoints that failed, and nobody was told

vars == <<cpu, mem, rsp, mp_hash, hwp, reply, view, text, lost, missed>>
breakpoints == <<mp_hash, hwp, missed>>
memory == <<mem, text, lost>>

Regs == {"gpr", "ppc"}              \* the SR is handled like a GPR
NotCached == -1
None == -1
NoReply == [kind |-> "none"]
OK == [kind |-> "OK"]
E01 == [kind |-> "E01"]

After(a) == IF a = Top THEN 0 ELSE a + 1

Init ==
    /\ cpu = [pc |-> "stopped", npc |-> 0, unread |-> FALSE, reg |-> [r \in Regs |-> 0],
              drr |-> "none", wbs |-> FALSE, step |-> FALSE, moved |-> FALSE]
    /\ mem = [a \in Addrs |-> "old"] /\ text = mem
    /\ rsp = [cached_npc |-> NotCached, sigval |-> "none"]
    /\ mp_hash = <<>> /\ hwp = [unit |-> [u \in Units |-> None], key |-> [a \in HwAddrs |-> None]]
    /\ lost = {} /\ missed = 0
    /\ reply = NoReply
    /\ view = [reg |-> cpu.reg, npc |-> 0]

(* A request is only looked at while the target is stopped; GDB makes the   *)
(* next one when it has the reply, if there is one.                         *)
Asked(q) == cpu.pc = "stopped" /\ reply = NoReply /\ q \in Requests

(* A transfer that may fail; failed, it changed the target or not.          *)
Works(what) == {TRUE} \cup (IF what \in MayFail THEN {FALSE} ELSE {})
-------------------------------------------------------------------------------
(* What dbg_cpu0_read(SPR_NPC) gives.                                       *)
NpcRead == IF cpu.unread THEN 0 ELSE cpu.npc
Cached == rsp.cached_npc # NotCached
Npc == IF Cached THEN rsp.cached_npc ELSE NpcRead

rsp_read_reg ==
    /\ Asked("p")
    /\ \/ \E r \in Regs, ok \in Works("reg") :
             reply' = IF ok THEN [kind |-> "reg", of |-> {r}, reg |-> cpu.reg] ELSE E01
       \/ \E ok \in IF Cached THEN {TRUE} ELSE Works("npc") :
             reply' = IF ok THEN [kind |-> "npc", npc |-> Npc] ELSE E01
       \/ reply' = E01                             \* malformed, or no such register
    /\ UNCHANGED <<cpu, rsp, view, memory, breakpoints>>

rsp_read_all_regs ==
    /\ Asked("g")
    /\ \E ok \in Works("reg") :
          reply' = IF ok THEN [kind |-> "all", of |-> Regs, reg |-> cpu.reg, npc |-> Npc] ELSE E01
    /\ UNCHANGED <<cpu, rsp, view, memory, breakpoints>>

(* A register write.  After an error GDB has to read what there is now.     *)
WriteReg(r, val) ==
    \E ok \in Works("reg"), v \in {val, cpu.reg[r]} :
        /\ ok => v = val
        /\ cpu' = [cpu EXCEPT !.reg[r] = v]
        /\ view' = [view EXCEPT !.reg[r] = v]
        /\ reply' = IF ok THEN OK ELSE E01

\* Mutant of set_npc: the value is not cached.
SetNpcUncached(c, addr, ok) ==
    /\ cpu' = IF ok THEN [c EXCEPT !.npc = addr, !.unread = TRUE] ELSE c
    /\ UNCHANGED rsp

\* Mutant of set_npc: the NPC is set behind the address.
SetNpcBehind(c, addr, ok) ==
    /\ cpu' = IF ok THEN [c EXCEPT !.npc = addr + 1, !.unread = TRUE] ELSE c
    /\ rsp' = [rsp EXCEPT !.cached_npc = addr]

(* set_npc: the address is cached whether or not it was written.            *)
set_npc(c, addr, ok) ==
    /\ cpu' = IF ok THEN [c EXCEPT !.npc = addr, !.unread = TRUE] ELSE c
    /\ rsp' = [rsp EXCEPT !.cached_npc = addr]

rsp_write_reg ==
    /\ \/ /\ Asked("P") /\ UNCHANGED rsp
          /\ \/ \E r \in Regs, val \in Words : WriteReg(r, val)
             \/ reply' = E01 /\ UNCHANGED <<cpu, view>>
       \/ /\ Asked("P npc")
          /\ \E addr \in Addrs, ok \in Works("npc") :
                /\ set_npc(cpu, addr, ok)
                /\ view' = [view EXCEPT !.npc = cpu'.npc]
                /\ reply' = IF ok THEN OK ELSE E01

(* hex2reg takes DIGITS digits from the given place of the packet; hex() of *)
(* the letter G is -1, which sets every bit of its digit.                   *)
Digits(v) == [k \in 1 .. DIGITS |-> (v \div BASE ^ (DIGITS - k)) % BASE]
hex2reg(data, r) ==
    FoldLeft(LAMBDA v, d : v * BASE + d, 0, SubSeq(data, DIGITS * r + 1, DIGITS * (r + 1)))

(* The register fields are looked for at the start of the packet, where its *)
(* letter is.  The NPC is written without set_npc.                          *)
rsp_write_all_regs ==
    /\ Asked("G") /\ UNCHANGED rsp
    /\ \E gpr, ppc \in Words, npc \in Addrs, ok \in Works("reg") :
          LET data == <<BASE - 1>> \o Digits(gpr) \o Digits(ppc) \o Digits(npc)
              new == [gpr |-> hex2reg(data, 0), ppc |-> hex2reg(data, 1)]
          IN  /\ cpu' = [cpu EXCEPT !.reg = new, !.npc = hex2reg(data, 2) % (Top + 1),
                                    !.unread = TRUE]
              /\ view' = IF ok THEN [reg |-> [gpr |-> gpr, ppc |-> ppc], npc |-> npc]
                         ELSE [reg |-> new, npc |-> cpu'.npc]
              /\ reply' = IF ok THEN OK ELSE E01

WriteRegs ==
    /\ rsp_write_reg \/ rsp_write_all_regs
    /\ UNCHANGED <<memory, breakpoints>>

(* qRcmd: any SPR, NPC included, without a look at the result or the cache; *)
(* a read that failed shows whatever was there.                             *)
rsp_command ==
    /\ \/ /\ Asked("readspr")
          /\ \/ \E r \in Regs, ok \in Works("spr"), v \in RegValues :
                   /\ ok => v = cpu.reg[r]
                   /\ reply' = [kind |-> "reg", of |-> {r}, reg |-> [cpu.reg EXCEPT ![r] = v]]
             \/ reply' = E01
          /\ UNCHANGED <<cpu, view>>
       \/ /\ Asked("writespr") /\ reply' = OK
          /\ \E r \in Regs, val \in Words, ok \in Works("spr") :
                /\ cpu' = IF ok THEN [cpu EXCEPT !.reg[r] = val] ELSE cpu
                /\ view' = [view EXCEPT !.reg[r] = val]
       \/ /\ Asked("writespr npc") /\ reply' = OK
          /\ \E a \in Addrs : cpu' = [cpu EXCEPT !.npc = a, !.unread = TRUE]
                              /\ view' = [view EXCEPT !.npc = a]
    /\ UNCHANGED <<rsp, memory, breakpoints>>
-------------------------------------------------------------------------------
Cells(a, n) == { b \in Addrs : b >= a /\ b < a + n }

(* A reply has two digits for a byte; what does not fit is left out.        *)
ReadLen(n) == IF n * 2 >= BUF_MAX THEN (BUF_MAX - 1) \div 2 ELSE n
rsp_read_mem ==
    /\ Asked("m")
    /\ \/ \E a \in Addrs, n \in 0 .. Top + 1, ok \in Works("mem") :
             reply' = IF ok THEN [kind |-> "mem", mem |-> [b \in Cells(a, ReadLen(n)) |-> mem[b]]]
                      ELSE E01
       \/ reply' = E01
    /\ UNCHANGED <<cpu, rsp, view, memory, breakpoints>>

(* GDB does not write over a breakpoint that is inserted.  A failed write   *)
(* leaves some of the cells written, which GDB then has to look at.         *)
WriteBlock(a, n, word) ==
    \E ok \in Works("mem") : \E done \in SUBSET Cells(a, n) :
        /\ ok => done = Cells(a, n)
        /\ mem' = [b \in Addrs |-> IF b \in done THEN word ELSE mem[b]]
        /\ text' = [b \in Addrs |-> IF b \in done THEN word ELSE text[b]]
        /\ lost' = lost \ done
        /\ reply' = IF ok THEN OK ELSE E01
MayWrite(a, n) == Cells(a, n) \cap DOMAIN mp_hash = {}

(* M: a length that does not match the digits supplied is refused.          *)
rsp_write_mem ==
    /\ Asked("M")
    /\ \E a \in Addrs, len, supplied \in 0 .. 2, word \in Texts :
          /\ MayWrite(a, len)
          /\ IF len * 2 = supplied * 2 THEN WriteBlock(a, len, word)
             ELSE reply' = E01 /\ UNCHANGED memory
    /\ UNCHANGED <<cpu, rsp, view, breakpoints>>

\* X: of two lengths the shorter is written.
rsp_write_mem_bin ==
    /\ Asked("X")
    /\ \E a \in Addrs, len, newlen \in 0 .. 2, word \in Texts :
          /\ MayWrite(a, len)
          /\ WriteBlock(a, IF newlen < len THEN newlen ELSE len, word)
    /\ UNCHANGED <<cpu, rsp, view, breakpoints>>

(* The word of a memory breakpoint is read, noted and written without a     *)
(* look at the results.  A read that failed gives whatever was there.       *)
ReadWord(a, ok, word) == ok => word = mem[a]
WriteWord(a, ok, word) == mem' \in {[mem EXCEPT ![a] = word]} \cup (IF ok THEN {} ELSE {mem})
Missed(failed) == missed' = missed + (IF failed THEN 1 ELSE 0) /\ missed' <= MaxMissed

\* Mutant of mp_hash_add: a repeated packet saves the trap.
HashAddAgain(a, word) ==
    mp_hash' = [b \in DOMAIN mp_hash \cup {a} |-> IF b = a THEN word ELSE mp_hash[b]]

\* mp_hash_add keeps the entry it finds.
mp_hash_add(a, word) ==
    mp_hash' = [b \in DOMAIN mp_hash \cup {a} |->
                   IF b \in DOMAIN mp_hash THEN mp_hash[b] ELSE word]

(* Z0: an entry that is there already keeps the word it has.                *)
InsertMemory(a) ==
    \E read, written \in Works("bp"), word \in Texts \cup {TRAP} :
        /\ ReadWord(a, read, word)
        /\ mp_hash_add(a, word)
        /\ WriteWord(a, written, TRAP)
        /\ lost' = IF read \/ a \in DOMAIN mp_hash THEN lost ELSE lost \cup {a}
        /\ Missed(~read \/ ~written)
        /\ reply' = OK

(* Z1: a unit is taken for every packet, noted for the first; without one   *)
(* the reply is empty.                                                      *)
InsertHardware(a) ==
    \/ \E u \in Units :
          /\ hwp.unit[u] = None /\ \A v \in 0 .. u - 1 : hwp.unit[v] # None
          /\ hwp' = [unit |-> [hwp.unit EXCEPT ![u] = a],
                     key |-> [hwp.key EXCEPT ![a] = IF @ = None THEN u ELSE @]]
          /\ reply' = OK
    \/ (\A u \in Units : hwp.unit[u] # None) /\ reply' = [kind |-> "empty"] /\ UNCHANGED hwp

rsp_insert_matchpoint ==
    /\ \/ Asked("Z0") /\ (\E a \in Addrs : InsertMemory(a)) /\ UNCHANGED hwp
       \/ Asked("Z1") /\ (\E a \in HwAddrs : InsertHardware(a)) /\ UNCHANGED <<mp_hash, mem, lost, missed>>
    /\ UNCHANGED <<cpu, rsp, view, text>>

\* z0: the entry goes, the word is put back; OK also when there is none.
RemoveMemory(a) ==
    \/ a \notin DOMAIN mp_hash /\ UNCHANGED <<mp_hash, mem, lost, missed>>
    \/ \E written \in Works("bp") :
          /\ a \in DOMAIN mp_hash
          /\ mp_hash' = [b \in DOMAIN mp_hash \ {a} |-> mp_hash[b]]
          /\ WriteWord(a, written, mp_hash[a])
          /\ lost' = IF written THEN lost ELSE lost \cup {a}
          /\ Missed(~written)

RemoveHardware(a) ==
    hwp' = IF hwp.key[a] = None THEN hwp
           ELSE [unit |-> [hwp.unit EXCEPT ![hwp.key[a]] = None], key |-> [hwp.key EXCEPT ![a] = None]]

rsp_remove_matchpoint ==
    /\ \/ Asked("z0") /\ (\E a \in Addrs : RemoveMemory(a)) /\ UNCHANGED hwp
       \/ Asked("z1") /\ (\E a \in HwAddrs : RemoveHardware(a)) /\ UNCHANGED <<mp_hash, mem, lost, missed>>
    /\ reply' = OK
    /\ UNCHANGED <<cpu, rsp, view, text>>
-------------------------------------------------------------------------------
(* rsp_continue_generic and rsp_step_generic: clear the DRR, write DMR2 if  *)
(* a watchpoint is noted there, set or clear the step bit, and unstall,     *)
(* which drops the cached NPC.                                              *)
Resume(c, step) ==
    [c EXCEPT !.pc = "running", !.drr = "none", !.wbs = FALSE, !.step = step, !.moved = FALSE]
Uncached == [rsp EXCEPT !.cached_npc = NotCached]

\* Mutant of rsp_continue: DMR2 keeps the breakpoint it noted.
ContinueKeepsWbs ==
    /\ Asked("c") /\ cpu' = [Resume(cpu, FALSE) EXCEPT !.wbs = cpu.wbs]
    /\ rsp' = Uncached /\ reply' = NoReply
    /\ UNCHANGED <<view, memory, breakpoints>>

rsp_continue ==
    /\ \/ Asked("c") /\ cpu' = Resume(cpu, FALSE) /\ UNCHANGED view
       \/ /\ Asked("c addr")               \* set_npc, whose cache Resume drops
          /\ \E a \in Addrs, ok \in Works("npc") :
                /\ cpu' = Resume(IF ok THEN [cpu EXCEPT !.npc = a, !.unread = TRUE] ELSE cpu, FALSE)
                /\ view' = [view EXCEPT !.npc = a]
    /\ rsp' = Uncached /\ reply' = NoReply
    /\ UNCHANGED <<memory, breakpoints>>

(* An address given with s is parsed and not used.                          *)
rsp_step ==
    /\ \/ Asked("s") /\ UNCHANGED view
       \/ Asked("s addr") /\ \E a \in Addrs : view' = [view EXCEPT !.npc = a]
    /\ cpu' = Resume(cpu, TRUE) /\ rsp' = Uncached /\ reply' = NoReply
    /\ UNCHANGED <<memory, breakpoints>>

(* R, and vRun which answers as if it had just stopped; start_addr is 0.    *)
rsp_restart ==
    /\ \/ Asked("R") /\ reply' = NoReply
       \/ Asked("vRun") /\ reply' = [kind |-> "stop", sig |-> "TRAP"]
    /\ \E ok \in Works("npc") : set_npc(cpu, 0, ok)
    /\ view' = [view EXCEPT !.npc = 0]
    /\ UNCHANGED <<memory, breakpoints>>

rsp_report_exception == [kind |-> "stop", sig |-> rsp.sigval]

(* Requests that touch nothing: '?', queries and sets, which are answered   *)
(* or not.                                                                  *)
rsp_query ==
    /\ \/ Asked("?") /\ reply' = rsp_report_exception
       \/ Asked("other") /\ reply' \in {OK, E01, NoReply}
    /\ UNCHANGED <<cpu, rsp, view, memory, breakpoints>>
-------------------------------------------------------------------------------
(* rsp_exception.  A single step leaves the DRR at 0, GDB expects a TRAP.   *)
Signal ==
    [none |-> "TRAP", TE |-> "TRAP", RSTE |-> "PWR", BUSEE |-> "BUS", DPFE |-> "SEGV",
     IPFE |-> "SEGV", TTE |-> "ALRM", AE |-> "BUS", IIE |-> "ILL", IE |-> "INT", DME |-> "SEGV",
     IME |-> "SEGV", RE |-> "FPE", SCE |-> "USR2", FPE |-> "FPE"]

IsBreakpoint(ppc, wbs) == ppc \in DOMAIN mp_hash \/ wbs

(* handle_rsp, the notice that the target has stopped: why, and if it was a *)
(* breakpoint, back to the instruction that was not executed.               *)
StopNotice ==
    /\ cpu.pc = "halted"
    /\ \E ok \in Works("stop"), written \in Works("npc") :
       \E drr \in IF ok THEN {cpu.drr} ELSE DOMAIN Signal,
          ppc \in IF ok THEN {cpu.reg.ppc} ELSE Addrs :
          LET stopped == [cpu EXCEPT !.pc = "stopped"]
              sig == Signal[drr]
          IN  /\ IF sig = "TRAP" /\ IsBreakpoint(ppc, cpu.wbs)
                 THEN /\ cpu' = IF written THEN [stopped EXCEPT !.npc = ppc, !.unread = TRUE] ELSE stopped
                      /\ rsp' = [cached_npc |-> ppc, sigval |-> sig]
                 ELSE cpu' = stopped /\ rsp' = [rsp EXCEPT !.sigval = sig]
              /\ reply' = [kind |-> "stop", sig |-> sig]
    /\ UNCHANGED <<view, memory, breakpoints>>

(* The CPU.  Trapped: the instruction at npc is a trap or under a hardware  *)
(* breakpoint and is not executed.                                          *)
Watched == \E u \in Units : hwp.unit[u] = cpu.npc
Trapped == mem[cpu.npc] = TRAP \/ Watched
Passed(drr, pc) ==
    [cpu EXCEPT !.npc = After(@), !.reg.ppc = cpu.npc, !.unread = FALSE, !.moved = TRUE,
                !.drr = drr, !.pc = pc]

CpuTrap ==
    /\ cpu.pc = "running" /\ Trapped
    /\ cpu' = [Passed("TE", "halted") EXCEPT !.wbs = cpu.wbs \/ Watched]
    /\ view' = [view EXCEPT !.reg.ppc = cpu.npc]
    /\ UNCHANGED <<rsp, reply, memory, breakpoints>>

CpuExecute ==
    /\ cpu.pc = "running" /\ ~Trapped
    /\ \/ cpu' = Passed("none", IF cpu.step THEN "halted" ELSE "running")
       \/ cpu' = Passed("IIE", "halted")
    /\ view' = [npc |-> After(view.npc), reg |-> [view.reg EXCEPT !.ppc = view.npc]]
    /\ UNCHANGED <<rsp, reply, memory, breakpoints>>

\* Ctrl-C, as RunControl has it.
Interrupt ==
    /\ cpu.pc = "running" /\ cpu.moved
    /\ cpu' = [cpu EXCEPT !.pc = "halted"]
    /\ UNCHANGED <<rsp, reply, view, memory, breakpoints>>

GdbTakes ==
    /\ reply # NoReply /\ reply' = NoReply
    /\ UNCHANGED <<cpu, rsp, view, memory, breakpoints>>

rsp_client_request ==
    \/ rsp_read_reg \/ rsp_read_all_regs \/ WriteRegs \/ rsp_command
    \/ rsp_read_mem \/ rsp_write_mem \/ rsp_write_mem_bin
    \/ rsp_insert_matchpoint \/ rsp_remove_matchpoint
    \/ rsp_continue \/ rsp_step \/ rsp_restart \/ rsp_query

Next == rsp_client_request \/ GdbTakes \/ StopNotice \/ CpuTrap \/ CpuExecute \/ Interrupt

Spec == Init /\ [][Next]_vars
-------------------------------------------------------------------------------
(* Every variable has its type; in particular the NPC is an address of the  *)
(* program, and the cached one is, wherever it was taken from.              *)
TypeOK ==
    /\ cpu \in [pc : {"stopped", "running", "halted"}, npc : Addrs, unread : BOOLEAN,
                reg : [Regs -> RegValues], drr : DOMAIN Signal, wbs : BOOLEAN, step : BOOLEAN,
                moved : BOOLEAN]
    /\ mem \in [Addrs -> Texts \cup {TRAP}] /\ text \in [Addrs -> Texts]
    /\ DOMAIN mp_hash \subseteq Addrs /\ \A a \in DOMAIN mp_hash : mp_hash[a] \in Texts \cup {TRAP}
    /\ hwp \in [unit : [Units -> HwAddrs \cup {None}], key : [HwAddrs -> Units \cup {None}]]
    /\ lost \subseteq Addrs /\ missed \in 0 .. MaxMissed
    /\ rsp \in [cached_npc : Addrs \cup {NotCached},
                sigval : {"none"} \cup {Signal[d] : d \in DOMAIN Signal}]
    /\ view \in [reg : [Regs -> RegValues], npc : Addrs]

(* The debugger does not disturb the program: through breakpoints taken     *)
(* back to, steps, interrupts and program counters set by GDB, the          *)
(* instruction executed is always the program's next one; none is skipped   *)
(* because the NPC was behind a trap, none executed twice because an        *)
(* ordinary stop was taken for a breakpoint.  It holds until a memory       *)
(* access of a breakpoint fails, which the server does not notice.          *)
InstructionsInOrder ==
    [][missed = 0 /\ cpu.pc = "running" /\ view'.npc # view.npc
          => cpu.npc = view.npc /\ mem[cpu.npc] = text[cpu.npc]]_vars

(* What the memory behind a breakpoint may hold: a trap, or after a write   *)
(* that failed unnoticed still the program's word.                          *)
BreakpointWords(a) == {TRAP} \cup (IF missed > 0 THEN {text[a]} ELSE {})

(* What GDB reads of a register is what it last wrote there or the program  *)
(* left there, and the NPC it reads is where the program goes on, although  *)
(* the hardware does not show it, as long as no memory access of a          *)
(* breakpoint failed unnoticed; and what it reads of memory is its program  *)
(* with the breakpoints, except at an address where one failed.             *)
ReadsTrue ==
    /\ missed = 0 /\ reply.kind \in {"reg", "all"} => \A r \in reply.of : reply.reg[r] = view.reg[r]
    /\ missed = 0 /\ reply.kind \in {"npc", "all"} => reply.npc = view.npc
    /\ reply.kind = "mem" =>
          \A a \in DOMAIN reply.mem \ lost :
             reply.mem[a] \in IF a \in DOMAIN mp_hash THEN BreakpointWords(a) ELSE {text[a]}

(* Behind its breakpoints the program is as GDB wrote it, whichever packets *)
(* wrote it and however often breakpoints were set, so that removing them   *)
(* brings it back.  A memory access that fails while a breakpoint is set or *)
(* removed, which the server takes for done, costs at most the word at that *)
(* address, and only until GDB writes there: a failed trap costs none, and  *)
(* neither does a failed read where a breakpoint is set already.            *)
TextKept ==
    \A a \in Addrs \ lost :
        IF a \in DOMAIN mp_hash THEN mem[a] \in BreakpointWords(a) /\ mp_hash[a] = text[a]
        ELSE mem[a] = text[a]
===============================================================================
