---------------------------- MODULE Matchpoints -----------------------------
(***************************************************************************)
(* Breakpoints and watchpoints: the 'Z' and 'z' packets of the RSP server  *)
(* (rsp-server.c) and the watchpoint control server (hwp_server.c), two    *)
(* threads that share the watchpoint units of the CPU.                     *)
(*                                                                         *)
(* The threads share hwp_in_use[] without a lock.  Each dbg_* call is one  *)
(* step (dbg_access_mutex); the other thread may act between any two.      *)
(* The hash table is the map from (type, address) that its chains hold.    *)
(***************************************************************************)
EXTENDS Integers

CONSTANTS
  HWP_MAX_WP,    \* watchpoint units, 8 in the code
  Addrs,         \* addresses GDB uses
  BP_MEMORY,     \* matchpoint types: a TRAP in memory ...
  HwTypes,       \* ... and the types a watchpoint unit implements
  Absent,        \* no entry, no request
  HwpAnyTime     \* may the HWP client act while GDB has watchpoints set?

ASSUME MatchpointAssumption ==
  /\ HWP_MAX_WP \in Nat \ {0}
  /\ {BP_MEMORY, "off", "client"} \cap HwTypes = {}
  /\ Absent \notin 0..(HWP_MAX_WP - 1)
  /\ Absent \notin {"insn", "TRAP"}
  /\ HwpAnyTime \in BOOLEAN

Wps == 0..(HWP_MAX_WP - 1)
Keys == ({BP_MEMORY} \cup HwTypes) \X Addrs
HwKeys == HwTypes \X Addrs

VARIABLES
  mem,         \* the word at each address: the program's, or "TRAP"
  mp_hash,     \* per key: the word saved, the unit used, or Absent
  hwp_in_use,  \* the units marked as taken
  dvr, dcr,    \* per unit: compare value; what is compared, "off" or "client"
  chain,       \* DMR1: the units chained to the one before them
  wgb,         \* DMR2: the units that may stop the CPU
  rpc, req,    \* the RSP thread: its step, the key and unit it works on
  regdata,     \* its copy of DMR1 or DMR2
  hpc, hwp,    \* the HWP thread: its step, the unit it works on
  hval,        \* the value its client writes
  wanted,      \* history: what GDB was told is inserted
  owned,       \* history: the units the HWP client has enabled
  stray        \* history: the units taken for what had one already

cpuVars == <<mem, dvr, dcr, chain, wgb>>
rspVars == <<mp_hash, rpc, req, regdata, wanted, stray>>
hwpVars == <<hpc, hwp, hval, owned>>
vars == <<cpuVars, rspVars, hwpVars, hwp_in_use>>

Init ==
  /\ mem = [a \in Addrs |-> "insn"]
  /\ mp_hash = [k \in Keys |-> Absent]
  /\ hwp_in_use = {}
  /\ dvr = [w \in Wps |-> Absent]
  /\ dcr = [w \in Wps |-> "off"]
  /\ chain = {}
  /\ wgb = {}
  /\ rpc = "idle"
  /\ req = [key |-> Absent, wp |-> Absent]
  /\ regdata = {}
  /\ hpc = "idle"
  /\ hwp = Absent
  /\ hval = {}
  /\ wanted = {}
  /\ owned = {}
  /\ stray = {}

\* Mutant of HashAdd: a second insertion overwrites what the first one saved.
HashOverwrite(k, v) == mp_hash' = [mp_hash EXCEPT ![k] = v]

\* mp_hash_add: an entry that is there already stays as it is.
HashAdd(k, v) ==
  mp_hash' = IF mp_hash[k] = Absent THEN [mp_hash EXCEPT ![k] = v] ELSE mp_hash

\* mp_hash_delete
HashDelete(k) == mp_hash' = [mp_hash EXCEPT ![k] = Absent]

(***************************************************************************)
(* rsp_insert_matchpoint                                                   *)
(***************************************************************************)

\* 'Z0': save the word, put a TRAP in its place.
InsertMemory(a) ==
  /\ rpc = "idle"
  /\ HashAdd(<<BP_MEMORY, a>>, mem[a])
  /\ mem' = [mem EXCEPT ![a] = "TRAP"]
  /\ wanted' = wanted \cup {<<BP_MEMORY, a>>}
  /\ UNCHANGED <<dvr, dcr, chain, wgb, rpc, req, regdata, stray, hwpVars, hwp_in_use>>

\* Mutant of FirstFree: the marks are not looked at.
FirstUnit(w) == w \in Wps /\ \A v \in Wps : w <= v

\* 'Z1'..'Z4': hwp_get_available_watchpoint takes the first free unit.
FirstFree(w) == w \in Wps \ hwp_in_use /\ \A v \in Wps \ hwp_in_use : w <= v

InsertHw(k) ==
  /\ rpc = "idle"
  /\ \E w \in Wps :
       /\ FirstFree(w)
       /\ hwp_in_use' = hwp_in_use \cup {w}
       /\ HashAdd(k, w)
       /\ req' = [key |-> k, wp |-> w]
       /\ stray' = IF mp_hash[k] = Absent THEN stray ELSE stray \cup {w}
  /\ rpc' = "set_dvr"
  /\ UNCHANGED <<cpuVars, regdata, wanted, hwpVars>>

\* Mutant of InsertRefused: the result -1 is not tested.
InsertUnchecked(k) ==
  /\ rpc = "idle"
  /\ Wps \subseteq hwp_in_use
  /\ HashAdd(k, -1)
  /\ UNCHANGED <<cpuVars, rpc, req, regdata, wanted, stray, hwpVars, hwp_in_use>>

\* No unit is free: an empty reply, GDB gives up on this one.
InsertRefused(k) ==
  /\ rpc = "idle"
  /\ Wps \subseteq hwp_in_use
  /\ UNCHANGED vars

SetDvr ==
  /\ rpc = "set_dvr"
  /\ dvr' = [dvr EXCEPT ![req.wp] = req.key[2]]
  /\ rpc' = "set_dcr"
  /\ UNCHANGED <<mem, dcr, chain, wgb, mp_hash, req, regdata, wanted, stray, hwpVars, hwp_in_use>>

SetDcr ==
  /\ rpc = "set_dcr"
  /\ dcr' = [dcr EXCEPT ![req.wp] = req.key[1]]
  /\ rpc' = "read_dmr2"
  /\ UNCHANGED <<mem, dvr, chain, wgb, mp_hash, req, regdata, wanted, stray, hwpVars, hwp_in_use>>

\* The enable bits of DMR2 and the chain bits of DMR1 are read, changed and
\* written back.
ReadDmr2 ==
  /\ rpc \in {"read_dmr2", "clear_read"}
  /\ regdata' = wgb
  /\ rpc' = IF rpc = "read_dmr2" THEN "write_dmr2" ELSE "clear_write"
  /\ UNCHANGED <<cpuVars, mp_hash, req, wanted, stray, hwpVars, hwp_in_use>>

\* Mutant of WriteDmr2: the bits of the other units are lost.
WriteDmr2Overwrites ==
  /\ rpc = "write_dmr2"
  /\ wgb' = {req.wp}
  /\ rpc' = "read_dmr1"
  /\ UNCHANGED <<mem, dvr, dcr, chain, mp_hash, req, regdata, wanted, stray, hwpVars, hwp_in_use>>

WriteDmr2 ==
  /\ rpc = "write_dmr2"
  /\ wgb' = regdata \cup {req.wp}
  /\ rpc' = "read_dmr1"
  /\ UNCHANGED <<mem, dvr, dcr, chain, mp_hash, req, regdata, wanted, stray, hwpVars, hwp_in_use>>

ReadDmr1 ==
  /\ rpc = "read_dmr1"
  /\ regdata' = chain
  /\ rpc' = "write_dmr1"
  /\ UNCHANGED <<cpuVars, mp_hash, req, wanted, stray, hwpVars, hwp_in_use>>

\* The last write, after which GDB gets its "OK".
WriteDmr1 ==
  /\ rpc = "write_dmr1"
  /\ chain' = regdata \ {req.wp}
  /\ wanted' = wanted \cup {req.key}
  /\ rpc' = "idle"
  /\ req' = [key |-> Absent, wp |-> Absent]
  /\ regdata' = {}
  /\ UNCHANGED <<mem, dvr, dcr, wgb, mp_hash, stray, hwpVars, hwp_in_use>>

(***************************************************************************)
(* rsp_remove_matchpoint; a 'z' packet may always be repeated.             *)
(***************************************************************************)
RemoveMemory(a) ==
  LET k == <<BP_MEMORY, a>> IN
  /\ rpc = "idle"
  /\ mem' = IF mp_hash[k] = Absent THEN mem ELSE [mem EXCEPT ![a] = mp_hash[k]]
  /\ HashDelete(k)
  /\ wanted' = wanted \ {k}
  /\ UNCHANGED <<dvr, dcr, chain, wgb, rpc, req, regdata, stray, hwpVars, hwp_in_use>>

RemoveHw(k) ==
  /\ rpc = "idle"
  /\ wanted' = wanted \ {k}
  /\ HashDelete(k)
  /\ IF mp_hash[k] = Absent
     THEN UNCHANGED <<rpc, req>>
     ELSE /\ rpc' = "clear_read"
          /\ req' = [key |-> k, wp |-> mp_hash[k]]
  /\ UNCHANGED <<cpuVars, regdata, stray, hwpVars, hwp_in_use>>

ClearDmr2 ==
  /\ rpc = "clear_write"
  /\ wgb' = regdata \ {req.wp}
  /\ rpc' = "clear_dcr"
  /\ regdata' = {}
  /\ UNCHANGED <<mem, dvr, dcr, chain, mp_hash, req, wanted, stray, hwpVars, hwp_in_use>>

\* The unit is disabled, then hwp_return_watchpoint gives it back.
ClearDcr ==
  /\ rpc = "clear_dcr"
  /\ dcr' = [dcr EXCEPT ![req.wp] = "off"]
  /\ rpc' = "return"
  /\ UNCHANGED <<mem, dvr, chain, wgb, mp_hash, req, regdata, wanted, stray, hwpVars, hwp_in_use>>

\* Mutant of ReturnWatchpoint: the unit stays marked.
ReturnForgets ==
  /\ rpc = "return"
  /\ rpc' = "idle"
  /\ req' = [key |-> Absent, wp |-> Absent]
  /\ UNCHANGED <<cpuVars, mp_hash, regdata, wanted, stray, hwpVars, hwp_in_use>>

ReturnWatchpoint ==
  /\ rpc = "return"
  /\ hwp_in_use' = hwp_in_use \ {req.wp}
  /\ rpc' = "idle"
  /\ req' = [key |-> Absent, wp |-> Absent]
  /\ UNCHANGED <<cpuVars, mp_hash, regdata, wanted, stray, hwpVars>>

(***************************************************************************)
(* hwp_server: register writes of the HWP client.                          *)
(***************************************************************************)
\* hwp_write_reg on a DCR that the client read as its own or as disabled: the
\* register first, the mark in hwp_in_use after it.
HwpWriteDcr(w, on) ==
  /\ hpc = "idle"
  /\ dcr[w] \in {"off", "client"}
  /\ dcr' = [dcr EXCEPT ![w] = IF on THEN "client" ELSE "off"]
  /\ owned' = IF on THEN owned \cup {w} ELSE owned \ {w}
  /\ hpc' = IF on THEN "mark" ELSE "unmark"
  /\ hwp' = w
  /\ UNCHANGED <<mem, dvr, chain, wgb, rspVars, hval, hwp_in_use>>

\* hwp_set_in_use
HwpMark ==
  /\ hpc \in {"mark", "unmark"}
  /\ hwp_in_use' = IF hpc = "mark" THEN hwp_in_use \cup {hwp} ELSE hwp_in_use \ {hwp}
  /\ hpc' = "idle"
  /\ hwp' = Absent
  /\ UNCHANGED <<cpuVars, rspVars, hval, owned>>

\* hwp_read_reg: the client reads DMR1 or DMR2, to set the bits of its own
\* units as it likes and to write it back.
HwpReadDmr ==
  /\ hpc = "idle"
  /\ \E on \in SUBSET owned :
       \/ hpc' = "dmr1" /\ hval' = (chain \ owned) \cup on
       \/ hpc' = "dmr2" /\ hval' = (wgb \ owned) \cup on
  /\ UNCHANGED <<cpuVars, rspVars, hwp, owned, hwp_in_use>>

HwpWriteDmr ==
  /\ hpc \in {"dmr1", "dmr2"}
  /\ IF hpc = "dmr1" THEN chain' = hval /\ UNCHANGED wgb
                     ELSE wgb' = hval /\ UNCHANGED chain
  /\ hval' = {}
  /\ hpc' = "idle"
  /\ UNCHANGED <<mem, dvr, dcr, rspVars, hwp, owned, hwp_in_use>>

(***************************************************************************)
(* The schedule that the comment in hwp_write_reg argues for, an           *)
(* assumption about the two clients which nothing in the code enforces:    *)
(* GDB sets and clears watchpoints while the HWP client rests, and the     *)
(* HWP client acts while GDB rests and has none set.                       *)
(***************************************************************************)
GdbTurn == HwpAnyTime \/ (rpc = "idle" /\ hpc = "idle")
HwpTurn == HwpAnyTime \/ (GdbTurn /\ \A k \in HwKeys : mp_hash[k] = Absent)

Next ==
  \/ \E a \in Addrs : InsertMemory(a) \/ RemoveMemory(a)
  \/ \E k \in HwKeys : GdbTurn /\ (InsertHw(k) \/ InsertRefused(k) \/ RemoveHw(k))
  \/ SetDvr
  \/ SetDcr
  \/ ReadDmr2
  \/ WriteDmr2
  \/ ReadDmr1
  \/ WriteDmr1
  \/ ClearDmr2
  \/ ClearDcr
  \/ ReturnWatchpoint
  \/ \E w \in Wps, on \in BOOLEAN : HwpTurn /\ HwpWriteDcr(w, on)
  \/ HwpMark
  \/ HwpTurn /\ HwpReadDmr
  \/ HwpWriteDmr

Spec == Init /\ [][Next]_vars

-----------------------------------------------------------------------------
\* Every variable of the two servers and of the debug unit has its type.
TypeOK ==
  /\ mem \in [Addrs -> {"insn", "TRAP"}]
  /\ DOMAIN mp_hash = Keys
  /\ \A k \in Keys : mp_hash[k] \in {Absent} \cup IF k \in HwKeys THEN Wps
                                                 ELSE {"insn", "TRAP"}
  /\ hwp_in_use \subseteq Wps
  /\ dvr \in [Wps -> Addrs \cup {Absent}]
  /\ dcr \in [Wps -> HwTypes \cup {"off", "client"}]
  /\ chain \subseteq Wps
  /\ wgb \subseteq Wps
  /\ regdata \subseteq Wps
  /\ hval \subseteq Wps
  /\ owned \subseteq Wps
  /\ stray \subseteq Wps
  /\ wanted \subseteq Keys

\* What GDB was told is inserted will stop the CPU: the TRAP is in memory, or a
\* unit of its own compares that address and is enabled.
WantedArmed ==
  \A k \in wanted :
    IF k[1] = BP_MEMORY THEN mem[k[2]] = "TRAP"
    ELSE /\ mp_hash[k] \in Wps
         /\ dvr[mp_hash[k]] = k[2]
         /\ dcr[mp_hash[k]] = k[1]
         /\ mp_hash[k] \in wgb \ chain

\* Removing a memory breakpoint restores the program, however often the
\* packets that set and cleared it were repeated.
ProgramRestored ==
  \A a \in Addrs :
    /\ (mem[a] = "TRAP") <=> (mp_hash[<<BP_MEMORY, a>>] # Absent)
    /\ mp_hash[<<BP_MEMORY, a>>] # "TRAP"

\* The units that GDB's watchpoints or the HWP client use.
UsedUnits == {mp_hash[k] : k \in {x \in HwKeys : mp_hash[x] # Absent}} \cup owned

\* Between packets, a unit is marked as taken exactly when a watchpoint of GDB or
\* the HWP client uses it, or when a repeated insertion took it for a watchpoint
\* that had one: nothing else loses a unit, and none is given out twice.
UnitsAccounted ==
  rpc = "idle" /\ hpc = "idle" =>
    /\ hwp_in_use = UsedUnits \cup stray
    /\ UsedUnits \cap stray = {}

\* What rsp_insert_matchpoint is said to cope with: a packet that comes twice
\* takes no unit that nobody can give back.
RepeatsTakeNothing == rpc = "idle" /\ hpc = "idle" => hwp_in_use = UsedUnits

\* A unit that the HWP client enabled is not taken over for GDB.
ClientUnitsKept == \A w \in owned : dcr[w] = "client"

=============================================================================
