-------------------------- MODULE MatchpointsProofs --------------------------
(***************************************************************************)
(* Proofs about breakpoints and watchpoints, for any number of units, any  *)
(* set of addresses and of matchpoint types.                               *)
(***************************************************************************)
EXTENDS Matchpoints, TLAPS

\* rsp_insert_matchpoint and rsp_remove_matchpoint are under way.
Inserting == rpc \in {"set_dvr", "set_dcr", "read_dmr2", "write_dmr2", "read_dmr1", "write_dmr1"}
Clearing == rpc \in {"clear_read", "clear_write", "clear_dcr", "return"}

\* What TypeOK leaves out: a thread between two steps has a unit to work on.
ThreadTypes ==
  /\ rpc = "idle" \/ Inserting \/ Clearing
  /\ rpc # "idle" => req.key \in HwKeys /\ req.wp \in Wps
  /\ hpc \in {"idle", "mark", "unmark", "dmr1", "dmr2"}
  /\ hpc \in {"mark", "unmark"} => hwp \in Wps

\* A memory breakpoint is not a hardware one.
LEMMA KeyFacts ==
  /\ HwKeys \subseteq Keys
  /\ \A a \in Addrs : <<BP_MEMORY, a>> \in Keys /\ <<BP_MEMORY, a>> \notin HwKeys
  /\ \A k \in HwKeys : k[1] \in HwTypes /\ k[2] \in Addrs /\ k[1] # BP_MEMORY
  /\ \A k \in Keys : k \notin HwKeys => k[1] = BP_MEMORY /\ k[2] \in Addrs /\ k = <<BP_MEMORY, k[2]>>
BY MatchpointAssumption DEF Keys, HwKeys

\* The hash table keeps its type when an entry of the key's kind is added.
LEMMA HashAddTypes ==
  ASSUME TypeOK, NEW k \in Keys, NEW v, HashAdd(k, v),
         v \in (IF k \in HwKeys THEN Wps ELSE {"insn", "TRAP"})
  PROVE  /\ DOMAIN mp_hash' = Keys
         /\ \A l \in Keys : mp_hash'[l] = IF l = k /\ mp_hash[k] = Absent THEN v ELSE mp_hash[l]
         /\ \A l \in Keys : mp_hash'[l] \in {Absent} \cup IF l \in HwKeys THEN Wps
                                                          ELSE {"insn", "TRAP"}
<1>1. /\ DOMAIN mp_hash' = Keys
      /\ \A l \in Keys : mp_hash'[l] = IF l = k /\ mp_hash[k] = Absent THEN v ELSE mp_hash[l]
      BY DEF TypeOK, HashAdd
<1> QED BY <1>1 DEF TypeOK

\* And when one is deleted.
LEMMA HashDeleteTypes ==
  ASSUME TypeOK, NEW k \in Keys, HashDelete(k)
  PROVE  /\ DOMAIN mp_hash' = Keys
         /\ \A l \in Keys : mp_hash'[l] = IF l = k THEN Absent ELSE mp_hash[l]
         /\ \A l \in Keys : mp_hash'[l] \in {Absent} \cup IF l \in HwKeys THEN Wps
                                                          ELSE {"insn", "TRAP"}
<1>1. /\ DOMAIN mp_hash' = Keys
      /\ \A l \in Keys : mp_hash'[l] = IF l = k THEN Absent ELSE mp_hash[l]
      BY DEF TypeOK, HashDelete
<1> QED BY <1>1 DEF TypeOK

\* Every step of both servers keeps the types.
LEMMA TypesNext ==
  TypeOK /\ ThreadTypes /\ [Next]_vars => TypeOK' /\ ThreadTypes'
<1> SUFFICES ASSUME TypeOK, ThreadTypes, [Next]_vars PROVE TypeOK' /\ ThreadTypes'
    OBVIOUS
<1> USE DEF cpuVars, rspVars, hwpVars
<1>1. ASSUME NEW a \in Addrs, InsertMemory(a) PROVE TypeOK' /\ ThreadTypes'
  <2> DEFINE k == <<BP_MEMORY, a>>
  <2>1. k \in Keys /\ k \notin HwKeys /\ mem[a] \in {"insn", "TRAP"} /\ HashAdd(k, mem[a])
        BY <1>1, KeyFacts DEF InsertMemory, TypeOK
  <2> HIDE DEF k
  <2>2. /\ DOMAIN mp_hash' = Keys
        /\ \A l \in Keys : mp_hash'[l] \in {Absent} \cup IF l \in HwKeys THEN Wps ELSE {"insn", "TRAP"}
        BY <2>1, HashAddTypes
  <2>3. mem' \in [Addrs -> {"insn", "TRAP"}] /\ wanted' \subseteq Keys
        BY <1>1, <2>1 DEF InsertMemory, TypeOK, k
  <2> QED BY <1>1, <2>2, <2>3 DEF InsertMemory, TypeOK, ThreadTypes, Inserting, Clearing
<1>2. ASSUME NEW a \in Addrs, RemoveMemory(a) PROVE TypeOK' /\ ThreadTypes'
  <2> DEFINE k == <<BP_MEMORY, a>>
  <2>1. k \in Keys /\ k \notin HwKeys /\ HashDelete(k)
        BY <1>2, KeyFacts DEF RemoveMemory
  <2>2. mem' \in [Addrs -> {"insn", "TRAP"}]
        BY <1>2, <2>1 DEF RemoveMemory, TypeOK
  <2>3. wanted' \subseteq Keys
        BY <1>2 DEF RemoveMemory, TypeOK
  <2> HIDE DEF k
  <2>4. /\ DOMAIN mp_hash' = Keys
        /\ \A l \in Keys : mp_hash'[l] \in {Absent} \cup IF l \in HwKeys THEN Wps ELSE {"insn", "TRAP"}
        BY <2>1, HashDeleteTypes
  <2> QED BY <1>2, <2>2, <2>3, <2>4 DEF RemoveMemory, TypeOK, ThreadTypes, Inserting, Clearing
<1>3. ASSUME NEW k \in HwKeys, InsertHw(k) PROVE TypeOK' /\ ThreadTypes'
  <2>1. PICK w \in Wps : /\ hwp_in_use' = hwp_in_use \cup {w}
                         /\ HashAdd(k, w)
                         /\ req' = [key |-> k, wp |-> w]
        BY <1>3 DEF InsertHw
  <2>2. /\ DOMAIN mp_hash' = Keys
        /\ \A l \in Keys : mp_hash'[l] \in {Absent} \cup IF l \in HwKeys THEN Wps ELSE {"insn", "TRAP"}
        BY <2>1, HashAddTypes, KeyFacts
  <2> QED BY <1>3, <2>1, <2>2 DEF InsertHw, TypeOK, ThreadTypes, Inserting, Clearing
<1>4. ASSUME NEW k \in HwKeys, InsertRefused(k) PROVE TypeOK' /\ ThreadTypes'
      BY <1>4 DEF InsertRefused, vars, TypeOK, ThreadTypes, Inserting, Clearing
<1>5. ASSUME NEW k \in HwKeys, RemoveHw(k) PROVE TypeOK' /\ ThreadTypes'
  <2>1. /\ DOMAIN mp_hash' = Keys
        /\ \A l \in Keys : mp_hash'[l] \in {Absent} \cup IF l \in HwKeys THEN Wps ELSE {"insn", "TRAP"}
        BY <1>5, HashDeleteTypes, KeyFacts DEF RemoveHw
  <2>2. TypeOK'
        BY <1>5, <2>1 DEF RemoveHw, TypeOK
  <2>3. mp_hash[k] # Absent => mp_hash[k] \in Wps
        BY KeyFacts DEF TypeOK
  <2>4. ThreadTypes'
        BY <1>5, <2>3 DEF RemoveHw, ThreadTypes, Inserting, Clearing
  <2> QED BY <2>2, <2>4
<1>6. CASE SetDvr
      BY <1>6, KeyFacts DEF SetDvr, TypeOK, ThreadTypes, Inserting, Clearing
<1>7. CASE SetDcr
      BY <1>7, KeyFacts DEF SetDcr, TypeOK, ThreadTypes, Inserting, Clearing
<1>8. CASE ReadDmr2
      BY <1>8 DEF ReadDmr2, TypeOK, ThreadTypes, Inserting, Clearing
<1>9. CASE WriteDmr2
      BY <1>9 DEF WriteDmr2, TypeOK, ThreadTypes, Inserting, Clearing
<1>10. CASE ReadDmr1
      BY <1>10 DEF ReadDmr1, TypeOK, ThreadTypes, Inserting, Clearing
<1>11. CASE WriteDmr1
      BY <1>11, KeyFacts DEF WriteDmr1, TypeOK, ThreadTypes, Inserting, Clearing
<1>12. CASE ClearDmr2
      BY <1>12 DEF ClearDmr2, TypeOK, ThreadTypes, Inserting, Clearing
<1>13. CASE ClearDcr
      BY <1>13 DEF ClearDcr, TypeOK, ThreadTypes, Inserting, Clearing
<1>14. CASE ReturnWatchpoint
      BY <1>14 DEF ReturnWatchpoint, TypeOK, ThreadTypes, Inserting, Clearing
<1>15. ASSUME NEW w \in Wps, NEW on \in BOOLEAN, HwpWriteDcr(w, on) PROVE TypeOK' /\ ThreadTypes'
      BY <1>15 DEF HwpWriteDcr, TypeOK, ThreadTypes, Inserting, Clearing
<1>16. CASE HwpMark
      BY <1>16 DEF HwpMark, TypeOK, ThreadTypes, Inserting, Clearing
<1>17. CASE HwpReadDmr
      BY <1>17 DEF HwpReadDmr, TypeOK, ThreadTypes, Inserting, Clearing
<1>18. CASE HwpWriteDmr
      BY <1>18 DEF HwpWriteDmr, TypeOK, ThreadTypes, Inserting, Clearing
<1>19. CASE UNCHANGED vars
      BY <1>19 DEF vars, TypeOK, ThreadTypes, Inserting, Clearing
<1> QED BY <1>1, <1>2, <1>3, <1>4, <1>5, <1>6, <1>7, <1>8, <1>9, <1>10, <1>11, <1>12, <1>13,
           <1>14, <1>15, <1>16, <1>17, <1>18, <1>19 DEF Next

\* The types hold when the servers start.
LEMMA TypesInit == Init => TypeOK /\ ThreadTypes
BY DEF Init, TypeOK, ThreadTypes, Inserting, Clearing

\* Both servers and the debug unit keep their types, whatever GDB repeats and
\* whenever the HWP client acts: a unit number read back from the hash table
\* is a unit (rsp-server.c, hwp_server.c).
THEOREM MatchpointTypes == Spec => []TypeOK
BY TypesInit, TypesNext, PTL DEF Spec

-----------------------------------------------------------------------------
(***************************************************************************)
(* Memory breakpoints.                                                     *)
(***************************************************************************)

\* What rsp_insert_matchpoint and rsp_remove_matchpoint do to the entries of
\* hardware keys when they handle 'Z0' and 'z0': nothing.
LEMMA MemoryKeepsHwKeys ==
  ASSUME TypeOK, NEW a \in Addrs, InsertMemory(a) \/ RemoveMemory(a)
  PROVE  \A k \in HwKeys : mp_hash'[k] = mp_hash[k]
BY HashAddTypes, HashDeleteTypes, KeyFacts DEF InsertMemory, RemoveMemory, TypeOK

\* What the hardware watchpoints do to the entries of memory keys: nothing.
LEMMA HwKeepsMemoryKeys ==
  ASSUME TypeOK, NEW k \in HwKeys, InsertHw(k) \/ RemoveHw(k)
  PROVE  \A a \in Addrs : mp_hash'[<<BP_MEMORY, a>>] = mp_hash[<<BP_MEMORY, a>>]
<1>1. ASSUME NEW w \in Wps, HashAdd(k, w)
      PROVE  \A a \in Addrs : mp_hash'[<<BP_MEMORY, a>>] = mp_hash[<<BP_MEMORY, a>>]
      BY <1>1, HashAddTypes, KeyFacts
<1>2. ASSUME HashDelete(k)
      PROVE  \A a \in Addrs : mp_hash'[<<BP_MEMORY, a>>] = mp_hash[<<BP_MEMORY, a>>]
      BY <1>2, HashDeleteTypes, KeyFacts
<1> QED BY <1>1, <1>2 DEF InsertHw, RemoveHw

\* A 'Z0' saves the word once, a 'z0' puts back the program's word.
LEMMA ProgramNext == TypeOK /\ ProgramRestored /\ [Next]_vars => ProgramRestored'
<1> SUFFICES ASSUME TypeOK, ProgramRestored, [Next]_vars PROVE ProgramRestored'
    OBVIOUS
<1>1. ASSUME NEW a \in Addrs, InsertMemory(a) PROVE ProgramRestored'
  <2> SUFFICES ASSUME NEW b \in Addrs
               PROVE  /\ (mem'[b] = "TRAP") <=> (mp_hash'[<<BP_MEMORY, b>>] # Absent)
                      /\ mp_hash'[<<BP_MEMORY, b>>] # "TRAP"
      BY DEF ProgramRestored
  <2>1. /\ mem'[b] = IF b = a THEN "TRAP" ELSE mem[b]
        /\ mem[a] \in {"insn", "TRAP"}
        BY <1>1 DEF InsertMemory, TypeOK
  <2>2. mp_hash'[<<BP_MEMORY, b>>] =
          IF b = a /\ mp_hash[<<BP_MEMORY, a>>] = Absent THEN mem[a] ELSE mp_hash[<<BP_MEMORY, b>>]
        BY <1>1, KeyFacts DEF InsertMemory, HashAdd, TypeOK
  <2> QED BY <2>1, <2>2, MatchpointAssumption DEF ProgramRestored
<1>2. ASSUME NEW a \in Addrs, RemoveMemory(a) PROVE ProgramRestored'
  <2> SUFFICES ASSUME NEW b \in Addrs
               PROVE  /\ (mem'[b] = "TRAP") <=> (mp_hash'[<<BP_MEMORY, b>>] # Absent)
                      /\ mp_hash'[<<BP_MEMORY, b>>] # "TRAP"
      BY DEF ProgramRestored
  <2>1. mem'[b] = IF b = a /\ mp_hash[<<BP_MEMORY, a>>] # Absent
                  THEN mp_hash[<<BP_MEMORY, a>>] ELSE mem[b]
        BY <1>2 DEF RemoveMemory, TypeOK
  <2>2. mp_hash'[<<BP_MEMORY, b>>] = IF b = a THEN Absent ELSE mp_hash[<<BP_MEMORY, b>>]
        BY <1>2, KeyFacts DEF RemoveMemory, HashDelete, TypeOK
  <2> QED BY <2>1, <2>2, MatchpointAssumption DEF ProgramRestored
<1>3. ASSUME NEW k \in HwKeys, InsertHw(k) \/ RemoveHw(k) PROVE ProgramRestored'
  <2>1. mem' = mem
        BY <1>3 DEF InsertHw, RemoveHw, cpuVars
  <2> QED BY <1>3, <2>1, HwKeepsMemoryKeys DEF ProgramRestored
<1>4. CASE UNCHANGED <<mem, mp_hash>>
      BY <1>4 DEF ProgramRestored
<1>5. \/ \E a \in Addrs : InsertMemory(a) \/ RemoveMemory(a)
      \/ \E k \in HwKeys : InsertHw(k) \/ RemoveHw(k)
      \/ UNCHANGED <<mem, mp_hash>>
      BY DEF Next, InsertRefused, SetDvr, SetDcr, ReadDmr2, WriteDmr2, ReadDmr1, WriteDmr1, ClearDmr2,
             ClearDcr, ReturnWatchpoint, HwpWriteDcr, HwpMark, HwpReadDmr, HwpWriteDmr,
             vars, cpuVars, rspVars, hwpVars
<1> QED BY <1>1, <1>2, <1>3, <1>4, <1>5

\* The program's words are in memory or saved in the hash table, however often
\* GDB repeats its packets (mp_hash_add, rsp-server.c).
THEOREM ProgramIsRestored == Spec => []ProgramRestored
<1>1. Init => ProgramRestored
      BY KeyFacts, MatchpointAssumption DEF Init, ProgramRestored
<1> QED BY <1>1, TypesInit, TypesNext, ProgramNext, PTL DEF Spec

-----------------------------------------------------------------------------
(***************************************************************************)
(* Hardware watchpoints, where the HWP client acts while GDB has none set  *)
(* (hwp_server.c has no lock against the RSP server).  GDB may repeat any  *)
(* packet: the invariant allows a second unit for a key that has one.      *)
(***************************************************************************)

\* The two servers take turns.
ApartInv ==
  /\ rpc = "idle" \/ hpc = "idle"
  /\ hpc # "idle" => \A k \in HwKeys : mp_hash[k] = Absent

\* The units of the HWP client are marked, or about to be, and GDB has none.
OwnedInv ==
  /\ \A w \in owned : w \in hwp_in_use \/ (hpc = "mark" /\ w = hwp)
  /\ hpc = "mark" => hwp \in owned
  /\ hpc = "unmark" => hwp \notin owned
  /\ rpc # "idle" => req.wp \notin owned
  /\ \A k \in HwKeys : mp_hash[k] \notin owned
  /\ ClientUnitsKept

\* The units of GDB are marked, each serves one key, and the one under way
\* serves no other.  A key that has a unit is one GDB was told of.
UnitInv ==
  /\ \A k \in HwKeys : mp_hash[k] # Absent => mp_hash[k] \in hwp_in_use
  /\ rpc # "idle" => req.wp \in hwp_in_use
  /\ \A k, l \in HwKeys : mp_hash[k] = mp_hash[l] /\ mp_hash[k] # Absent => k = l
  /\ Inserting => \A k \in HwKeys : mp_hash[k] = req.wp => k = req.key /\ k \notin wanted
  /\ Inserting => mp_hash[req.key] = req.wp \/ req.key \in wanted
  /\ Clearing => \A k \in HwKeys : mp_hash[k] # req.wp
  /\ \A k \in HwKeys : mp_hash[k] # Absent => k \in wanted \/ (Inserting /\ k = req.key)

\* How far the registers of the unit under way are written.
StageInv ==
  /\ Inserting /\ rpc # "set_dvr" => dvr[req.wp] = req.key[2]
  /\ rpc \in {"read_dmr2", "write_dmr2", "read_dmr1", "write_dmr1"} => dcr[req.wp] = req.key[1]
  /\ rpc \in {"read_dmr1", "write_dmr1"} => req.wp \in wgb
  /\ rpc \in {"write_dmr2", "clear_write"} => regdata = wgb
  /\ rpc = "write_dmr1" => regdata = chain

\* Everything the servers rely on.
ShareInv ==
  /\ TypeOK
  /\ ThreadTypes
  /\ ApartInv
  /\ OwnedInv
  /\ UnitInv
  /\ StageInv
  /\ WantedArmed

\* While the HWP client acts, GDB was promised no watchpoint.
LEMMA NothingWanted ==
  ASSUME TypeOK, WantedArmed, \A k \in HwKeys : mp_hash[k] = Absent
  PROVE  \A k \in wanted : k[1] = BP_MEMORY
BY KeyFacts, MatchpointAssumption DEF TypeOK, WantedArmed, Wps

\* 'Z0' and 'z0' touch no watchpoint unit.
LEMMA ShareMemory ==
  ASSUME ShareInv, NEW a \in Addrs, InsertMemory(a) \/ RemoveMemory(a), TypeOK', ThreadTypes'
  PROVE  ShareInv'
<1>1. /\ UNCHANGED <<dvr, dcr, chain, wgb, rpc, req, regdata, hpc, hwp, hval, owned, hwp_in_use>>
      /\ rpc = "idle"
      BY DEF InsertMemory, RemoveMemory, hwpVars
<1>2. \A k \in HwKeys : mp_hash'[k] = mp_hash[k]
      BY MemoryKeepsHwKeys DEF ShareInv
<1>3. ApartInv' /\ OwnedInv'
      BY <1>1, <1>2 DEF ShareInv, ApartInv, OwnedInv, ClientUnitsKept
<1>4. UnitInv' /\ StageInv'
  <2>1. \A k \in HwKeys : k \in wanted' <=> k \in wanted
        BY KeyFacts DEF InsertMemory, RemoveMemory
  <2> QED BY <1>1, <1>2, <2>1 DEF ShareInv, UnitInv, StageInv, Inserting, Clearing
<1>5. WantedArmed'
  <2> SUFFICES ASSUME NEW k \in wanted'
               PROVE  IF k[1] = BP_MEMORY THEN mem'[k[2]] = "TRAP"
                      ELSE /\ mp_hash'[k] \in Wps
                           /\ dvr'[mp_hash'[k]] = k[2]
                           /\ dcr'[mp_hash'[k]] = k[1]
                           /\ mp_hash'[k] \in wgb' \ chain'
      BY DEF WantedArmed
  <2>1. CASE k \in HwKeys
    <3>1. k \in wanted /\ k[1] # BP_MEMORY
          BY <2>1, KeyFacts DEF InsertMemory, RemoveMemory
    <3> QED BY <1>1, <1>2, <2>1, <3>1 DEF ShareInv, WantedArmed
  <2>2. CASE k \notin HwKeys
    <3>1. k \in Keys
          BY DEF TypeOK
    <3>2. k[1] = BP_MEMORY /\ k[2] \in Addrs /\ k = <<BP_MEMORY, k[2]>>
          BY <2>2, <3>1, KeyFacts
    <3>3. CASE InsertMemory(a)
          BY <3>2, <3>3 DEF InsertMemory, ShareInv, WantedArmed, TypeOK
    <3>4. CASE RemoveMemory(a)
          BY <3>2, <3>4 DEF RemoveMemory, ShareInv, WantedArmed, TypeOK
    <3> QED BY <3>2, <3>3, <3>4
  <2> QED BY <2>1, <2>2
<1> QED BY <1>3, <1>4, <1>5 DEF ShareInv

\* 'Z1'..'Z4' take a unit that neither GDB nor the HWP client uses.
LEMMA ShareInsert ==
  ASSUME ShareInv, ~HwpAnyTime, NEW k \in HwKeys, GdbTurn, InsertHw(k), TypeOK', ThreadTypes'
  PROVE  ShareInv'
<1>1. PICK w \in Wps \ hwp_in_use : /\ hwp_in_use' = hwp_in_use \cup {w}
                                    /\ HashAdd(k, w)
                                    /\ req' = [key |-> k, wp |-> w]
      BY DEF InsertHw, FirstFree
<1>2. /\ rpc = "idle" /\ hpc = "idle" /\ rpc' = "set_dvr" /\ req'.key = k /\ req'.wp = w
      /\ UNCHANGED <<mem, dvr, dcr, chain, wgb, regdata, wanted, hpc, hwp, hval, owned>>
      BY <1>1 DEF InsertHw, GdbTurn, cpuVars, hwpVars
<1>3. \A l \in Keys : mp_hash'[l] = IF l = k /\ mp_hash[k] = Absent THEN w ELSE mp_hash[l]
      BY <1>1, HashAddTypes, KeyFacts DEF ShareInv
<1>4. w # Absent /\ w \notin owned /\ HwKeys \subseteq Keys
      BY <1>2, KeyFacts, MatchpointAssumption DEF ShareInv, OwnedInv, Wps
<1>5. \A l \in HwKeys : mp_hash[l] # w
      BY <1>4 DEF ShareInv, UnitInv
<1>6. ApartInv' /\ OwnedInv'
  <2>1. \A l \in HwKeys : mp_hash'[l] \notin owned
        BY <1>3, <1>4 DEF ShareInv, OwnedInv
  <2>2. \A v \in owned : v \in hwp_in_use'
        BY <1>1, <1>2 DEF ShareInv, OwnedInv
  <2>3. ApartInv' /\ ClientUnitsKept'
        BY <1>2 DEF ShareInv, ApartInv, OwnedInv, ClientUnitsKept
  <2> QED BY <1>2, <1>4, <2>1, <2>2, <2>3 DEF OwnedInv
<1>7. k \in wanted => mp_hash[k] # Absent
      BY <1>4, KeyFacts, MatchpointAssumption DEF ShareInv, WantedArmed, Wps
<1>8. UnitInv'
      BY <1>1, <1>2, <1>3, <1>4, <1>5, <1>7 DEF ShareInv, UnitInv, Inserting, Clearing
<1>9. StageInv'
      BY <1>2 DEF StageInv
<1>10. \A l \in wanted \cap HwKeys : mp_hash'[l] = mp_hash[l]
      BY <1>3, <1>4, <1>7
<1>11. WantedArmed'
      BY <1>2, <1>10, KeyFacts DEF ShareInv, TypeOK, WantedArmed
<1> QED BY <1>6, <1>8, <1>9, <1>11 DEF ShareInv

\* 'z1'..'z4' start to give back the unit of their key.
LEMMA ShareRemove ==
  ASSUME ShareInv, ~HwpAnyTime, NEW k \in HwKeys, GdbTurn, RemoveHw(k), TypeOK', ThreadTypes'
  PROVE  ShareInv'
<1>1. /\ rpc = "idle" /\ hpc = "idle" /\ wanted' = wanted \ {k}
      /\ UNCHANGED <<mem, dvr, dcr, chain, wgb, regdata, hpc, hwp, hval, owned, hwp_in_use>>
      BY DEF RemoveHw, GdbTurn, cpuVars, hwpVars
<1>2. \A l \in HwKeys : mp_hash'[l] = IF l = k THEN Absent ELSE mp_hash[l]
      BY HashDeleteTypes, KeyFacts DEF RemoveHw, ShareInv
<1>3. Absent \notin Wps
      BY MatchpointAssumption DEF Wps
<1>4. WantedArmed'
      BY <1>1, <1>2, KeyFacts DEF ShareInv, TypeOK, WantedArmed
<1>5. CASE mp_hash[k] = Absent
  <2>1. UNCHANGED <<rpc, req>> /\ \A l \in HwKeys : mp_hash'[l] = mp_hash[l]
        BY <1>2, <1>5 DEF RemoveHw
  <2>2. ApartInv' /\ OwnedInv'
        BY <1>1, <2>1 DEF ShareInv, ApartInv, OwnedInv, ClientUnitsKept
  <2>3. UnitInv' /\ StageInv'
        BY <1>1, <1>5, <2>1 DEF ShareInv, UnitInv, StageInv, Inserting, Clearing
  <2> QED BY <1>4, <2>2, <2>3 DEF ShareInv
<1>6. CASE mp_hash[k] # Absent
  <2>1. rpc' = "clear_read" /\ req'.key = k /\ req'.wp = mp_hash[k] /\ mp_hash[k] \in Wps
        BY <1>6, KeyFacts DEF RemoveHw, ShareInv, TypeOK
  <2>2. \A l \in HwKeys : mp_hash'[l] \notin owned
        BY <1>2, <1>3 DEF ShareInv, OwnedInv, TypeOK
  <2>3. ApartInv' /\ OwnedInv'
        BY <1>1, <2>1, <2>2 DEF ShareInv, ApartInv, OwnedInv, ClientUnitsKept
  <2>4. UnitInv'
        BY <1>1, <1>2, <1>3, <1>6, <2>1 DEF ShareInv, UnitInv, Inserting, Clearing
  <2>5. StageInv'
        BY <2>1 DEF StageInv, Inserting
  <2> QED BY <1>4, <2>3, <2>4, <2>5 DEF ShareInv
<1> QED BY <1>5, <1>6

\* The register writes of an insertion change the unit under way and no other.
LEMMA ShareInserting ==
  ASSUME ShareInv, SetDvr \/ SetDcr \/ ReadDmr2 \/ WriteDmr2 \/ ReadDmr1 \/ WriteDmr1,
         TypeOK', ThreadTypes'
  PROVE  ShareInv'
<1> USE DEF SetDvr, SetDcr, ReadDmr2, WriteDmr2, ReadDmr1, WriteDmr1
<1>1. /\ UNCHANGED <<mem, mp_hash, hpc, hwp, hval, owned, hwp_in_use>>
      /\ Inserting \/ rpc = "clear_read"
      /\ hpc = "idle"
      BY DEF cpuVars, hwpVars, ShareInv, ApartInv, Inserting
<1>2. /\ req.wp \in Wps /\ req.key \in HwKeys /\ req.wp \notin owned /\ req.wp # Absent
      /\ \A k \in wanted \cap HwKeys : mp_hash[k] # req.wp
      BY <1>1, MatchpointAssumption
         DEF ShareInv, ThreadTypes, OwnedInv, UnitInv, Inserting, Clearing, Wps
<1>3. CASE SetDvr
  <2>1. ApartInv' /\ OwnedInv'
        BY <1>1, <1>2, <1>3 DEF ShareInv, ApartInv, OwnedInv, ClientUnitsKept
  <2>2. UnitInv' /\ StageInv'
        BY <1>1, <1>2, <1>3 DEF ShareInv, UnitInv, StageInv, Inserting, Clearing, TypeOK
  <2>3. WantedArmed'
        BY <1>1, <1>2, <1>3, KeyFacts DEF ShareInv, WantedArmed, TypeOK
  <2> QED BY <2>1, <2>2, <2>3 DEF ShareInv
<1>4. CASE SetDcr
  <2>1. ApartInv' /\ OwnedInv'
        BY <1>1, <1>2, <1>4 DEF ShareInv, ApartInv, OwnedInv, ClientUnitsKept, TypeOK
  <2>2. UnitInv' /\ StageInv'
        BY <1>1, <1>2, <1>4 DEF ShareInv, UnitInv, StageInv, Inserting, Clearing, TypeOK
  <2>3. WantedArmed'
        BY <1>1, <1>2, <1>4, KeyFacts DEF ShareInv, WantedArmed, TypeOK
  <2> QED BY <2>1, <2>2, <2>3 DEF ShareInv
<1>5. CASE ReadDmr2 \/ WriteDmr2 \/ ReadDmr1
  <2>1. ApartInv' /\ OwnedInv'
        BY <1>1, <1>2, <1>5 DEF ShareInv, ApartInv, OwnedInv, ClientUnitsKept, cpuVars
  <2>2. UnitInv' /\ StageInv'
        BY <1>1, <1>2, <1>5 DEF ShareInv, UnitInv, StageInv, Inserting, Clearing, cpuVars
  <2>3. WantedArmed'
        BY <1>1, <1>2, <1>5 DEF ShareInv, WantedArmed, StageInv, cpuVars
  <2> QED BY <2>1, <2>2, <2>3 DEF ShareInv
<1>6. CASE WriteDmr1
  <2>1. ApartInv' /\ OwnedInv'
        BY <1>1, <1>2, <1>6 DEF ShareInv, ApartInv, OwnedInv, ClientUnitsKept
  <2>2. UnitInv' /\ StageInv'
        BY <1>1, <1>2, <1>6 DEF ShareInv, UnitInv, StageInv, Inserting, Clearing
  <2>3. WantedArmed'
    <3>1. /\ chain' = chain \ {req.wp} /\ UNCHANGED <<dvr, dcr, wgb>>
          /\ wanted' = wanted \cup {req.key}
          /\ req.wp \in wgb /\ dvr[req.wp] = req.key[2] /\ dcr[req.wp] = req.key[1]
          BY <1>1, <1>6 DEF ShareInv, StageInv, Inserting
    <3>2. mp_hash[req.key] = req.wp \/ req.key \in wanted
          BY <1>6 DEF ShareInv, UnitInv, Inserting
    <3> QED BY <1>1, <1>2, <3>1, <3>2, KeyFacts DEF ShareInv, WantedArmed
  <2> QED BY <2>1, <2>2, <2>3 DEF ShareInv
<1> QED BY <1>3, <1>4, <1>5, <1>6

\* Giving a unit back disables it first and unmarks it last.
LEMMA ShareClearing ==
  ASSUME ShareInv, ClearDmr2 \/ ClearDcr \/ ReturnWatchpoint, TypeOK', ThreadTypes'
  PROVE  ShareInv'
<1> USE DEF ClearDmr2, ClearDcr, ReturnWatchpoint
<1>1. /\ UNCHANGED <<mem, mp_hash, wanted, hpc, hwp, hval, owned>>
      /\ Clearing /\ hpc = "idle"
      BY DEF cpuVars, hwpVars, ShareInv, ApartInv, Clearing
<1>2. /\ req.wp \in Wps /\ req.wp \notin owned
      /\ \A k \in HwKeys : mp_hash[k] # req.wp
      BY <1>1 DEF ShareInv, ThreadTypes, OwnedInv, UnitInv, Clearing
<1>3. ApartInv' /\ OwnedInv'
      BY <1>1, <1>2 DEF ShareInv, ApartInv, OwnedInv, ClientUnitsKept, TypeOK, cpuVars
<1>4. UnitInv' /\ StageInv'
      BY <1>1, <1>2 DEF ShareInv, UnitInv, StageInv, Inserting, Clearing, cpuVars
<1>5. WantedArmed'
  <2>1. \A k \in wanted : k[1] # BP_MEMORY => k \in HwKeys
        BY KeyFacts DEF ShareInv, TypeOK
  <2> QED BY <1>1, <1>2, <2>1 DEF ShareInv, WantedArmed, StageInv, TypeOK, cpuVars
<1> QED BY <1>3, <1>4, <1>5 DEF ShareInv

\* The HWP client acts on its own units while GDB has none.
LEMMA ShareHwp ==
  ASSUME ShareInv, ~HwpAnyTime, TypeOK', ThreadTypes',
         \/ \E w \in Wps, on \in BOOLEAN : HwpTurn /\ HwpWriteDcr(w, on)
         \/ HwpMark \/ (HwpTurn /\ HwpReadDmr) \/ HwpWriteDmr
  PROVE  ShareInv'
<1> USE DEF HwpWriteDcr, HwpMark, HwpReadDmr, HwpWriteDmr
<1>1. /\ \A k \in HwKeys : mp_hash[k] = Absent
      /\ rpc = "idle"
      /\ UNCHANGED <<mem, mp_hash, rpc, req, regdata, wanted>>
      BY DEF HwpTurn, GdbTurn, cpuVars, rspVars, ShareInv, ApartInv
<1>2. WantedArmed'
      BY <1>1, NothingWanted DEF ShareInv, WantedArmed
<1>3. ApartInv' /\ UnitInv' /\ StageInv'
      BY <1>1 DEF ShareInv, ApartInv, UnitInv, StageInv, Inserting, Clearing
<1>4. Absent \notin Wps /\ owned' \subseteq Wps
      BY MatchpointAssumption DEF Wps, TypeOK
<1>5. \A k \in HwKeys : mp_hash'[k] \notin owned'
      BY <1>1, <1>4
<1>6. OwnedInv'
  <2>1. ASSUME NEW w \in Wps, NEW on \in BOOLEAN, HwpWriteDcr(w, on) PROVE OwnedInv'
        BY <1>1, <1>5, <2>1 DEF ShareInv, OwnedInv, ClientUnitsKept, TypeOK
  <2>2. CASE HwpMark
        BY <1>1, <1>5, <2>2 DEF ShareInv, OwnedInv, ClientUnitsKept, cpuVars
  <2>3. CASE HwpReadDmr \/ HwpWriteDmr
        BY <1>1, <1>5, <2>3 DEF ShareInv, OwnedInv, ClientUnitsKept, cpuVars
  <2> QED BY <2>1, <2>2, <2>3
<1> QED BY <1>2, <1>3, <1>6 DEF ShareInv

\* Every step keeps what the two servers rely on.
LEMMA ShareNext == ASSUME ~HwpAnyTime PROVE ShareInv /\ [Next]_vars => ShareInv'
<1> SUFFICES ASSUME ShareInv, [Next]_vars PROVE ShareInv'
    OBVIOUS
<1>1. TypeOK' /\ ThreadTypes'
      BY TypesNext DEF ShareInv
<1>2. CASE UNCHANGED vars
  <2>1. ApartInv' /\ OwnedInv' /\ WantedArmed'
        BY <1>2 DEF vars, cpuVars, rspVars, hwpVars, ShareInv, ApartInv, OwnedInv, WantedArmed, ClientUnitsKept
  <2>2. UnitInv' /\ StageInv'
        BY <1>2 DEF vars, cpuVars, rspVars, hwpVars, ShareInv, UnitInv, StageInv, Inserting, Clearing
  <2> QED BY <1>1, <2>1, <2>2 DEF ShareInv
<1>3. ASSUME NEW k \in HwKeys, InsertRefused(k) PROVE ShareInv'
      BY <1>2, <1>3 DEF InsertRefused
<1> QED BY <1>1, <1>2, <1>3, ShareMemory, ShareInsert, ShareRemove, ShareInserting, ShareClearing, ShareHwp
        DEF Next

\* When the servers start no unit is in use.
LEMMA ShareInit == Init => ShareInv
<1> SUFFICES ASSUME Init PROVE ShareInv
    OBVIOUS
<1>1. ApartInv /\ OwnedInv /\ WantedArmed
      BY DEF Init, ApartInv, OwnedInv, WantedArmed, ClientUnitsKept
<1>2. UnitInv /\ StageInv
      BY KeyFacts DEF Init, UnitInv, StageInv, Inserting, Clearing
<1> QED BY <1>1, <1>2, TypesInit DEF ShareInv

\* Every watchpoint GDB was told is inserted stops the CPU, even when packets
\* are repeated, as long as the HWP client keeps out of the way
\* (rsp_insert_matchpoint, rsp-server.c).
THEOREM WantedStayArmed == ASSUME ~HwpAnyTime PROVE Spec => []WantedArmed
<1>1. ShareInv => WantedArmed
      BY DEF ShareInv
<1> QED BY <1>1, ShareInit, ShareNext, PTL DEF Spec

\* GDB's insertions never take over a unit of the HWP client, even when
\* packets are repeated (hwp_get_available_watchpoint, hwp_server.c).
THEOREM ClientUnitsStay == ASSUME ~HwpAnyTime PROVE Spec => []ClientUnitsKept
<1>1. ShareInv => ClientUnitsKept
      BY DEF ShareInv, OwnedInv
<1> QED BY <1>1, ShareInit, ShareNext, PTL DEF Spec

-----------------------------------------------------------------------------
(***************************************************************************)
(* The marks.  A repeated 'Z1'..'Z4' takes a second unit, which            *)
(* mp_hash_add then does not record: it stays marked, and armed, for ever. *)
(***************************************************************************)

\* Every mark stands for an entry, for the HWP client, for a stray unit, or
\* for a unit on its way back.
MarkInv ==
  /\ Inserting => mp_hash[req.key] = req.wp \/ req.wp \in stray
  /\ \A w \in hwp_in_use :
       \/ \E k \in HwKeys : mp_hash[k] = w
       \/ w \in owned \cup stray
       \/ Clearing /\ w = req.wp
       \/ hpc = "unmark" /\ w = hwp

\* A stray unit is marked, nobody uses it, and it stays set up as it was for
\* GDB, so that the HWP client leaves it alone.
StrayInv ==
  /\ stray \subseteq hwp_in_use
  /\ stray \cap owned = {}
  /\ \A k \in HwKeys : mp_hash[k] \notin stray
  /\ Clearing => req.wp \notin stray
  /\ hpc \in {"mark", "unmark"} => hwp \notin stray
  /\ \A w \in stray : dcr[w] \in HwTypes \/ (rpc \in {"set_dvr", "set_dcr"} /\ w = req.wp)

\* Every step keeps the marks accounted for.
LEMMA MarkNext ==
  ASSUME ~HwpAnyTime
  PROVE  ShareInv /\ MarkInv /\ StrayInv /\ [Next]_vars => MarkInv' /\ StrayInv'
<1> SUFFICES ASSUME ShareInv, MarkInv, StrayInv, [Next]_vars PROVE MarkInv' /\ StrayInv'
    OBVIOUS
<1> USE DEF cpuVars, rspVars, hwpVars
<1>1. ASSUME NEW a \in Addrs, InsertMemory(a) \/ RemoveMemory(a) PROVE MarkInv' /\ StrayInv'
  <2>1. /\ UNCHANGED <<rpc, req, hpc, hwp, owned, stray, dcr, hwp_in_use>> /\ rpc = "idle"
        /\ \A k \in HwKeys : mp_hash'[k] = mp_hash[k]
        BY <1>1, MemoryKeepsHwKeys DEF InsertMemory, RemoveMemory, ShareInv
  <2> QED BY <2>1 DEF MarkInv, StrayInv, Inserting, Clearing
<1>2. ASSUME NEW k \in HwKeys, GdbTurn, InsertHw(k) PROVE MarkInv' /\ StrayInv'
  <2>1. PICK w \in Wps \ hwp_in_use :
          /\ hwp_in_use' = hwp_in_use \cup {w}
          /\ HashAdd(k, w)
          /\ req' = [key |-> k, wp |-> w]
          /\ stray' = IF mp_hash[k] = Absent THEN stray ELSE stray \cup {w}
        BY <1>2 DEF InsertHw, FirstFree
  <2>2. /\ rpc = "idle" /\ hpc = "idle" /\ rpc' = "set_dvr" /\ req'.key = k /\ req'.wp = w
        /\ UNCHANGED <<hpc, hwp, owned, dcr>>
        BY <1>2, <2>1, KeyFacts DEF InsertHw, GdbTurn
  <2>3. hwp_in_use \subseteq Wps /\ Absent \notin Wps
        BY MatchpointAssumption DEF ShareInv, TypeOK, Wps
  <2>4. \A l \in HwKeys : mp_hash'[l] = IF l = k /\ mp_hash[k] = Absent THEN w ELSE mp_hash[l]
        BY <2>1, HashAddTypes, KeyFacts DEF ShareInv
  <2>5. \A l \in HwKeys : mp_hash[l] \in hwp_in_use => mp_hash'[l] = mp_hash[l]
        BY <2>3, <2>4
  <2>6. ASSUME NEW v \in hwp_in_use'
        PROVE  (\E l \in HwKeys : mp_hash'[l] = v) \/ v \in owned \cup stray'
    <3>1. CASE v = w
          BY <2>1, <2>4, <3>1
    <3>2. CASE v # w
      <4>1. v \in hwp_in_use
            BY <2>1, <2>6, <3>2
      <4> QED BY <2>1, <2>2, <2>5, <4>1 DEF MarkInv, Clearing
    <3> QED BY <3>1, <3>2
  <2>7. MarkInv'
        BY <2>1, <2>2, <2>4, <2>6 DEF MarkInv
  <2>8. w \notin owned /\ \A l \in HwKeys : mp_hash[l] # w
        BY <2>1, <2>2, <2>3 DEF ShareInv, OwnedInv, UnitInv
  <2>9. \A l \in HwKeys : mp_hash'[l] \notin stray'
    <3>1. w \notin stray
          BY <2>1 DEF StrayInv
    <3> QED BY <2>1, <2>4, <2>8, <3>1 DEF StrayInv
  <2>10. StrayInv'
        BY <2>1, <2>2, <2>8, <2>9 DEF StrayInv, Clearing
  <2> QED BY <2>7, <2>10
<1>3. ASSUME NEW k \in HwKeys, GdbTurn, RemoveHw(k) PROVE MarkInv' /\ StrayInv'
  <2>1. /\ rpc = "idle" /\ hpc = "idle" /\ UNCHANGED <<hpc, hwp, owned, stray, dcr, hwp_in_use>>
        /\ IF mp_hash[k] = Absent THEN UNCHANGED <<rpc, req>>
           ELSE rpc' = "clear_read" /\ req'.wp = mp_hash[k]
        BY <1>3 DEF RemoveHw, GdbTurn
  <2>2. \A l \in HwKeys : mp_hash'[l] = IF l = k THEN Absent ELSE mp_hash[l]
        BY <1>3, HashDeleteTypes, KeyFacts DEF RemoveHw, ShareInv
  <2>3. hwp_in_use \subseteq Wps /\ Absent \notin Wps
        BY MatchpointAssumption DEF ShareInv, TypeOK, Wps
  <2>4. ~Inserting'
        BY <2>1 DEF Inserting
  <2>5. ASSUME NEW v \in hwp_in_use
        PROVE  (\E l \in HwKeys : mp_hash'[l] = v) \/ v \in owned \cup stray \/ (Clearing' /\ v = req'.wp)
    <3>1. CASE v = mp_hash[k]
          BY <2>1, <2>3, <3>1 DEF Clearing
    <3>2. CASE v # mp_hash[k]
          BY <2>1, <2>2, <3>2 DEF MarkInv, Clearing
    <3> QED BY <3>1, <3>2
  <2>6. MarkInv'
        BY <2>1, <2>4, <2>5 DEF MarkInv
  <2>7. \A l \in HwKeys : mp_hash'[l] \notin stray
        BY <2>2, <2>3 DEF StrayInv
  <2>8. StrayInv'
        BY <2>1, <2>7 DEF StrayInv, Clearing
  <2> QED BY <2>6, <2>8
<1>4. CASE SetDvr \/ SetDcr \/ ReadDmr2 \/ WriteDmr2 \/ ReadDmr1 \/ WriteDmr1 \/ ClearDmr2 \/ ClearDcr
  <2>1. UNCHANGED <<mp_hash, owned, stray, hpc, hwp, hwp_in_use>>
        BY <1>4 DEF SetDvr, SetDcr, ReadDmr2, WriteDmr2, ReadDmr1, WriteDmr1, ClearDmr2, ClearDcr
  <2>2. /\ Inserting' => Inserting /\ UNCHANGED req
        /\ Clearing => Clearing' /\ UNCHANGED req
        /\ Clearing' => Clearing /\ UNCHANGED req
        BY <1>4 DEF SetDvr, SetDcr, ReadDmr2, WriteDmr2, ReadDmr1, WriteDmr1, ClearDmr2, ClearDcr,
                    Inserting, Clearing
  <2>3. MarkInv'
        BY <2>1, <2>2 DEF MarkInv
  <2>4. ASSUME NEW w \in stray
        PROVE  dcr'[w] \in HwTypes \/ (rpc' \in {"set_dvr", "set_dcr"} /\ w = req'.wp)
    <3>1. w \in Wps
          BY DEF ShareInv, TypeOK
    <3>2. CASE SetDcr
      <4>1. req.key[1] \in HwTypes
            BY <3>2, KeyFacts DEF SetDcr, ShareInv, ThreadTypes
      <4> QED BY <3>1, <3>2, <4>1 DEF SetDcr, ShareInv, TypeOK, StrayInv
    <3>3. CASE ClearDcr
          BY <3>1, <3>3 DEF ClearDcr, ShareInv, TypeOK, StrayInv, Clearing
    <3>4. CASE SetDvr
          BY <3>4 DEF SetDvr, StrayInv
    <3>5. CASE ReadDmr2 \/ WriteDmr2 \/ ReadDmr1 \/ WriteDmr1 \/ ClearDmr2
          BY <3>5 DEF ReadDmr2, WriteDmr2, ReadDmr1, WriteDmr1, ClearDmr2, StrayInv
    <3> QED BY <1>4, <3>2, <3>3, <3>4, <3>5
  <2>5. StrayInv'
        BY <2>1, <2>2, <2>4 DEF StrayInv
  <2> QED BY <2>3, <2>5
<1>5. CASE ReturnWatchpoint
      BY <1>5 DEF ReturnWatchpoint, MarkInv, StrayInv, Inserting, Clearing
<1>6. ASSUME NEW w \in Wps, NEW on \in BOOLEAN, HwpTurn, HwpWriteDcr(w, on)
      PROVE  MarkInv' /\ StrayInv'
  <2>1. rpc = "idle" /\ hpc = "idle" /\ UNCHANGED <<rpc, req, mp_hash, stray, hwp_in_use>>
        BY <1>6 DEF HwpTurn, GdbTurn, HwpWriteDcr
  <2>2. MarkInv'
        BY <1>6, <2>1 DEF HwpWriteDcr, MarkInv, Inserting, Clearing
  <2>3. w \notin stray
        BY <1>6, <2>1, MatchpointAssumption DEF HwpWriteDcr, StrayInv
  <2>4. StrayInv'
        BY <1>6, <2>1, <2>3 DEF HwpWriteDcr, StrayInv, Clearing, ShareInv, TypeOK
  <2> QED BY <2>2, <2>4
<1>7. CASE HwpMark
  <2>1. hpc = "mark" => hwp \in owned'
        BY <1>7 DEF HwpMark, ShareInv, OwnedInv
  <2>2. MarkInv'
        BY <1>7, <2>1 DEF HwpMark, MarkInv, Inserting, Clearing
  <2>3. StrayInv'
        BY <1>7 DEF HwpMark, StrayInv, Clearing
  <2> QED BY <2>2, <2>3
<1>8. CASE HwpReadDmr \/ HwpWriteDmr
      BY <1>8 DEF HwpReadDmr, HwpWriteDmr, MarkInv, StrayInv, Inserting, Clearing
<1>9. CASE UNCHANGED vars
      BY <1>9 DEF vars, MarkInv, StrayInv, Inserting, Clearing
<1>10. ASSUME NEW k \in HwKeys, InsertRefused(k) PROVE MarkInv' /\ StrayInv'
      BY <1>9, <1>10 DEF InsertRefused
<1> QED BY <1>1, <1>2, <1>3, <1>4, <1>5, <1>6, <1>7, <1>8, <1>9, <1>10 DEF Next

\* However GDB repeats its packets, a unit is marked as taken exactly when GDB or
\* the HWP client uses it or a repeated insertion took it, as long as the HWP
\* client keeps out of the way (hwp_get_available_watchpoint,
\* hwp_return_watchpoint, hwp_server.c).
THEOREM UnitsAreAccounted ==
  ASSUME ~HwpAnyTime
  PROVE  Spec => []UnitsAccounted
<1>1. Init => MarkInv /\ StrayInv
      BY MatchpointAssumption DEF Init, MarkInv, StrayInv, Inserting, Clearing, Wps
<1>2. ShareInv /\ MarkInv /\ StrayInv => UnitsAccounted
  <2> SUFFICES ASSUME ShareInv, MarkInv, StrayInv, rpc = "idle", hpc = "idle"
               PROVE  hwp_in_use = UsedUnits \cup stray /\ UsedUnits \cap stray = {}
      BY DEF UnitsAccounted
  <2>1. hwp_in_use \subseteq Wps /\ Absent \notin Wps
        BY MatchpointAssumption DEF ShareInv, TypeOK, Wps
  <2>2. ASSUME NEW w \in hwp_in_use
        PROVE  w \in owned \cup stray \/ \E k \in HwKeys : mp_hash[k] = w /\ mp_hash[k] # Absent
        BY <2>1 DEF MarkInv, Clearing
  <2>3. /\ \A w \in owned : w \in hwp_in_use
        /\ \A k \in HwKeys : mp_hash[k] # Absent => mp_hash[k] \in hwp_in_use
        BY DEF ShareInv, OwnedInv, UnitInv
  <2> QED BY <2>2, <2>3 DEF UsedUnits, StrayInv
<1> QED BY <1>1, <1>2, ShareInit, ShareNext, MarkNext, PTL DEF Spec

==============================================================================
