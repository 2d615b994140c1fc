--------------------------------- MODULE AdvDbg ---------------------------------
(***************************************************************************)
(* adv_dbg_commands.c: transactions on the Advanced Debug Interface.  The  *)
(* C functions that send one scan are operators on the pair (hardware,     *)
(* selection cache); the two burst functions are the actions below, word   *)
(* by word, with their retry labels as values of pc.                       *)
(***************************************************************************)
EXTENDS DbgAccess

adbg_select_module(s, chain) ==
    IF s.sel.current_chain = chain THEN s
    ELSE [ hw  |-> Scan(s.hw, [cmd |-> "select", module |-> chain]),
           sel |-> [s.sel EXCEPT !.current_chain = chain, !.desired_chain = chain] ]

\* The cable fails in the selection of a module, or in the scan p that s is
\* the outcome of: the unit may be left in any state a torn scan can leave,
\* the chain and the register are noted all the same, the call fails.
SelectLost(chain) ==
    /\ sel.current_chain # chain /\ Fault("select")
    /\ hw' \in ScanTorn(hw, [cmd |-> "select", module |-> chain])
    /\ sel' = adbg_select_module(Now, chain).sel
    /\ Return("cable")

ScanLost(kind, s, h, p) ==
    /\ Fault(kind)
    /\ hw' \in ScanTorn(h, p) /\ sel' = s.sel
    /\ Return("cable")

adbg_select_ctrl_reg(s) ==
    LET t == adbg_select_module(s, s.sel.desired_chain)
        m == t.sel.current_chain
    IN  IF m \in t.sel.current_reg_idx THEN t
        ELSE retry_ok([t EXCEPT !.hw = Scan(t.hw, [cmd |-> "regselect"]),
                                !.sel.current_reg_idx = @ \cup {m}])

adbg_ctrl_write(s, data) ==
    LET t == adbg_select_module(s, s.sel.desired_chain)
    IN  retry_ok([t EXCEPT !.hw = Scan(t.hw, [cmd |-> "regwrite", data |-> data]),
                           !.sel.current_reg_idx = @ \cup {t.sel.current_chain}])

adbg_ctrl_read(s) ==
    LET t == adbg_select_ctrl_reg(s)
    IN  retry_ok([t EXCEPT !.hw = Scan(t.hw, Nop)])

BurstBits(op, addr, len) == [cmd |-> "burst", op |-> op, addr |-> addr, len |-> len % 65536]

adbg_burst_command(s, op, addr, len) ==
    LET t == adbg_select_module(s, s.sel.desired_chain)
    IN  retry_ok([t EXCEPT !.hw = Scan(t.hw, BurstBits(op, addr, len))])

\* Mutant of SerialBits: no stop bit.
SerialUnstopped(topbit) == [cmd |-> "serial", last |-> topbit]

(* The one burst of adbg_jsp_transact as built with OPTIMIZE_JSP_FOR_USB.    *)
(* Its last bit is the eighth byte's top bit; a stop bit follows it when it  *)
(* is a one.                                                                 *)
SerialBits(topbit) ==
    LET stopbit == topbit
    IN  [cmd |-> "serial", last |-> IF stopbit = 1 THEN 0 ELSE topbit]

adbg_jsp_transact(s, topbit) == [s EXCEPT !.hw = Scan(s.hw, SerialBits(topbit))]

\* After BSCAN's extra clock the IR has been through BYPASS and back.
BscanKludge(s) ==
    IF ~ setup.bscan THEN s
    ELSE [ hw  |-> tap_enable_debug_module(tap_set_ir(s.hw, "BYPASS")),
           sel |-> [s.sel EXCEPT !.current_chain = NoChain] ]

-----------------------------------------------------------------------------
RetryFull == pc' = "command" /\ v' = [v EXCEPT !.i = 0, !.addr = call.start]

\* Mutant of RetryPartial: the address is not moved along with the index.
RetryPartialFromStart ==
    pc' = "command" /\ v' = [v EXCEPT !.i = v.j, !.addr = call.start]

RetryPartial ==
    pc' = "command" /\ v' = [v EXCEPT !.i = v.j, !.addr = call.start + v.j]

\* dbg_api.c's first step on the advanced hardware.
Select ==
    /\ setup.adv /\ pc = "select" /\ UNCHANGED <<setup, call, harmed>>
    /\ \/ /\ NoFault
          /\ Become(adbg_select_module(Now, call.chain))
          /\ IF call.op \in {"read", "write"} /\ call.count = 0
               THEN Return("ok")
               ELSE pc' = (IF call.op \in {"read", "write"} THEN "command" ELSE call.op)
                    /\ UNCHANGED v
       \/ SelectLost(call.chain)

\* The burst command, then back to SHIFT_DR for the data.  An error of the
\* command's own scans is returned at once; one of the clocks to SHIFT_DR, in
\* a high-speed build, once a status bit came or before the data is sent.
Command ==
    /\ setup.adv /\ pc = "command" /\ UNCHANGED <<setup, call, harmed>>
    /\ \/ LET s == adbg_burst_command(Now, call.op, v.addr, call.count - v.i)
              t == IF call.op = "read" THEN BscanKludge(s) ELSE s
          IN  /\ NoFault
              /\ Become([t EXCEPT !.hw = tap_set_shift_dr(t.hw)])
              /\ v' = [v EXCEPT !.good = TRUE, !.j = IF setup.hispeed THEN 0 ELSE v.i]
              /\ pc' = IF call.op = "read" THEN "status"
                       ELSE IF v'.j < call.count THEN "word" ELSE "crc"
       \/ SelectLost(sel.desired_chain)
       \/ LET t == adbg_select_module(Now, sel.desired_chain)
          IN  ScanLost("command", retry_ok(t), t.hw,
                       BurstBits(call.op, v.addr, call.count - v.i))
       \/ LET s == adbg_burst_command(Now, call.op, v.addr, call.count - v.i)
          IN  /\ setup.hispeed /\ Fault("cable")
              /\ hw' \in TornShift(s.hw) /\ sel' = s.sel
              /\ Return("cable")

\* Up to MAX_READ_STATUS_WAIT bits are clocked for a one.  Out of a burst
\* the bits are those of whatever register the unit shifts out.
ReadStatus ==
    /\ pc = "status" /\ UNCHANGED <<setup, call, harmed>>
    /\ \/ /\ NoFault /\ pc' = "word" /\ UNCHANGED <<hw, sel, v>>
       \/ /\ IF InBurst(hw, "read") THEN Fault("timeout") ELSE NoFault
          /\ retry_do(Now, IF setup.hispeed THEN RetryFull ELSE RetryPartial,
                           Return("retries"))
       \/ /\ setup.hispeed /\ Fault("cable")
          /\ UNCHANGED <<hw, sel>> /\ Return("cable")

\* In a build that is not high-speed a cable error ends the burst; the word
\* it struck may have gone by or not.
CableError(moved) ==
    /\ ~ setup.hispeed /\ Fault("cable")
    /\ \E h \in {hw, moved} :
          retry_do([Now EXCEPT !.hw = h], RetryPartial, Return("retries"))

ReadError ==
    /\ pc = "word" /\ call.op = "read" /\ UNCHANGED <<setup, call, harmed>>
    /\ CableError(IF InBurst(hw, "read") THEN NextWord(hw) ELSE hw)

WriteError ==
    /\ pc = "word" /\ call.op = "write" /\ UNCHANGED <<setup, call, harmed>>
    /\ CableError(IF InBurst(hw, "write") THEN WordWritten(hw, Data(v.j)) ELSE hw)

ReadWord ==
    /\ pc = "word" /\ call.op = "read" /\ UNCHANGED <<setup, call, sel, harmed>>
    /\ \E w \in {"intact", "garbled", "buserr", "noburst"} :
        /\ CASE w = "intact" -> InBurst(hw, "read") /\ NoFault
             [] w = "garbled" -> InBurst(hw, "read") /\ Fault("word")
             [] w = "buserr" -> InBurst(hw, "read") /\ hw.module = "WISHBONE" /\ Fault("bus")
             [] w = "noburst" -> ~ InBurst(hw, "read") /\ NoFault
        /\ hw' = CASE w = "buserr" -> BusError(hw)
                   [] w = "noburst" -> hw
                   [] OTHER -> NextWord(hw)
        /\ v' = [v EXCEPT !.j = @ + 1,
                          !.good = @ /\ w \in {"intact", "buserr"},
                          !.buf = [k \in DOMAIN @ |->
                                     IF k # v.j THEN @[k]
                                     ELSE IF w = "intact" THEN WordRead(hw) ELSE Bad]]
        /\ pc' = IF v.j + 1 >= call.count THEN "crc"
                 ELSE IF setup.hispeed THEN "word" ELSE "status"

\* Mutant of Ended: the TAP is not taken back to RUN_TEST/IDLE.
EndedInExit == [Now EXCEPT !.hw = Clock(Bits(hw, Nop), 1)]

Ended == [Now EXCEPT !.hw = tap_exit_to_idle(Clock(Bits(hw, Nop), 1))]

\* After a good CRC, only the Wishbone module has an error register to read.
AfterCrc ==
    /\ Become(retry_ok(Ended))
    /\ IF sel.current_chain = "WISHBONE"
         THEN pc' = "errreg" /\ UNCHANGED v
         ELSE Return("ok")

CrcGood == v.good /\ hw.burst.open /\ hw.burst.left = 0

ReadCrc ==
    /\ pc = "crc" /\ call.op = "read" /\ UNCHANGED <<setup, call, faults, harmed>>
    /\ \/ CrcGood /\ AfterCrc
       \/ ~ CrcGood /\ retry_do(Ended, RetryFull, Return("crc"))

Exit == pc' = "exited" /\ UNCHANGED v         \* exit(1)

\* Words go out without waiting; in a build that is not high-speed each is
\* followed by a status bit, which is zero if the bus was not ready for it.
WriteWord ==
    /\ pc = "word" /\ call.op = "write" /\ UNCHANGED <<setup, call, harmed>>
    /\ LET Sent(h, good) ==
              /\ hw' = h /\ UNCHANGED sel
              /\ v' = [v EXCEPT !.j = @ + 1, !.good = @ /\ good]
              /\ pc' = IF v.j + 1 >= call.count THEN "crc" ELSE "word"
           NotReady == retry_do([Now EXCEPT !.hw = IF InBurst(hw, "write") THEN NextWord(hw) ELSE hw],
                                RetryPartial, Exit)
       IN  IF InBurst(hw, "write")
             THEN \/ NoFault /\ Sent(WordWritten(hw, Data(v.j)), TRUE)
                  \/ Fault("word") /\ Sent(WordWritten(hw, Bad), FALSE)
                  \/ hw.module = "WISHBONE" /\ Fault("bus") /\ Sent(BusError(hw), TRUE)
                  \/ ~ setup.hispeed /\ Fault("timeout") /\ NotReady
             ELSE \/ NoFault /\ Sent(hw, FALSE)
                  \/ ~ setup.hispeed /\ NoFault /\ NotReady

\* The match bit; out of a burst it is a bit of some register.
WriteCrc ==
    /\ pc = "crc" /\ call.op = "write" /\ UNCHANGED <<setup, call, faults, harmed>>
    /\ \/ (CrcGood \/ ~ hw.burst.open) /\ AfterCrc
       \/ ~ CrcGood /\ retry_do(Ended, RetryFull, Exit)

\* The error register: clear it and repeat from the failed address, unless
\* there were too many.  Another module's register is read as noise.
ErrorRegister ==
    /\ pc = "errreg" /\ UNCHANGED <<setup, call, faults, harmed>>
    /\ LET s == adbg_ctrl_read(Now)
           true == s.hw.module = "WISHBONE" /\ hw.tap = "idle"
       IN  \E e \in IF true THEN {s.hw.error} ELSE {None} \cup Addrs :
             \/ e = None /\ Become(s) /\ Return("ok")
             \/ /\ e # None /\ v.buserrs >= MAX_BUS_ERRORS
                /\ Become(adbg_ctrl_read(s)) /\ Return("bus")
             \/ /\ e # None /\ v.buserrs < MAX_BUS_ERRORS
                /\ Become(adbg_ctrl_write(adbg_ctrl_read(s), 1))
                /\ v' = [v EXCEPT !.i = e - call.start, !.addr = e, !.buserrs = @ + 1]
                /\ pc' = "command"

\* A cable error in the stream that carries a high-speed burst, or in the scan
\* that ends a burst, stays in err while the code goes on.  Whatever the CRC
\* then says, the call ends with the error: after the error register was read,
\* or after the command of a repeated burst.
CrcLost ==
    /\ pc = "crc" \/ (pc = "word" /\ setup.hispeed)
    /\ Fault("cable") /\ UNCHANGED <<setup, call, harmed>>
    /\ \E h \in TornEnd({hw}, Nop) :
        LET s == [Now EXCEPT !.hw = h]
        IN  \/ /\ Become(retry_ok(s))
               /\ IF sel.current_chain = "WISHBONE"
                    THEN pc' = "errlost" /\ UNCHANGED v
                    ELSE Return("cable")
            \/ retry_do(s, pc' = "cmdlost" /\ UNCHANGED v,
                        IF call.op = "read" THEN Return("cable") ELSE Exit)

CommandLost ==
    /\ pc = "cmdlost" /\ UNCHANGED <<setup, call, faults, harmed>>
    /\ Become(adbg_burst_command(Now, call.op, call.start, call.count)) /\ Return("cable")

\* The error register after such an error, or with one: what is read is noise.
ErrorRegisterLost ==
    /\ \/ pc = "errlost" /\ NoFault
       \/ pc = "errreg" /\ Fault("cable")
    /\ UNCHANGED <<setup, call, harmed>>
    /\ \E h \in ScanTorn(hw, Nop), e \in {None} \cup Addrs :
        LET s == [adbg_ctrl_read(Now) EXCEPT !.hw = h]
            again == e # None /\ v.buserrs < MAX_BUS_ERRORS
        IN  /\ Become(IF again
                      THEN adbg_burst_command(adbg_ctrl_write(s, 1), call.op, e,
                                              call.count - (e - call.start))
                      ELSE s)
            /\ Return("cable")

\* adbg_ctrl_write / adbg_ctrl_read on a CPU's status register.
Control ==
    /\ setup.adv /\ pc \in {"ctrlwrite", "ctrlread"} /\ UNCHANGED <<setup, call, harmed>>
    /\ \/ /\ NoFault /\ pc = "ctrlwrite"
          /\ Become(adbg_ctrl_write(Now, call.ctl)) /\ Return("ok")
       \/ /\ NoFault /\ pc = "ctrlread"
          /\ Become(adbg_ctrl_read(Now))
          /\ pc' = "done"
          /\ v' = [v EXCEPT !.err = "ok", !.ctl = CtlRead(hw')]
       \/ /\ pc = "ctrlwrite"
          /\ ScanLost("command", adbg_ctrl_write(Now, call.ctl), hw,
                      [cmd |-> "regwrite", data |-> call.ctl])
       \/ pc = "ctrlread" /\ ScanLost("command", adbg_ctrl_read(Now), hw, Nop)

Serial ==
    /\ pc = "serial" /\ UNCHANGED <<setup, call, harmed>>
    /\ \/ NoFault /\ Become(adbg_jsp_transact(Now, call.topbit)) /\ Return("ok")
       \/ ScanLost("cable", Now, hw, SerialBits(call.topbit))

AdvNext ==
    \/ Select \/ Command \/ ReadStatus \/ ReadWord \/ ReadCrc
    \/ ReadError \/ WriteWord \/ WriteError \/ WriteCrc \/ ErrorRegister \/ Control \/ Serial
    \/ CrcLost \/ CommandLost \/ ErrorRegisterLost
=============================================================================
