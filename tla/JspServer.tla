----------------------------- MODULE JspServer ------------------------------
(***************************************************************************)
(* The JTAG serial port server (jsp_server.c): a thread that moves bytes   *)
(* between a network client and the UART of the target, through two ring   *)
(* buffers.  It talks to the hardware only while the target runs, which it *)
(* learns from the notices of the target monitor.                          *)
(***************************************************************************)
EXTENDS Integers, Sequences

CONSTANTS
  JSP_BUFFER_SIZE,  \* 256 in the code
  BURST,            \* bytes per transaction and direction, 8 in the code
  MaxBytes,         \* bound: bytes each end ever sends
  MaxLate,          \* bound: transactions that fail after bytes have moved
  ClientMayLag      \* may the client leave sent bytes in its socket?

ASSUME JspAssumption ==
  /\ JSP_BUFFER_SIZE \in Nat \ {0}
  /\ BURST \in 1..JSP_BUFFER_SIZE
  /\ MaxBytes \in Nat
  /\ MaxLate \in Nat
  /\ ClientMayLag \in BOOLEAN

VARIABLES
  jpc,                    \* where the thread is
  jsp_target_is_running,
  pipe,                   \* notices of the monitor
  csock,                  \* bytes of the client, not yet received
  hangup,                 \* the client closed its end
  jsp_tohw_buf, jsp_tohw_rd_idx, jsp_tohw_wr_idx, jsp_tohw_count,
  jsp_fromhw_buf, jsp_fromhw_rd_idx, jsp_fromhw_wr_idx, jsp_fromhw_count,
  clientPut, hwGot,       \* history: bytes sent by the client, got by the UART
  hwPut, clientGot,       \* history: bytes sent by the UART, got by the client
  late,                   \* history: transactions that failed after bytes moved
  overrun                 \* history: the ring to the client got more than it holds

tohwVars == <<jsp_tohw_buf, jsp_tohw_rd_idx, jsp_tohw_wr_idx, jsp_tohw_count>>
fromhwVars == <<jsp_fromhw_buf, jsp_fromhw_rd_idx, jsp_fromhw_wr_idx, jsp_fromhw_count>>
envVars == <<pipe, csock, hangup, clientPut>>
vars == <<jpc, jsp_target_is_running, envVars, tohwVars, fromhwVars, hwGot, hwPut, clientGot, late, overrun>>

Smaller(a, b) == IF a < b THEN a ELSE b
Slots == 0..(JSP_BUFFER_SIZE - 1)

\* The n slots of a ring from slot i on.
Ring(buf, i, n) == [k \in 1..n |-> buf[(i + k - 1) % JSP_BUFFER_SIZE]]

\* Mutant of Stored: what does not fit before the end of the array is lost.
StoredNoWrap(buf, i, seq) ==
  [j \in Slots |-> IF j - i + 1 \in 1..Len(seq) THEN seq[j - i + 1] ELSE buf[j]]

\* A ring after the bytes of seq were stored from slot i on, one by one.
Stored(buf, i, seq) ==
  [j \in Slots |->
     LET hits == {k \in 1..Len(seq) : (i + k - 1) % JSP_BUFFER_SIZE = j} IN
     IF hits = {} THEN buf[j]
     ELSE seq[CHOOSE k \in hits : \A m \in hits : m <= k]]

Init ==
  /\ jpc = "accept"
  /\ jsp_target_is_running = FALSE
  /\ pipe = <<>>
  /\ csock = <<>>
  /\ hangup = FALSE
  /\ jsp_tohw_buf = [j \in Slots |-> 0]
  /\ jsp_tohw_rd_idx = 0
  /\ jsp_tohw_wr_idx = 0
  /\ jsp_tohw_count = 0
  /\ jsp_fromhw_buf = [j \in Slots |-> 0]
  /\ jsp_fromhw_rd_idx = 0
  /\ jsp_fromhw_wr_idx = 0
  /\ jsp_fromhw_count = 0
  /\ clientPut = 0
  /\ hwGot = <<>>
  /\ hwPut = 0
  /\ clientGot = <<>>
  /\ late = 0
  /\ overrun = FALSE

\* A client connects and accept() returns: clear the buffers.
Accept ==
  /\ jpc = "accept"
  /\ jpc' = "select"
  /\ jsp_tohw_rd_idx' = 0
  /\ jsp_tohw_wr_idx' = 0
  /\ jsp_tohw_count' = 0
  /\ jsp_fromhw_rd_idx' = 0
  /\ jsp_fromhw_wr_idx' = 0
  /\ jsp_fromhw_count' = 0
  /\ UNCHANGED <<jsp_target_is_running, envVars, jsp_tohw_buf, jsp_fromhw_buf,
                 hwGot, hwPut, clientGot, late, overrun>>

\* Mutants of Room: bytes not yet sent are overwritten; the last slot is not used.
RoomToEnd(wr, count) == JSP_BUFFER_SIZE - wr
RoomShort(wr, count) == Smaller(JSP_BUFFER_SIZE - wr - 1, JSP_BUFFER_SIZE - count)

\* The room of one recv(): up to the end of the array or of the free slots.
Room(wr, count) == Smaller(JSP_BUFFER_SIZE - wr, JSP_BUFFER_SIZE - count)

\* jsp_queue_data_from_client: two recv() calls, the second for the part of
\* the ring before the read index.  An end of file receives 0 bytes.
QueueDataFromClient ==
  LET n1  == Smaller(Room(jsp_tohw_wr_idx, jsp_tohw_count), Len(csock))
      wr1 == (jsp_tohw_wr_idx + n1) % JSP_BUFFER_SIZE
      n2  == Smaller(Room(wr1, jsp_tohw_count + n1), Len(csock) - n1)
  IN /\ jsp_tohw_buf' = Stored(Stored(jsp_tohw_buf, jsp_tohw_wr_idx, SubSeq(csock, 1, n1)),
                               wr1, SubSeq(csock, n1 + 1, n1 + n2))
     /\ jsp_tohw_wr_idx' = (wr1 + n2) % JSP_BUFFER_SIZE
     /\ jsp_tohw_count' = jsp_tohw_count + n1 + n2
     /\ csock' = SubSeq(csock, n1 + n2 + 1, Len(csock))
     /\ UNCHANGED jsp_tohw_rd_idx

\* select() on the client and the monitor pipe: it only waits while the target
\* is stopped.  Both descriptors are served.
Select ==
  /\ jpc = "select"
  /\ jsp_target_is_running \/ pipe # <<>> \/ csock # <<>> \/ hangup
  /\ IF pipe # <<>>
     THEN /\ jsp_target_is_running' = (Head(pipe) = "R")
          /\ pipe' = Tail(pipe)
     ELSE UNCHANGED <<jsp_target_is_running, pipe>>
  /\ IF csock # <<>> THEN QueueDataFromClient ELSE UNCHANGED <<tohwVars, csock>>
  /\ jpc' = "send"
  /\ UNCHANGED <<hangup, clientPut, fromhwVars, hwGot, hwPut, clientGot, late, overrun>>

\* What the client's socket takes of n bytes; -1 (EAGAIN) moves nothing either.
Accepted(n) == IF ClientMayLag THEN 0..n ELSE {n}

\* jsp_send_data_to_client: send() twice, in case of wraparound.
SendDataToClient ==
  /\ jpc = "send"
  /\ LET a1 == Smaller(jsp_fromhw_count, JSP_BUFFER_SIZE - jsp_fromhw_rd_idx) IN
     \E n1 \in Accepted(a1) :
       LET rd1 == (jsp_fromhw_rd_idx + n1) % JSP_BUFFER_SIZE
           a2  == Smaller(jsp_fromhw_count - n1, JSP_BUFFER_SIZE - rd1)
       IN \E n2 \in Accepted(a2) :
            /\ clientGot' = clientGot \o Ring(jsp_fromhw_buf, jsp_fromhw_rd_idx, n1)
                                      \o Ring(jsp_fromhw_buf, rd1, n2)
            /\ jsp_fromhw_rd_idx' = (rd1 + n2) % JSP_BUFFER_SIZE
            /\ jsp_fromhw_count' = jsp_fromhw_count - n1 - n2
  /\ jpc' = IF jsp_target_is_running THEN "transact" ELSE "select"
  /\ UNCHANGED <<jsp_target_is_running, envVars, tohwVars, jsp_fromhw_buf,
                 jsp_fromhw_wr_idx, hwGot, hwPut, late, overrun>>

\* jsp_hardware_transact: the UART takes n of the offered bytes and has m
\* bytes of its own, which are stored whether or not there is room for them.
HardwareTransact(n, m) ==
  /\ jpc = "transact"
  /\ n <= Smaller(jsp_tohw_count, BURST)
  /\ hwPut + m <= MaxBytes
  /\ LET in == [k \in 1..m |-> hwPut + k] IN
       /\ hwGot' = hwGot \o Ring(jsp_tohw_buf, jsp_tohw_rd_idx, n)
       /\ jsp_tohw_count' = jsp_tohw_count - n
       /\ jsp_tohw_rd_idx' = (jsp_tohw_rd_idx + n) % JSP_BUFFER_SIZE
       /\ jsp_fromhw_buf' = Stored(jsp_fromhw_buf, jsp_fromhw_wr_idx, in)
       /\ jsp_fromhw_wr_idx' = (jsp_fromhw_wr_idx + m) % JSP_BUFFER_SIZE
       /\ jsp_fromhw_count' = jsp_fromhw_count + m
       /\ overrun' = (overrun \/ jsp_fromhw_count + m > JSP_BUFFER_SIZE)
       /\ hwPut' = hwPut + m
  /\ jpc' = "select"
  /\ UNCHANGED <<jsp_target_is_running, envVars, jsp_tohw_buf, jsp_tohw_wr_idx,
                 jsp_fromhw_rd_idx, clientGot, late>>

\* What a failed transaction did before it failed: its scans go on after an
\* error, so the UART may have taken n bytes and given m of its own.
FailedExchange(n, m) ==
  /\ jpc = "transact"
  /\ n <= Smaller(jsp_tohw_count, BURST)
  /\ hwPut + m <= MaxBytes
  /\ late' = IF n + m = 0 THEN late ELSE late + 1
  /\ late' <= MaxLate
  /\ hwGot' = hwGot \o Ring(jsp_tohw_buf, jsp_tohw_rd_idx, n)
  /\ hwPut' = hwPut + m

\* Mutant of TransactError: the offered bytes are dropped before the result of
\* the transaction is known.
TransactErrorDrops(n, m) ==
  LET k == Smaller(jsp_tohw_count, BURST) IN
  /\ FailedExchange(n, m)
  /\ jpc' = "select"
  /\ jsp_tohw_count' = jsp_tohw_count - k
  /\ jsp_tohw_rd_idx' = (jsp_tohw_rd_idx + k) % JSP_BUFFER_SIZE
  /\ UNCHANGED <<jsp_target_is_running, envVars, jsp_tohw_buf, jsp_tohw_wr_idx,
                 fromhwVars, clientGot, overrun>>

\* The transaction reports an error: the bytes offered stay in the ring, to be
\* offered again, and what the UART gave is not stored.
TransactError(n, m) ==
  /\ FailedExchange(n, m)
  /\ jpc' = "select"
  /\ UNCHANGED <<jsp_target_is_running, envVars, tohwVars, fromhwVars, clientGot, overrun>>

\* The client sends a byte, or closes its end; the monitor sends a notice.
ClientSend ==
  /\ jpc # "accept"
  /\ ~hangup
  /\ clientPut < MaxBytes
  /\ clientPut' = clientPut + 1
  /\ csock' = Append(csock, clientPut + 1)
  /\ UNCHANGED <<jpc, jsp_target_is_running, pipe, hangup, tohwVars, fromhwVars,
                 hwGot, hwPut, clientGot, late, overrun>>

ClientHangup ==
  /\ jpc # "accept"
  /\ ~hangup
  /\ hangup' = TRUE
  /\ UNCHANGED <<jpc, jsp_target_is_running, pipe, csock, clientPut, tohwVars,
                 fromhwVars, hwGot, hwPut, clientGot, late, overrun>>

MonitorNotice ==
  /\ pipe = <<>>
  /\ \E n \in {"H", "R"} : pipe' = <<n>>
  /\ UNCHANGED <<jpc, jsp_target_is_running, csock, hangup, clientPut, tohwVars,
                 fromhwVars, hwGot, hwPut, clientGot, late, overrun>>

Transact == \E n, m \in 0..BURST : HardwareTransact(n, m)
TransactFails == \E n, m \in 0..BURST : TransactError(n, m)

Next ==
  \/ Accept
  \/ Select
  \/ SendDataToClient
  \/ Transact
  \/ TransactFails
  \/ ClientSend
  \/ ClientHangup
  \/ MonitorNotice

\* The thread runs once it has a client; the target empties its UART, so that a
\* transaction that is repeated for ever moves a byte at some time.
Fairness ==
  /\ WF_vars(Select \/ SendDataToClient \/ Transact \/ TransactFails)
  /\ SF_vars(\E n \in 1..BURST, m \in 0..BURST : HardwareTransact(n, m))

Spec == Init /\ [][Next]_vars /\ Fairness

-----------------------------------------------------------------------------
\* Indices and counts stay in the range of the arrays they index.
TypeOK ==
  /\ jpc \in {"accept", "select", "send", "transact"}
  /\ jsp_target_is_running \in BOOLEAN
  /\ hangup \in BOOLEAN
  /\ jsp_tohw_rd_idx \in Slots /\ jsp_tohw_wr_idx \in Slots
  /\ jsp_fromhw_rd_idx \in Slots /\ jsp_fromhw_wr_idx \in Slots
  /\ jsp_tohw_count \in 0..JSP_BUFFER_SIZE
  /\ jsp_fromhw_count \in Nat
  /\ late \in 0..MaxLate
  /\ overrun \in BOOLEAN

\* The bytes between the two ends, in each direction.
ToHwQueue == Ring(jsp_tohw_buf, jsp_tohw_rd_idx, jsp_tohw_count) \o csock
FromHwQueue == Ring(jsp_fromhw_buf, jsp_fromhw_rd_idx, jsp_fromhw_count)

ToHw == INSTANCE SerialLink WITH
          MaxPut <- 1, FaultRepeats <- TRUE, put <- clientPut, queue <- ToHwQueue,
          got <- hwGot, faults <- late, broken <- FALSE
FromHw == INSTANCE SerialLink WITH
            MaxPut <- BURST, FaultRepeats <- FALSE, put <- hwPut, queue <- FromHwQueue,
            got <- clientGot, faults <- late, broken <- overrun

\* Bytes of the client reach the UART in order and none is lost, through
\* wraparound, a full ring and partial transactions; each arrives once, except
\* that those the UART took in a transaction that then failed come again.
ToHwInOrder == ToHw!LinkSpec

\* Bytes of the UART reach the client in order and none twice, except after a
\* client that lags has let the ring overrun, which jsp_hardware_transact does
\* not notice; only those given in a transaction that then failed are lost.
FromHwInOrder == FromHw!LinkSpec

\* A byte of the client reaches the UART if the target keeps running.
ToHwDelivered ==
  <>[]jsp_target_is_running =>
    \A k \in 1..MaxBytes : (clientPut >= k) ~> (\E i \in DOMAIN hwGot : hwGot[i] = k)

\* The ring to the client is never given more than it holds.
NeverOverrun == ~overrun

\* The server waits for a new client once the client has gone.
HangupNoticed == hangup ~> (jpc = "accept")

=============================================================================
