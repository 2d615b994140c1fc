----------------------------- MODULE RspPacket ------------------------------
(***************************************************************************)
(* The packets of the GDB remote protocol, read and written one character  *)
(* at a time by the RSP server (rsp-server.c) and by the watchpoint server *)
(* (hwp_server.c), which has its own copy of the same functions.           *)
(*                                                                         *)
(* A packet is $<body>#<checksum>; both hex digits of the checksum are one *)
(* character here.  Either end repeats a packet until it is acknowledged.  *)
(* The line may garble characters, and GDB may send a Ctrl-C while it      *)
(* waits for the target to stop.                                           *)
(***************************************************************************)
EXTENDS Integers, Sequences, SequencesExt

CONSTANTS
  BUF_MAX,      \* GDB_BUF_MAX, HWP_BUF_MAX: size of the packet buffer
  MaxRequests,  \* bound: requests the client makes
  MaxGarbled,   \* bound: characters garbled on the line
  MaxBreaks     \* bound: Ctrl-C characters

ASSUME PacketAssumption ==
  BUF_MAX > 5 /\ MaxRequests \in Nat /\ MaxGarbled \in Nat /\ MaxBreaks \in Nat

DOLLAR == 36
HASH == 35
STAR == 42
ESC == 125     \* '}'
PLUS == 43
MINUS == 45
BREAK == 3     \* Ctrl-C
XPACKET == 88  \* 'X', a write of binary data
CONT == 99     \* 'c'
NOISE == 255   \* a character that means nothing

VARIABLES
  server,          \* which server the client talks to, "rsp" or "hwp"
  spc,             \* where the server is
  buf, checksum,   \* the packet being read
  reply,           \* the body of the packet being sent
  target_running,  \* the server's belief
  running, notice, \* the target; an 'H' notice of the monitor
  toSrv, toGdb,    \* characters on the line
  gpc, gin,        \* the client: what it waits for, the packet it reads
  kind,            \* its request: "ask" is answered at once, "cont" by a stop
  open,            \* the connection
  garbled, breaks, \* how many there were
  issued, executed, execs, answered  \* history, see RequestReply

srvVars == <<server, spc, buf, checksum, reply, target_running>>
gdbVars == <<gpc, gin, kind, open, garbled, breaks, issued, answered>>
vars == <<srvVars, running, notice, toSrv, toGdb, gdbVars, executed, execs>>

\* ch ^ 0x20
Flip(ch) == IF (ch \div 32) % 2 = 1 THEN ch - 32 ELSE ch + 32

\* What put_packet writes for the body of a packet.
Escape(body) ==
  FlattenSeq([i \in DOMAIN body |->
    IF body[i] \in {DOLLAR, HASH, STAR, ESC} THEN <<ESC, Flip(body[i])>> ELSE <<body[i]>>])

\* Mutant of Unescape: the escape character stays.
UnescapeKeeps(data) == [i \in DOMAIN data |-> IF i > 1 /\ data[i-1] = ESC THEN Flip(data[i]) ELSE data[i]]

\* rsp_unescape.  An escape at the end takes the EOS that follows the data.
Unescape(data) ==
  LET one(acc, ch) ==
        IF acc.escaped THEN [out |-> Append(acc.out, Flip(ch)), escaped |-> FALSE]
        ELSE IF ch = ESC THEN [acc EXCEPT !.escaped = TRUE]
        ELSE [acc EXCEPT !.out = Append(@, ch)]
      all == FoldLeft(one, [out |-> <<>>, escaped |-> FALSE], data)
  IN IF all.escaped THEN Append(all.out, Flip(0)) ELSE all.out

\* The checksum of characters, and the hex digits that stand for it.
Sum(data) == FoldLeft(LAMBDA sum, ch : (sum + ch) % 256, 0, data)
Hex(sum) == 256 + sum
Frame(body) == <<DOLLAR>> \o Escape(body) \o <<HASH, Hex(Sum(Escape(body)))>>

\* Bodies that tell requests and replies apart.  Of the requests only the X
\* packet, which the watchpoint server does not know, has data to escape.
Request(n, k) ==
  IF k = "cont" THEN <<CONT, 64 + n>>
  ELSE IF server = "rsp" /\ n % 2 = 0 THEN <<XPACKET, 64 + n, HASH>> ELSE <<64 + n>>
Reply(n, k) ==
  IF k = "cont" THEN <<84, 64 + n>> ELSE IF n % 2 = 0 THEN <<64 + n, DOLLAR>> ELSE <<64 + n>>
NotStopped == <<79>>

Init ==
  /\ server \in {"rsp", "hwp"}
  /\ spc = "poll"
  /\ buf = <<>> /\ checksum = 0 /\ reply = <<>>
  /\ target_running = FALSE /\ running = FALSE /\ notice = FALSE
  /\ toSrv = <<>> /\ toGdb = <<>>
  /\ gpc = "idle" /\ gin = <<>> /\ kind = "ask" /\ open = TRUE
  /\ garbled = 0 /\ breaks = 0
  /\ issued = 0 /\ executed = 0 /\ execs = 0 /\ answered = 0

-----------------------------------------------------------------------------
\* The server takes a character; get_rsp_char waits for one.
NextChar == IF toSrv = <<>> THEN {} ELSE {Head(toSrv)}
GetChar(ch) == ch = Head(toSrv) /\ toSrv' = Tail(toSrv)

\* The start of a packet of either server.
StartBody == spc' = "body" /\ buf' = <<>> /\ checksum' = 0

\* handle_rsp: poll() finds input of the client.
Poll ==
  /\ spc = "poll"
  /\ toSrv # <<>>
  /\ spc' = "start"
  /\ UNCHANGED <<server, buf, checksum, reply, target_running, running, notice,
                 toSrv, toGdb, gdbVars, executed, execs>>

\* get_packet: all but '$' is skipped; the RSP server takes a Ctrl-C for a
\* request: it stalls a running target and ignores it otherwise.
GetStart ==
  /\ spc = "start" /\ server = "rsp"
  /\ \E ch \in NextChar :
       /\ GetChar(ch)
       /\ \/ ch = DOLLAR /\ StartBody /\ UNCHANGED <<running, notice>>
          \/ /\ ch = BREAK
             /\ spc' = "poll"
             /\ running' = (running /\ ~target_running)
             /\ notice' = (notice \/ target_running)
             /\ UNCHANGED <<buf, checksum>>
          \/ ch \notin {DOLLAR, BREAK} /\ UNCHANGED <<spc, buf, checksum, running, notice>>
  /\ UNCHANGED <<server, reply, target_running, toGdb, gdbVars, executed, execs>>

\* hwp_get_packet: a Ctrl-C is nothing special.
HwpGetStart ==
  /\ spc = "start" /\ server = "hwp"
  /\ \E ch \in NextChar :
       /\ GetChar(ch)
       /\ IF ch = DOLLAR THEN StartBody ELSE UNCHANGED <<spc, buf, checksum>>
  /\ UNCHANGED <<server, reply, target_running, running, notice, toGdb, gdbVars, executed, execs>>

\* A character of the body: '$' starts all over again, a full buffer is given
\* up without an answer.
BodyChar(ch) ==
  /\ GetChar(ch)
  /\ \/ ch = DOLLAR /\ StartBody
     \/ ch = HASH /\ spc' = "csum" /\ UNCHANGED <<buf, checksum>>
     \/ /\ ch \notin {DOLLAR, HASH}
        /\ checksum' = (checksum + ch) % 256
        /\ buf' = Append(buf, ch)
        /\ spc' = IF Len(buf) + 1 < BUF_MAX - 1 THEN "body" ELSE "start"
  /\ UNCHANGED <<server, reply, target_running, running, notice, toGdb, gdbVars, executed, execs>>

GetBody == spc = "body" /\ server = "rsp" /\ \E ch \in NextChar : BodyChar(ch)
HwpGetBody == spc = "body" /\ server = "hwp" /\ \E ch \in NextChar : BodyChar(ch)

\* put_packet: send the packet, then wait for the acknowledgement.
PutPacket(before, body) ==
  /\ toGdb' = toGdb \o before \o Frame(body)
  /\ reply' = body
  /\ spc' = "ack"

\* A bad checksum: a negative acknowledgement, and wait for the next packet.
Reject ==
  /\ toGdb' = Append(toGdb, MINUS)
  /\ spc' = "start"
  /\ UNCHANGED <<reply, target_running, running, executed, execs>>

\* The request a packet holds: rsp_write_mem_bin takes the escapes out of its
\* data, every other handler of either server uses the body as it came.
Parsed ==
  IF server = "rsp" /\ Head(buf) = XPACKET
  THEN SubSeq(buf, 1, 2) \o Unescape(SubSeq(buf, 3, Len(buf))) ELSE buf

\* What is executed, told by its number; 0 is anything but the last request.
Executed ==
  /\ executed' = IF Parsed = Request(issued, kind) THEN issued ELSE 0
  /\ execs' = execs + 1
NumberOf(body) == (IF Head(body) = XPACKET THEN body[2] ELSE Head(body)) - 64

\* rsp_client_request: requests of a running target are refused with a
\* console message; a continue is answered when the target stops.
ClientRequest ==
  \/ /\ target_running
     /\ PutPacket(<<PLUS>>, NotStopped)
     /\ UNCHANGED <<target_running, running, executed, execs>>
  \/ /\ ~target_running
     /\ Head(buf) = CONT
     /\ Executed
     /\ target_running' = TRUE /\ running' = TRUE
     /\ toGdb' = Append(toGdb, PLUS)
     /\ spc' = "poll"
     /\ UNCHANGED reply
  \/ /\ ~target_running
     /\ Head(buf) # CONT
     /\ Executed
     /\ PutPacket(<<PLUS>>, Reply(NumberOf(buf), "ask"))
     /\ UNCHANGED <<target_running, running>>

\* hwp_client_request: reads, writes and '?' are all answered at once.
HwpClientRequest ==
  /\ Executed
  /\ PutPacket(<<PLUS>>, Reply(NumberOf(buf), "ask"))
  /\ UNCHANGED <<target_running, running>>

\* get_packet, the end: the checksum is compared, the packet acknowledged.
GetChecksum ==
  /\ spc = "csum" /\ server = "rsp"
  /\ \E ch \in NextChar :
       GetChar(ch) /\ IF ch = Hex(checksum) THEN ClientRequest ELSE Reject
  /\ UNCHANGED <<server, buf, checksum, notice, gdbVars>>

HwpGetChecksum ==
  /\ spc = "csum" /\ server = "hwp"
  /\ \E ch \in NextChar :
       GetChar(ch) /\ IF ch = Hex(checksum) THEN HwpClientRequest ELSE Reject
  /\ UNCHANGED <<server, buf, checksum, notice, gdbVars>>

\* Mutant of AwaitAck: the packet is sent once.
AwaitAckOnce(ch) == spc' = "poll" /\ UNCHANGED <<reply, toGdb>>

\* put_packet, the end: anything but '+' is taken for a refusal.
AwaitAck(ch) ==
  IF ch = PLUS THEN spc' = "poll" /\ UNCHANGED <<reply, toGdb>> ELSE PutPacket(<<>>, reply)

PutAck ==
  /\ spc = "ack" /\ server = "rsp"
  /\ \E ch \in NextChar : GetChar(ch) /\ AwaitAck(ch)
  /\ UNCHANGED <<server, buf, checksum, target_running, running, notice, gdbVars, executed, execs>>

HwpPutAck ==
  /\ spc = "ack" /\ server = "hwp"
  /\ \E ch \in NextChar : GetChar(ch) /\ AwaitAck(ch)
  /\ UNCHANGED <<server, buf, checksum, target_running, running, notice, gdbVars, executed, execs>>

\* handle_rsp: a notice is only read when the client has sent nothing.
ReportStop ==
  /\ spc = "poll" /\ toSrv = <<>> /\ notice
  /\ notice' = FALSE
  /\ target_running' = FALSE
  /\ IF target_running THEN PutPacket(<<>>, Reply(issued, "cont")) ELSE UNCHANGED <<toGdb, reply, spc>>
  /\ UNCHANGED <<server, buf, checksum, running, toSrv, gdbVars, executed, execs>>

\* End of file: get_rsp_char closes the client and returns -1, get_packet
\* returns NULL and put_packet gives up.
EndOfFile ==
  /\ ~open /\ toSrv = <<>> /\ spc # "closed"
  /\ spc' = "closed"
  /\ UNCHANGED <<server, buf, checksum, reply, target_running, running, notice,
                 toSrv, toGdb, gdbVars, executed, execs>>

ClientGone == server = "rsp" /\ EndOfFile
HwpClientGone == server = "hwp" /\ EndOfFile

\* The target stops by itself: the monitor finds out and tells the server.
TargetStop ==
  /\ running
  /\ running' = FALSE
  /\ notice' = TRUE
  /\ UNCHANGED <<srvVars, toSrv, toGdb, gdbVars, executed, execs>>

-----------------------------------------------------------------------------
(***************************************************************************)
(* The client, as GDB does it.                                             *)
(***************************************************************************)
gdbLeaves == UNCHANGED <<srvVars, running, notice, executed, execs>>

GdbRequest(k) ==
  /\ open /\ gpc = "idle" /\ issued < MaxRequests
  /\ k = "cont" => server = "rsp"
  /\ issued' = issued + 1
  /\ kind' = k
  /\ toSrv' = toSrv \o Frame(Request(issued + 1, k))
  /\ gpc' = "ack"
  /\ UNCHANGED <<toGdb, gin, open, garbled, breaks, answered>> /\ gdbLeaves

\* A frame is complete.  One that comes instead of an acknowledgement is old:
\* it is acknowledged and dropped.
GdbFrame(csum) ==
  LET data == SubSeq(gin, 2, Len(gin) - 1)
      body == Unescape(data)
  IN /\ gin' = <<>>
     /\ \/ /\ gpc = "ack"
           /\ toSrv' = Append(toSrv, PLUS)
           /\ UNCHANGED <<gpc, answered>>
        \/ /\ gpc = "reply" /\ csum # Hex(Sum(data))
           /\ toSrv' = Append(toSrv, MINUS)
           /\ UNCHANGED <<gpc, answered>>
        \/ /\ gpc = "reply" /\ csum = Hex(Sum(data))
           /\ toSrv' = Append(toSrv, PLUS)
           /\ IF body = NotStopped THEN UNCHANGED <<gpc, answered>>
              ELSE /\ gpc' = "idle"
                   /\ answered' = IF body = Reply(issued, kind) THEN issued ELSE 0

GdbRead ==
  /\ open /\ gpc # "idle" /\ toGdb # <<>>
  /\ toGdb' = Tail(toGdb)
  /\ LET ch == Head(toGdb) IN
     \/ ch = DOLLAR /\ gin' = <<ch>> /\ UNCHANGED <<toSrv, gpc, answered>>
     \/ /\ ch # DOLLAR /\ gin # <<>>
        /\ IF Last(gin) = HASH THEN GdbFrame(ch)
           ELSE gin' = Append(gin, ch) /\ UNCHANGED <<toSrv, gpc, answered>>
     \/ /\ ch # DOLLAR /\ gin = <<>>
        /\ gpc' = IF ch = PLUS THEN "reply" ELSE gpc
        /\ toSrv' = IF ch = MINUS /\ gpc = "ack" THEN toSrv \o Frame(Request(issued, kind)) ELSE toSrv
        /\ UNCHANGED <<gin, answered>>
  /\ UNCHANGED <<kind, open, garbled, breaks, issued>> /\ gdbLeaves

\* Nothing comes any more: the request is repeated, or a packet asked for
\* again.  GDB waits for a stop without a limit.
GdbTimeout ==
  /\ open /\ toSrv = <<>> /\ toGdb = <<>>
  /\ notice => spc # "poll"
  /\ gin' = <<>>
  /\ \/ gpc = "ack" /\ toSrv' = Frame(Request(issued, kind))
     \/ gpc = "reply" /\ (kind = "ask" \/ gin # <<>>) /\ toSrv' = <<MINUS>>
  /\ UNCHANGED <<toGdb, gpc, kind, open, garbled, breaks, issued, answered>> /\ gdbLeaves

\* The user types Ctrl-C while GDB waits for the target.
GdbBreak ==
  /\ open /\ gpc = "reply" /\ kind = "cont" /\ breaks < MaxBreaks
  /\ breaks' = breaks + 1
  /\ toSrv' = Append(toSrv, BREAK)
  /\ UNCHANGED <<toGdb, gpc, gin, kind, open, garbled, issued, answered>> /\ gdbLeaves

GdbQuit ==
  /\ open
  /\ open' = FALSE
  /\ UNCHANGED <<toSrv, toGdb, gpc, gin, kind, garbled, breaks, issued, answered>> /\ gdbLeaves

\* The line garbles a character.
Garble ==
  /\ garbled < MaxGarbled
  /\ garbled' = garbled + 1
  /\ \E ch \in {NOISE, DOLLAR, HASH, PLUS, MINUS} :
       \/ \E i \in DOMAIN toSrv : toSrv' = [toSrv EXCEPT ![i] = ch] /\ UNCHANGED toGdb
       \/ \E i \in DOMAIN toGdb : toGdb' = [toGdb EXCEPT ![i] = ch] /\ UNCHANGED toSrv
  /\ UNCHANGED <<gpc, gin, kind, open, breaks, issued, answered>> /\ gdbLeaves

-----------------------------------------------------------------------------
RspServer == Poll \/ GetStart \/ GetBody \/ GetChecksum \/ PutAck \/ ReportStop \/ ClientGone
HwpServer == HwpGetStart \/ HwpGetBody \/ HwpGetChecksum \/ HwpPutAck \/ HwpClientGone
Gdb == GdbRequest("ask") \/ GdbRequest("cont") \/ GdbRead \/ GdbTimeout \/ GdbBreak \/ GdbQuit

Next == RspServer \/ HwpServer \/ TargetStop \/ Gdb \/ Garble

\* The server is a thread, GDB reads what it is sent and does not wait for
\* ever, and a target that runs stops at some time.
Fairness ==
  WF_vars(RspServer \/ HwpServer) /\ WF_vars(GdbRead) /\ WF_vars(GdbTimeout) /\ WF_vars(TargetStop)

Spec == Init /\ [][Next]_vars /\ Fairness

-----------------------------------------------------------------------------
Promise == INSTANCE RequestReply

\* Through garbled characters, refused and repeated packets and a Ctrl-C that
\* crosses a stop reply, the client never takes an old reply for the answer to
\* its request, and the server never executes anything but that request.
RepliesMatch == Promise!Spec

\* A request that is answered at once is answered even if a character is
\* garbled, of the request, of the reply or of an acknowledgement.
AskAnswered ==
  [](open /\ garbled <= 1 /\ breaks = 0) =>
    \A n \in 1..MaxRequests : (issued = n /\ kind = "ask") ~> (answered = n)

\* The stop of a target that GDB waits for is reported.
StopReported ==
  (gpc = "reply" /\ kind = "cont" /\ executed = issued /\ ~running) ~> (gpc = "idle" \/ ~open)

=============================================================================
