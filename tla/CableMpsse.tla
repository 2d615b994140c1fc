------------------------------- MODULE CableMpsse -------------------------------
(***************************************************************************)
(* The FT2232 cable (cable_ft2232.c): commands for the chip's MPSSE engine *)
(* are buffered, and flushed when a limit is met, when the call ends or    *)
(* when the answer is wanted.                                              *)
(***************************************************************************)
EXTENDS CableUsb

CONSTANTS
    FTDI_MAXRECV,   \* bytes that may be awaited (256 there)
    FTDX_MAXSEND    \* bytes that may be buffered before a flush (4096 there)

(* usbconn_ftdi_write: a command of size bytes, recv of them to come back.  *)
Mpsse(bits, tms, read, size, recv) ==
    [op |-> "mpsse", flushed |-> FALSE, size |-> size, recv |-> recv,
     msg |-> [k |-> "mpsse", bits |-> bits, tms |-> tms, read |-> read]]
FlushOp == [op |-> "flush"]
Packed1(n, bits, at) == [op |-> "packed", n |-> n, bits |-> bits, at |-> at, flushed |-> FALSE]

cable_ft2232_write_bytes(bits, read) ==
    IF bits = <<>> THEN <<>>
    ELSE LET n == Len(bits) \div Byte
         IN  << Mpsse(bits, FALSE, read, n + 3, IF read THEN n ELSE 0) >>
cable_ft2232_write_bits(bits, read, with_tms) ==
    IF bits = <<>> THEN <<>>
    ELSE << Mpsse(bits, with_tms, read, 3, IF read THEN 1 ELSE 0) >>

(* The stream is whole bytes, then bits, then one bit if TMS goes with it.  *)
TmsBits(last) == IF last THEN 1 ELSE 0
LenBytes(n, last) == (n - TmsBits(last)) \div Byte
LenBits(n, last) == (n - TmsBits(last)) % Byte
cable_ft2232_write_stream(bits, read, last) ==
    LET n == Len(bits)
        b == Byte * LenBytes(n, last)
    IN  cable_ft2232_write_bytes(SubSeq(bits, 1, b), read)
        \o cable_ft2232_write_bits(SubSeq(bits, b + 1, b + LenBits(n, last)), read, FALSE)
        \o IF last THEN cable_ft2232_write_bits(<<Last(bits)>>, read, TRUE) ELSE <<>>
cable_ft2232_read_stream(n, last) ==
    LET b == LenBytes(n, last)
        r == LenBits(n, last)
    IN  (IF b > 0 THEN << Packed1(b, Byte, 0) >> ELSE <<>>)
        \o (IF r > 0 THEN << Packed1(1, r, Byte * b) >> ELSE <<>>)
        \o (IF last THEN << Packed1(1, 1, Byte * b + r) >> ELSE <<>>)

cable_ftdi_write_stream(bits, last) ==
    cable_ft2232_write_stream(bits, FALSE, last) \o << FlushOp >>
cable_ftdi_read_stream(bits, last) ==
    cable_ft2232_write_stream(bits, TRUE, last) \o cable_ft2232_read_stream(Len(bits), last)
--------------------------------------------------------------------------------
MustFlush(o) ==
    \/ drv.to_recv + o.recv > FTDI_MAXRECV
    \/ drv.sent > FTDX_MAXSEND /\ drv.to_recv = 0

First(o) == todo' = << FlushOp, [o EXCEPT !.flushed = TRUE] >> \o Tail(todo)

usbconn_ftdi_write ==
    /\ todo /= <<>> /\ Op.op = "mpsse"
    /\ IF MustFlush(Op) /\ ~Op.flushed
       THEN First(Op) /\ UNCHANGED drv
       ELSE /\ drv' = [drv EXCEPT !.send = Append(@, Op.msg), !.sent = @ + Op.size,
                                  !.to_recv = @ + Op.recv]
            /\ Next1
    /\ UNCHANGED <<setup, call, dev, tx, rx, ad, got, err, faults, hist>>

(* usbconn_ftdi_flush: everything buffered goes out, then one read that     *)
(* brings at least a byte; what it does not bring stays in to_recv.         *)
usbconn_ftdi_flush ==
    /\ todo /= <<>> /\ Op.op = "flush"
    /\ \/ /\ drv.sent = 0 /\ Next1 /\ UNCHANGED <<drv, tx>>
       \/ /\ drv.sent > 0
          /\ tx' = tx \o drv.send
          /\ drv' = [drv EXCEPT !.send = <<>>, !.sent = 0]
          /\ todo' = IF drv.to_recv > 0 THEN << [op |-> "recvd"] >> \o Tail(todo) ELSE Tail(todo)
    /\ UNCHANGED <<setup, call, dev, rx, ad, got, err, faults, hist>>

(* my_ftdi_read_data: all that was asked for, all there will be, or less.   *)
Arrives(n, k) ==
    /\ k <= Len(rx)
    /\ \/ k = Min({n, Len(rx)}) /\ (k = n \/ tx = <<>>) /\ UNCHANGED faults
       \/ Fault("short") /\ k \in setup.cut /\ k < n

FlushReceives ==
    /\ todo /= <<>> /\ Op.op = "recvd"
    /\ \E k \in 1 .. Len(rx) :
          /\ Arrives(drv.to_recv, k)
          /\ drv' = [drv EXCEPT !.to_recv = @ - k, !.recv = @ \o SubSeq(rx, 1, k)]
          /\ rx' = SubSeq(rx, k + 1, Len(rx))
    /\ Next1
    /\ UNCHANGED <<setup, call, dev, tx, ad, got, err, hist>>

(* cable_ft2232_read_packed_bits over usbconn_ftdi_read: flush, then the    *)
(* receive buffer, then the device for what is missing.  Less than a byte   *)
(* of bits comes at the top of its byte.                                    *)
Unpack(bytes, bits) ==
    FlattenSeq([i \in DOMAIN bytes |-> SubSeq(bytes[i], Byte - bits + 1, Byte)])

cable_ft2232_read_packed_bits ==
    /\ todo /= <<>> /\ Op.op = "packed"
    /\ IF ~Op.flushed THEN First(Op) /\ UNCHANGED <<rx, drv, got>>
       ELSE LET c == Min({Op.n, Len(drv.recv)})
                new == Unpack(SubSeq(drv.recv, 1, c) \o SubSeq(rx, 1, Op.n - c), Op.bits)
            IN  /\ Op.n - c <= Len(rx)
                /\ drv' = [drv EXCEPT !.recv = SubSeq(@, c + 1, Len(@))]
                /\ rx' = SubSeq(rx, Op.n - c + 1, Len(rx))
                /\ got' = Put(Clear(got, Op.at .. Op.at + Len(new) - 1), Op.at, new)
                /\ Next1
    /\ UNCHANGED <<setup, call, dev, tx, ad, err, faults, hist>>

(* The MPSSE engine: bytes come back as bytes, less than a byte as one.     *)
(* TMS is down but for the bit of a TMS command.                            *)
Top(bits) == [i \in 1 .. Byte - Len(bits) |-> {}] \o bits
MpsseAdapter ==
    /\ setup.cable = "ft2232" /\ tx /= <<>>
    /\ tx' = Tail(tx)
    /\ LET m == Head(tx)
           in == BurstIn(dev, m.bits)
       IN  /\ dev' = Burst(dev, m.bits, [i \in DOMAIN m.bits |-> m.tms])
           /\ rx' = IF ~m.read THEN rx
                    ELSE IF Len(m.bits) % Byte = 0 THEN rx \o SplitBytes(in)
                    ELSE Append(rx, Top(in))
    /\ UNCHANGED <<setup, call, todo, ad, drv, got, err, faults, hist>>
================================================================================
