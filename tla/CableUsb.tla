-------------------------------- MODULE CableUsb --------------------------------
(***************************************************************************)
(* The USB-Blaster cables (cable_usbblaster.c with libusb, cable_ft245.c   *)
(* and cable_usbblaster_ftdi.c with libftdi) and the Xilinx platform cable *)
(* (cable_xpc_dlc9.c), over the bit-banging of cable_common.c.             *)
(***************************************************************************)
EXTENDS CableSim

CONSTANTS
    MAX_WRITE,      \* USBBLASTER_MAX_WRITE (63 there)
    MAX_READ,       \* USBBLASTER_MAX_READ (62 there)
    CPLD_BITS,      \* 2*CPLD_MAX_BYTES - 1 (8191 there), no multiple of four
    READ_RETRIES    \* empty replies before a read gives up (20, 15 and 100 there)

(***************************************************************************)
(* One transfer to the adapter.  What the driver does when it fails:       *)
(*   note    the error is kept and the next operation goes on              *)
(*   ignore  the return value is not looked at                             *)
(*   bit     the handle is closed, this bit is given up, the next goes on  *)
(*   break   the error is kept, the rest of the burst is dropped           *)
(*   quit    the handle is closed and the call returns                     *)
(*   return  the call returns                                              *)
(*   exit    the bridge exits                                              *)
(***************************************************************************)
Usb(m, onfail) == [op |-> "usb", msg |-> m, onfail |-> onfail]
PinsMsg(p, read) == [k |-> "pins", pins |-> p, read |-> read]
ShiftMsg(bits, read) == [k |-> "shift", bits |-> bits, read |-> read]

cable_usbblaster_out(p) == << Usb(PinsMsg(p, FALSE), "note") >>
cable_usbblaster_inout(p, at) ==
    << Usb(PinsMsg(p, TRUE), "bit"), [op |-> "bulk", n |-> 1, at |-> at, whole |-> FALSE] >>

(* usb_blaster_write and usb_blaster_write_read ignore every return value.  *)
usb_blaster_write(p) == << Usb(PinsMsg(p, FALSE), "ignore") >>
usb_blaster_write_read(p, at) ==
    << Usb(PinsMsg(p, TRUE), "ignore"), [op |-> "bulk", n |-> 1, at |-> at, whole |-> FALSE] >>

Ftdi == {"ft245", "usbblaster_ftdi"}
Out(p) ==
    CASE setup.cable = "parallel" -> cable_parallel_out(p)
      [] setup.cable = "rtl_sim" -> cable_rtl_sim_out(p)
      [] setup.cable = "vpi" -> cable_vpi_out(p)
      [] setup.cable = "usbblaster" -> cable_usbblaster_out(p)
      [] setup.cable \in Ftdi -> usb_blaster_write(p)
InOut(p, at) ==
    CASE setup.cable = "parallel" -> cable_parallel_inout(p, at)
      [] setup.cable = "rtl_sim" -> cable_rtl_sim_inout(p, at)
      [] setup.cable = "vpi" -> cable_vpi_inout(p, at)
      [] setup.cable = "usbblaster" -> cable_usbblaster_inout(p, at)
      [] setup.cable \in Ftdi -> usb_blaster_write_read(p, at)

(* cable_common.c: data with TCK low, then TCK up; a bit is read between.   *)
cable_common_write_bit(tms, tdi) == Out(Pins(FALSE, tms, tdi)) \o Out(Pins(TRUE, tms, tdi))
cable_common_read_write_bit(tms, tdi, at) ==
    Out(Pins(FALSE, tms, tdi)) \o InOut(Pins(TRUE, tms, tdi), at)

(* The last bit is stream[index] >> (len_bits - 1): past 32 bits the shift  *)
(* is undefined.  A machine that masks the count gets the bit, another 0.   *)
LastBit(bits) == IF Len(bits) <= Word \/ setup.masks THEN Last(bits) ELSE {}
Sent(bits) == [bits EXCEPT ![Len(bits)] = LastBit(bits)]

cable_common_write_stream(bits, last) ==
    FlattenSeq([i \in DOMAIN bits |->
        cable_common_write_bit(last /\ i = Len(bits), Sent(bits)[i])])
CommonRead(bits, last, at) ==
    FlattenSeq([i \in DOMAIN bits |->
        cable_common_read_write_bit(last /\ i = Len(bits), Sent(bits)[i], at + i - 1)])

WordsOf(n) == 0 .. Word * ((n + Word - 1) \div Word) - 1
Zero(n) == << [op |-> "zero", ps |-> WordsOf(n)] >>
cable_common_read_stream(bits, last) == Zero(Len(bits)) \o CommonRead(bits, last, 0)

(* Bursts of whole bytes: a bit with TMS must be left over for bit-banging. *)
BytesOf(bits, last) ==
    LET n == Len(bits) \div Byte IN IF Len(bits) % Byte = 0 /\ last THEN n - 1 ELSE n
Chunks(n, max) ==
    [j \in 1 .. (n + max - 1) \div max |->
        [from |-> (j - 1) * max, n |-> Min({max, n - (j - 1) * max})]]
BytesAt(bits, c) == SubSeq(bits, Byte * c.from + 1, Byte * (c.from + c.n))

\* Mutant of LowerClock: the bit functions are taken to leave the clock low.
ClockLeftHigh == <<>>

LowerClock ==
    IF setup.cable = "ft245" THEN usb_blaster_write(Pins(FALSE, FALSE, {}))
    ELSE IF drv.clock_is_high THEN cable_usbblaster_out(Pins(FALSE, FALSE, {}))
    ELSE <<>>

(* Afterwards the clock is low; write_stream returns the leftovers' error.  *)
After(forget) == << [op |-> "after", forget |-> forget] >>

BurstWrite(bits, last) ==
    LET n == BytesOf(bits, last)
        left == SubSeq(bits, Byte * n + 1, Len(bits))
        shift(c) == << Usb(ShiftMsg(BytesAt(bits, c), FALSE), "break") >>
    IN  IF n = 0 THEN cable_common_write_stream(bits, last)
        ELSE LowerClock \o FlattenSeq([j \in DOMAIN Chunks(n, MAX_WRITE) |->
                                          shift(Chunks(n, MAX_WRITE)[j])])
             \o After(left /= <<>>)
             \o IF left = <<>> THEN <<>> ELSE cable_common_write_stream(left, last)

BurstRead(bits, last, onfail) ==
    LET n == BytesOf(bits, last)
        left == SubSeq(bits, Byte * n + 1, Len(bits))
        shift(c) == << Usb(ShiftMsg(BytesAt(bits, c), TRUE), onfail),
                       [op |-> "bulk", n |-> c.n, at |-> 0, whole |-> TRUE] >>
    IN  IF n = 0 THEN cable_common_read_stream(bits, last)
        ELSE LowerClock \o Zero(Len(bits))
             \o FlattenSeq([j \in DOMAIN Chunks(n, MAX_READ) |-> shift(Chunks(n, MAX_READ)[j])])
             \o After(FALSE)
             \o IF left = <<>> THEN <<>> ELSE CommonRead(left, last, Byte * n)

(* The two copies of the burst functions; libftdi keeps its device open.    *)
cable_usbblaster_write_stream(bits, last) == BurstWrite(bits, last)
cable_usbblaster_read_stream(bits, last) == BurstRead(bits, last, "quit")
cable_ft245_write_stream(bits, last) == BurstWrite(bits, last)
cable_ft245_read_stream(bits, last) == BurstRead(bits, last, "return")

\* Mutant of Dummy: no bit is added.
NoDummy(n) == n

(* cable_xpcusb_readwrite_stream: TDI, TMS and the wish to sample go into   *)
(* one buffer, sent when it is full; the CPLD takes no multiple of four, so *)
(* a dummy bit without a clock is added to the last one.                    *)
Dummy(n) == IF n % 4 = 0 THEN n + 1 ELSE n
xpcusb_do_ext_transfer(bits, tms, n, store) ==
    << Usb([k |-> "cpld", bits |-> bits, tms |-> tms, in_bits |-> n], "exit"),
       [op |-> "tdo", n |-> Len(bits), store |-> store] >>
cable_xpcusb_readwrite_stream(bits, last, store) ==
    LET full == Len(bits) \div CPLD_BITS
        tms == [i \in DOMAIN bits |-> last /\ i = Len(bits)]
        part(s, j) == SubSeq(s, j * CPLD_BITS + 1, Min({(j + 1) * CPLD_BITS, Len(bits)}))
    IN  FlattenSeq([j \in 1 .. full |->
            xpcusb_do_ext_transfer(part(bits, j - 1), part(tms, j - 1), CPLD_BITS, store)])
        \o IF Len(bits) % CPLD_BITS = 0 THEN <<>>
           ELSE xpcusb_do_ext_transfer(part(bits, full), part(tms, full),
                                       Dummy(Len(bits) % CPLD_BITS), store)

--------------------------------------------------------------------------------
NotShift(o) == ~(o.op = "usb" /\ o.msg.k = "shift")

(* A failed transfer, or an open_cable that failed before it.               *)
Abandon(onfail) ==
    /\ err' = (err \/ onfail /= "ignore")
    /\ todo' = CASE onfail \in {"note", "ignore"} -> Tail(todo)
                 [] onfail = "bit" -> SubSeq(todo, 3, Len(todo))
                 [] onfail = "break" -> SelectSeq(Tail(todo), NotShift)
                 [] onfail \in {"quit", "return", "exit"} -> <<>>
HandleAfter(onfail) ==
    CASE onfail \in {"bit", "quit"} -> "closed"
      [] onfail = "exit" -> "exited"
      [] OTHER -> drv.handle

ClockAfter(m) == IF m.k = "pins" THEN m.pins.tck ELSE drv.clock_is_high

UsbWrite ==
    /\ todo /= <<>> /\ Op.op = "usb" /\ drv.handle \in {"open", "unclaimed"}
    /\ \/ /\ drv.handle = "open"
          /\ tx' = Append(tx, Op.msg) /\ Next1
          /\ drv' = [drv EXCEPT !.clock_is_high = ClockAfter(Op.msg), !.have = 0, !.retries = 0]
          /\ UNCHANGED <<err, faults, hist>>
       \/ /\ \/ Fault("write")
             \/ drv.handle = "unclaimed" /\ UNCHANGED faults
          /\ Abandon(Op.onfail) /\ Missed(Op.onfail = "ignore")
          /\ drv' = [drv EXCEPT !.handle = HandleAfter(Op.onfail),
                                !.clock_is_high = IF Op.onfail = "note" THEN ClockAfter(Op.msg) ELSE @]
          /\ UNCHANGED tx
    /\ UNCHANGED <<setup, call, dev, rx, ad, got>>

(* cable_usbblaster_open_cable: when the configuration fails the handle is  *)
(* NULL again; when claiming times out it is not, and is used later.        *)
cable_usbblaster_open_cable ==
    /\ todo /= <<>> /\ Op.op = "usb" /\ drv.handle = "closed"
    /\ \/ /\ drv' = [drv EXCEPT !.handle = "open"]
          /\ UNCHANGED <<todo, err, faults>>
       \/ /\ Fault("open")
          /\ \E h \in {"closed", "unclaimed"} : drv' = [drv EXCEPT !.handle = h]
          /\ Abandon(IF Op.onfail = "break" THEN "quit" ELSE Op.onfail)
    /\ UNCHANGED <<setup, call, dev, tx, rx, ad, got, hist>>

(* The received bytes are OR-ed in: the word is counted over the whole      *)
(* call, the byte within the word over this transfer.                       *)
Store(bytes) ==
    UNION { { <<Byte * (4 * ((drv.total + i - 1) \div 4) + ((i - 1) % 4)) + b - 1, t>>
                  : t \in bytes[i][b] } : i \in DOMAIN bytes, b \in 1 .. Byte }

(* Bytes that do not start a word of the call miss their lane, the first of *)
(* them and all that follow in this reply.                                  *)
Lanes(k) ==
    IF Op.whole /\ k > 0 /\ drv.total % 4 /= 0
    THEN Misplaced(Word * (drv.total \div 4)) ELSE UNCHANGED hist

(* A bit that was not received: usb_blaster_write_read then returns a bit   *)
(* of the command it sent, the others leave the 0.                          *)
NotReceived ==
    IF setup.cable \in Ftdi /\ ~Op.whole THEN Put(Clear(got, {Op.at}), Op.at, <<{0}>>) ELSE got

(* The reply: all that is missing, or less, or nothing yet; after too many  *)
(* empty replies the loop ends and the rest is missing, without an error.   *)
(* Less is no fault of its own when a request was lost and no more is due.  *)
NoMoreDue == tx = <<>> /\ Len(rx) < Op.n - drv.have
Receive(k) ==
    /\ k <= Len(rx)
    /\ rx' = SubSeq(rx, k + 1, Len(rx))
    /\ got' = IF Op.whole THEN got \cup Store(SubSeq(rx, 1, k))
              ELSE IF k = 0 THEN got ELSE Put(Clear(got, {Op.at}), Op.at, <<Head(rx)[1]>>)

BulkRead ==
    /\ todo /= <<>> /\ Op.op = "bulk"
    /\ \/ /\ Receive(Op.n - drv.have) /\ Next1 /\ Lanes(Op.n - drv.have)
          /\ drv' = [drv EXCEPT !.total = @ + Op.n - drv.have, !.have = 0]
          /\ UNCHANGED <<err, faults>>
       \/ /\ \E k \in 1 .. Op.n - drv.have - 1 :
                /\ \/ Fault("short") /\ k \in setup.cut
                   \/ NoMoreDue /\ k = Len(rx) /\ UNCHANGED faults
                /\ Receive(k) /\ Lanes(k)
                /\ drv' = [drv EXCEPT !.total = @ + k, !.have = @ + k, !.retries = 0]
          /\ UNCHANGED <<todo, err>>
       \/ /\ Fault("empty") \/ (NoMoreDue /\ rx = <<>> /\ UNCHANGED faults)
          /\ drv' = [drv EXCEPT !.retries = @ + 1]
          /\ IF drv.retries + 1 = READ_RETRIES
             THEN Next1 /\ got' = NotReceived /\ Missed(TRUE)
             ELSE UNCHANGED <<todo, got, hist>>
          /\ UNCHANGED <<rx, err>>
       \/ /\ Fault("read")
          /\ drv' = [drv EXCEPT !.handle = IF setup.cable \in Ftdi THEN @ ELSE "closed"]
          /\ err' = (err \/ Op.whole \/ setup.cable \notin Ftdi)
          /\ todo' = IF Op.whole THEN <<>> ELSE Tail(todo)
          /\ got' = NotReceived /\ Missed(setup.cable \in Ftdi /\ ~Op.whole)
          /\ UNCHANGED rx
    /\ UNCHANGED <<setup, call, dev, tx, ad>>

(* The CPLD's reply: full words, then the rest pushed up to the end of its  *)
(* 16-bit half word; every transfer is stored from instream[0] on.          *)
Pad(n) == IF n % Word = 0 THEN 0 ELSE (16 - (n % 16)) % 16
Packed(bits) ==
    LET w == Word * (Len(bits) \div Word)
    IN  SubSeq(bits, 1, w) \o [i \in 1 .. Pad(Len(bits)) |-> {}] \o SubSeq(bits, w + 1, Len(bits))
Unpacked(reply, n) ==
    [i \in 1 .. n |-> IF i <= Word * (n \div Word) THEN reply[i] ELSE reply[i + Pad(n)]]

CpldRead ==
    /\ todo /= <<>> /\ Op.op = "tdo"
    /\ \/ /\ rx /= <<>> /\ rx' = Tail(rx) /\ Next1
          /\ got' = IF Op.store THEN Put(Clear(got, WordsOf(Op.n)), 0, Unpacked(Head(rx), Op.n)) ELSE got
          /\ drv' = [drv EXCEPT !.total = @ + Op.n]
          /\ IF Op.store /\ drv.total > 0 THEN Misplaced(0) ELSE UNCHANGED hist
          /\ UNCHANGED <<err, faults>>
       \/ /\ Fault("read") /\ Abandon("exit")
          /\ drv' = [drv EXCEPT !.handle = "exited"]
          /\ UNCHANGED <<rx, got, hist>>
    /\ UNCHANGED <<setup, call, dev, tx, ad>>

LocalStep ==
    /\ todo /= <<>>
    /\ \/ /\ Op.op = "zero"
          /\ got' = Clear(got, Op.ps) /\ UNCHANGED <<drv, err, hist>>
       \/ /\ Op.op = "after"
          /\ drv' = [drv EXCEPT !.clock_is_high = FALSE]
          /\ err' = (err /\ ~Op.forget) /\ Missed(err /\ Op.forget) /\ UNCHANGED got
    /\ Next1
    /\ UNCHANGED <<setup, call, dev, tx, rx, ad, faults>>

(* The adapter: the blaster's two modes, the platform cable's CPLD.         *)
SplitBytes(bits) == [i \in 1 .. Len(bits) \div Byte |-> SubSeq(bits, Byte * (i - 1) + 1, Byte * i)]
UsbAdapter ==
    /\ setup.cable \in Ftdi \cup {"usbblaster", "xpc_usb"} /\ tx /= <<>>
    /\ tx' = Tail(tx)
    /\ LET m == Head(tx) IN
       \/ /\ m.k = "pins"
          /\ dev' = Drive(dev, m.pins)
          /\ rx' = IF m.read THEN Append(rx, [b \in 1 .. Byte |-> IF b = 1 THEN dev.tdo ELSE {}])
                   ELSE rx
       \/ /\ m.k = "shift"
          /\ dev' = Burst(dev, m.bits, [i \in DOMAIN m.bits |-> dev.tms])
          /\ rx' = IF m.read THEN rx \o SplitBytes(BurstIn(dev, m.bits)) ELSE rx
       \/ /\ m.k = "cpld"                  \* a multiple of four is not handled
          /\ dev' = IF m.in_bits % 4 = 0 THEN dev ELSE Burst(dev, m.bits, m.tms)
          /\ rx' = IF m.in_bits % 4 = 0 THEN rx
                   ELSE Append(rx, Packed(BurstIn(dev, m.bits)))
    /\ UNCHANGED <<setup, call, todo, ad, drv, got, err, faults, hist>>
================================================================================
