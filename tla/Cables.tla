--------------------------------- MODULE Cables ---------------------------------
(***************************************************************************)
(* The cable API of cable_common.c over every cable driver: cable_init,    *)
(* then calls for one bit or for a stream, one after the other (the        *)
(* callers hold dbg_access_mutex).  A setup says which cable is plugged in *)
(* (cable), what its initialisation (init) and its transfers (faults) may  *)
(* run into, at which sizes a reply may be cut (cut), whether the host     *)
(* masks shift counts (masks), and which calls (calls) are made how often. *)
(***************************************************************************)
EXTENDS CableMpsse

(* The init functions: what comes of a step that fails.  A reset or a       *)
(* start request that fails is only reported.                               *)
cable_usbblaster_init(f) ==
    IF f \in {"absent", "open", "config", "claim", "version"} THEN "refused" ELSE "open"
(* Any of the first requests that fails closes the handle, and cpld_init,   *)
(* which only reports its own failures, uses it all the same.               *)
cable_xpcusb_open_cable(f) == f \notin {"open", "config", "claim"}
xpcu_common_init(f) == IF f = "gpio" THEN "closed" ELSE "open"
cable_xpcusb_cpld_init(handle) == IF handle = "closed" THEN "crashed" ELSE "open"
cable_xpcusb_init(f) ==
    CASE f = "absent" \/ ~cable_xpcusb_open_cable(f) -> "refused"
      [] f = "version" -> cable_xpcusb_cpld_init("closed")
      [] OTHER -> cable_xpcusb_cpld_init(xpcu_common_init(f))
(* A NULL of usbconn_ftdi_connect is used by usbconn_ftdi_mpsse_open.       *)
usbconn_ftdi_connect(f) == f /= "absent"
usbconn_ftdi_mpsse_open(f) == f \notin {"reset", "purge", "latency", "bitmode"}
cable_ftdi_init(f) ==
    CASE ~usbconn_ftdi_connect(f) -> "crashed"
      [] ~usbconn_ftdi_mpsse_open(f) -> "refused"
      [] OTHER -> "open"
cable_ft245_init(f) ==
    IF f \in {"absent", "reset", "latency"} THEN "refused" ELSE "open"
OtherInit(f) == IF f = "absent" THEN "refused" ELSE "open"

cable_init ==
    /\ drv.handle = "none"
    /\ \E f \in setup.init \cup {"nothing"} :
          drv' = [drv EXCEPT !.handle =
                    CASE setup.cable = "usbblaster" -> cable_usbblaster_init(f)
                      [] setup.cable = "xpc_usb" -> cable_xpcusb_init(f)
                      [] setup.cable = "ft2232" -> cable_ftdi_init(f)
                      [] setup.cable \in Ftdi -> cable_ft245_init(f)
                      [] OTHER -> OtherInit(f)]
    /\ UNCHANGED <<setup, call, todo, dev, tx, rx, ad, got, err, faults, hist>>

(* What a call makes of the cable in use.                                   *)
cable_write_bit(c) ==
    CASE setup.cable = "ft2232" -> cable_ftdi_write_stream(<<{1}>>, c.last)
      [] setup.cable = "xpc_usb" -> cable_xpcusb_readwrite_stream(<<{1}>>, c.last, FALSE)
      [] OTHER -> cable_common_write_bit(c.last, {1})
cable_read_write_bit(c) ==
    CASE setup.cable = "ft2232" -> cable_ftdi_read_stream(<<{1}>>, c.last)
      [] setup.cable = "xpc_usb" -> cable_xpcusb_readwrite_stream(<<{1}>>, c.last, TRUE)
      [] OTHER -> Zero(1) \o cable_common_read_write_bit(c.last, {1}, 0)
cable_write_stream(bits, last) ==
    CASE setup.cable = "ft2232" -> cable_ftdi_write_stream(bits, last)
      [] setup.cable = "xpc_usb" -> cable_xpcusb_readwrite_stream(bits, last, FALSE)
      [] setup.cable = "usbblaster" -> cable_usbblaster_write_stream(bits, last)
      [] setup.cable = "ft245" -> cable_ft245_write_stream(bits, last)
      [] OTHER -> cable_common_write_stream(bits, last)
cable_read_write_stream(bits, last) ==
    CASE setup.cable = "ft2232" -> cable_ftdi_read_stream(bits, last)
      [] setup.cable = "xpc_usb" -> cable_xpcusb_readwrite_stream(bits, last, TRUE)
      [] setup.cable = "usbblaster" -> cable_usbblaster_read_stream(bits, last)
      [] setup.cable = "ft245" -> cable_ft245_read_stream(bits, last)
      [] OTHER -> cable_common_read_stream(bits, last)

Program(c) ==
    LET bits == [i \in 1 .. c.len |-> {i}]
    IN  CASE c.fn = "bit" /\ ~c.read -> cable_write_bit(c)
          [] c.fn = "bit" /\ c.read -> cable_read_write_bit(c)
          [] c.fn = "stream" /\ ~c.read -> cable_write_stream(bits, c.last)
          [] c.fn = "stream" /\ c.read -> cable_read_write_stream(bits, c.last)
          [] c.fn = "flush" -> << FlushOp >>

Init ==
    /\ setup \in Setups
    /\ call = NoCall /\ todo = <<>> /\ tx = <<>> /\ rx = <<>>
    /\ dev = [tck |-> setup.tck, tms |-> FALSE, tdi |-> {}, wire |-> <<>>, tdo |-> {}]
    /\ ad = [gdb_in |-> {}, shown |-> FALSE, gdb_out |-> Pins(FALSE, FALSE, {}), acked |-> TRUE,
             settling |-> FALSE, vpi_out |-> {}, count_comp |-> FALSE, jp_waiting |-> FALSE,
             counting |-> FALSE]
    /\ drv = [handle |-> "none", clock_is_high |-> TRUE, retries |-> 0, have |-> 0, total |-> 0,
              send |-> <<>>, sent |-> 0, to_recv |-> 0, recv |-> <<>>, calls |-> 0]
    /\ got = {} /\ err = FALSE /\ faults = 0 /\ hist = [sure |-> TRUE, kept |-> 0]

(* Marks are counted from the start of a call: TDO shows the bit of its     *)
(* first clock already if TCK is down, an old one if not.                   *)
AtStart == IF dev.tck THEN {0} ELSE {-1}
(* Nothing unread is left of a call that failed, and where the driver's     *)
(* flag says that a burst may start as it is, TCK and TMS are down.         *)
Fresh ==
    /\ setup.cable \in Ftdi \cup {"usbblaster"} => rx = <<>>
    /\ setup.cable = "usbblaster" /\ ~drv.clock_is_high => ~dev.tck /\ ~dev.tms
(* Only the bit-banged streams shift by their own length.                   *)
Shifts(c) == c.fn = "stream" /\ setup.cable \in {"parallel", "rtl_sim", "vpi", "usbblaster_ftdi"}
Begin ==
    /\ call = NoCall /\ drv.handle \in {"open", "closed", "unclaimed"}
    /\ drv.calls < setup.ncalls
    /\ \E c \in setup.calls :
          /\ call' = c /\ todo' = Program(c) /\ got' = Stale(c)
          /\ hist' = [sure |-> Fresh /\ (Shifts(c) /\ c.len > Word => setup.masks), kept |-> c.len]
    /\ dev' = [dev EXCEPT !.tdo = AtStart]
    /\ ad' = [ad EXCEPT !.vpi_out = AtStart, !.gdb_in = AtStart]
    /\ drv' = [drv EXCEPT !.calls = @ + 1, !.total = 0]
    /\ UNCHANGED <<setup, tx, rx, err, faults>>

(* A write-only call may return before the adapter has caught up; the pipe  *)
(* keeps the order, so nothing is lost by letting it catch up first.        *)
Returned == call /= NoCall /\ todo = <<>> /\ tx = <<>>
Return ==
    /\ Returned
    /\ call' = NoCall /\ got' = {} /\ err' = FALSE
    /\ dev' = [dev EXCEPT !.wire = <<>>, !.tdi = {}, !.tdo = {}]
    /\ ad' = [ad EXCEPT !.vpi_out = {}, !.gdb_in = {}, !.gdb_out.tdi = {}]
    /\ hist' = [sure |-> TRUE, kept |-> 0]
    /\ UNCHANGED <<setup, todo, tx, rx, drv, faults>>

(* while (recvd == 0): the flush waits for bytes that nobody owes it.       *)
FlushSpins ==
    /\ todo /= <<>> /\ Op.op = "recvd" /\ rx = <<>> /\ tx = <<>>
    /\ UNCHANGED vars

Stopped ==
    /\ call = NoCall
    /\ drv.handle \in {"refused", "crashed", "exited"} \/ drv.calls = setup.ncalls
    /\ UNCHANGED vars

Driver ==
    \/ cable_init \/ Begin \/ Return
    \/ ParallelStep \/ FileStep \/ SendStep \/ SocketStep
    \/ UsbWrite \/ cable_usbblaster_open_cable \/ BulkRead \/ CpldRead \/ LocalStep
    \/ usbconn_ftdi_write \/ usbconn_ftdi_flush \/ FlushReceives
    \/ cable_ft2232_read_packed_bits
Adapter == SimAdapter \/ UsbAdapter \/ MpsseAdapter

Next == Driver \/ Adapter \/ FlushSpins \/ Stopped

(* Driver and adapter go on while they can; no fault has to happen.         *)
Spec ==
    /\ Init /\ [][Next]_vars
    /\ WF_vars(Driver /\ faults' = faults) /\ WF_vars(Adapter)
--------------------------------------------------------------------------------
AllCalls == UNION { s.calls : s \in Setups }
Answer ==
    IF ~Returned THEN [done |-> FALSE, err |-> FALSE, wire |-> <<>>, in |-> {}]
    ELSE [done |-> TRUE, err |-> err, wire |-> IF err \/ ~hist.sure THEN <<>> ELSE dev.wire,
          in |-> IF err \/ ~hist.sure \/ ~call.read THEN {} ELSE Bits(got, hist.kept)]
Promise == INSTANCE JtagStream WITH
    Calls <- AllCalls, answer <- Answer, sure <- hist.sure, kept <- hist.kept

(* Every cable implements JtagStream: a call that returns without an error  *)
(* has made exactly the clocks asked for, whatever mix of bursts, leftover  *)
(* bits, bit-banging and buffering the driver chose and whatever state the  *)
(* call before it left the clock in, and has stored the TDO bits of those   *)
(* clocks at their places.  The drivers break that promise without an error *)
(* in these cases and no other:                                             *)
(*  - libftdi bit-banging fails (usb_blaster_write ignores the result), the *)
(*    burst of a written stream fails and leftover bits follow whose result *)
(*    is returned instead, or a read gives up after READ_RETRIES empty      *)
(*    replies;                                                              *)
(*  - a call before it failed and left bytes unread, or left TCK or TMS up  *)
(*    while the USB-Blaster driver takes the clock for low (Fresh);         *)
(*  - a bit-banged stream is longer than a word and the host does not mask  *)
(*    shift counts;                                                         *)
(* and of a read only the first bits are at their places (kept) when        *)
(*  - a USB-Blaster reply begins within a word: the words before it are;    *)
(*  - the platform cable needs a second transfer: none are.                 *)
StreamExact == Promise!StreamSpec

(* While nothing has gone wrong, an idle cable owes nothing: no answer of   *)
(* an earlier call is on its way, in the driver's receive buffer or still   *)
(* awaited, where the next reading call would take it for its own, and the  *)
(* USB-Blaster driver never starts a burst with TCK or TMS up.              *)
NothingOwed ==
    call = NoCall /\ faults = 0 =>
        rx = <<>> /\ drv.recv = <<>> /\ drv.send = <<>> /\ drv.to_recv = 0 /\ Fresh

(* Every call returns: driver and adapter never wait for each other.  The   *)
(* FT2232 driver after a short reply is the exception (FlushSpins).         *)
CallsReturn ==
    call /= NoCall ~> (call = NoCall \/ (setup.cable = "ft2232" /\ faults > 0))
================================================================================
