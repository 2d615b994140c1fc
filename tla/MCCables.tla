-------------------------------- MODULE MCCables --------------------------------
EXTENDS Cables

Call(fn, len, last, read) == [fn |-> fn, len |-> len, last |-> last, read |-> read]
BitCalls == { Call("bit", 1, l, r) : l, r \in BOOLEAN }
Streams(lens, reads) == { Call("stream", n, l, r) : n \in lens, l \in BOOLEAN, r \in reads }

Plain(cable, calls) ==
    [cable |-> cable, faults |-> {}, cut |-> {}, masks |-> TRUE, init |-> {"absent"},
     tck |-> FALSE, calls |-> calls, ncalls |-> 2]

BangCalls == BitCalls \cup Streams({1, 3, 33}, BOOLEAN)
ByteCalls == BitCalls \cup Streams({1, 8, 9, 16, 48, 65}, BOOLEAN)
FewCalls == { Call("bit", 1, TRUE, FALSE), Call("bit", 1, FALSE, TRUE),
              Call("stream", 16, FALSE, FALSE), Call("stream", 9, TRUE, FALSE),
              Call("stream", 9, FALSE, TRUE), Call("stream", 64, FALSE, TRUE) }
CpldCalls == BitCalls \cup Streams({4, 7, 16, 21, 33, 45}, BOOLEAN)
MpsseCalls == BitCalls \cup Streams({8, 9, 17, 24, 41}, BOOLEAN) \cup { Call("flush", 0, FALSE, FALSE) }

MCSetups ==
    { Plain("parallel", BangCalls),
      [Plain("rtl_sim", BangCalls) EXCEPT !.tck = TRUE],
      Plain("vpi", BangCalls),
      [Plain("parallel", Streams({32, 33}, BOOLEAN)) EXCEPT !.masks = FALSE],
      Plain("usbblaster_ftdi", BangCalls),
      [Plain("usbblaster_ftdi", { Call("bit", 1, TRUE, FALSE), Call("stream", 2, FALSE, TRUE) })
            EXCEPT !.faults = {"write", "read", "empty"}],
      [Plain("ft245", ByteCalls) EXCEPT !.init = {"absent", "reset", "latency"}],
      [Plain("ft245", FewCalls)
            EXCEPT !.faults = {"write", "read", "empty", "short"}, !.cut = {3, 4}],
      [Plain("usbblaster", ByteCalls) EXCEPT !.faults = {"empty", "short"}, !.cut = {3, 4},
            !.init = {"absent", "open", "config", "claim", "version", "reset", "start"}],
      [Plain("usbblaster", FewCalls)
            EXCEPT !.faults = {"write", "open", "read"}, !.ncalls = 3],
      [Plain("xpc_usb", CpldCalls) EXCEPT !.faults = {"write", "read"},
            !.init = {"absent", "open", "config", "claim", "gpio", "version", "cpld"}],
      [Plain("ft2232", MpsseCalls) EXCEPT !.faults = {"short"}, !.cut = {1, 2},
            !.init = {"absent", "reset", "purge", "latency", "bitmode"}] }
================================================================================
