------------------------------- MODULE MCDbgApi -------------------------------
EXTENDS DbgApi

Blocks == {"wb_read_block", "wb_write_block", "cpu0_ctrl", "serial_sndrcv"}
Main == Blocks \cup {"cpu0_read_write"}
Others == {"wb_single", "cpu1_read", "cpu1_ctrl"}

Setup(adv, hispeed, bscan, retries, kinds, functions) ==
    [adv |-> adv, hispeed |-> hispeed, bscan |-> bscan, retries |-> retries,
     faults |-> kinds, functions |-> functions]

\* NUM_SOFT_RETRIES is 0 in the source; 1 exercises the retry labels.
\* Words are not garbled in a burst that is also broken off and taken up again:
\* only the last of its parts is checked by a CRC, as adv_dbg_commands.c:333 says.
MCSetups ==
    { Setup(TRUE, FALSE, FALSE, 0, {"select", "command", "timeout"}, Blocks),
      Setup(TRUE, FALSE, FALSE, 0, {"select", "word"}, Others),
      Setup(TRUE, FALSE, FALSE, 0, {"cable", "bus"}, Main),
      Setup(TRUE, FALSE, FALSE, 1, {"word", "bus"}, Main),
      Setup(TRUE, FALSE, FALSE, 1, {"select", "timeout", "cable"}, Blocks),
      Setup(TRUE, TRUE, FALSE, 0, {"command", "timeout", "cable"}, Main),
      Setup(TRUE, TRUE, FALSE, 1, {"timeout", "cable", "word"}, Blocks),
      Setup(TRUE, TRUE, TRUE, 0, {"timeout", "word"}, Main),
      Setup(FALSE, FALSE, FALSE, 0, {"go"}, Main \cup Others \cup {"cpu1_write"}),
      Setup(FALSE, FALSE, FALSE, 1, {"word", "go"}, Main) }

\* None of them is one in which harm goes unreported.
ASSUME MCSetupsHandled == \A s \in MCSetups : Handled(s)

\* What follows a call that returned uncleanly is not explored: no property but
\* the types speaks of it.
UntilHarmed == ~ (harmed /\ pc # "idle")

MCAddrs == 0 .. 1
=============================================================================
