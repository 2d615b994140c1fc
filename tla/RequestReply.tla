--------------------------- MODULE RequestReply -----------------------------
(***************************************************************************)
(* What a packet protocol without sequence numbers promises its client:    *)
(* requests are answered one by one, each answer belongs to the request    *)
(* that was made last, and what the server executes is that request (once  *)
(* or, if an acknowledgement got lost, several times).                     *)
(***************************************************************************)
EXTENDS Naturals

VARIABLES
  issued,    \* the number of the last request
  executed,  \* the request the server executed last
  execs,     \* how often it executed one
  answered   \* the request the client got its last answer to

Init == issued = 0 /\ executed = 0 /\ execs = 0 /\ answered = 0

Issue ==
  /\ answered = issued
  /\ issued' = issued + 1
  /\ UNCHANGED <<executed, execs, answered>>

Execute ==
  /\ issued > answered
  /\ executed' = issued
  /\ execs' = execs + 1
  /\ UNCHANGED <<issued, answered>>

Answer ==
  /\ issued > answered
  /\ executed = issued
  /\ answered' = issued
  /\ UNCHANGED <<issued, executed, execs>>

Spec == Init /\ [][Issue \/ Execute \/ Answer]_<<issued, executed, execs, answered>>

=============================================================================
