---------------------------- MODULE MCLlmLedger ---------------------------
(* The instances on which TLC checks LlmLedger. *)
EXTENDS LlmLedger, TLC

CONSTANTS a1, a2, p1, runA

\* Two calls of one run and a projection.
MCRunOf == [c \in Calls |-> IF c = p1 THEN NoRun ELSE runA]

\* An empty prompt is estimated at 0 and reserved as 1; the prompt of the
\* projection alone takes the wide limit.
MCEstimate == [a \in Attempts |-> IF a[1] = a2 THEN 0 ELSE IF a[1] = p1 THEN 3 ELSE 1]

Tight == [calls |-> 2, tokens |-> 2]
Wide == [calls |-> 3, tokens |-> 3]
MCLimits == {Tight, Wide}
=============================================================================
