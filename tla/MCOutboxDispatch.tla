------------------------- MODULE MCOutboxDispatch ---------------------------
(* The instance on which TLC checks OutboxDispatch. *)
EXTENDS OutboxDispatch, TLC

CONSTANTS c1, c2

MCConvOf == [s \in Sockets |-> c1]

\* c2 has signals without events, which is what makes batches of two.
MCMaxRows == [c \in Conversations |-> IF c = c1 THEN 3 ELSE 0]
=============================================================================
