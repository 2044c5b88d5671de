---------------------------- MODULE MCSequencer -----------------------------
(* The instances on which TLC checks Sequencer. *)
EXTENDS SequencerInv, TLC

CONSTANTS r1, r2, r3, u1, u2, g1, g2, g3, g4, A, B

MCRunOf ==
    g1 :> [agent |-> A, episode |-> "e", hop |-> 1, body |-> "plain"] @@
    g2 :> [agent |-> B, episode |-> "e", hop |-> 1, body |-> "doomed"]

\* A second run of the first agent, and one beyond the hop limit.
MCFourRuns ==
    MCRunOf @@
    g3 :> [agent |-> A, episode |-> "e", hop |-> 1, body |-> "plain"] @@
    g4 :> [agent |-> B, episode |-> "e", hop |-> 2, body |-> "plain"]

\* The second user key and the second run reply to the first user message.
MCReplyTarget ==
    [k \in Keys |-> IF k \in {u2, g2} THEN {u1} ELSE {}]

=============================================================================
