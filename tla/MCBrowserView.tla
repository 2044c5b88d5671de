---------------------------- MODULE MCBrowserView ----------------------------
(* The instance on which TLC checks BrowserView: the first conversation gets *)
(* its message while the page is open, the second one has it already.        *)
EXTENDS BrowserView

CONSTANTS c1, c2

MCStored == [c \in Conversations |-> IF c = c1 THEN 0 ELSE 1]
=============================================================================
