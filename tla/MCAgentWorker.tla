--------------------------- MODULE MCAgentWorker ----------------------------
(* The instances on which TLC checks AgentWorker. *)
EXTENDS AgentWorkerInv

CONSTANTS A, B

Everyone == {A, B}
MCUserMentions == {{}, Everyone}
MCDirect == {{A}}
MCNobody == {{}}
MCPeerMentions == {{A}}
=============================================================================
