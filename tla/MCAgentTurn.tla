----------------------------- MODULE MCAgentTurn -----------------------------
(* A small instance for checking AgentTurn with TLC: the second of two tool *)
(* results is too large for the window.                                     *)
EXTENDS AgentTurn

MCToolSize == <<1, 4>>
=============================================================================
