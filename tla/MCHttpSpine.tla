----------------------------- MODULE MCHttpSpine -----------------------------
(* Two sessions and up to three requests, for checking HttpSpine. *)
EXTENDS HttpSpine

CONSTANTS q1, q2, other, s1, s2

MCSessionOf == [q \in Requests |-> IF q = other THEN s2 ELSE s1]
MCTwoOne == {q1, q2, other}
MCPair == {q1, q2}
=============================================================================
