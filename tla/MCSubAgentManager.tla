-------------------------- MODULE MCSubAgentManager --------------------------
(* One session, two concurrent calls and two messages for SubAgentManager. *)
EXTENDS SubAgentManager

CONSTANTS s1, c1, c2, m1, m2

MCTasks == {s1}
MCCallers == {c1, c2}
MCMsgs == {m1, m2}
MCOneMsg == {m1}
=============================================================================
