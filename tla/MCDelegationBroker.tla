-------------------------- MODULE MCDelegationBroker --------------------------
(* A batch of three sub-tasks for checking DelegationBroker with TLC. *)
EXTENDS DelegationBroker

CONSTANTS t1, t2, t3

MCTasks == {t1, t2, t3}
MCSubmitted == <<t1, t2, t3>>
=============================================================================
