--------------------------- MODULE SteeringContract ---------------------------
(***************************************************************************)
(* What SubAgentManager promises about steering its sessions, without its  *)
(* locks, tasks and queues: messages are heard in the order they were      *)
(* accepted, and a session that ends by itself hands back precisely the    *)
(* rest, after which it accepts and hears nothing more.                    *)
(***************************************************************************)
EXTENDS Naturals, Sequences

CONSTANTS Sessions, Msgs

VARIABLES
    said,       \* messages accepted by steer()
    heard,      \* messages the sub-agent's model loop has been given
    returned,   \* messages handed back in the completion event
    ended       \* sessions whose completion event was sent

contractVars == <<said, heard, returned, ended>>

ContractInit ==
    /\ said = [s \in Sessions |-> <<>>]
    /\ heard = [s \in Sessions |-> <<>>]
    /\ returned = [s \in Sessions |-> <<>>]
    /\ ended = {}

Say(s, m) ==
    /\ said' = [said EXCEPT ![s] = Append(@, m)]
    /\ UNCHANGED <<heard, returned, ended>>

\* The next turn of the model loop hears everything said so far.
Hear(s) ==
    /\ heard' = [heard EXCEPT ![s] = said[s]]
    /\ UNCHANGED <<said, returned, ended>>

Unheard(s) == SubSeq(said[s], Len(heard[s]) + 1, Len(said[s]))

End(s) ==
    /\ returned' = [returned EXCEPT ![s] = Unheard(s)]
    /\ ended' = ended \cup {s}
    /\ UNCHANGED <<said, heard>>

ContractNext ==
    \E s \in Sessions \ ended : End(s) \/ Hear(s) \/ \E m \in Msgs : Say(s, m)

ContractSpec == ContractInit /\ [][ContractNext]_contractVars
=============================================================================
