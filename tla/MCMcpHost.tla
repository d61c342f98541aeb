------------------------------ MODULE MCMcpHost ------------------------------
(* One server and its tool, for checking McpHost. *)
EXTENDS McpHost

CONSTANTS a, launch, restart, c1, c2, tool

MCOrder == <<a>>
MCToolOf == [c \in Calls |-> tool]
MCProvides == [s \in Servers |-> {tool}]
MCProcs == Starters \X DOMAIN MCOrder
MCAskers == Starters \cup Calls
=============================================================================
