------------------------- MODULE MCForgettingEngine -------------------------
(* Two memories of one category, under both limits, for ForgettingEngine. *)
EXTENDS ForgettingEngine

CONSTANTS m1, m2, chat, u1, timer

MCCategoryOf == [m \in Memories |-> chat]
MCMaxAge == [k \in Categories |-> 1]
MCMaxCount == [k \in Categories |-> 1]
=============================================================================
