--------------------------- MODULE MCConversations ---------------------------
(* A small instance for checking Conversations with TLC: main, one session *)
(* that /clear can choose and one other name, which /clear chooses next.   *)
EXTENDS Conversations

CONSTANTS main, s1, s2, m1, m2, m3

MCSessions == <<s1, s2>>
=============================================================================
