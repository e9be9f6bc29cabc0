--------------------------- MODULE MCConversation ---------------------------
(* Instances of Conversation for TLC.                                       *)
EXTENDS Conversation

CONSTANTS k1, k2, a1, a2, s1, s2

Context(k, a, s) == [key |-> k, auth |-> a, source |-> s]

\* A space whose authority and source rotate, and another space.
Rotating == {Context(k1, a1, s1), Context(k1, a2, s1), Context(k1, a2, s2), Context(k2, a1, s1)}
=============================================================================
