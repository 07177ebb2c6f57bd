--------------------------- MODULE MCChatSession ---------------------------
(* ChatSession on small instances.                                         *)
EXTENDS ChatSession, TLC

CONSTANTS c1, c2, alice, bob

\* Two sessions of two actors, or of one.
TwoActors == (c1 :> alice) @@ (c2 :> bob)
OneActor  == (c1 :> alice) @@ (c2 :> alice)
Alone     == (c1 :> alice)
=============================================================================
