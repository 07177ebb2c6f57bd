--------------------------- MODULE MCDatabasePool ---------------------------
(* DatabasePool with two chats, a session in each.                  *)
EXTENDS DatabasePool, TLC

CONSTANTS ch1, ch2, s1, s2, q, w

MCChatOf == (s1 :> ch1) @@ (s2 :> ch2) @@ (q :> ch1) @@ (w :> ch2)
=============================================================================
