--------------------------- MODULE MCChatHistory ---------------------------
(* ChatHistory on small instances; every constant is given by the .cfg.    *)
EXTENDS ChatHistory
=============================================================================
