--------------------------- MODULE MCChatDelivery ---------------------------
(* ChatDelivery on small instances; every constant is given by the .cfg.   *)
EXTENDS ChatDelivery, TLC

Symmetry ==
    Permutations(Residents) \union Permutations(Clients \ Residents) \union Permutations(Messages)
=============================================================================
