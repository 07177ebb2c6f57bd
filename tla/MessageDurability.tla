------------------------- MODULE MessageDurability -------------------------
(***************************************************************************)
(* What chat persistence promises for every message sent in a chat.  A     *)
(* message is held once its append took effect and stored once it is a row *)
(* of PostgreSQL; stored and lost are final.  Closing the room drops every *)
(* held message.  A save that had already read some of them decides what   *)
(* becomes of those: until then they are orphaned.                         *)
(***************************************************************************)
CONSTANT Messages

VARIABLES held, orphaned, stored, lost

vars == <<held, orphaned, stored, lost>>

Init == held = {} /\ orphaned = {} /\ stored = {} /\ lost = {}

Hold(m) ==
    /\ m \notin held \union orphaned \union stored \union lost
    /\ held' = held \union {m}
    /\ UNCHANGED <<orphaned, stored, lost>>

\* A save stores its whole batch at once.
Store(batch) ==
    /\ stored' = stored \union batch
    /\ held' = held \ batch
    /\ orphaned' = orphaned \ batch
    /\ UNCHANGED lost

Close(saving) ==
    /\ held' = {}
    /\ orphaned' = orphaned \union saving
    /\ lost' = lost \union (held \ saving)
    /\ UNCHANGED stored

\* The save that had read the orphaned messages fails.
GiveUp ==
    /\ lost' = lost \union orphaned
    /\ orphaned' = {}
    /\ UNCHANGED <<held, stored>>

Next ==
    \/ \E m \in Messages : Hold(m)
    \/ \E batch \in SUBSET (held \union orphaned) : Store(batch)
    \/ \E saving \in SUBSET held : Close(saving)
    \/ GiveUp

Spec == Init /\ [][Next]_vars
=============================================================================
