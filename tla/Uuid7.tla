-------------------------------- MODULE Uuid7 --------------------------------
(***************************************************************************)
(* The identifiers of chats (utils/uuid7_generator.py): a time stamp in    *)
(* nanoseconds, split into seconds and three pieces, and random bits.  The *)
(* wall clock may stand still or go back; the module-level variable        *)
(* _last_v7_timestamp, which a restart forgets, keeps the stamps apart.    *)
(* In the code a second has 10^9 units, and the fields have, from the top, *)
(* 36 bits of seconds, 12 (a), 4 unused, 12 (b), 2 unused, 6 (c) and 56    *)
(* random bits.  Here a field is given by how many values it has, 2^36 for *)
(* 36 bits: a shift is a product or a quotient, a mask a remainder.        *)
(***************************************************************************)
EXTENDS Integers

CONSTANTS
    Second,                                     \* units of a second
    Seconds, As, Bs, Cs, Randoms,               \* the sizes of the fields
    GapA, GapB,                                 \* of the unused bits below a and below b
    MaxTime                                     \* bound: readings of the clock

ASSUME Uuid7Assumption ==
    /\ {Seconds, As, Bs, Cs, Randoms, GapA, GapB} \subseteq Nat \ {0}
    /\ Second \in 1..(As * Bs * Cs)
    /\ MaxTime \in Nat

VARIABLES
    last,           \* _last_v7_timestamp
    newest          \* the identifier made last by this process

vars == <<last, newest>>

None == -1

\* What a one in each field is worth: 2^56, 2^64, 2^80 and 2^92 in the code.
CUnit == Randoms
BUnit == CUnit * Cs * GapB
AUnit == BUnit * Bs * GapA
SecondUnit == AUnit * As
Size == SecondUnit * Seconds

Init == last = None /\ newest = None

\* Mutant: a stamp is only moved when the clock has gone back.
StampWhenBack(now) == IF last # None /\ now < last THEN last + 1 ELSE now

Stamp(now) == IF last # None /\ now <= last THEN last + 1 ELSE now

\* Mutant: the mask of the last piece is a bit short.
PackShort(stamp, random) ==
    LET seconds == (stamp \div Second) % Seconds
        units == stamp % Second
    IN  seconds * SecondUnit
        + (units \div (Bs * Cs)) * AUnit
        + ((units \div Cs) % Bs) * BUnit
        + (units % (Cs \div 2)) * CUnit
        + random

\* Mutant: the seconds are not masked.
PackUnmasked(stamp, random) ==
    LET units == stamp % Second
    IN  (stamp \div Second) * SecondUnit
        + (units \div (Bs * Cs)) * AUnit
        + ((units \div Cs) % Bs) * BUnit
        + (units % Cs) * CUnit
        + random

Pack(stamp, random) ==
    LET seconds == (stamp \div Second) % Seconds
        units == stamp % Second
    IN  seconds * SecondUnit
        + (units \div (Bs * Cs)) * AUnit
        + ((units \div Cs) % Bs) * BUnit
        + (units % Cs) * CUnit
        + random

\* extract_timestamp_from_uuid7, which reads the fields back.
Extract(uuid) ==
    LET field(unit, size) == (uuid \div unit) % size
    IN  field(SecondUnit, Seconds) * Second
        + field(AUnit, As) * (Bs * Cs) + field(BUnit, Bs) * Cs + field(CUnit, Cs)

Generate == \E now \in 0..MaxTime, random \in 0..(Randoms - 1) :
    /\ Stamp(now) <= MaxTime
    /\ last' = Stamp(now)
    /\ newest' = Pack(last', random)

Restart == last' = None /\ newest' = None

Next == Generate \/ Restart

Spec == Init /\ [][Next]_vars

-----------------------------------------------------------------------------
(* An identifier fits into a UUID, whatever the clock says.                *)
UuidTypeOK ==
    /\ last \in {None} \union 0..MaxTime
    /\ newest \in {None} \union 0..(Size - 1)

(* The identifiers of a process increase, although its clock stands still  *)
(* or goes back, as long as the seconds fit their field: they are unique,  *)
(* and their order is the order of their creation.                         *)
IdsIncrease == [][
    newest # None /\ newest' # None /\ last' < Second * Seconds =>
        newest' > newest]_vars

(* The time stamp comes back out of the identifier, up to the overflow of  *)
(* the seconds.                                                            *)
StampExtracted ==
    newest # None => Extract(newest) = last % (Second * Seconds)
=============================================================================
