----------------------------- MODULE Uuid7_proofs -----------------------------
(***************************************************************************)
(* An identifier is a number in a mixed radix, the fields its digits: for  *)
(* fields of any sizes and any clock, each digit can be read back, and the *)
(* order of the numbers is that of the time stamps.                        *)
(***************************************************************************)
EXTENDS Uuid7, TLAPS

\* The newest identifier was packed from the last time stamp.
UuidInv ==
    /\ last \in {None} \union 0..MaxTime
    /\ newest = None <=> last = None
    /\ last # None => \E random \in 0..(Randoms - 1) : newest = Pack(last, random)

-----------------------------------------------------------------------------
(* Digits.                                                                 *)

\* A difference of a digit is worth at least a unit.
LEMMA Scaled ==
  ASSUME NEW x \in Int, NEW y \in Int, NEW k \in Nat \ {0}, x < y
  PROVE  x * k + k <= y * k
OBVIOUS

\* A number below one unit and a digit in front of it.
LEMMA Digit ==
  ASSUME NEW D \in Nat \ {0}, NEW k \in Nat \ {0},
         NEW d \in 0..(D - 1), NEW low \in 0..(k - 1)
  PROVE  d * k + low \in 0..(D * k - 1)
<1>1. d * k \in Nat /\ D * k \in Nat
  OBVIOUS
<1>2. d * k + k <= D * k
  BY Scaled
<1> QED
  BY <1>1, <1>2

\* Division and remainder take them apart.
LEMMA Unique ==
  ASSUME NEW q \in Nat, NEW r \in Nat, NEW k \in Nat \ {0}, r < k
  PROVE  (q * k + r) \div k = q /\ (q * k + r) % k = r
OBVIOUS

\* Every number is taken apart so.
LEMMA Parts ==
  ASSUME NEW n \in Nat, NEW k \in Nat \ {0}
  PROVE  /\ n \div k \in Nat /\ n % k \in 0..(k - 1)
         /\ n = (n \div k) * k + (n % k)
OBVIOUS

\* The units are numbers, and each has room for the digits below it.
LEMMA Units ==
  /\ {Second, Seconds, As, Bs, Cs, Randoms, GapA, GapB} \subseteq Nat \ {0}
  /\ {CUnit, BUnit, AUnit, SecondUnit, Size, Bs * Cs} \subseteq Nat \ {0}
  /\ Cs * CUnit <= BUnit /\ Bs * BUnit <= AUnit
  /\ As * AUnit = SecondUnit /\ Seconds * SecondUnit = Size
<1>1. /\ Second \in Nat \ {0} /\ Seconds \in Nat \ {0} /\ As \in Nat \ {0} /\ Bs \in Nat \ {0}
      /\ Cs \in Nat \ {0} /\ Randoms \in Nat \ {0} /\ GapA \in Nat \ {0} /\ GapB \in Nat \ {0}
  BY Uuid7Assumption
<1>2. \A x, y \in Nat \ {0} : x * y \in Nat \ {0} /\ x * y = y * x /\ x <= x * y
  OBVIOUS
<1>3. CUnit \in Nat \ {0}
  BY <1>1 DEF CUnit
<1>4. BUnit \in Nat \ {0} /\ Cs * CUnit <= BUnit
  BY <1>1, <1>2, <1>3 DEF BUnit
<1>5. AUnit \in Nat \ {0} /\ Bs * BUnit <= AUnit
  BY <1>1, <1>2, <1>4 DEF AUnit
<1>6. SecondUnit \in Nat \ {0} /\ As * AUnit = SecondUnit
  BY <1>1, <1>2, <1>5 DEF SecondUnit
<1>7. Size \in Nat \ {0} /\ Seconds * SecondUnit = Size
  BY <1>1, <1>2, <1>6 DEF Size
<1>8. Bs * Cs \in Nat \ {0}
  BY <1>1, <1>2
<1> QED
  BY <1>1, <1>3, <1>4, <1>5, <1>6, <1>7, <1>8

\* The five digits of an identifier.
Digits(s, a, b, c, r) ==
    /\ s \in 0..(Seconds - 1) /\ a \in 0..(As - 1) /\ b \in 0..(Bs - 1)
    /\ c \in 0..(Cs - 1) /\ r \in 0..(Randoms - 1)

Value(s, a, b, c, r) == s * SecondUnit + a * AUnit + b * BUnit + c * CUnit + r

\* What is below each unit stays below it.
LEMMA Below ==
  ASSUME NEW s, NEW a, NEW b, NEW c, NEW r, Digits(s, a, b, c, r)
  PROVE  /\ r \in 0..(CUnit - 1)
         /\ c * CUnit + r \in 0..(BUnit - 1)
         /\ b * BUnit + (c * CUnit + r) \in 0..(AUnit - 1)
         /\ a * AUnit + (b * BUnit + (c * CUnit + r)) \in 0..(SecondUnit - 1)
         /\ Value(s, a, b, c, r) = s * SecondUnit + (a * AUnit + (b * BUnit + (c * CUnit + r)))
         /\ Value(s, a, b, c, r) \in 0..(Size - 1)
<1>1. r \in 0..(CUnit - 1)
  BY DEF Digits, CUnit
<1>2. /\ CUnit \in Nat \ {0} /\ BUnit \in Nat \ {0} /\ AUnit \in Nat \ {0}
      /\ SecondUnit \in Nat \ {0} /\ Size \in Nat \ {0}
      /\ Cs \in Nat \ {0} /\ Bs \in Nat \ {0} /\ As \in Nat \ {0} /\ Seconds \in Nat \ {0}
      /\ Cs * CUnit <= BUnit /\ Bs * BUnit <= AUnit
      /\ As * AUnit = SecondUnit /\ Seconds * SecondUnit = Size
  BY Units
<1>3. c * CUnit + r \in 0..(BUnit - 1)
  <2>1. c * CUnit + r \in 0..(Cs * CUnit - 1)
    BY <1>1, <1>2, Digit DEF Digits
  <2> QED
    BY <1>2, <2>1
<1>4. b * BUnit + (c * CUnit + r) \in 0..(AUnit - 1)
  <2>1. b * BUnit + (c * CUnit + r) \in 0..(Bs * BUnit - 1)
    BY <1>2, <1>3, Digit DEF Digits
  <2> QED
    BY <1>2, <2>1
<1>5. a * AUnit + (b * BUnit + (c * CUnit + r)) \in 0..(SecondUnit - 1)
  BY <1>2, <1>4, Digit DEF Digits
<1>6. Value(s, a, b, c, r) = s * SecondUnit + (a * AUnit + (b * BUnit + (c * CUnit + r)))
  <2>1. /\ s * SecondUnit \in Int /\ a * AUnit \in Int /\ b * BUnit \in Int
        /\ c * CUnit \in Int /\ r \in Int
    BY <1>2 DEF Digits
  <2> QED
    BY <2>1 DEF Value
<1>7. Value(s, a, b, c, r) \in 0..(Size - 1)
  BY <1>2, <1>5, <1>6, Digit DEF Digits
<1> QED
  BY <1>1, <1>3, <1>4, <1>5, <1>6, <1>7

\* Each digit is read back with its unit and the size of its field.
LEMMA ReadBack ==
  ASSUME NEW s, NEW a, NEW b, NEW c, NEW r, Digits(s, a, b, c, r),
         NEW n, n = Value(s, a, b, c, r)
  PROVE  /\ (n \div SecondUnit) % Seconds = s
         /\ (n \div AUnit) % As = a
         /\ (n \div BUnit) % Bs = b
         /\ (n \div CUnit) % Cs = c
<1> DEFINE l1 == c * CUnit + r
           l2 == b * BUnit + l1
           l3 == a * AUnit + l2
           h == s * As + a
           g == h * GapA * Bs + b
           f == g * GapB * Cs + c
<1>1. /\ CUnit \in Nat \ {0} /\ BUnit \in Nat \ {0} /\ AUnit \in Nat \ {0}
      /\ SecondUnit \in Nat \ {0} /\ Seconds \in Nat \ {0}
      /\ Cs \in Nat \ {0} /\ Bs \in Nat \ {0} /\ As \in Nat \ {0}
      /\ GapA \in Nat \ {0} /\ GapB \in Nat \ {0}
  BY Units
<1>2. /\ s \in Nat /\ a \in Nat /\ b \in Nat /\ c \in Nat /\ r \in Nat
      /\ s < Seconds /\ a < As /\ b < Bs /\ c < Cs
  BY <1>1 DEF Digits
<1>3. /\ r \in 0..(CUnit - 1) /\ l1 \in 0..(BUnit - 1)
      /\ l2 \in 0..(AUnit - 1) /\ l3 \in 0..(SecondUnit - 1)
      /\ n = s * SecondUnit + l3
  BY Below
<1>4. h \in Nat /\ h * GapA \in Nat
  BY <1>1, <1>2
<1>5. g \in Nat /\ g * GapB \in Nat
  BY <1>1, <1>2, <1>4
<1>6. f \in Nat
  BY <1>1, <1>2, <1>5
<1>7. n = h * AUnit + l2
  <2>1. s * SecondUnit = (s * As) * AUnit
    BY <1>1, <1>2 DEF SecondUnit
  <2>2. (s * As + a) * AUnit = (s * As) * AUnit + a * AUnit
    BY <1>1, <1>2
  <2>3. /\ s * SecondUnit \in Nat /\ (s * As) * AUnit \in Nat /\ a * AUnit \in Nat
        /\ l2 \in Nat
    BY <1>1, <1>2, <1>3
  <2> HIDE DEF l2
  <2> QED
    BY <1>3, <2>1, <2>2, <2>3
<1>8. n = g * BUnit + l1
  <2> HIDE DEF h
  <2>1. h * AUnit = (h * GapA * Bs) * BUnit
    BY <1>1, <1>4 DEF AUnit
  <2>2. (h * GapA * Bs + b) * BUnit = (h * GapA * Bs) * BUnit + b * BUnit
    <3>1. h * GapA * Bs \in Nat
      BY <1>1, <1>4
    <3> QED
      BY <1>1, <1>2, <3>1
  <2>3. h * AUnit \in Nat /\ b * BUnit \in Nat /\ l1 \in Nat
    BY <1>1, <1>2, <1>3, <1>4
  <2> HIDE DEF l1
  <2> QED
    BY <1>7, <2>1, <2>2, <2>3
<1>9. n = f * CUnit + r
  <2> HIDE DEF g
  <2>1. g * BUnit = (g * GapB * Cs) * CUnit
    BY <1>1, <1>5 DEF BUnit
  <2>2. (g * GapB * Cs + c) * CUnit = (g * GapB * Cs) * CUnit + c * CUnit
    <3>1. g * GapB * Cs \in Nat
      BY <1>1, <1>5
    <3> QED
      BY <1>1, <1>2, <3>1
  <2>3. g * BUnit \in Nat /\ c * CUnit \in Nat
    BY <1>1, <1>2, <1>5
  <2> QED
    BY <1>2, <1>8, <2>1, <2>2, <2>3
<1> HIDE DEF l1, l2, l3
<1>10. (n \div SecondUnit) % Seconds = s
  <2>1. n \div SecondUnit = s
    <3>1. l3 \in Nat /\ l3 < SecondUnit
      BY <1>1, <1>3
    <3>2. (s * SecondUnit + l3) \div SecondUnit = s
      BY <1>1, <1>2, <3>1, Unique
    <3> QED
      BY <1>3, <3>2
  <2>2. (0 * Seconds + s) % Seconds = s
    BY <1>1, <1>2, Unique
  <2> QED
    BY <1>1, <1>2, <2>1, <2>2
<1>11. (n \div AUnit) % As = a
  <2> HIDE DEF h
  <2>1. n \div AUnit = h
    <3>1. l2 \in Nat /\ l2 < AUnit
      BY <1>1, <1>3
    <3>2. (h * AUnit + l2) \div AUnit = h
      BY <1>1, <1>4, <3>1, Unique
    <3> QED
      BY <1>7, <3>2
  <2>2. (s * As + a) % As = a
    BY <1>1, <1>2, Unique
  <2> QED
    BY <2>1, <2>2 DEF h
<1>12. (n \div BUnit) % Bs = b
  <2> HIDE DEF g, h
  <2>1. n \div BUnit = g
    <3>1. l1 \in Nat /\ l1 < BUnit
      BY <1>1, <1>3
    <3>2. (g * BUnit + l1) \div BUnit = g
      BY <1>1, <1>5, <3>1, Unique
    <3> QED
      BY <1>8, <3>2
  <2>2. ((h * GapA) * Bs + b) % Bs = b
    BY <1>1, <1>2, <1>4, Unique
  <2> QED
    BY <2>1, <2>2 DEF g
<1>13. (n \div CUnit) % Cs = c
  <2> HIDE DEF f, g
  <2>1. n \div CUnit = f
    BY <1>1, <1>3, <1>6, <1>9, Unique
  <2>2. ((g * GapB) * Cs + c) % Cs = c
    BY <1>1, <1>2, <1>5, Unique
  <2> QED
    BY <2>1, <2>2 DEF f
<1> QED
  BY <1>10, <1>11, <1>12, <1>13

-----------------------------------------------------------------------------
(* The fields of a time stamp.                                             *)

SecondOf(stamp) == (stamp \div Second) % Seconds
UnitOf(stamp) == stamp % Second
FieldA(stamp) == UnitOf(stamp) \div (Bs * Cs)
FieldB(stamp) == (UnitOf(stamp) \div Cs) % Bs
FieldC(stamp) == UnitOf(stamp) % Cs

\* The pieces of the units make the units, and each fits its field: there are
\* enough bits for the units of a second (Uuid7Assumption).
LEMMA Pieces ==
  ASSUME NEW u \in 0..(Second - 1)
  PROVE  /\ u \div (Bs * Cs) \in 0..(As - 1)
         /\ (u \div Cs) % Bs \in 0..(Bs - 1)
         /\ u % Cs \in 0..(Cs - 1)
         /\ ((u \div Cs) % Bs) * Cs + (u % Cs) \in 0..(Bs * Cs - 1)
         /\ u = (u \div (Bs * Cs)) * (Bs * Cs) + (((u \div Cs) % Bs) * Cs + (u % Cs))
<1>1. /\ u \in Nat /\ As \in Nat \ {0} /\ Bs \in Nat \ {0} /\ Cs \in Nat \ {0}
      /\ Bs * Cs \in Nat \ {0} /\ Second \in Nat \ {0}
  BY Units
<1>2. PICK v \in Nat, c \in 0..(Cs - 1) : v = u \div Cs /\ c = u % Cs /\ u = v * Cs + c
  BY <1>1, Parts
<1>3. PICK w \in Nat, b \in 0..(Bs - 1) : w = v \div Bs /\ b = v % Bs /\ v = w * Bs + b
  BY <1>1, Parts
<1>4. b * Cs + c \in 0..(Bs * Cs - 1)
  BY <1>1, Digit
<1>5. u = w * (Bs * Cs) + (b * Cs + c)
  <2>1. (w * Bs + b) * Cs = (w * Bs) * Cs + b * Cs
    BY <1>1
  <2>2. (w * Bs) * Cs = w * (Bs * Cs)
    BY <1>1
  <2>3. b * Cs \in Nat /\ w * (Bs * Cs) \in Nat
    BY <1>1
  <2> QED
    BY <1>2, <1>3, <2>1, <2>2, <2>3
<1>6. u \div (Bs * Cs) = w
  BY <1>1, <1>4, <1>5, Unique
<1>7. w < As
  <2> SUFFICES ASSUME ~(w < As) PROVE FALSE
    OBVIOUS
  <2>1. As * (Bs * Cs) <= w * (Bs * Cs)
    BY <1>1
  <2>2. As * (Bs * Cs) = As * Bs * Cs
    BY <1>1
  <2>3. Second <= As * Bs * Cs
    BY <1>1, Uuid7Assumption
  <2>4. w * (Bs * Cs) \in Nat /\ As * (Bs * Cs) \in Nat
    BY <1>1
  <2> QED
    BY <1>1, <1>4, <1>5, <2>1, <2>2, <2>3, <2>4
<1>8. u % Cs = c /\ (u \div Cs) % Bs = b
  BY <1>2, <1>3, Zenon
<1>9. w \in 0..(As - 1)
  BY <1>1, <1>7
<1> QED
  BY <1>2, <1>3, <1>4, <1>5, <1>6, <1>8, <1>9, Zenon

LEMMA Fields ==
  ASSUME NEW stamp \in Nat, NEW random \in 0..(Randoms - 1)
  PROVE  /\ UnitOf(stamp) \in 0..(Second - 1)
         /\ Digits(SecondOf(stamp), FieldA(stamp), FieldB(stamp), FieldC(stamp), random)
         /\ Pack(stamp, random) =
              Value(SecondOf(stamp), FieldA(stamp), FieldB(stamp), FieldC(stamp), random)
<1>1. /\ stamp \div Second \in Nat /\ UnitOf(stamp) \in 0..(Second - 1)
  BY Units, Parts DEF UnitOf
<1>2. SecondOf(stamp) \in 0..(Seconds - 1)
  BY <1>1, Units, Parts DEF SecondOf
<1>3. /\ FieldA(stamp) \in 0..(As - 1) /\ FieldB(stamp) \in 0..(Bs - 1)
      /\ FieldC(stamp) \in 0..(Cs - 1)
  BY <1>1, Pieces DEF FieldA, FieldB, FieldC
<1>4. Pack(stamp, random) =
        Value(SecondOf(stamp), FieldA(stamp), FieldB(stamp), FieldC(stamp), random)
  BY Zenon DEF Pack, Value, SecondOf, UnitOf, FieldA, FieldB, FieldC
<1> QED
  BY <1>1, <1>2, <1>3, <1>4 DEF Digits

\* What is packed is read back, up to the overflow of the seconds.
LEMMA PackedIsRead ==
  ASSUME NEW stamp \in Nat, NEW random \in 0..(Randoms - 1)
  PROVE  Extract(Pack(stamp, random)) = stamp % (Second * Seconds)
<1> DEFINE s == SecondOf(stamp)
           u == UnitOf(stamp)
           a == FieldA(stamp)
           b == FieldB(stamp)
           c == FieldC(stamp)
           n == Pack(stamp, random)
<1>1. u \in 0..(Second - 1) /\ Digits(s, a, b, c, random) /\ n = Value(s, a, b, c, random)
  BY Fields
<1>2. /\ (n \div SecondUnit) % Seconds = s /\ (n \div AUnit) % As = a
      /\ (n \div BUnit) % Bs = b /\ (n \div CUnit) % Cs = c
  BY <1>1, ReadBack
<1>3. Extract(n) = s * Second + a * (Bs * Cs) + b * Cs + c
  BY <1>2, Zenon DEF Extract
<1>4. u = a * (Bs * Cs) + (b * Cs + c)
  BY <1>1, Pieces DEF FieldA, FieldB, FieldC
<1>5. /\ Second \in Nat \ {0} /\ Seconds \in Nat \ {0} /\ Cs \in Nat \ {0}
      /\ Bs * Cs \in Nat \ {0}
  BY Units
<1>6. s \in 0..(Seconds - 1) /\ a \in Nat /\ b \in Nat /\ c \in Nat
  BY <1>1, Units DEF Digits
<1> HIDE DEF s, u, a, b, c, n
<1>7. Extract(n) = s * Second + u
  <2>1. s * Second \in Nat /\ a * (Bs * Cs) \in Nat /\ b * Cs \in Nat
    BY <1>5, <1>6
  <2> QED
    BY <1>3, <1>4, <1>6, <2>1
<1>8. PICK t \in Nat : t = stamp \div Second /\ stamp = t * Second + u
  BY <1>5, Parts DEF u, UnitOf
<1>9. PICK m \in Nat : t = m * Seconds + s
  BY <1>5, <1>8, Parts DEF s, SecondOf
<1>10. s * Second + u \in 0..(Seconds * Second - 1)
  BY <1>1, <1>5, <1>6, Digit
<1>11. stamp = m * (Second * Seconds) + (s * Second + u)
  <2>1. (m * Seconds + s) * Second = (m * Seconds) * Second + s * Second
    BY <1>5, <1>6
  <2>2. (m * Seconds) * Second = m * (Second * Seconds)
    BY <1>5
  <2>3. /\ m * (Second * Seconds) \in Nat /\ s * Second \in Nat /\ u \in Nat
    BY <1>1, <1>5, <1>6
  <2> QED
    BY <1>8, <1>9, <2>1, <2>2, <2>3
<1>12. Second * Seconds \in Nat \ {0} /\ Seconds * Second = Second * Seconds
  BY <1>5
<1>13. stamp % (Second * Seconds) = s * Second + u
  BY <1>10, <1>11, <1>12, Unique
<1> QED
  BY <1>7, <1>13 DEF n

\* The order of two numbers is decided by the first digit they differ in.
LEMMA Lexicographic ==
  ASSUME NEW k \in Nat \ {0}, NEW x1 \in Nat, NEW x2 \in Nat,
         NEW low1 \in 0..(k - 1), NEW low2 \in 0..(k - 1)
  PROVE  x1 * k + low1 < x2 * k + low2 <=> x1 < x2 \/ (x1 = x2 /\ low1 < low2)
<1> DEFINE p1 == x1 * k
           p2 == x2 * k
<1>1. p1 \in Nat /\ p2 \in Nat
  OBVIOUS
<1>2. x1 < x2 => p1 + k <= p2
  BY Scaled
<1>3. x2 < x1 => p2 + k <= p1
  BY Scaled
<1>4. x1 = x2 => p1 = p2
  OBVIOUS
<1> HIDE DEF p1, p2
<1> SUFFICES p1 + low1 < p2 + low2 <=> x1 < x2 \/ (x1 = x2 /\ low1 < low2)
  BY DEF p1, p2
<1> QED
  BY <1>1, <1>2, <1>3, <1>4

\* A later time stamp makes a larger identifier, whatever the random bits.
LEMMA LaterIsLarger ==
  ASSUME NEW stamp1 \in Nat, NEW stamp2 \in Nat, stamp1 < stamp2,
         stamp2 < Second * Seconds,
         NEW r1 \in 0..(Randoms - 1), NEW r2 \in 0..(Randoms - 1)
  PROVE  Pack(stamp1, r1) < Pack(stamp2, r2)
<1> DEFINE s1 == SecondOf(stamp1)
           s2 == SecondOf(stamp2)
           u1 == UnitOf(stamp1)
           u2 == UnitOf(stamp2)
           a1 == FieldA(stamp1)
           a2 == FieldA(stamp2)
           b1 == FieldB(stamp1)
           b2 == FieldB(stamp2)
           c1 == FieldC(stamp1)
           c2 == FieldC(stamp2)
<1>1. /\ u1 \in 0..(Second - 1) /\ Digits(s1, a1, b1, c1, r1)
      /\ Pack(stamp1, r1) = Value(s1, a1, b1, c1, r1)
  BY Fields
<1>2. /\ u2 \in 0..(Second - 1) /\ Digits(s2, a2, b2, c2, r2)
      /\ Pack(stamp2, r2) = Value(s2, a2, b2, c2, r2)
  BY Fields
<1>3. /\ u1 = a1 * (Bs * Cs) + (b1 * Cs + c1) /\ b1 * Cs + c1 \in 0..(Bs * Cs - 1)
      /\ u2 = a2 * (Bs * Cs) + (b2 * Cs + c2) /\ b2 * Cs + c2 \in 0..(Bs * Cs - 1)
  BY <1>1, <1>2, Pieces DEF FieldA, FieldB, FieldC
<1>4. /\ Second \in Nat \ {0} /\ Seconds \in Nat \ {0} /\ Cs \in Nat \ {0}
      /\ Bs * Cs \in Nat \ {0} /\ SecondUnit \in Nat \ {0} /\ AUnit \in Nat \ {0}
      /\ BUnit \in Nat \ {0} /\ CUnit \in Nat \ {0}
  BY Units
<1>5. stamp1 = s1 * Second + u1 /\ stamp2 = s2 * Second + u2
  <2>1. ASSUME NEW stamp \in Nat, stamp < Second * Seconds
        PROVE  stamp = SecondOf(stamp) * Second + UnitOf(stamp)
    <3>1. PICK t \in Nat : /\ t = stamp \div Second /\ stamp = t * Second + UnitOf(stamp)
                           /\ UnitOf(stamp) \in 0..(Second - 1)
      BY <1>4, Parts DEF UnitOf
    <3>2. t < Seconds
      <4> SUFFICES ASSUME ~(t < Seconds) PROVE FALSE
        OBVIOUS
      <4>1. Second * Seconds <= t * Second
        BY <1>4
      <4>2. t * Second \in Nat /\ Second * Seconds \in Nat
        BY <1>4
      <4> QED
        BY <2>1, <3>1, <4>1, <4>2
    <3>3. (0 * Seconds + t) % Seconds = t
      BY <1>4, <3>2, Unique
    <3>4. SecondOf(stamp) = t
      BY <1>4, <3>1, <3>3 DEF SecondOf
    <3> QED
      BY <3>1, <3>4
  <2>2. stamp1 < Second * Seconds
    <3>1. Second * Seconds \in Nat
      BY <1>4
    <3> QED
      BY <3>1
  <2> QED
    BY <2>1, <2>2
<1>6. /\ s1 \in Nat /\ a1 \in Nat /\ b1 \in Nat /\ c1 \in 0..(Cs - 1)
      /\ s2 \in Nat /\ a2 \in Nat /\ b2 \in Nat /\ c2 \in 0..(Cs - 1)
  BY <1>1, <1>2, Units DEF Digits
<1>7. /\ r1 \in 0..(CUnit - 1) /\ c1 * CUnit + r1 \in 0..(BUnit - 1)
      /\ b1 * BUnit + (c1 * CUnit + r1) \in 0..(AUnit - 1)
      /\ a1 * AUnit + (b1 * BUnit + (c1 * CUnit + r1)) \in 0..(SecondUnit - 1)
      /\ Value(s1, a1, b1, c1, r1) =
           s1 * SecondUnit + (a1 * AUnit + (b1 * BUnit + (c1 * CUnit + r1)))
  BY <1>1, Below
<1>8. /\ r2 \in 0..(CUnit - 1) /\ c2 * CUnit + r2 \in 0..(BUnit - 1)
      /\ b2 * BUnit + (c2 * CUnit + r2) \in 0..(AUnit - 1)
      /\ a2 * AUnit + (b2 * BUnit + (c2 * CUnit + r2)) \in 0..(SecondUnit - 1)
      /\ Value(s2, a2, b2, c2, r2) =
           s2 * SecondUnit + (a2 * AUnit + (b2 * BUnit + (c2 * CUnit + r2)))
  BY <1>2, Below
<1> HIDE DEF s1, s2, u1, u2, a1, a2, b1, b2, c1, c2
<1>9. s1 < s2 \/ (s1 = s2 /\ u1 < u2)
  BY <1>1, <1>2, <1>4, <1>5, <1>6, Lexicographic
<1>10. u1 < u2 => a1 < a2 \/ (a1 = a2 /\ b1 * Cs + c1 < b2 * Cs + c2)
  <2>1. PICK k \in Nat \ {0} : k = Bs * Cs
    BY <1>4
  <2>2. PICK d1 \in 0..(k - 1), d2 \in 0..(k - 1) : d1 = b1 * Cs + c1 /\ d2 = b2 * Cs + c2
    BY <1>3, <2>1
  <2>3. u1 = a1 * k + d1 /\ u2 = a2 * k + d2
    BY <1>3, <2>1, <2>2, Zenon
  <2>4. u1 < u2 => a1 < a2 \/ (a1 = a2 /\ d1 < d2)
    BY <1>6, <2>3, Lexicographic
  <2> QED
    BY <2>2, <2>4, Zenon
<1>11. b1 * Cs + c1 < b2 * Cs + c2 => b1 < b2 \/ (b1 = b2 /\ c1 < c2)
  BY <1>4, <1>6, Lexicographic, Zenon
<1>12. c1 < c2 => c1 * CUnit + r1 < c2 * CUnit + r2
  BY <1>4, <1>6, <1>7, <1>8, Lexicographic
<1>13. b1 < b2 \/ (b1 = b2 /\ c1 < c2) =>
         b1 * BUnit + (c1 * CUnit + r1) < b2 * BUnit + (c2 * CUnit + r2)
  BY <1>4, <1>6, <1>7, <1>8, <1>12, Lexicographic
<1>14. u1 < u2 => a1 * AUnit + (b1 * BUnit + (c1 * CUnit + r1))
                    < a2 * AUnit + (b2 * BUnit + (c2 * CUnit + r2))
  BY <1>4, <1>6, <1>7, <1>8, <1>10, <1>11, <1>13, Lexicographic
<1>15. s1 * SecondUnit + (a1 * AUnit + (b1 * BUnit + (c1 * CUnit + r1)))
         < s2 * SecondUnit + (a2 * AUnit + (b2 * BUnit + (c2 * CUnit + r2)))
  BY <1>4, <1>6, <1>7, <1>8, <1>9, <1>14, Lexicographic
<1> QED
  BY <1>1, <1>2, <1>7, <1>8, <1>15

-----------------------------------------------------------------------------
(* The generator.                                                          *)

LEMMA UuidInit == Init => UuidInv
  BY DEF Init, UuidInv, None

\* A stamp is within bounds and after the last one.
LEMMA StampMoves ==
  ASSUME UuidInv, NEW now \in 0..MaxTime, Stamp(now) <= MaxTime
  PROVE  Stamp(now) \in 0..MaxTime /\ (last # None => last < Stamp(now))
  BY Uuid7Assumption DEF UuidInv, Stamp, None

LEMMA UuidNext == UuidInv /\ [Next]_vars => UuidInv'
<1> SUFFICES ASSUME UuidInv, [Next]_vars PROVE UuidInv'
  OBVIOUS
<1>1. CASE Generate
  <2>1. PICK now \in 0..MaxTime, random \in 0..(Randoms - 1) :
          Stamp(now) <= MaxTime /\ last' = Stamp(now) /\ newest' = Pack(last', random)
    BY <1>1 DEF Generate
  <2>2. last' \in 0..MaxTime
    BY <2>1, StampMoves
  <2>3. last' \in Nat /\ last' # None
    BY <2>2, Uuid7Assumption DEF None
  <2>4. newest' # None
    <3>1. newest' \in 0..(Size - 1)
      BY <2>1, <2>3, Fields, Below
    <3> QED
      BY <3>1, Units DEF None
  <2> QED
    BY <2>1, <2>2, <2>3, <2>4 DEF UuidInv
<1>2. CASE Restart
  BY <1>2 DEF Restart, UuidInv
<1>3. CASE UNCHANGED vars
  BY <1>3 DEF vars, UuidInv
<1> QED
  BY <1>1, <1>2, <1>3 DEF Next

THEOREM UuidAlways == Spec => []UuidInv
  BY UuidInit, UuidNext, PTL DEF Spec

(* An identifier fits into a UUID, whatever the clock says: each field is  *)
(* masked or has room for what is shifted into it (uuid7).                 *)
THEOREM UuidFits == Spec => []UuidTypeOK
<1>1. UuidInv => UuidTypeOK
  <2> SUFFICES ASSUME UuidInv, newest # None PROVE newest \in 0..(Size - 1)
    BY DEF UuidInv, UuidTypeOK
  <2>1. PICK random \in 0..(Randoms - 1) : newest = Pack(last, random)
    BY DEF UuidInv
  <2>2. last \in Nat
    BY Uuid7Assumption DEF UuidInv, None
  <2> QED
    BY <2>1, <2>2, Fields, Below
<1> QED
  BY <1>1, UuidAlways, PTL

(* What uuid7 packs, extract_timestamp_from_uuid7 reads back, up to the    *)
(* overflow of the seconds.                                                *)
THEOREM UuidStampExtracted == Spec => []StampExtracted
<1>1. UuidInv => StampExtracted
  <2> SUFFICES ASSUME UuidInv, newest # None
               PROVE  Extract(newest) = last % (Second * Seconds)
    BY DEF StampExtracted
  <2>1. PICK random \in 0..(Randoms - 1) : newest = Pack(last, random)
    BY DEF UuidInv
  <2>2. last \in Nat
    BY Uuid7Assumption DEF UuidInv, None
  <2> QED
    BY <2>1, <2>2, PackedIsRead
<1> QED
  BY <1>1, UuidAlways, PTL

(* The identifiers of a process increase although its clock stands still   *)
(* or goes back: uuid7 moves the stamp past _last_v7_timestamp, and a      *)
(* later stamp makes a larger number.                                      *)
THEOREM UuidsIncrease == Spec => IdsIncrease
<1>1. UuidInv /\ [Next]_vars =>
        [newest # None /\ newest' # None /\ last' < Second * Seconds =>
           newest' > newest]_vars
  <2> SUFFICES ASSUME UuidInv, Next, newest # None, newest' # None,
                      last' < Second * Seconds
               PROVE  newest' > newest
    OBVIOUS
  <2>1. CASE Generate
    <3>1. PICK now \in 0..MaxTime, random \in 0..(Randoms - 1) :
            Stamp(now) <= MaxTime /\ last' = Stamp(now) /\ newest' = Pack(last', random)
      BY <2>1 DEF Generate
    <3>2. PICK older \in 0..(Randoms - 1) : newest = Pack(last, older)
      BY DEF UuidInv
    <3>3. last \in Nat /\ last' \in Nat /\ last < last'
      BY <3>1, StampMoves, Uuid7Assumption DEF UuidInv, None
    <3>4. Pack(last, older) < Pack(last', random)
      BY <3>3, LaterIsLarger
    <3>5. Pack(last, older) \in Int /\ Pack(last', random) \in Int
      BY <3>3, Fields, Below, Units
    <3> QED
      BY <3>1, <3>2, <3>4, <3>5
  <2>2. CASE Restart
    BY <2>2 DEF Restart
  <2> QED
    BY <2>1, <2>2 DEF Next
<1> QED
  BY <1>1, UuidAlways, PTL DEF Spec, IdsIncrease
=============================================================================
