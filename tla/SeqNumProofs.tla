---------------------------- MODULE SeqNumProofs ----------------------------
(***************************************************************************)
(* What the wrap-around arithmetic of SeqNum computes, for every modulus:   *)
(* of numbers less than half the range apart it finds the order and the     *)
(* distance of the unbounded numbers they stand for.                        *)
(***************************************************************************)
EXTENDS SeqNum, TLAPS

\* A multiple of Mod that is not zero is at least Mod away from it.
LEMMA Multiple ==
  ASSUME NEW k \in Int, k >= 1
  PROVE Mod * k >= Mod
  BY ModAssumption

\* The quotient and the remainder.
LEMMA DivMod ==
  ASSUME NEW a \in Int
  PROVE \E q \in Int : \E r \in SeqNums : a = Mod * q + r /\ a % Mod = r
<1>1. a = Mod * (a \div Mod) + (a % Mod) /\ a % Mod \in 0..(Mod - 1) /\ a \div Mod \in Int
  BY ModAssumption
<1> QED
  BY <1>1 DEF SeqNums

\* The remainder is unique.
LEMMA WrapUnique ==
  ASSUME NEW q \in Int, NEW r \in SeqNums
  PROVE Wrap(Mod * q + r) = r
<1> DEFINE a == Mod * q + r
<1>1. a \in Int /\ r \in Int /\ r >= 0 /\ r < Mod /\ Mod \in Nat /\ Mod > 0
  BY ModAssumption DEF SeqNums
<1>2. PICK q1 \in Int, r1 \in SeqNums : a = Mod * q1 + r1 /\ a % Mod = r1
  BY <1>1, DivMod
<1>3. r1 \in Int /\ r1 >= 0 /\ r1 < Mod
  BY ModAssumption DEF SeqNums
<1>4. Mod * (q - q1) = r1 - r /\ Mod * (q1 - q) = r - r1
  BY <1>1, <1>2, <1>3
<1>5. ~(q - q1 >= 1)
  BY <1>1, <1>3, <1>4, Multiple
<1>6. ~(q1 - q >= 1)
  BY <1>1, <1>3, <1>4, Multiple
<1>7. q - q1 = 0
  BY <1>5, <1>6
<1>8. r1 = r
  BY <1>1, <1>3, <1>4, <1>7
<1> QED
  BY <1>2, <1>8 DEF Wrap

\* Wrap gives a sequence number.
LEMMA WrapType ==
  ASSUME NEW a \in Int
  PROVE Wrap(a) \in SeqNums /\ Wrap(a) \in Int /\ 0 <= Wrap(a) /\ Wrap(a) < Mod
  BY DivMod, ModAssumption DEF Wrap, SeqNums

\* Unsigned arithmetic may wrap at every step or at the end.
LEMMA WrapShift ==
  ASSUME NEW a \in Int, NEW k \in Int
  PROVE Wrap(Wrap(a) + k) = Wrap(a + k)
<1>1. PICK q \in Int, r \in SeqNums : a = Mod * q + r /\ a % Mod = r
  BY DivMod
<1>2. r \in Int /\ Mod \in Int
  BY ModAssumption DEF SeqNums
<1> DEFINE x == r + k
<1>a. x \in Int
  BY <1>2
<1> HIDE DEF x
<1>b. PICK q2 \in Int, r2 \in SeqNums : x = Mod * q2 + r2 /\ x % Mod = r2
  BY <1>a, DivMod
<1> USE DEF x
<1>3. r + k = Mod * q2 + r2 /\ (r + k) % Mod = r2
  BY <1>b
<1>4. r2 \in Int
  BY ModAssumption DEF SeqNums
<1>5. a + k = Mod * (q + q2) + r2
  BY <1>1, <1>2, <1>3, <1>4
<1>6. Wrap(a + k) = r2
  BY <1>5, WrapUnique
<1> QED
  BY <1>1, <1>3, <1>6 DEF Wrap

\* Numbers close to the range wrap at most once.
LEMMA WrapOnce ==
  ASSUME NEW a \in Int
  PROVE /\ 0 <= a /\ a < Mod => Wrap(a) = a
        /\ Mod <= a /\ a < 2 * Mod => Wrap(a) = a - Mod
        /\ 0 - Mod <= a /\ a < 0 => Wrap(a) = a + Mod
<1>1. Mod \in Int /\ Mod * 0 = 0 /\ Mod * 1 = Mod /\ Mod * (-1) = 0 - Mod
  BY ModAssumption
<1>2. \A q \in Int : \A r \in SeqNums : Wrap(Mod * q + r) = r
  BY WrapUnique
<1>3. ASSUME 0 <= a, a < Mod PROVE Wrap(a) = a
  <2>1. a \in SeqNums
    BY <1>1, <1>3 DEF SeqNums
  <2>2. Wrap(Mod * 0 + a) = a
    BY <1>2, <2>1
  <2> QED
    BY <1>1, <2>2
<1>4. ASSUME Mod <= a, a < 2 * Mod PROVE Wrap(a) = a - Mod
  <2>1. a - Mod \in SeqNums
    BY <1>1, <1>4 DEF SeqNums
  <2>2. Wrap(Mod * 1 + (a - Mod)) = a - Mod
    BY <1>2, <2>1
  <2>3. Mod * 1 + (a - Mod) = a
    BY <1>1
  <2> QED
    BY <2>2, <2>3
<1>5. ASSUME 0 - Mod <= a, a < 0 PROVE Wrap(a) = a + Mod
  <2>1. a + Mod \in SeqNums
    BY <1>1, <1>5 DEF SeqNums
  <2>2. Wrap(Mod * (-1) + (a + Mod)) = a + Mod
    BY <1>2, <2>1
  <2>3. Mod * (-1) + (a + Mod) = a
    BY <1>1
  <2> QED
    BY <2>2, <2>3
<1> QED
  BY <1>3, <1>4, <1>5

\* The later of two numbers less than the range apart, from the earlier one.
LEMMA WrapAhead ==
  ASSUME NEW a \in Int, NEW b \in Int, b <= a, a - b < Mod
  PROVE Wrap(a) = IF Wrap(b) + (a - b) < Mod THEN Wrap(b) + (a - b) ELSE Wrap(b) + (a - b) - Mod
<1> DEFINE w == Wrap(b)
           k == a - b
<1>1. w \in Int /\ 0 <= w /\ w < Mod /\ k \in Int /\ 0 <= k /\ k < Mod /\ Mod \in Int /\ b + k = a
  BY WrapType, ModAssumption
<1>2. Wrap(w + k) = Wrap(b + k)
  BY <1>1, WrapShift
<1>3. w + k \in Int /\ 0 <= w + k /\ w + k < 2 * Mod
  BY <1>1
<1>4. /\ w + k < Mod => Wrap(w + k) = w + k
      /\ Mod <= w + k => Wrap(w + k) = (w + k) - Mod
  BY <1>1, <1>3, WrapOnce
<1> HIDE DEF w, k
<1>5. Wrap(a) = IF w + k < Mod THEN w + k ELSE w + k - Mod
  BY <1>1, <1>2, <1>3, <1>4
<1> QED
  BY <1>5 DEF w, k

\* Both differences are the distance of the unbounded numbers.
LEMMA DiffRight ==
  ASSUME NEW a \in Int, NEW b \in Int, b <= a, a - b < Mod
  PROVE ReverseDiff(Wrap(a), Wrap(b)) = a - b /\ ForwardDiff(Wrap(b), Wrap(a)) = a - b
<1> DEFINE v == Wrap(a)
           w == Wrap(b)
           k == a - b
<1>1. /\ w \in Int /\ 0 <= w /\ w < Mod /\ v \in Int /\ 0 <= v /\ v < Mod
      /\ k \in Int /\ 0 <= k /\ k < Mod /\ Mod \in Int
  BY WrapType, ModAssumption
<1>2. v = IF w + k < Mod THEN w + k ELSE w + k - Mod
  BY WrapAhead
<1> HIDE DEF v, w, k
<1>3. ReverseDiff(v, w) = k /\ ForwardDiff(w, v) = k
  BY <1>1, <1>2 DEF ReverseDiff, ForwardDiff
<1> QED
  BY <1>3 DEF v, w, k

\* Numbers less than the range apart are told apart.
LEMMA WrapInjective ==
  ASSUME NEW a \in Int, NEW b \in Int, a - b < Mod, b - a < Mod, Wrap(a) = Wrap(b)
  PROVE a = b
<1>1. \A x, y \in Int : y <= x /\ x - y < Mod /\ Wrap(x) = Wrap(y) => x = y
  <2> SUFFICES ASSUME NEW x \in Int, NEW y \in Int, y <= x, x - y < Mod, Wrap(x) = Wrap(y)
               PROVE x = y
    OBVIOUS
  <2>1. ReverseDiff(Wrap(x), Wrap(y)) = x - y
    BY DiffRight
  <2>2. Wrap(x) \in Int
    BY WrapType
  <2>3. ReverseDiff(Wrap(x), Wrap(x)) = 0
    BY <2>2 DEF ReverseDiff
  <2> QED
    BY <2>1, <2>3
<1>2. a <= b \/ b <= a
  OBVIOUS
<1> QED
  BY <1>1, <1>2

\* Half the range is a whole number.
LEMMA HalfRange == Mod \div 2 \in Int /\ 2 * (Mod \div 2) = Mod /\ Mod \div 2 >= 1 /\ Mod \in Int
  BY ModAssumption

\* Of numbers less than half the range apart, AheadOf, AheadOrAt and the comparator of the
\* ordered containers find the order of the unbounded numbers, wherever the range wraps.
THEOREM AheadRight ==
  ASSUME NEW a \in Int, NEW b \in Int, a - b < Mod \div 2, b - a < Mod \div 2
  PROVE /\ AheadOrAt(Wrap(a), Wrap(b)) <=> b <= a
        /\ AheadOf(Wrap(a), Wrap(b)) <=> b < a
        /\ OlderThan(Wrap(a), Wrap(b)) <=> a < b
<1>1. ASSUME NEW x \in Int, NEW y \in Int, x - y < Mod \div 2, y - x < Mod \div 2
      PROVE /\ AheadOrAt(Wrap(x), Wrap(y)) <=> y <= x
            /\ AheadOf(Wrap(x), Wrap(y)) <=> y < x
  <2> DEFINE v == Wrap(x)
             w == Wrap(y)
             H == Mod \div 2
  <2>1. /\ w \in Int /\ 0 <= w /\ w < Mod /\ v \in Int /\ 0 <= v /\ v < Mod
        /\ H \in Int /\ 2 * H = Mod /\ H >= 1 /\ x - y < H /\ y - x < H
    BY <1>1, WrapType, HalfRange
  <2>2. v = w => x = y
    <3>1. x - y < Mod /\ y - x < Mod
      BY <2>1
    <3> QED
      BY <3>1, WrapInjective
  <2>3. AheadOrAt(v, w) <=> IF v - w = H THEN w < v ELSE ForwardDiff(w, v) < H
    BY DEF AheadOrAt
  <2>4. CASE y <= x
    <3>1. v = IF w + (x - y) < Mod THEN w + (x - y) ELSE w + (x - y) - Mod
      <4>1. x - y < Mod
        BY <2>1
      <4> QED
        BY <2>4, <4>1, WrapAhead
    <3>2. ForwardDiff(w, v) = x - y
      <4>1. x - y < Mod
        BY <2>1
      <4> QED
        BY <2>4, <4>1, DiffRight
    <3> HIDE DEF v, w, H
    <3>3. v - w # H
      BY <2>1, <2>4, <3>1
    <3>4. AheadOrAt(v, w)
      BY <2>1, <2>3, <3>2, <3>3
    <3>5. AheadOf(v, w) <=> y < x
      BY <2>2, <2>4, <3>4, <3>1, <2>1 DEF AheadOf
    <3> QED
      BY <2>4, <3>4, <3>5 DEF v, w
  <2>5. CASE ~(y <= x)
    <3>1. w = IF v + (y - x) < Mod THEN v + (y - x) ELSE v + (y - x) - Mod
      <4>1. x <= y /\ y - x < Mod
        BY <2>1, <2>5
      <4> QED
        BY <4>1, WrapAhead
    <3> HIDE DEF v, w, H
    <3>2. v - w # H
      BY <2>1, <2>5, <3>1
    <3>3. ForwardDiff(w, v) = Mod - (y - x)
      BY <2>1, <2>5, <3>1 DEF ForwardDiff
    <3>4. ~AheadOrAt(v, w)
      BY <2>1, <2>3, <3>2, <3>3
    <3> QED
      BY <2>5, <3>4 DEF AheadOf, v, w
  <2> QED
    BY <2>4, <2>5
<1>2. AheadOrAt(Wrap(a), Wrap(b)) <=> b <= a
  BY <1>1
<1>3. AheadOf(Wrap(a), Wrap(b)) <=> b < a
  BY <1>1
<1>4. AheadOf(Wrap(b), Wrap(a)) <=> a < b
  BY <1>1
<1> QED
  BY <1>2, <1>3, <1>4 DEF OlderThan
=============================================================================
