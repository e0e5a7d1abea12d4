------------------------------- MODULE SeqNum -------------------------------
(***************************************************************************)
(* Wrap-around arithmetic on RTP sequence numbers (wrap_around_utils.hpp,   *)
(* modulo_operator.hpp).  The code instantiates it for uint16_t and         *)
(* uint32_t, where the modulus is 2^16 and 2^32; here the modulus is the    *)
(* constant Mod, so that a small even one can be checked exhaustively.      *)
(***************************************************************************)
EXTENDS Integers

CONSTANT Mod        \* number of values of the unsigned type

ASSUME ModAssumption == Mod \in Nat /\ Mod >= 2 /\ Mod % 2 = 0

SeqNums == 0..(Mod - 1)

-----------------------------------------------------------------------------

\* Conversion of an integer to the unsigned type.
Wrap(n) == n % Mod

\* Unsigned subtraction: how far b is ahead of a, and how far it is behind.
ForwardDiff(a, b) == IF a <= b THEN b - a ELSE Mod - (a - b)
ReverseDiff(a, b) == IF b <= a THEN a - b ELSE Mod - (b - a)

\* a is ahead of or at b; of two numbers half the range apart the larger is ahead.
AheadOrAt(a, b) ==
    IF a - b = Mod \div 2 THEN b < a ELSE ForwardDiff(b, a) < Mod \div 2

AheadOf(a, b) == a # b /\ AheadOrAt(a, b)
Latest(a, b) == IF AheadOf(a, b) THEN a ELSE b

\* The comparator of the ordered containers keyed by sequence number.
OlderThan(a, b) == AheadOf(b, a)

\* begin() of such a container, and what lower_bound(x) leaves and drops.
Oldest(S) == CHOOSE e \in S : \A f \in S : f = e \/ OlderThan(e, f)
FromLowerBound(S, x) == {e \in S : ~OlderThan(e, x)}
BeforeLowerBound(S, x) == {e \in S : OlderThan(e, x)}

\* NumberUnwrapper::Unwrap of v after last, or for the first time when last is negative;
\* a step back past zero is taken one whole range ahead.
Unwrap(last, v) ==
    LET lower == last % Mod
        back == last - ReverseDiff(lower, v)
    IN  IF last < 0 THEN v
        ELSE IF AheadOrAt(v, lower) THEN last + ForwardDiff(lower, v)
        ELSE IF back < 0 THEN back + Mod ELSE back
=============================================================================
