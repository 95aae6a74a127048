----------------------------- MODULE LoopFacts -----------------------------
(* Facts the proofs of the two indexing loops share: what the batch count does, for   *)
(* every ceiling and every configured value, and the greatest of a set of numbers.    *)
EXTENDS BatchSize, Integers, FiniteSetsExt, WellFoundedInduction, TLAPS

-----------------------------------------------------------------------------
(* The batch count *)

\* The batch count stays between 1 and its ceiling, or what it was created with.
THEOREM BatchCountsClosed ==
  ASSUME NEW initial \in Nat \ {0}, NEW b \in CountsFrom(initial)
  PROVE  /\ Increased(b) \in CountsFrom(initial)
         /\ Decreased(b) \in CountsFrom(initial)
<1> USE MaxBatchCountAssumption DEF CountsFrom, Greater
<1>1. Increased(b) \in CountsFrom(initial)
  BY DEF Increased, Lesser, CeilTimesOnePointOne
<1>2. Decreased(b) \in CountsFrom(initial)
  BY DEF Decreased
<1> QED BY <1>1, <1>2

\* A batch count never sticks below its ceiling or above 1: growing makes it greater and
\* shrinking makes it smaller, whatever the rounding does. A count configured above the
\* ceiling falls with every step, up or down, and one that is not never rises above it.
THEOREM BatchCountsMove ==
  ASSUME NEW b \in Nat \ {0}
  PROVE  /\ b < MaxBatchCount => Increased(b) > b
         /\ b > 1 => Decreased(b) < b
         /\ \A c \in {Increased(b), Decreased(b)} :
               IF b > MaxBatchCount THEN c \in 1..b - 1 ELSE c \in 1..MaxBatchCount
<1>1. Increased(b) \in 1..MaxBatchCount /\ (b < MaxBatchCount => Increased(b) > b)
  BY MaxBatchCountAssumption DEF Increased, Lesser, CeilTimesOnePointOne
<1>2. Decreased(b) \in 1..b /\ (b > 1 => Decreased(b) < b)
  BY DEF Decreased, Greater
<1> HIDE DEF Increased, Decreased
<1>3. CASE b > MaxBatchCount
  BY <1>1, <1>2, <1>3, MaxBatchCountAssumption
<1>4. CASE b <= MaxBatchCount
  BY <1>1, <1>2, <1>4, MaxBatchCountAssumption
<1> QED BY <1>1, <1>2, <1>3, <1>4, MaxBatchCountAssumption

-----------------------------------------------------------------------------
(* Least and greatest *)

\* A nonempty set of numbers has a least element.
LEMMA NatSubsetMin ==
  ASSUME NEW S, S \subseteq Nat, S # {}
  PROVE  \E m \in S : \A x \in S : m <= x
<1>1. PICK m \in S : \A x \in S : <<x, m>> \notin OpToRel(<, Nat)
  BY NatLessThanWellFounded, WFMin, Zenon
<1>2. \A x, y \in Nat : x < y => <<x, y>> \in OpToRel(<, Nat)
  BY DEF OpToRel
<1>3. \A x \in S : ~(x < m)
  BY <1>1, <1>2
<1>4. \A x \in S : m <= x
  BY <1>3
<1> QED BY <1>4

\* Max of a nonempty set of numbers up to N is its greatest element.
LEMMA MaxIsGreatest ==
  ASSUME NEW N \in Nat, NEW S \in SUBSET (0..N), S # {}
  PROVE  Max(S) \in S /\ \A x \in S : x <= Max(S)
<1> DEFINE T == {n \in Nat : N - n \in S}
<1>1. \A x \in S : N - x \in Nat /\ N - (N - x) = x
  OBVIOUS
<1>2. T \subseteq Nat /\ T # {}
  BY <1>1
<1> HIDE DEF T
<1>3. PICK t \in T : \A y \in T : t <= y
  BY <1>2, NatSubsetMin
<1>4. N - t \in S /\ t \in Nat
  BY <1>3 DEF T
<1>5. \A x \in S : x <= N - t
  BY <1>1, <1>3, <1>4 DEF T
<1> QED BY <1>4, <1>5 DEF Max
=============================================================================
