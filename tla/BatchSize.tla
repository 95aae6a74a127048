----------------------------- MODULE BatchSize -----------------------------
(***************************************************************************)
(* How BlockIndexer and LogIndexer adapt the number of ranges they ask for *)
(* in one batch.  Both classes carry the same two methods; the ceiling is  *)
(* the only parameter.  JavaScript multiplies doubles: b * 1.1 lies just   *)
(* above the exact product for b = 50 and b = 90 (and for some b from 100  *)
(* on, which the ceiling hides), so ceil adds one there; b * 0.9 truncates *)
(* exactly.                                                                *)
(***************************************************************************)
EXTENDS Naturals

CONSTANT MaxBatchCount      \* maxBatchCount, 100 in both indexers

ASSUME MaxBatchCountAssumption == MaxBatchCount \in 1..100

Lesser(m, n) == IF m <= n THEN m ELSE n
Greater(m, n) == IF m <= n THEN n ELSE m

\* The counts an indexer that was created with `initial' can have.  The ceiling
\* is not applied to what it is created with (mainnet.env.example: 1000).
CountsFrom(initial) == 1..Greater(initial, MaxBatchCount)

\* Math.ceil(b * 1.1) in doubles.
CeilTimesOnePointOne(b) == (11 * b + 9) \div 10 + (IF b \in {50, 90} THEN 1 ELSE 0)

\* increaseBatchCount
Increased(b) == Lesser(CeilTimesOnePointOne(b), MaxBatchCount)

\* Bug: no lower limit.
DecreasedToZero(b) == (9 * b) \div 10

\* decreaseBatchCount: Math.max(~~(b * 0.9), 1)
Decreased(b) == Greater((9 * b) \div 10, 1)
=============================================================================
