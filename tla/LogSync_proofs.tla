--------------------------- MODULE LogSync_proofs ---------------------------
(* Safety of the log indexer, for every number of nodes and workers, every *)
(* chain length, range and batch size, and every number of faults.         *)
EXTENDS LogSync, LoopFacts, FiniteSetTheorems

-----------------------------------------------------------------------------
(* Ranges *)

LEMMA StartBlockType ==
  ASSUME TypeOK, NEW p \in Loops
  PROVE  StartBlock(p) \in Nat
BY LogSyncAssumption DEF TypeOK, StartBlock, Block

LEMMA RangeBegins ==
  ASSUME TypeOK, NEW p \in Loops, NEW i \in Nat
  PROVE  From(p, i) \in Nat /\ From(p, i) >= start[p]
<1>1. BlockRange \in Nat /\ start[p] \in Nat
  BY LogSyncAssumption DEF TypeOK
<1>2. i * BlockRange \in Nat
  BY <1>1
<1> QED BY <1>1, <1>2 DEF From

LEMMA SyncedToType ==
  ASSUME TypeOK, NEW p \in Loops
  PROVE  SyncedTo(p) \in Block
<1>1. /\ BlockRange \in Nat /\ start[p] \in Nat /\ batch[p] \in Nat /\ latest[p] \in Block
  BY LogSyncAssumption DEF TypeOK, CountsFrom
<1>2. start[p] + BlockRange * batch[p] \in Nat
  BY <1>1
<1> QED BY <1>1, <1>2, LogSyncAssumption DEF SyncedTo, Lesser, Block

\* Every block from the start of a batch to the end of its last range is asked
\* for, as far as the chain was said to reach.
LEMMA EverythingAsked ==
  ASSUME TypeOK, NEW p \in Loops, ~Exact(p),
         NEW b \in start[p]..latest[p], b < start[p] + BlockRange * batch[p]
  PROVE  b \in Asked(p)
<1>1. /\ BlockRange \in Nat \ {0} /\ start[p] \in Nat /\ batch[p] \in Nat
      /\ latest[p] \in Nat /\ b \in Nat
  BY LogSyncAssumption DEF TypeOK, CountsFrom, Block
<1> DEFINE S == {i \in Nat : b < From(p, i)}
<1>2. batch[p] \in S
  <2>1. BlockRange * batch[p] = batch[p] * BlockRange
    BY <1>1
  <2> QED BY <1>1, <2>1 DEF From
<1>3. PICK m \in S : \A i \in S : m <= i
  BY <1>2, NatSubsetMin
<1>4. m \in Nat /\ b < From(p, m) /\ m <= batch[p]
  BY <1>2, <1>3
<1> HIDE DEF S
<1>5. m # 0
  BY <1>1, <1>4 DEF From
<1>6. m - 1 \in Nat /\ m - 1 \in 0..(batch[p] - 1)
  BY <1>1, <1>4, <1>5
<1>7. ~(b < From(p, m - 1))
  BY <1>3, <1>4, <1>6 DEF S
<1>8. From(p, m - 1) \in Nat /\ From(p, m) = From(p, m - 1) + BlockRange
  <2>1. m * BlockRange = (m - 1) * BlockRange + BlockRange
    BY <1>1, <1>4
  <2>2. (m - 1) * BlockRange \in Nat
    BY <1>1, <1>6
  <2> QED BY <1>1, <2>1, <2>2 DEF From
<1>9. b >= From(p, m - 1) /\ b <= From(p, m - 1) + BlockRange - 1
  BY <1>1, <1>4, <1>7, <1>8
<1>10. m - 1 \in Ranges(p, latest[p])
  BY <1>1, <1>6, <1>8, <1>9 DEF Ranges
<1>11. b \in From(p, m - 1)..To(p, m - 1)
  BY <1>1, <1>8, <1>9 DEF To, Lesser
<1> QED BY <1>10, <1>11 DEF Asked

-----------------------------------------------------------------------------
(* Types *)

LEMMA InitialTypes == Init => TypeOK
<1> SUFFICES ASSUME Init PROVE TypeOK
  OBVIOUS
<1> USE LogSyncAssumption DEF Init
<1>1. pc \in [Loops -> {"idle", "read", "latest", "fetch"}]
  OBVIOUS
<1>2. batch \in [Loops -> CountsFrom(InitialBatch)]
  BY MaxBatchCountAssumption DEF CountsFrom, Greater
<1>3. 0 \in Block
  BY DEF Block
<1>4. target \in [Loops -> Block] /\ latest \in [Loops -> Block]
  BY <1>3
<1>5. /\ start \in [Loops -> Nat] /\ pend \in [Loops -> SUBSET Nat]
      /\ got \in [Loops -> SUBSET Block] /\ todo \in [Loops -> SUBSET WithLogs]
  OBVIOUS
<1>6. faults \in 0..MaxFaults
  OBVIOUS
<1> QED BY <1>1, <1>2, <1>4, <1>5, <1>6 DEF TypeOK

LEMMA ForgetTypes ==
  ASSUME TypeOK, NEW p \in Loops, Forget(p)
  PROVE  /\ start' \in [Loops -> Nat] /\ latest' \in [Loops -> Block]
         /\ pend' \in [Loops -> SUBSET Nat]
         /\ got' \in [Loops -> SUBSET Block] /\ todo' \in [Loops -> SUBSET WithLogs]
<1>1. 0 \in Block
  BY LogSyncAssumption DEF Block
<1> QED BY <1>1 DEF TypeOK, Forget

\* What a range can answer are blocks of the chain.
LEMMA AnswerType ==
  ASSUME TypeOK, NEW p \in Loops, NEW i \in Nat
  PROVE  From(p, i)..To(p, i) \subseteq Block
<1>1. From(p, i) \in Nat /\ latest[p] \in Block
  BY RangeBegins DEF TypeOK
<1>2. \A b \in From(p, i)..To(p, i) : b <= latest[p]
  BY <1>1, LogSyncAssumption DEF To, Lesser, TypeOK, Block
<1> QED BY <1>1, <1>2, LogSyncAssumption DEF Block

LEMMA TypesPreserved == TypeOK /\ [Next]_vars => TypeOK'
<1> SUFFICES ASSUME TypeOK, [Next]_vars PROVE TypeOK'
  OBVIOUS
<1>1. ASSUME NEW p \in Loops, ReadPointer(p) PROVE TypeOK'
  <2>1. start' \in [Loops -> Nat] /\ pc' \in [Loops -> {"idle", "read", "latest", "fetch"}]
    BY <1>1, StartBlockType DEF ReadPointer, TypeOK
  <2> QED BY <1>1, <2>1 DEF ReadPointer, TypeOK, store, history
<1>2. ASSUME NEW p \in Loops, NEW n \in Nodes, GetLatest(p, n) PROVE TypeOK'
  <2>1. latest' \in [Loops -> Block] /\ pc' \in [Loops -> {"idle", "read", "latest", "fetch"}]
    BY <1>2 DEF GetLatest, TypeOK
  <2>2. Ranges(p, head[n]) \subseteq Nat
    BY DEF Ranges
  <2>3. pend' \in [Loops -> SUBSET Nat]
    BY <1>2, <2>2 DEF GetLatest, TypeOK
  <2> QED BY <1>2, <2>1, <2>3 DEF GetLatest, TypeOK, store, history
<1>3. ASSUME NEW p \in Loops, NEW i \in pend[p], NEW n \in Nodes, AnswerRange(p, i, n)
      PROVE  TypeOK'
  <2>1. From(p, i)..To(p, i) \subseteq Block
    BY AnswerType DEF TypeOK
  <2>2. /\ got' \in [Loops -> SUBSET Block] /\ todo' \in [Loops -> SUBSET WithLogs]
        /\ pend' \in [Loops -> SUBSET Nat]
    BY <1>3, <2>1 DEF AnswerRange, TypeOK
  <2> QED BY <1>3, <2>2 DEF AnswerRange, TypeOK, store, history
<1>4. ASSUME NEW p \in Loops, NEW b \in todo[p], Write(p, b) PROVE TypeOK'
  BY <1>4 DEF Write, TypeOK, history
<1>5. ASSUME NEW p \in Loops, FinishExact(p) PROVE TypeOK'
  <2>1. /\ pc' \in [Loops -> {"idle", "read", "latest", "fetch"}]
        /\ target' \in [Loops -> Block] /\ batch' \in [Loops -> CountsFrom(InitialBatch)]
    BY <1>5, LogSyncAssumption, MaxBatchCountAssumption
       DEF FinishExact, TypeOK, Block, CountsFrom, Greater
  <2> QED BY <1>5, <2>1, ForgetTypes DEF FinishExact, TypeOK, store, history
<1>6. ASSUME NEW p \in Loops, Commit(p) PROVE TypeOK'
  <2>1. pc' \in [Loops -> {"idle", "read", "latest", "fetch"}]
    BY <1>6 DEF Commit, TypeOK
  <2>2. batch' \in [Loops -> CountsFrom(InitialBatch)]
    BY <1>6, BatchCountsClosed, LogSyncAssumption DEF Commit, TypeOK
  <2>3. pointer' \in Block
    BY <1>6, SyncedToType DEF Commit
  <2>4. Asked(p) \subseteq Block
    <3>1. \A i \in Ranges(p, latest[p]) : From(p, i)..To(p, i) \subseteq Block
      BY AnswerType DEF Ranges
    <3> QED BY <3>1 DEF Asked
  <2>5. start[p]..SyncedTo(p) \subseteq Block
    BY SyncedToType, LogSyncAssumption DEF TypeOK, Block
  <2>6. missed' \subseteq Block /\ unasked' \subseteq Block
    BY <1>6, <2>4, <2>5 DEF Commit, TypeOK
  <2> QED BY <1>6, <2>1, <2>2, <2>3, <2>6, ForgetTypes DEF Commit, TypeOK
<1>7. ASSUME NEW p \in Loops, NEW b \in Block, Fail(p, b) PROVE TypeOK'
  <2>1. pc' \in [Loops -> {"idle", "read", "latest", "fetch"}]
    BY <1>7 DEF Fail, TypeOK
  <2>2. batch' \in [Loops -> CountsFrom(InitialBatch)]
    BY <1>7, BatchCountsClosed, LogSyncAssumption DEF Fail, TypeOK
  <2>3. late' \subseteq WithLogs
    BY <1>7 DEF Fail, Outstanding, TypeOK
  <2>4. faults' \in 0..MaxFaults
    BY <1>7, LogSyncAssumption DEF Fail, TypeOK
  <2> QED BY <1>7, <2>1, <2>2, <2>3, <2>4, ForgetTypes DEF Fail, TypeOK, history
<1>8. ASSUME NEW b \in late, LandLate(b) PROVE TypeOK'
  BY <1>8 DEF LandLate, TypeOK, loopVars, batchVars, history
<1>9. CASE Crash
  <2>1. 0 \in Block
    BY LogSyncAssumption DEF Block
  <2>2. /\ pc' \in [Loops -> {"idle", "read", "latest", "fetch"}]
        /\ target' \in [Loops -> Block] /\ latest' \in [Loops -> Block]
        /\ start' \in [Loops -> Nat] /\ pend' \in [Loops -> SUBSET Nat]
        /\ got' \in [Loops -> SUBSET Block] /\ todo' \in [Loops -> SUBSET WithLogs]
    BY <1>9, <2>1 DEF Crash
  <2>3. batch' \in [Loops -> CountsFrom(InitialBatch)]
    BY <1>9, LogSyncAssumption, MaxBatchCountAssumption DEF Crash, CountsFrom, Greater
  <2>4. stored' \subseteq WithLogs
    BY <1>9 DEF Crash, TypeOK
  <2>5. faults' \in 0..MaxFaults
    BY <1>9, LogSyncAssumption DEF Crash, TypeOK
  <2> QED BY <1>9, <2>2, <2>3, <2>4, <2>5 DEF Crash, TypeOK
<1>10. ASSUME NEW p \in Workers, NEW b \in Block, Reindex(p, b) PROVE TypeOK'
  <2>1. /\ pc' \in [Loops -> {"idle", "read", "latest", "fetch"}]
        /\ target' \in [Loops -> Block] /\ rogue' \in BOOLEAN
    BY <1>10 DEF Reindex, TypeOK, Loops
  <2> QED BY <1>10, <2>1 DEF Reindex, TypeOK, store, batchVars
<1>11. ASSUME NEW n \in Nodes, Grow(n) PROVE TypeOK'
  <2>1. head' \in [Nodes -> Block]
    BY <1>11, LogSyncAssumption DEF Grow, TypeOK, Block
  <2> QED BY <1>11, <2>1 DEF Grow, TypeOK, store, loopVars, batchVars, history
<1>12. CASE UNCHANGED vars
  BY <1>12 DEF vars, TypeOK, store, loopVars, batchVars, history
<1> QED BY <1>1, <1>2, <1>3, <1>4, <1>5, <1>6, <1>7, <1>8, <1>9, <1>10, <1>11, <1>12
        DEF Next, LoopStep

\* Every reachable state has the types of TypeOK: whatever the nodes report, the
\* pointer names a block of the chain once the loop has set it.
THEOREM LogSyncTypes == Spec => []TypeOK
<1> QED BY InitialTypes, TypesPreserved, PTL DEF Spec

-----------------------------------------------------------------------------
(* The inductive invariant *)

Grown ==
    /\ stored \subseteq stored'
    /\ missed \subseteq missed'
    /\ unasked \subseteq unasked'

LEMMA StepsGrow ==
  ASSUME Next
  PROVE  Grown
<1>1. ASSUME NEW p \in Loops, LoopStep(p) PROVE Grown
  BY <1>1 DEF LoopStep, ReadPointer, GetLatest, AnswerRange, Write, FinishExact, Commit,
              store, history, Grown
<1>2. ASSUME NEW p \in Loops, NEW b \in Block, Fail(p, b) PROVE Grown
  BY <1>2 DEF Fail, history, Grown
<1>3. ASSUME NEW b \in late, LandLate(b) PROVE Grown
  BY <1>3 DEF LandLate, history, Grown
<1>4. CASE Crash
  BY <1>4 DEF Crash, Grown
<1>5. ASSUME NEW p \in Workers, NEW b \in Block, Reindex(p, b) PROVE Grown
  BY <1>5 DEF Reindex, store, Grown
<1>6. ASSUME NEW n \in Nodes, Grow(n) PROVE Grown
  BY <1>6 DEF Grow, store, history, Grown
<1> QED BY <1>1, <1>2, <1>3, <1>4, <1>5, <1>6 DEF Next

LEMMA CoveredKept ==
  ASSUME Grown, NEW b, Covered(b)
  PROVE  Covered(b)'
BY DEF Grown, Covered

\* A loop whose locals a step leaves alone is not disturbed by it.
LEMMA LoopKept ==
  ASSUME Grown, NEW q \in Loops, LoopInv(q),
         pc'[q] = pc[q], target'[q] = target[q], start'[q] = start[q],
         got'[q] = got[q], todo'[q] = todo[q]
  PROVE  LoopInv(q)'
<1>1. Served(q)'
  BY DEF LoopInv, Served, Grown
<1>2. BelowStart(q)'
  BY CoveredKept DEF LoopInv, BelowStart, Exact
<1> QED BY <1>1, <1>2 DEF LoopInv

LEMMA LoopAtRest ==
  ASSUME NEW q \in Loops, pc'[q] \in {"idle", "read"}, got'[q] = {}, todo'[q] = {}
  PROVE  LoopInv(q)'
BY DEF LoopInv, Served, BelowStart

LEMMA Forgotten ==
  ASSUME TypeOK, NEW p \in Loops, Forget(p)
  PROVE  /\ got'[p] = {} /\ todo'[p] = {}
         /\ \A q \in Loops \ {p} :
               start'[q] = start[q] /\ got'[q] = got[q] /\ todo'[q] = todo[q]
BY DEF TypeOK, Forget

LEMMA InitialIndInv == Init => IndInv
<1> SUFFICES ASSUME Init PROVE IndInv
  OBVIOUS
<1>1. pc \in [Loops -> {"idle", "read"}]
  BY DEF Init
<1>2. \A p \in Loops : LoopInv(p)
  BY <1>1 DEF Init, LoopInv, Served, BelowStart
<1>3. LogsCovered
  BY LogSyncAssumption DEF Init, LogsCovered, FirstBlock
<1>4. PointerOrder
  BY LogSyncAssumption DEF Init, PointerOrder, Loops
<1> QED BY <1>2, <1>3, <1>4, InitialTypes DEF IndInv

\* The first block a loop asks for follows a prefix that is covered.
LEMMA StartIsCovered ==
  ASSUME IndInv, NEW p \in Loops, ~Exact(p), NEW b \in FirstBlock..(StartBlock(p) - 1)
  PROVE  Covered(b)
<1>1. pointer \in Nat /\ InitialPointer \in Nat
  BY LogSyncAssumption DEF IndInv, TypeOK, Block
<1>2. FirstBlock \in Nat
  BY <1>1 DEF FirstBlock
<1>3. CASE pointer > 0
  <2>1. b \in FirstBlock..pointer
    BY <1>1, <1>2, <1>3 DEF StartBlock
  <2> QED BY <1>3, <2>1 DEF IndInv, LogsCovered
<1>4. CASE ~(pointer > 0)
  BY <1>2, <1>4 DEF StartBlock
<1> QED BY <1>3, <1>4

\* The parts of IndInv that a step of one loop p keeps when it leaves the
\* pointer and the other loops alone.
LEMMA StepOfOneLoop ==
  ASSUME IndInv, Grown, TypeOK', NEW p \in Loops, LoopInv(p)',
         UNCHANGED <<pointer, target, rogue>>,
         \A q \in Loops \ {p} :
            /\ pc'[q] = pc[q] /\ start'[q] = start[q]
            /\ got'[q] = got[q] /\ todo'[q] = todo[q],
         pc[p] # "idle",
         p = Main /\ ~rogue /\ pc'[Main] \notin {"idle", "read"} /\ pointer > 0
            => start'[Main] = pointer + 1
  PROVE  IndInv'
<1>1. \A q \in Loops : LoopInv(q)'
  <2>1. ASSUME NEW q \in Loops, q # p PROVE LoopInv(q)'
    BY <2>1, LoopKept DEF IndInv
  <2> QED BY <2>1
<1>2. LogsCovered'
  BY CoveredKept DEF IndInv, LogsCovered, FirstBlock
<1>3. PointerOrder'
  <2>1. Main \in Loops /\ Workers \subseteq Loops /\ Main \notin Workers
    BY LogSyncAssumption DEF Loops
  <2> QED BY <2>1 DEF IndInv, PointerOrder, Exact
<1> QED BY <1>1, <1>2, <1>3 DEF IndInv

LEMMA ReadPointerKeeps ==
  ASSUME IndInv, TypeOK', Grown, NEW p \in Loops, ReadPointer(p)
  PROVE  IndInv'
<1>1. /\ pc[p] = "read" /\ pc'[p] = "latest" /\ got'[p] = {} /\ todo'[p] = {}
      /\ start'[p] = StartBlock(p) /\ target' = target
  BY DEF ReadPointer, IndInv, TypeOK, LoopInv, Served
<1>2. BelowStart(p)'
  BY <1>1, StartIsCovered, CoveredKept DEF BelowStart, Exact, FirstBlock
<1>3. LoopInv(p)'
  BY <1>1, <1>2 DEF LoopInv, Served
<1>4. p = Main /\ pointer > 0 => start'[Main] = pointer + 1
  BY <1>1 DEF IndInv, PointerOrder, StartBlock, Exact
<1> QED BY <1>1, <1>3, <1>4, StepOfOneLoop
        DEF ReadPointer, IndInv, TypeOK, store, history

LEMMA GetLatestKeeps ==
  ASSUME IndInv, TypeOK', Grown, NEW p \in Loops, NEW n \in Nodes, GetLatest(p, n)
  PROVE  IndInv'
<1>1. /\ pc[p] = "latest" /\ pc'[p] = "fetch" /\ got'[p] = {} /\ todo'[p] = {}
      /\ start' = start /\ target' = target
  BY DEF GetLatest, IndInv, TypeOK, LoopInv, Served
<1>2. BelowStart(p)'
  BY <1>1, CoveredKept DEF IndInv, LoopInv, BelowStart, Exact
<1>3. LoopInv(p)'
  BY <1>1, <1>2 DEF LoopInv, Served
<1>4. p = Main /\ ~rogue /\ pointer > 0 => start'[Main] = pointer + 1
  BY <1>1 DEF IndInv, PointerOrder
<1> QED BY <1>1, <1>3, <1>4, StepOfOneLoop DEF GetLatest, IndInv, TypeOK, store, history

LEMMA AnswerRangeKeeps ==
  ASSUME IndInv, TypeOK', Grown, NEW p \in Loops, NEW i \in pend[p], NEW n \in Nodes,
         AnswerRange(p, i, n)
  PROVE  IndInv'
<1> DEFINE new == {b \in From(p, i)..To(p, i) : b <= head[n]}
<1>1. /\ pc[p] = "fetch" /\ pc' = pc /\ start' = start /\ target' = target
      /\ stored' = stored
      /\ got'[p] = got[p] \cup new /\ todo'[p] = todo[p] \cup (new \cap WithLogs)
  BY DEF AnswerRange, IndInv, TypeOK, store
<1>2. Served(p)'
  BY <1>1 DEF IndInv, LoopInv, Served
<1>3. BelowStart(p)'
  BY <1>1, CoveredKept DEF IndInv, LoopInv, BelowStart, Exact
<1>4. LoopInv(p)'
  BY <1>2, <1>3 DEF LoopInv
<1>5. p = Main /\ ~rogue /\ pointer > 0 => start'[Main] = pointer + 1
  BY <1>1 DEF IndInv, PointerOrder
<1> QED BY <1>1, <1>4, <1>5, StepOfOneLoop
        DEF AnswerRange, IndInv, TypeOK, store, history

LEMMA WriteKeeps ==
  ASSUME IndInv, TypeOK', Grown, NEW p \in Loops, NEW b \in todo[p], Write(p, b)
  PROVE  IndInv'
<1>1. /\ pc[p] = "fetch" /\ pc' = pc /\ start' = start /\ target' = target
      /\ stored' = stored \cup {b} /\ got' = got /\ todo'[p] = todo[p] \ {b}
  BY DEF Write, IndInv, TypeOK
<1>2. Served(p)'
  BY <1>1 DEF IndInv, LoopInv, Served
<1>3. BelowStart(p)'
  BY <1>1, CoveredKept DEF IndInv, LoopInv, BelowStart, Exact
<1>4. LoopInv(p)'
  BY <1>2, <1>3 DEF LoopInv
<1>5. p = Main /\ ~rogue /\ pointer > 0 => start'[Main] = pointer + 1
  BY <1>1 DEF IndInv, PointerOrder
<1> QED BY <1>1, <1>4, <1>5, StepOfOneLoop DEF Write, IndInv, TypeOK, history

LEMMA FinishExactKeeps ==
  ASSUME IndInv, TypeOK', Grown, NEW p \in Loops, FinishExact(p)
  PROVE  IndInv'
<1>1. /\ pc'[p] = "idle" /\ p # Main
      /\ \A q \in Loops \ {p} : pc'[q] = pc[q] /\ target'[q] = target[q]
      /\ UNCHANGED <<pointer, rogue>>
  BY DEF FinishExact, IndInv, TypeOK, Exact, PointerOrder, store, history
<1>2. \A q \in Loops : LoopInv(q)'
  BY <1>1, Forgotten, LoopKept, LoopAtRest DEF FinishExact, IndInv
<1>3. LogsCovered'
  BY <1>1, CoveredKept DEF IndInv, LogsCovered, FirstBlock
<1>4. PointerOrder'
  <2>1. Main \in Loops /\ Workers \subseteq Loops
    BY DEF Loops
  <2>2. start'[Main] = start[Main]
    BY <1>1, <2>1, Forgotten DEF FinishExact, IndInv
  <2> QED BY <1>1, <2>1, <2>2 DEF IndInv, PointerOrder, Exact
<1> QED BY <1>2, <1>3, <1>4 DEF IndInv

\* After a batch the table owes nothing to the blocks up to where the pointer
\* is set.
LEMMA BatchCovered ==
  ASSUME IndInv, Grown, NEW p \in Loops, Commit(p)
  PROVE  \A b \in FirstBlock..SyncedTo(p) : Covered(b)'
<1>1. /\ pc[p] = "fetch" /\ ~Exact(p) /\ todo[p] = {} /\ stored' = stored
      /\ missed' = missed \cup (Asked(p) \ got[p])
      /\ unasked' = unasked \cup ((start[p]..SyncedTo(p)) \ Asked(p))
  BY DEF Commit, Settled
<1> SUFFICES ASSUME NEW b \in FirstBlock..SyncedTo(p) PROVE Covered(b)'
  OBVIOUS
<1>2. FirstBlock \in Nat
  BY LogSyncAssumption DEF FirstBlock
<1>3. b \in Nat /\ start[p] \in Nat /\ SyncedTo(p) \in Nat
  BY <1>2, SyncedToType, LogSyncAssumption DEF IndInv, TypeOK, Block
<1>4. CASE b < start[p]
  <2>1. b \in FirstBlock..(start[p] - 1)
    BY <1>2, <1>3, <1>4
  <2>2. Covered(b)
    BY <1>1, <2>1 DEF IndInv, LoopInv, BelowStart
  <2> QED BY <2>2, CoveredKept
<1>5. CASE b >= start[p] /\ b \notin Asked(p)
  <2>1. b \in unasked'
    BY <1>1, <1>3, <1>5
  <2> QED BY <2>1 DEF Covered
<1>6. CASE b \in Asked(p)
  <2>1. b \in got[p] /\ b \in WithLogs => b \in stored
    BY <1>1 DEF IndInv, LoopInv, Served
  <2> QED BY <1>1, <1>6, <2>1 DEF Covered
<1> QED BY <1>3, <1>4, <1>5, <1>6

\* Without a rogue worker only the service's own loop commits, and where it
\* moves the pointer back the node's height is the reason.
LEMMA CommitMovesBack ==
  ASSUME IndInv, NEW p \in Loops, Commit(p), ~rogue
  PROVE  p = Main /\ (pointer' < pointer => pointer' = latest[Main])
<1>1. p = Main
  BY DEF Commit, Settled, IndInv, PointerOrder, Loops
<1>2. pointer > 0 => start[p] = pointer + 1
  BY <1>1 DEF Commit, Settled, IndInv, PointerOrder
<1>3. /\ pointer \in Nat /\ start[p] \in Nat /\ latest[p] \in Nat
      /\ BlockRange \in Nat /\ batch[p] \in Nat
  BY LogSyncAssumption DEF IndInv, TypeOK, Block, CountsFrom
<1>4. start[p] + BlockRange * batch[p] >= start[p]
  BY <1>3
<1> QED BY <1>1, <1>2, <1>3, <1>4 DEF Commit, SyncedTo, Lesser

LEMMA CommitKeeps ==
  ASSUME IndInv, TypeOK', Grown, NEW p \in Loops, Commit(p)
  PROVE  IndInv'
<1>1. /\ pc'[p] = "read" /\ pc[p] # "idle" /\ ~Exact(p) /\ pointer' = SyncedTo(p)
      /\ \A q \in Loops \ {p} : pc'[q] = pc[q] /\ UNCHANGED <<target, rogue>>
  BY DEF Commit, Settled, IndInv, TypeOK
<1>2. \A q \in Loops : LoopInv(q)'
  BY <1>1, Forgotten, LoopKept, LoopAtRest DEF Commit, IndInv
<1>3. LogsCovered'
  BY <1>1, BatchCovered DEF LogsCovered, FirstBlock
<1>4. PointerOrder'
  <2>1. Main \in Loops /\ Workers \subseteq Loops /\ Main \notin Workers
    BY LogSyncAssumption DEF Loops
  <2>2. target' = target /\ rogue' = rogue
    BY DEF Commit
  <2>3. ~rogue => p = Main
    BY CommitMovesBack
  <2> QED BY <1>1, <2>1, <2>2, <2>3 DEF IndInv, PointerOrder, Exact
<1> QED BY <1>2, <1>3, <1>4 DEF IndInv

LEMMA FailKeeps ==
  ASSUME IndInv, TypeOK', Grown, NEW p \in Loops, NEW b \in Block, Fail(p, b)
  PROVE  IndInv'
<1>1. /\ pc[p] # "idle" /\ pc'[p] = "read" /\ \A q \in Loops \ {p} : pc'[q] = pc[q]
      /\ UNCHANGED <<target, pointer, rogue>>
  BY DEF Fail, IndInv, TypeOK, history
<1>2. \A q \in Loops : LoopInv(q)'
  BY <1>1, Forgotten, LoopKept, LoopAtRest DEF Fail, IndInv
<1>3. LogsCovered'
  BY <1>1, CoveredKept DEF IndInv, LogsCovered, FirstBlock
<1>4. PointerOrder'
  <2>1. Main \in Loops /\ Workers \subseteq Loops /\ Main \notin Workers
    BY LogSyncAssumption DEF Loops
  <2>2. Main # p => start'[Main] = start[Main]
    BY <2>1, Forgotten DEF Fail, IndInv
  <2> QED BY <1>1, <2>1, <2>2 DEF IndInv, PointerOrder, Exact
<1> QED BY <1>2, <1>3, <1>4 DEF IndInv

LEMMA CrashKeeps ==
  ASSUME IndInv, TypeOK', Grown, Crash
  PROVE  IndInv'
<1>1. /\ pc' = [q \in Loops |-> IF q = Main THEN "read" ELSE "idle"]
      /\ pointer' = pointer
      /\ \A q \in Loops : got'[q] = {} /\ todo'[q] = {} /\ target'[q] = 0
  BY DEF Crash
<1>2. \A q \in Loops : LoopInv(q)'
  BY <1>1, LoopAtRest
<1>3. LogsCovered'
  BY <1>1, CoveredKept DEF IndInv, LogsCovered, FirstBlock
<1>4. PointerOrder'
  BY <1>1, LogSyncAssumption DEF PointerOrder, Loops
<1> QED BY <1>2, <1>3, <1>4 DEF IndInv

LEMMA ReindexKeeps ==
  ASSUME IndInv, TypeOK', Grown, NEW p \in Workers, NEW b \in Block, Reindex(p, b)
  PROVE  IndInv'
<1>1. p \in Loops /\ p # Main /\ Main \in Loops /\ Workers \subseteq Loops
  BY LogSyncAssumption DEF Loops
<1>2. /\ pc[p] = "idle" /\ pc'[p] = "read" /\ target'[p] = b
      /\ \A q \in Loops \ {p} : pc'[q] = pc[q] /\ target'[q] = target[q]
      /\ UNCHANGED <<start, got, todo, pointer>>
      /\ rogue' = (rogue \/ b = 0)
  BY <1>1 DEF Reindex, IndInv, TypeOK, store, batchVars
<1>3. got'[p] = {} /\ todo'[p] = {}
  BY <1>1, <1>2 DEF IndInv, LoopInv, Served
<1>4. \A q \in Loops : LoopInv(q)'
  BY <1>1, <1>2, <1>3, LoopKept, LoopAtRest DEF IndInv
<1>5. LogsCovered'
  BY <1>2, CoveredKept DEF IndInv, LogsCovered, FirstBlock
<1>6. PointerOrder'
  BY <1>1, <1>2 DEF IndInv, PointerOrder, Exact
<1> QED BY <1>4, <1>5, <1>6 DEF IndInv

LEMMA LoopsAtEase ==
  ASSUME IndInv, TypeOK', Grown, UNCHANGED <<pc, target, start, got, todo, pointer, rogue>>
  PROVE  IndInv'
<1>1. \A q \in Loops : LoopInv(q)'
  BY LoopKept DEF IndInv
<1>2. LogsCovered'
  BY CoveredKept DEF IndInv, LogsCovered, FirstBlock
<1>3. PointerOrder'
  BY DEF IndInv, PointerOrder, Exact
<1> QED BY <1>1, <1>2, <1>3 DEF IndInv

LEMMA IndInvPreserved == IndInv /\ [Next]_vars => IndInv'
<1> SUFFICES ASSUME IndInv, [Next]_vars PROVE IndInv'
  OBVIOUS
<1>1. TypeOK'
  BY TypesPreserved DEF IndInv
<1>2. CASE UNCHANGED vars
  <2>1. Grown /\ UNCHANGED <<pc, target, start, got, todo, pointer, rogue>>
    BY <1>2 DEF vars, store, loopVars, batchVars, history, Grown
  <2> QED BY <1>1, <2>1, LoopsAtEase
<1>3. CASE Next
  <2>1. Grown
    BY <1>3, StepsGrow
  <2>2. ASSUME NEW p \in Loops, LoopStep(p) PROVE IndInv'
    BY <1>1, <2>1, <2>2, ReadPointerKeeps, GetLatestKeeps, AnswerRangeKeeps, WriteKeeps,
       FinishExactKeeps, CommitKeeps DEF LoopStep
  <2>3. ASSUME NEW p \in Loops, NEW b \in Block, Fail(p, b) PROVE IndInv'
    BY <1>1, <2>1, <2>3, FailKeeps
  <2>4. ASSUME NEW b \in late, LandLate(b) PROVE IndInv'
    <3>1. UNCHANGED <<pc, target, start, got, todo, pointer, rogue>>
      BY <2>4 DEF LandLate, loopVars, batchVars, history
    <3> QED BY <1>1, <2>1, <3>1, LoopsAtEase
  <2>5. CASE Crash
    BY <1>1, <2>1, <2>5, CrashKeeps
  <2>6. ASSUME NEW p \in Workers, NEW b \in Block, Reindex(p, b) PROVE IndInv'
    BY <1>1, <2>1, <2>6, ReindexKeeps
  <2>7. ASSUME NEW n \in Nodes, Grow(n) PROVE IndInv'
    <3>1. UNCHANGED <<pc, target, start, got, todo, pointer, rogue>>
      BY <2>7 DEF Grow, store, loopVars, batchVars, history
    <3> QED BY <1>1, <2>1, <3>1, LoopsAtEase
  <2> QED BY <1>3, <2>2, <2>3, <2>4, <2>5, <2>6, <2>7 DEF Next
<1> QED BY <1>2, <1>3

-----------------------------------------------------------------------------
(* The theorems *)

LEMMA IndInvHolds == Spec => []IndInv
<1> QED BY InitialIndInv, IndInvPreserved, PTL DEF Spec

\* Whatever fails, dies or runs side by side, every block up to the pointer has
\* its logs stored, or was missing from an answer, or was never asked for.
THEOREM LogsAreCovered == Spec => []LogsCovered
<1>1. IndInv => LogsCovered
  BY DEF IndInv
<1> QED BY <1>1, IndInvHolds, PTL

\* A batch leaves nothing unasked but the one block its ranges end before.
THEOREM OneBlockSkipped == Spec => SkipsOneBlock
<1>1. TypeOK /\ [Next]_vars => [Cardinality(unasked' \ unasked) <= 1]_vars
  <2> SUFFICES ASSUME TypeOK, Next PROVE Cardinality(unasked' \ unasked) <= 1
    OBVIOUS
  <2>1. ASSUME NEW p \in Loops, Commit(p) PROVE Cardinality(unasked' \ unasked) <= 1
    <3> DEFINE e == start[p] + BlockRange * batch[p]
    <3>1. ~Exact(p) /\ unasked' = unasked \cup ((start[p]..SyncedTo(p)) \ Asked(p))
      BY <2>1 DEF Commit
    <3>2. /\ start[p] \in Nat /\ latest[p] \in Nat /\ BlockRange \in Nat
          /\ batch[p] \in Nat
      BY LogSyncAssumption DEF TypeOK, CountsFrom, Block
    <3>3. e \in Nat
      BY <3>2
    <3>4. SyncedTo(p) <= latest[p] /\ SyncedTo(p) <= e /\ SyncedTo(p) \in Nat
      BY <3>2, <3>3 DEF SyncedTo, Lesser
    <3>5. (start[p]..SyncedTo(p)) \ Asked(p) \subseteq {e}
      <4> SUFFICES ASSUME NEW b \in start[p]..SyncedTo(p), b # e PROVE b \in Asked(p)
        OBVIOUS
      <4> HIDE DEF e
      <4>1. b \in start[p]..latest[p] /\ b < e
        BY <3>2, <3>3, <3>4
      <4> QED BY <3>1, <4>1, EverythingAsked DEF e
    <3>6. unasked' \ unasked \subseteq {e}
      BY <3>1, <3>5
    <3>7. unasked' \ unasked = {} \/ unasked' \ unasked = {e}
      BY <3>6
    <3>8. Cardinality({}) = 0 /\ Cardinality({e}) = 1
      BY FS_EmptySet, FS_Singleton, Zenon
    <3>9. Cardinality(unasked' \ unasked) \in {0, 1}
      BY <3>7, <3>8, Zenon
    <3> QED BY <3>9
  <2>2. CASE ~(\E p \in Loops : Commit(p))
    <3>1. unasked' = unasked
      BY <2>2 DEF Next, LoopStep, ReadPointer, GetLatest, AnswerRange, Write, FinishExact,
                  Fail, LandLate, Crash, Reindex, Grow, history
    <3>2. unasked' \ unasked = {} /\ Cardinality({}) = 0
      BY <3>1, FS_EmptySet, Zenon
    <3>3. Cardinality(unasked' \ unasked) = 0
      BY <3>2, Zenon
    <3> QED BY <3>3
  <2> QED BY <2>1, <2>2
<1> QED BY <1>1, LogSyncTypes, PTL DEF Spec, SkipsOneBlock

\* Without a worker on block 0 the pointer goes back only to a reported height.
THEOREM PointerBackOnlyWithTheNode == Spec => BackOnlyWithTheNode
<1>1. IndInv /\ [Next]_vars =>
        [~rogue /\ pointer' < pointer => pointer' = latest[Main]]_vars
  <2> SUFFICES ASSUME IndInv, Next, ~rogue, pointer' < pointer
               PROVE  pointer' = latest[Main]
    OBVIOUS
  <2>1. ASSUME NEW p \in Loops, Commit(p) PROVE pointer' = latest[Main]
    BY <2>1, CommitMovesBack
  <2>2. CASE ~(\E p \in Loops : Commit(p))
    <3>1. pointer' = pointer
      BY <2>2 DEF Next, LoopStep, ReadPointer, GetLatest, AnswerRange, Write, FinishExact,
                  Fail, LandLate, Crash, Reindex, Grow, store
    <3>2. pointer \in Nat
      BY LogSyncAssumption DEF IndInv, TypeOK, Block
    <3> QED BY <3>1, <3>2
  <2> QED BY <2>1, <2>2
<1> QED BY <1>1, IndInvHolds, PTL DEF Spec, BackOnlyWithTheNode
=============================================================================
