-------------------------- MODULE BlockSync_proofs --------------------------
(* Safety of the block indexer, for every number of nodes and workers, every *)
(* chain length, range and batch size, and every number of faults.          *)
EXTENDS BlockSync, LoopFacts, FiniteSetTheorems

-----------------------------------------------------------------------------
(* The highest answer *)

\* The highest answered block is 0 or one of the answered blocks, and none of
\* them is above it.
LEMMA LastFetchedIsGreatest ==
  ASSUME TypeOK, NEW p \in Loops
  PROVE  /\ LastFetched(p) \in Block
         /\ LastFetched(p) > 0 => LastFetched(p) \in got[p]
         /\ \A b \in got[p] : b <= LastFetched(p)
<1> DEFINE S == got[p] \cup {0}
<1>1. MaxBlock \in Nat /\ S \in SUBSET (0..MaxBlock) /\ S # {}
  BY BlockSyncAssumption DEF TypeOK, Block
<1>2. Max(S) \in S /\ \A x \in S : x <= Max(S)
  BY <1>1, MaxIsGreatest
<1> QED BY <1>1, <1>2 DEF LastFetched, Block

-----------------------------------------------------------------------------
(* Types *)

LEMMA InitialTypes == Init => TypeOK
<1> SUFFICES ASSUME Init PROVE TypeOK
  OBVIOUS
<1> USE BlockSyncAssumption DEF Init
<1>1. pc \in [Loops -> Stages]
  BY DEF Stages
<1>2. batch \in [Loops -> CountsFrom(InitialBatch)]
  BY MaxBatchCountAssumption DEF CountsFrom, Greater
<1>3. 0 \in Block
  BY DEF Block
<1>4. target \in [Loops -> Block] /\ latest \in [Loops -> Block]
  BY <1>3
<1>5. /\ start \in [Loops -> Nat] /\ pend \in [Loops -> SUBSET Nat]
      /\ got \in [Loops -> SUBSET Block] /\ traced \in [Loops -> SUBSET Block]
      /\ todo \in [Loops -> SUBSET Writes]
  OBVIOUS
<1>6. rows \in [Tables -> SUBSET Block] /\ faults \in 0..MaxFaults
  OBVIOUS
<1> QED BY <1>1, <1>2, <1>3, <1>4, <1>5, <1>6 DEF TypeOK

LEMMA ForgetTypes ==
  ASSUME TypeOK, NEW p \in Loops, Forget(p)
  PROVE  /\ start' \in [Loops -> Nat] /\ latest' \in [Loops -> Block]
         /\ pend' \in [Loops -> SUBSET Nat]
         /\ got' \in [Loops -> SUBSET Block] /\ traced' \in [Loops -> SUBSET Block]
         /\ todo' \in [Loops -> SUBSET Writes]
<1>1. 0 \in Block
  BY BlockSyncAssumption DEF Block
<1> QED BY <1>1 DEF TypeOK, Forget

LEMMA StartBlockType ==
  ASSUME TypeOK, NEW p \in Loops
  PROVE  StartBlock(p) \in Nat
BY BlockSyncAssumption DEF TypeOK, StartBlock, InitialStartOf, Block

\* A range begins at or after the start of its batch.
LEMMA RangeBegins ==
  ASSUME TypeOK, NEW p \in Loops, NEW i \in Nat
  PROVE  From(p, i) \in Nat /\ From(p, i) >= start[p]
<1>1. BlockRange \in Nat /\ start[p] \in Nat
  BY BlockSyncAssumption DEF TypeOK
<1>2. i * BlockRange \in Nat
  BY <1>1
<1> QED BY <1>1, <1>2 DEF From

\* What a stage inserts is made of blocks the batch was answered.
LEMMA PlannedType ==
  ASSUME NEW ph \in Phases, NEW g \in SUBSET Block, NEW tr
  PROVE  Planned(ph, g, tr) \subseteq Writes
BY DEF Planned, TablesOf, Writes, Tables, TraceTables, Phases

LEMMA NextStageType ==
  ASSUME NEW ph \in Phases
  PROVE  NextStage(ph) \in Stages \ {"idle"}
BY DEF NextStage, Phases, Stages

LEMMA TypesPreserved == TypeOK /\ [Next]_vars => TypeOK'
<1> SUFFICES ASSUME TypeOK, [Next]_vars PROVE TypeOK'
  OBVIOUS
<1>1. ASSUME NEW p \in Loops, ReadPointer(p) PROVE TypeOK'
  <2>1. start' \in [Loops -> Nat]
    BY <1>1, StartBlockType DEF ReadPointer, TypeOK
  <2>2. pc' \in [Loops -> Stages]
    BY <1>1 DEF ReadPointer, TypeOK, Stages
  <2> QED BY <1>1, <2>1, <2>2 DEF ReadPointer, TypeOK, store, history
<1>2. ASSUME NEW p \in Loops, NEW n \in Nodes, GetLatest(p, n) PROVE TypeOK'
  <2>1. latest' \in [Loops -> Block]
    BY <1>2 DEF GetLatest, TypeOK
  <2>2. pc' \in [Loops -> Stages]
    BY <1>2 DEF GetLatest, TypeOK, Stages
  <2>3. {i \in 0..(batch[p] - 1) : From(p, i) <= head[n]} \subseteq Nat
    OBVIOUS
  <2>4. pend' \in [Loops -> SUBSET Nat]
    BY <1>2, <2>3 DEF GetLatest, TypeOK
  <2> QED BY <1>2, <2>1, <2>2, <2>4 DEF GetLatest, TypeOK, store, history
<1>3. ASSUME NEW p \in Loops, NEW i \in pend[p], NEW n \in Nodes, AnswerRange(p, i, n)
      PROVE  TypeOK'
  <2>1. i \in Nat /\ From(p, i) \in Nat
    BY RangeBegins DEF TypeOK
  <2>2. {b \in From(p, i)..To(p, i) : b <= head[n]} \subseteq Block
    BY <2>1, BlockSyncAssumption DEF TypeOK, Block
  <2>3. got' \in [Loops -> SUBSET Block]
    BY <1>3, <2>2 DEF AnswerRange, TypeOK
  <2>4. pend' \in [Loops -> SUBSET Nat]
    BY <1>3 DEF AnswerRange, TypeOK
  <2> QED BY <1>3, <2>3, <2>4 DEF AnswerRange, TypeOK, store, history
<1>4. ASSUME NEW p \in Loops, TraceBlocks(p) PROVE TypeOK'
  <2>1. PICK tr \in SUBSET got[p] :
          /\ traced' = [traced EXCEPT ![p] = tr]
          /\ todo' = [todo EXCEPT ![p] = Planned("blocks", got[p], tr)]
    BY <1>4 DEF TraceBlocks
  <2>2. got[p] \in SUBSET Block /\ "blocks" \in Phases
    BY DEF TypeOK, Phases
  <2>3. traced' \in [Loops -> SUBSET Block]
    BY <2>1, <2>2 DEF TypeOK
  <2>4. todo' \in [Loops -> SUBSET Writes]
    BY <2>1, <2>2, PlannedType DEF TypeOK
  <2>5. pc' \in [Loops -> Stages]
    BY <1>4 DEF TraceBlocks, TypeOK, Stages, Phases
  <2> QED BY <1>4, <2>3, <2>4, <2>5 DEF TraceBlocks, TypeOK, store, history
<1>5. ASSUME NEW p \in Loops, NEW w \in todo[p], Write(p, w) PROVE TypeOK'
  <2>1. w \in Writes /\ w[1] \in Tables /\ w[2] \in Block
    BY DEF TypeOK, Writes
  <2>2. rows' \in [Tables -> SUBSET Block] /\ marked' \subseteq Block
    BY <1>5, <2>1 DEF Write, TypeOK
  <2>3. todo' \in [Loops -> SUBSET Writes]
    BY <1>5 DEF Write, TypeOK
  <2> QED BY <1>5, <2>2, <2>3 DEF Write, TypeOK, history
<1>6. ASSUME NEW p \in Loops, Advance(p) PROVE TypeOK'
  <2>1. pc[p] \in Phases /\ NextStage(pc[p]) \in Stages
    BY <1>6, NextStageType DEF Advance
  <2>2. pc' \in [Loops -> Stages]
    BY <1>6, <2>1 DEF Advance, TypeOK
  <2>3. NextStage(pc[p]) \in Phases
          => Planned(NextStage(pc[p]), got[p], traced[p]) \in SUBSET Writes
    BY PlannedType DEF TypeOK
  <2>4. todo' \in [Loops -> SUBSET Writes]
    BY <1>6, <2>3 DEF Advance, TypeOK
  <2> QED BY <1>6, <2>2, <2>4 DEF Advance, TypeOK, store, history
<1>7. ASSUME NEW p \in Loops, FinishExact(p) PROVE TypeOK'
  <2>1. pc' \in [Loops -> Stages]
    BY <1>7 DEF FinishExact, TypeOK, Stages
  <2>2. target' \in [Loops -> Block] /\ batch' \in [Loops -> CountsFrom(InitialBatch)]
    BY <1>7, BlockSyncAssumption, MaxBatchCountAssumption
       DEF FinishExact, TypeOK, Block, CountsFrom, Greater
  <2> QED BY <1>7, <2>1, <2>2, ForgetTypes DEF FinishExact, TypeOK, store, history
<1>8. ASSUME NEW p \in Loops, Commit(p) PROVE TypeOK'
  <2>1. pc' \in [Loops -> Stages]
    BY <1>8 DEF Commit, TypeOK, Stages
  <2>2. batch' \in [Loops -> CountsFrom(InitialBatch)]
    BY <1>8, BatchCountsClosed, BlockSyncAssumption DEF Commit, TypeOK
  <2>3. pointer' \in Block
    BY <1>8, LastFetchedIsGreatest DEF Commit, TypeOK
  <2>4. start[p]..LastFetched(p) \subseteq Block
    BY LastFetchedIsGreatest, BlockSyncAssumption DEF TypeOK, Block
  <2>5. skipped' \subseteq Block /\ untraced' \subseteq Block
    BY <1>8, <2>4 DEF Commit, TypeOK
  <2> QED BY <1>8, <2>1, <2>2, <2>3, <2>5, ForgetTypes DEF Commit, TypeOK
<1>9. ASSUME NEW p \in Loops, NEW b \in Block, Fail(p, b) PROVE TypeOK'
  <2>1. pc' \in [Loops -> Stages]
    BY <1>9 DEF Fail, TypeOK, Stages
  <2>2. batch' \in [Loops -> CountsFrom(InitialBatch)]
    BY <1>9, BatchCountsClosed, BlockSyncAssumption DEF Fail, TypeOK
  <2>3. late' \subseteq Writes
    BY <1>9 DEF Fail, Abandoned, TypeOK
  <2>4. faults' \in 0..MaxFaults
    BY <1>9, BlockSyncAssumption DEF Fail, Lesser, TypeOK
  <2> QED BY <1>9, <2>1, <2>2, <2>3, <2>4, ForgetTypes DEF Fail, TypeOK, history
<1>10. ASSUME NEW w \in late, LandLate(w) PROVE TypeOK'
  <2>1. w[1] \in Tables /\ w[2] \in Block
    BY DEF TypeOK, Writes
  <2>2. rows' \in [Tables -> SUBSET Block] /\ late' \subseteq Writes
    BY <1>10, <2>1 DEF LandLate, TypeOK
  <2> QED BY <1>10, <2>2 DEF LandLate, TypeOK, loopVars, batchVars, history
<1>11. CASE Crash
  <2>1. pc' \in [Loops -> Stages]
    BY <1>11 DEF Crash, Stages
  <2>2. batch' \in [Loops -> CountsFrom(InitialBatch)]
    BY <1>11, BlockSyncAssumption, MaxBatchCountAssumption DEF Crash, CountsFrom, Greater
  <2>3. 0 \in Block
    BY BlockSyncAssumption DEF Block
  <2>4. target' \in [Loops -> Block] /\ latest' \in [Loops -> Block]
    BY <1>11, <2>3 DEF Crash
  <2>5. /\ start' \in [Loops -> Nat] /\ pend' \in [Loops -> SUBSET Nat]
        /\ got' \in [Loops -> SUBSET Block] /\ traced' \in [Loops -> SUBSET Block]
        /\ todo' \in [Loops -> SUBSET Writes]
    BY <1>11 DEF Crash
  <2>6. rows' \in [Tables -> SUBSET Block] /\ marked' \subseteq Block
    BY <1>11 DEF Crash, TypeOK
  <2>7. faults' \in 0..MaxFaults
    BY <1>11, BlockSyncAssumption DEF Crash, TypeOK
  <2> QED BY <1>11, <2>1, <2>2, <2>4, <2>5, <2>6, <2>7 DEF Crash, TypeOK
<1>12. ASSUME NEW p \in Workers, NEW b \in Block, StartWorker(p, b) PROVE TypeOK'
  <2>1. pc' \in [Loops -> Stages] /\ target' \in [Loops -> Block]
    BY <1>12 DEF StartWorker, TypeOK, Stages, Loops
  <2>2. rogue' \in BOOLEAN
    BY <1>12 DEF StartWorker, TypeOK
  <2> QED BY <1>12, <2>1, <2>2 DEF StartWorker, TypeOK, store, batchVars
<1>13. ASSUME NEW n \in Nodes, Grow(n) PROVE TypeOK'
  <2>1. head' \in [Nodes -> Block]
    BY <1>13, BlockSyncAssumption DEF Grow, TypeOK, Block
  <2> QED BY <1>13, <2>1 DEF Grow, TypeOK, store, loopVars, batchVars, history
<1>14. CASE UNCHANGED vars
  BY <1>14 DEF vars, TypeOK, store, loopVars, batchVars, history
<1> QED BY <1>1, <1>2, <1>3, <1>4, <1>5, <1>6, <1>7, <1>8, <1>9, <1>10, <1>11,
           <1>12, <1>13, <1>14 DEF Next, Running, LoopsRun, LoopStep, Reindex, FixMissing

\* Every reachable state has the types of TypeOK; above all, the batch count of
\* a loop stays between 1 and the ceiling, and the pointer names a block.
THEOREM BlockSyncTypes == Spec => []TypeOK
<1> QED BY InitialTypes, TypesPreserved, PTL DEF Spec

-----------------------------------------------------------------------------
(* What the store has, it keeps *)

Grown ==
    /\ \A t \in Tables : rows[t] \subseteq rows'[t]
    /\ skipped \subseteq skipped'
    /\ untraced \subseteq untraced'

LEMMA StepsGrow ==
  ASSUME TypeOK, Next
  PROVE  Grown
<1>1. ASSUME NEW p \in Loops, LoopStep(p) PROVE Grown
  <2>1. ASSUME NEW w \in todo[p], Write(p, w) PROVE Grown
    BY <2>1 DEF Write, TypeOK, Grown, history
  <2>2. CASE Commit(p)
    BY <2>2 DEF Commit, Grown
  <2>3. CASE ~Commit(p) /\ ~(\E w \in todo[p] : Write(p, w))
    <3>1. UNCHANGED <<rows, skipped, untraced>>
      BY <1>1, <2>3 DEF LoopStep, ReadPointer, GetLatest, AnswerRange, TraceBlocks,
                        Advance, FinishExact, store, history
    <3> QED BY <3>1 DEF Grown
  <2> QED BY <2>1, <2>2, <2>3
<1>2. ASSUME NEW p \in Loops, NEW b \in Block, Fail(p, b) PROVE Grown
  BY <1>2 DEF Fail, Grown, history
<1>3. ASSUME NEW w \in late, LandLate(w) PROVE Grown
  BY <1>3 DEF LandLate, TypeOK, Grown, history
<1>4. CASE Crash
  <2>1. PICK landed : rows' = [t \in Tables |-> rows[t] \cup {b \in Block : <<t, b>> \in landed}]
    BY <1>4 DEF Crash
  <2> QED BY <1>4, <2>1 DEF Crash, Grown
<1>5. ASSUME NEW p \in Workers, NEW b \in Block, StartWorker(p, b) PROVE Grown
  BY <1>5 DEF StartWorker, store, Grown
<1>6. ASSUME NEW n \in Nodes, Grow(n) PROVE Grown
  BY <1>6 DEF Grow, store, history, Grown
<1> QED BY <1>1, <1>2, <1>3, <1>4, <1>5, <1>6 DEF Next, Running, LoopsRun, Reindex, FixMissing

\* What the tables owed a block and gave, they still give.
LEMMA CoveredKept ==
  ASSUME Grown, NEW b, Covered(b)
  PROVE  Covered(b)'
BY DEF Grown, Covered

LEMMA ParentKept ==
  ASSUME Grown, NEW w \in Writes, HasParent(w)
  PROVE  HasParent(w)'
<1>1. Parent(w[1]) \in Tables
  BY DEF Writes, Parent, Tables, TraceTables
<1> QED BY <1>1 DEF Grown, HasParent

\* A loop whose locals a step leaves alone is not disturbed by it.
LEMMA LoopKept ==
  ASSUME TypeOK, Grown, NEW q \in Loops, LoopInv(q),
         pc'[q] = pc[q], target'[q] = target[q], start'[q] = start[q],
         got'[q] = got[q], traced'[q] = traced[q], todo'[q] = todo[q]
  PROVE  LoopInv(q)'
<1>1. Served(q)'
  BY DEF LoopInv, Served, Grown
<1>2. TodoPlanned(q)'
  BY DEF LoopInv, TodoPlanned
<1>3. GotAbove(q)'
  BY DEF LoopInv, GotAbove
<1>4. BelowStart(q)'
  BY CoveredKept DEF LoopInv, BelowStart, Exact
<1> QED BY <1>1, <1>2, <1>3, <1>4 DEF LoopInv

\* A loop between two batches has nothing to answer for.
LEMMA LoopAtRest ==
  ASSUME NEW q \in Loops, pc'[q] \in {"idle", "read"}, got'[q] = {}, todo'[q] = {}
  PROVE  LoopInv(q)'
BY DEF LoopInv, Served, TodoPlanned, GotAbove, BelowStart, Phases

LEMMA Forgotten ==
  ASSUME TypeOK, NEW p \in Loops, Forget(p)
  PROVE  /\ got'[p] = {} /\ todo'[p] = {}
         /\ \A q \in Loops \ {p} :
               /\ start'[q] = start[q] /\ got'[q] = got[q]
               /\ traced'[q] = traced[q] /\ todo'[q] = todo[q]
BY DEF TypeOK, Forget

-----------------------------------------------------------------------------
(* Foreign keys *)

\* When a stage begins, the stage that stores its parents is over.
LEMMA TodoParents ==
  ASSUME TypeOK, NEW p \in Loops, Served(p), TodoPlanned(p), NEW w \in todo[p]
  PROVE  HasParent(w)
<1>1. pc[p] \in Phases /\ w \in Planned(pc[p], got[p], traced[p])
  BY DEF TodoPlanned
<1>2. /\ w[1] \in TablesOf(pc[p]) /\ w[2] \in got[p] /\ w[2] \in Content[w[1]]
      /\ w[1] \in TraceTables => w[2] \in traced[p]
  BY <1>1 DEF Planned
<1>3. w[2] \in Block
  BY <1>2 DEF TypeOK
<1>4. \A t \in Tables \ TablesOf(pc[p]) : <<t, w[2]>> \notin todo[p]
  BY <1>1 DEF TodoPlanned, Planned
<1>5. CASE w[1] = "blocks"
  BY <1>5 DEF HasParent
<1>6. CASE w[1] \in {"transactions", "staking"}
  <2>1. pc[p] \in {"transactions", "staking"}
    BY <1>1, <1>2, <1>6 DEF TablesOf, Phases, TraceTables
  <2>2. "blocks" \in Tables \ TablesOf(pc[p]) /\ "blocks" \notin Ahead(pc[p])
    BY <2>1 DEF Tables, TablesOf, Ahead, TraceTables
  <2>3. w[2] \in Content["blocks"] /\ "blocks" \notin TraceTables
    BY <1>3, BlockSyncAssumption DEF TraceTables
  <2>4. w[2] \in rows["blocks"]
    BY <1>1, <1>2, <1>4, <2>2, <2>3 DEF Served
  <2>5. Parent(w[1]) = "blocks"
    BY <1>6 DEF Parent, TraceTables
  <2> QED BY <2>4, <2>5 DEF HasParent
<1>7. CASE w[1] \in TraceTables
  <2>1. pc[p] = "internal"
    BY <1>1, <1>2, <1>7 DEF TablesOf, Phases, TraceTables
  <2>2. "transactions" \in Tables \ TablesOf(pc[p]) /\ "transactions" \notin Ahead(pc[p])
    BY <2>1 DEF Tables, TablesOf, Ahead, TraceTables
  <2>3. w[2] \in Content["transactions"] /\ "transactions" \notin TraceTables
    BY <1>2, <1>7, BlockSyncAssumption DEF TraceTables
  <2>4. w[2] \in rows["transactions"]
    BY <1>1, <1>2, <1>4, <2>2, <2>3 DEF Served
  <2> QED BY <1>7, <2>4 DEF HasParent, Parent, TraceTables
<1> QED BY <1>1, <1>2, <1>5, <1>6, <1>7 DEF TablesOf, Phases, TraceTables

-----------------------------------------------------------------------------
(* What a batch owes its blocks, stage by stage *)

LEMMA TraceBlocksServes ==
  ASSUME TypeOK, NEW p \in Loops, TraceBlocks(p)
  PROVE  Served(p)'
<1>1. PICK tr \in SUBSET got[p] : todo' = [todo EXCEPT ![p] = Planned("blocks", got[p], tr)]
  BY DEF TraceBlocks
<1>2. /\ pc'[p] = "blocks" /\ got' = got
      /\ todo'[p] = Planned("blocks", got[p], tr)
  BY <1>1 DEF TraceBlocks, TypeOK
<1> SUFFICES ASSUME NEW t \in Tables, NEW b \in got[p], b \in Content[t]
             PROVE  <<t, b>> \in todo'[p] \/ t \in Ahead(pc'[p])
  BY <1>2 DEF Served
<1>3. CASE t = "blocks"
  <2>1. <<t, b>> \in TablesOf("blocks") \X got[p] /\ t \notin TraceTables
    BY <1>3 DEF TablesOf, TraceTables
  <2> QED BY <1>2, <2>1 DEF Planned
<1>4. CASE t # "blocks"
  BY <1>2, <1>4 DEF Ahead
<1> QED BY <1>3, <1>4

LEMMA WriteServes ==
  ASSUME TypeOK, NEW p \in Loops, NEW w \in todo[p], Write(p, w), Served(p)
  PROVE  Served(p)'
<1>1. /\ pc[p] \in Phases /\ pc' = pc /\ got' = got /\ traced' = traced
      /\ todo'[p] = todo[p] \ {w}
  BY DEF Write, TypeOK
<1>2. /\ w \in Writes /\ w[1] \in Tables
      /\ rows' = [rows EXCEPT ![w[1]] = @ \cup {w[2]}]
  BY DEF Write, TypeOK, Writes
<1>3. w[2] \in rows'[w[1]] /\ \A t \in Tables : rows[t] \subseteq rows'[t]
  BY <1>2 DEF TypeOK
<1> SUFFICES ASSUME NEW t \in Tables, NEW b \in got[p], b \in Content[t],
                    t \in TraceTables => b \in traced[p]
             PROVE  b \in rows'[t] \/ <<t, b>> \in todo'[p] \/ t \in Ahead(pc'[p])
  BY <1>1 DEF Served
<1>4. b \in rows[t] \/ <<t, b>> \in todo[p] \/ t \in Ahead(pc[p])
  BY <1>1 DEF Served
<1>5. CASE <<t, b>> = w
  BY <1>3, <1>5
<1>6. CASE <<t, b>> # w
  BY <1>1, <1>3, <1>4, <1>6
<1> QED BY <1>5, <1>6

\* The tables of a stage are the ones that leave Ahead when the stage begins.
LEMMA StagesInOrder ==
  ASSUME NEW ph \in Phases, NEW t \in Ahead(ph)
  PROVE  /\ NextStage(ph) \in Phases
         /\ t \in Ahead(NextStage(ph)) \/ t \in TablesOf(NextStage(ph))
<1>1. CASE ph = "blocks"
  BY <1>1 DEF NextStage, Ahead, TablesOf, Phases, Tables, TraceTables
<1>2. CASE ph = "transactions"
  BY <1>2 DEF NextStage, Ahead, TablesOf, Phases, Tables, TraceTables
<1>3. CASE ph = "staking"
  BY <1>3 DEF NextStage, Ahead, TablesOf, Phases, Tables, TraceTables
<1>4. CASE ph = "internal"
  BY <1>4 DEF Ahead
<1> QED BY <1>1, <1>2, <1>3, <1>4 DEF Phases

LEMMA AdvanceServes ==
  ASSUME TypeOK, NEW p \in Loops, Advance(p), Served(p)
  PROVE  Served(p)'
<1> DEFINE ph == pc[p]
           nx == NextStage(pc[p])
<1>1. /\ ph \in Phases /\ pc'[p] = nx /\ got' = got /\ rows' = rows
      /\ traced' = traced /\ todo[p] = {}
      /\ todo'[p] = IF nx \in Phases THEN Planned(nx, got[p], traced[p]) ELSE {}
  BY DEF Advance, TypeOK, store
<1> SUFFICES ASSUME NEW t \in Tables, NEW b \in got[p], b \in Content[t],
                    t \in TraceTables => b \in traced[p]
             PROVE  b \in rows[t] \/ <<t, b>> \in todo'[p] \/ t \in Ahead(nx)
  BY <1>1 DEF Served
<1>2. b \in rows[t] \/ t \in Ahead(ph)
  BY <1>1 DEF Served
<1>3. CASE t \in Ahead(ph)
  <2>1. nx \in Phases /\ (t \in Ahead(nx) \/ t \in TablesOf(nx))
    BY <1>1, <1>3, StagesInOrder
  <2>2. t \in TablesOf(nx) => <<t, b>> \in Planned(nx, got[p], traced[p])
    BY DEF Planned
  <2> QED BY <1>1, <2>1, <2>2
<1> QED BY <1>2, <1>3

-----------------------------------------------------------------------------
(* The inductive invariant *)

LEMMA InitialIndInv == Init => IndInv
<1> SUFFICES ASSUME Init PROVE IndInv
  OBVIOUS
<1>1. TypeOK
  BY InitialTypes
<1>2. pc \in [Loops -> {"idle", "read"}]
  BY DEF Init
<1>3. \A p \in Loops : pc[p] \in {"idle", "read"} /\ got[p] = {} /\ todo[p] = {}
  BY <1>2 DEF Init
<1>4. \A p \in Loops : LoopInv(p)
  BY <1>3 DEF LoopInv, Served, TodoPlanned, GotAbove, BelowStart, Phases
<1>5. PrefixCovered /\ PointerStored /\ \A w \in late : HasParent(w)
  BY DEF Init, PrefixCovered, PointerStored
<1>6. Main \in Loops /\ Main \notin Workers /\ Workers \subseteq Loops
  BY BlockSyncAssumption DEF Loops
<1>7. PointerOrder
  BY <1>6 DEF Init, PointerOrder
<1> QED BY <1>1, <1>4, <1>5, <1>7 DEF IndInv

\* Where the pointer does not move, what it promises is kept.
LEMMA PrefixKept ==
  ASSUME Grown, PrefixCovered, PointerStored, pointer' = pointer
  PROVE  PrefixCovered' /\ PointerStored'
<1>1. PrefixCovered'
  BY CoveredKept DEF PrefixCovered
<1>2. PointerStored'
  BY DEF Grown, PointerStored
<1> QED BY <1>1, <1>2

\* The parts of IndInv that a step of one loop p keeps when it leaves the
\* pointer, what failed batches left behind and the other loops alone.
LEMMA StepOfOneLoop ==
  ASSUME IndInv, Grown, TypeOK', NEW p \in Loops, LoopInv(p)',
         pointer' = pointer, late' \subseteq late,
         UNCHANGED <<target, rogue>>,
         \A q \in Loops \ {p} :
            /\ pc'[q] = pc[q] /\ start'[q] = start[q] /\ got'[q] = got[q]
            /\ traced'[q] = traced[q] /\ todo'[q] = todo[q],
         pc[p] # "idle",
         p = Main /\ ~rogue /\ pc'[Main] \notin {"idle", "read"} /\ pointer > 0
            => start'[Main] > pointer
  PROVE  IndInv'
<1>1. \A q \in Loops : LoopInv(q)'
  <2>1. ASSUME NEW q \in Loops, q # p PROVE LoopInv(q)'
    BY <2>1, LoopKept DEF IndInv
  <2> QED BY <2>1
<1>2. \A w \in late' : HasParent(w)'
  BY ParentKept DEF IndInv, TypeOK
<1>3. PrefixCovered' /\ PointerStored'
  BY PrefixKept DEF IndInv
<1>4. PointerOrder'
  <2>1. Main \in Loops /\ Workers \subseteq Loops /\ Main \notin Workers
    BY BlockSyncAssumption DEF Loops
  <2>2. target'[Main] = 0
    BY DEF IndInv, PointerOrder
  <2>3. ~rogue' => \A q \in Workers : pc'[q] # "idle" => Exact(q)'
    BY <2>1 DEF IndInv, PointerOrder, Exact
  <2>4. ~rogue' /\ pc'[Main] \notin {"idle", "read"} /\ pointer' > 0 => start'[Main] > pointer'
    BY <2>1 DEF IndInv, PointerOrder
  <2> QED BY <2>2, <2>3, <2>4 DEF PointerOrder
<1> QED BY <1>1, <1>2, <1>3, <1>4 DEF IndInv

\* One lemma per stage of the loop.

LEMMA ReadPointerKeeps ==
  ASSUME IndInv, TypeOK', Grown, NEW p \in Loops, ReadPointer(p)
  PROVE  IndInv'
<1>1. /\ pc[p] = "read" /\ pc'[p] = "latest" /\ got'[p] = {} /\ todo'[p] = {}
      /\ start'[p] = StartBlock(p)
  BY DEF ReadPointer, IndInv, TypeOK, LoopInv, GotAbove, TodoPlanned, Phases
<1>2. BelowStart(p)'
  <2> SUFFICES ASSUME ~Exact(p)', NEW b \in InitialStart..(start'[p] - 1) PROVE Covered(b)'
    BY DEF BelowStart
  <2>1. ~Exact(p)
    BY DEF ReadPointer, Exact
  <2>2. pointer \in Nat /\ InitialStart \in Nat /\ b \in Nat
    BY BlockSyncAssumption DEF IndInv, TypeOK, Block
  <2>3. start'[p] = IF pointer > 0 THEN pointer + 1 ELSE InitialStartOf(p)
    BY <1>1, <2>1 DEF StartBlock
  <2>4. pointer > 0
    <3>1. InitialStartOf(p) \in {0, InitialStart}
      BY DEF InitialStartOf
    <3> QED BY <2>2, <2>3, <3>1
  <2>5. Covered(b)
    BY <2>2, <2>3, <2>4 DEF IndInv, PrefixCovered
  <2> QED BY <2>5, CoveredKept
<1>3. LoopInv(p)'
  BY <1>1, <1>2 DEF LoopInv, Served, TodoPlanned, GotAbove, Phases
<1>4. p = Main /\ pointer > 0 => start'[Main] > pointer
  <2>1. pointer \in Nat /\ target[Main] = 0
    BY BlockSyncAssumption DEF IndInv, TypeOK, Block, PointerOrder
  <2> QED BY <1>1, <2>1 DEF StartBlock, Exact
<1> QED BY <1>1, <1>3, <1>4, StepOfOneLoop DEF ReadPointer, IndInv, TypeOK, store, history

LEMMA GetLatestKeeps ==
  ASSUME IndInv, TypeOK', Grown, NEW p \in Loops, NEW n \in Nodes, GetLatest(p, n)
  PROVE  IndInv'
<1>1. /\ pc[p] = "latest" /\ pc'[p] = "fetch" /\ got'[p] = {} /\ todo'[p] = {}
      /\ start' = start /\ target' = target
  BY DEF GetLatest, IndInv, TypeOK, LoopInv, GotAbove, TodoPlanned, Phases
<1>2. BelowStart(p)'
  BY <1>1, CoveredKept DEF IndInv, LoopInv, BelowStart, Exact
<1>3. LoopInv(p)'
  BY <1>1, <1>2 DEF LoopInv, Served, TodoPlanned, GotAbove, Phases
<1>4. p = Main /\ ~rogue /\ pointer > 0 => start'[Main] > pointer
  BY <1>1 DEF IndInv, PointerOrder
<1> QED BY <1>1, <1>3, <1>4, StepOfOneLoop DEF GetLatest, IndInv, TypeOK, store, history

LEMMA AnswerRangeKeeps ==
  ASSUME IndInv, TypeOK', Grown, NEW p \in Loops, NEW i \in pend[p], NEW n \in Nodes,
         AnswerRange(p, i, n)
  PROVE  IndInv'
<1> DEFINE new == {b \in From(p, i)..To(p, i) : b <= head[n]}
<1>1. /\ pc[p] = "fetch" /\ pc' = pc /\ todo'[p] = {} /\ got'[p] = got[p] \cup new
      /\ start' = start /\ target' = target
  BY DEF AnswerRange, IndInv, TypeOK, LoopInv, TodoPlanned, Phases
<1>2. \A b \in new : b >= start[p]
  <2>1. TypeOK /\ i \in Nat
    BY DEF IndInv, TypeOK
  <2>2. From(p, i) \in Nat /\ From(p, i) >= start[p] /\ start[p] \in Nat
    BY <2>1, RangeBegins DEF TypeOK
  <2> QED BY <2>2
<1>3. GotAbove(p)'
  BY <1>1, <1>2 DEF IndInv, LoopInv, GotAbove
<1>4. BelowStart(p)'
  BY <1>1, CoveredKept DEF IndInv, LoopInv, BelowStart, Exact
<1>5. LoopInv(p)'
  BY <1>1, <1>3, <1>4 DEF LoopInv, Served, TodoPlanned, Phases
<1>6. p = Main /\ ~rogue /\ pointer > 0 => start'[Main] > pointer
  BY <1>1 DEF IndInv, PointerOrder
<1> QED BY <1>1, <1>5, <1>6, StepOfOneLoop DEF AnswerRange, IndInv, TypeOK, store, history

LEMMA TraceBlocksKeeps ==
  ASSUME IndInv, TypeOK', Grown, NEW p \in Loops, TraceBlocks(p)
  PROVE  IndInv'
<1>1. PICK tr \in SUBSET got[p] :
        /\ traced' = [traced EXCEPT ![p] = tr]
        /\ todo' = [todo EXCEPT ![p] = Planned("blocks", got[p], tr)]
  BY DEF TraceBlocks
<1>2. /\ pc[p] = "fetch" /\ pc'[p] = "blocks" /\ got' = got /\ start' = start
      /\ target' = target /\ traced'[p] = tr
      /\ todo'[p] = Planned("blocks", got[p], tr)
  BY <1>1 DEF TraceBlocks, IndInv, TypeOK
<1>3. Served(p)'
  BY TraceBlocksServes DEF IndInv
<1>4. TodoPlanned(p)'
  BY <1>2 DEF TodoPlanned, Phases
<1>5. GotAbove(p)'
  BY <1>2 DEF IndInv, LoopInv, GotAbove
<1>6. BelowStart(p)'
  BY <1>2, CoveredKept DEF IndInv, LoopInv, BelowStart, Exact
<1>7. LoopInv(p)'
  BY <1>3, <1>4, <1>5, <1>6 DEF LoopInv
<1>8. p = Main /\ ~rogue /\ pointer > 0 => start'[Main] > pointer
  BY <1>2 DEF IndInv, PointerOrder
<1> QED BY <1>1, <1>2, <1>7, <1>8, StepOfOneLoop
        DEF TraceBlocks, IndInv, TypeOK, store, history

LEMMA WriteKeeps ==
  ASSUME IndInv, TypeOK', Grown, NEW p \in Loops, NEW w \in todo[p], Write(p, w)
  PROVE  IndInv'
<1>1. /\ pc[p] \in Phases /\ pc' = pc /\ got' = got /\ start' = start
      /\ target' = target /\ traced' = traced /\ todo'[p] = todo[p] \ {w}
  BY DEF Write, IndInv, TypeOK
<1>2. Served(p)'
  BY WriteServes DEF IndInv, LoopInv
<1>3. TodoPlanned(p)'
  BY <1>1 DEF IndInv, LoopInv, TodoPlanned
<1>4. GotAbove(p)'
  BY <1>1 DEF IndInv, LoopInv, GotAbove
<1>5. BelowStart(p)'
  BY <1>1, CoveredKept DEF IndInv, LoopInv, BelowStart, Exact
<1>6. LoopInv(p)'
  BY <1>2, <1>3, <1>4, <1>5 DEF LoopInv
<1>7. p = Main /\ ~rogue /\ pc'[Main] \notin {"idle", "read"} /\ pointer > 0
        => start'[Main] > pointer
  BY <1>1 DEF IndInv, PointerOrder
<1>8. pc[p] # "idle"
  BY <1>1 DEF Phases
<1> QED BY <1>1, <1>6, <1>7, <1>8, StepOfOneLoop DEF Write, IndInv, TypeOK, history

LEMMA AdvanceKeeps ==
  ASSUME IndInv, TypeOK', Grown, NEW p \in Loops, Advance(p)
  PROVE  IndInv'
<1> DEFINE ph == pc[p]
           nx == NextStage(pc[p])
<1>1. /\ ph \in Phases /\ pc'[p] = nx /\ got' = got /\ start' = start /\ rows' = rows
      /\ target' = target /\ traced' = traced /\ todo[p] = {}
      /\ todo'[p] = IF nx \in Phases THEN Planned(nx, got[p], traced[p]) ELSE {}
  BY DEF Advance, IndInv, TypeOK, store
<1>2. nx \in Phases \cup {"commit"}
  BY <1>1, NextStageType DEF NextStage, Phases
<1>3. Served(p)'
  BY AdvanceServes DEF IndInv, LoopInv
<1>4. TodoPlanned(p)'
  BY <1>1 DEF TodoPlanned
<1>5. GotAbove(p)'
  BY <1>1, <1>2 DEF IndInv, LoopInv, GotAbove, Phases
<1>6. BelowStart(p)'
  <2>1. pc[p] \notin {"idle", "read"}
    BY <1>1 DEF Phases
  <2> QED BY <1>1, <2>1, CoveredKept DEF IndInv, LoopInv, BelowStart, Exact
<1>7. LoopInv(p)'
  BY <1>3, <1>4, <1>5, <1>6 DEF LoopInv
<1>8. pc[p] \notin {"idle", "read"}
  BY <1>1 DEF Phases
<1>9. p = Main /\ ~rogue /\ pointer > 0 => start'[Main] > pointer
  BY <1>1, <1>8 DEF IndInv, PointerOrder
<1> QED BY <1>1, <1>7, <1>8, <1>9, StepOfOneLoop
        DEF Advance, IndInv, TypeOK, store, history

LEMMA FinishExactKeeps ==
  ASSUME IndInv, TypeOK', Grown, NEW p \in Loops, FinishExact(p)
  PROVE  IndInv'
<1>1. /\ pc[p] = "commit" /\ pc'[p] = "idle" /\ p # Main
      /\ \A q \in Loops \ {p} : pc'[q] = pc[q] /\ target'[q] = target[q]
      /\ UNCHANGED <<pointer, late, rogue>>
  BY DEF FinishExact, IndInv, TypeOK, Exact, PointerOrder, store, history
<1>2. \A q \in Loops : LoopInv(q)'
  BY <1>1, Forgotten, LoopKept, LoopAtRest DEF FinishExact, IndInv
<1>3. \A w \in late' : HasParent(w)'
  BY <1>1, ParentKept DEF IndInv, TypeOK
<1>4. PrefixCovered' /\ PointerStored'
  BY <1>1, PrefixKept DEF IndInv
<1>5. PointerOrder'
  <2>1. Main \in Loops /\ Workers \subseteq Loops
    BY DEF Loops
  <2>2. start'[Main] = start[Main]
    BY <1>1, <2>1, Forgotten DEF FinishExact, IndInv
  <2> QED BY <1>1, <2>1, <2>2 DEF IndInv, PointerOrder, Exact
<1> QED BY <1>2, <1>3, <1>4, <1>5 DEF IndInv

\* After a batch the tables owe nothing to the blocks it covered: the ones it
\* was answered are stored, the others are counted as skipped.
LEMMA BatchCovered ==
  ASSUME IndInv, Grown, NEW p \in Loops, Commit(p)
  PROVE  \A b \in InitialStart..LastFetched(p) : Covered(b)'
<1>1. /\ pc[p] = "commit" /\ ~Exact(p) /\ todo[p] = {} /\ rows' = rows
      /\ skipped' = skipped \cup ((start[p]..LastFetched(p)) \ got[p])
      /\ untraced' = untraced \cup (got[p] \ traced[p])
  BY DEF Commit, IndInv, LoopInv, TodoPlanned, Phases
<1> SUFFICES ASSUME NEW b \in InitialStart..LastFetched(p) PROVE Covered(b)'
  OBVIOUS
<1>2. b \in Nat /\ start[p] \in Nat /\ LastFetched(p) \in Nat
  BY LastFetchedIsGreatest, BlockSyncAssumption DEF IndInv, TypeOK, Block
<1>3. CASE b < start[p]
  <2>1. b \in InitialStart..(start[p] - 1)
    BY <1>2, <1>3, BlockSyncAssumption
  <2>2. Covered(b)
    BY <1>1, <2>1 DEF IndInv, LoopInv, BelowStart
  <2> QED BY <2>2, CoveredKept
<1>4. CASE b >= start[p] /\ b \notin got[p]
  <2>1. b \in skipped'
    BY <1>1, <1>2, <1>4
  <2> QED BY <2>1 DEF Covered
<1>5. CASE b \in got[p]
  <2>1. \A t \in Tables : b \in Content[t] /\ (t \in TraceTables => b \in traced[p])
          => b \in rows[t]
    BY <1>1, <1>5 DEF IndInv, LoopInv, Served, Ahead
  <2> QED BY <1>1, <1>5, <2>1 DEF Covered
<1> QED BY <1>2, <1>3, <1>4, <1>5

\* Without a rogue worker only the service's own loop commits, and it commits
\* above the pointer.
LEMMA CommitMovesUp ==
  ASSUME TypeOK, PointerOrder, NEW p \in Loops, GotAbove(p), Commit(p), ~rogue
  PROVE  p = Main /\ pointer' >= pointer
<1>1. p = Main
  BY DEF Commit, PointerOrder, Loops
<1>2. pointer > 0 => start[p] > pointer
  BY <1>1 DEF Commit, PointerOrder
<1>3. /\ LastFetched(p) \in Nat /\ pointer \in Nat /\ start[p] \in Nat
      /\ LastFetched(p) > 0 => LastFetched(p) >= start[p]
  BY LastFetchedIsGreatest, BlockSyncAssumption
     DEF TypeOK, GotAbove, Block
<1> QED BY <1>1, <1>2, <1>3 DEF Commit

LEMMA CommitKeeps ==
  ASSUME IndInv, TypeOK', Grown, NEW p \in Loops, Commit(p)
  PROVE  IndInv'
<1> DEFINE L == LastFetched(p)
<1>1. /\ pc'[p] = "read" /\ \A q \in Loops \ {p} : pc'[q] = pc[q]
      /\ UNCHANGED <<target, late, rogue, rows>>
      /\ pointer' = IF L > 0 THEN L ELSE pointer
  BY DEF Commit, IndInv, TypeOK
<1>2. \A q \in Loops : LoopInv(q)'
  BY <1>1, Forgotten, LoopKept, LoopAtRest DEF Commit, IndInv
<1>3. \A w \in late' : HasParent(w)'
  BY <1>1, ParentKept DEF IndInv, TypeOK
<1>4. L \in Nat /\ (L > 0 => L \in got[p])
  BY LastFetchedIsGreatest, BlockSyncAssumption DEF IndInv, Block
<1>5. PrefixCovered' /\ PointerStored'
  <2>1. CASE L > 0
    <3>1. PrefixCovered'
      BY <1>1, <2>1, BatchCovered DEF PrefixCovered
    <3>2. /\ pc[p] = "commit" /\ todo[p] = {} /\ got[p] \ traced[p] \subseteq untraced'
      BY DEF Commit, IndInv, LoopInv, TodoPlanned, Phases
    <3>3. \A t \in Tables : L \in Content[t] =>
             L \in rows[t] \/ (t \in TraceTables /\ L \in untraced')
      BY <1>4, <2>1, <3>2 DEF IndInv, LoopInv, Served, Ahead
    <3>4. PointerStored'
      BY <1>1, <2>1, <3>3 DEF PointerStored
    <3> QED BY <3>1, <3>4
  <2>2. CASE ~(L > 0)
    BY <1>1, <2>2, PrefixKept DEF IndInv
  <2> QED BY <2>1, <2>2
<1>6. PointerOrder'
  <2>1. Main \in Loops /\ Workers \subseteq Loops /\ Main \notin Workers
    BY BlockSyncAssumption DEF Loops
  <2>2. CASE rogue
    BY <1>1, <2>1, <2>2 DEF IndInv, PointerOrder
  <2>3. CASE ~rogue
    <3>1. p = Main
      BY <2>3, CommitMovesUp DEF IndInv, LoopInv
    <3> QED BY <1>1, <2>1, <3>1 DEF IndInv, PointerOrder, Exact
  <2> QED BY <2>2, <2>3
<1> QED BY <1>2, <1>3, <1>5, <1>6 DEF IndInv

LEMMA FailKeeps ==
  ASSUME IndInv, TypeOK', Grown, NEW p \in Loops, NEW b \in Block, Fail(p, b)
  PROVE  IndInv'
<1>1. /\ pc[p] # "idle" /\ pc'[p] = "read" /\ \A q \in Loops \ {p} : pc'[q] = pc[q]
      /\ UNCHANGED <<target, pointer, rogue, rows>>
      /\ late' \subseteq late \cup todo[p]
  BY DEF Fail, Abandoned, IndInv, TypeOK, history
<1>2. \A q \in Loops : LoopInv(q)'
  BY <1>1, Forgotten, LoopKept, LoopAtRest DEF Fail, IndInv
<1>3. \A w \in late' : HasParent(w)'
  <2>1. \A w \in todo[p] : w \in Writes /\ HasParent(w)
    BY TodoParents DEF IndInv, LoopInv, TypeOK
  <2>2. \A w \in late : w \in Writes /\ HasParent(w)
    BY DEF IndInv, TypeOK
  <2> QED BY <1>1, <2>1, <2>2, ParentKept
<1>4. PrefixCovered' /\ PointerStored'
  BY <1>1, PrefixKept DEF IndInv
<1>5. PointerOrder'
  <2>1. Main \in Loops /\ Workers \subseteq Loops /\ Main \notin Workers
    BY BlockSyncAssumption DEF Loops
  <2>2. Main # p => start'[Main] = start[Main]
    BY <2>1, Forgotten DEF Fail, IndInv
  <2> QED BY <1>1, <2>1, <2>2 DEF IndInv, PointerOrder, Exact
<1> QED BY <1>2, <1>3, <1>4, <1>5 DEF IndInv

LEMMA LandLateKeeps ==
  ASSUME IndInv, TypeOK', Grown, NEW w \in late, LandLate(w)
  PROVE  IndInv'
<1>1. /\ UNCHANGED <<pc, target, start, got, traced, todo, pointer, rogue>>
      /\ late' \subseteq late
  BY DEF LandLate, loopVars, batchVars, history
<1>2. \A q \in Loops : LoopInv(q)'
  BY <1>1, LoopKept DEF IndInv
<1>3. \A v \in late' : HasParent(v)'
  BY <1>1, ParentKept DEF IndInv, TypeOK
<1>4. PrefixCovered' /\ PointerStored'
  BY <1>1, PrefixKept DEF IndInv
<1>5. PointerOrder'
  BY <1>1 DEF IndInv, PointerOrder, Exact
<1> QED BY <1>2, <1>3, <1>4, <1>5 DEF IndInv

LEMMA CrashKeeps ==
  ASSUME IndInv, TypeOK', Grown, Crash
  PROVE  IndInv'
<1>1. /\ pc' = [q \in Loops |-> IF q = Main THEN "read" ELSE "idle"]
      /\ late' = {} /\ pointer' = pointer
      /\ \A q \in Loops : got'[q] = {} /\ todo'[q] = {} /\ target'[q] = 0
  BY DEF Crash
<1>2. \A q \in Loops : LoopInv(q)'
  BY <1>1, LoopAtRest
<1>3. PrefixCovered' /\ PointerStored'
  BY <1>1, PrefixKept DEF IndInv
<1>4. PointerOrder'
  BY <1>1, BlockSyncAssumption DEF PointerOrder, Loops
<1> QED BY <1>1, <1>2, <1>3, <1>4 DEF IndInv

LEMMA StartWorkerKeeps ==
  ASSUME IndInv, TypeOK', Grown, NEW p \in Workers, NEW b \in Block, StartWorker(p, b)
  PROVE  IndInv'
<1>1. p \in Loops /\ p # Main /\ Main \in Loops /\ Workers \subseteq Loops
  BY BlockSyncAssumption DEF Loops
<1>2. /\ pc[p] = "idle" /\ pc'[p] = "read" /\ target'[p] = b
      /\ \A q \in Loops \ {p} : pc'[q] = pc[q] /\ target'[q] = target[q]
      /\ UNCHANGED <<start, got, traced, todo, pointer, late>>
      /\ rogue' = (rogue \/ b = 0)
  BY <1>1 DEF StartWorker, IndInv, TypeOK, store, batchVars
<1>3. got'[p] = {} /\ todo'[p] = {}
  BY <1>1, <1>2 DEF IndInv, LoopInv, GotAbove, TodoPlanned, Phases
<1>4. \A q \in Loops : LoopInv(q)'
  BY <1>1, <1>2, <1>3, LoopKept, LoopAtRest DEF IndInv
<1>5. \A w \in late' : HasParent(w)'
  BY <1>2, ParentKept DEF IndInv, TypeOK
<1>6. PrefixCovered' /\ PointerStored'
  BY <1>2, PrefixKept DEF IndInv
<1>7. PointerOrder'
  BY <1>1, <1>2 DEF IndInv, PointerOrder, Exact
<1> QED BY <1>4, <1>5, <1>6, <1>7 DEF IndInv

LEMMA ChainGrowthKeeps ==
  ASSUME IndInv, TypeOK', Grown,
         UNCHANGED <<pc, target, start, got, traced, todo, pointer, late, rogue>>
  PROVE  IndInv'
<1>1. \A q \in Loops : LoopInv(q)'
  BY LoopKept DEF IndInv
<1>2. \A w \in late' : HasParent(w)'
  BY ParentKept DEF IndInv, TypeOK
<1>3. PrefixCovered' /\ PointerStored'
  BY PrefixKept DEF IndInv
<1>4. PointerOrder'
  BY DEF IndInv, PointerOrder, Exact
<1> QED BY <1>1, <1>2, <1>3, <1>4 DEF IndInv

LEMMA IndInvPreserved == IndInv /\ [Next]_vars => IndInv'
<1> SUFFICES ASSUME IndInv, [Next]_vars PROVE IndInv'
  OBVIOUS
<1>1. TypeOK'
  BY TypesPreserved DEF IndInv
<1>2. CASE UNCHANGED vars
  <2>1. /\ Grown
        /\ UNCHANGED <<pc, target, start, got, traced, todo, pointer, late, rogue>>
    BY <1>2 DEF vars, store, loopVars, batchVars, history, Grown
  <2> QED BY <1>1, <2>1, ChainGrowthKeeps
<1>3. CASE Next
  <2>1. Grown
    BY <1>3, StepsGrow DEF IndInv
  <2>2. ASSUME NEW p \in Loops, LoopStep(p) PROVE IndInv'
    BY <1>1, <2>1, <2>2, ReadPointerKeeps, GetLatestKeeps, AnswerRangeKeeps,
       TraceBlocksKeeps, WriteKeeps, AdvanceKeeps, FinishExactKeeps, CommitKeeps
       DEF LoopStep
  <2>3. ASSUME NEW p \in Loops, NEW b \in Block, Fail(p, b) PROVE IndInv'
    BY <1>1, <2>1, <2>3, FailKeeps
  <2>4. ASSUME NEW w \in late, LandLate(w) PROVE IndInv'
    BY <1>1, <2>1, <2>4, LandLateKeeps
  <2>5. CASE Crash
    BY <1>1, <2>1, <2>5, CrashKeeps
  <2>6. ASSUME NEW p \in Workers, NEW b \in Block, StartWorker(p, b) PROVE IndInv'
    BY <1>1, <2>1, <2>6, StartWorkerKeeps
  <2>7. ASSUME NEW n \in Nodes, Grow(n) PROVE IndInv'
    <3>1. UNCHANGED <<pc, target, start, got, traced, todo, pointer, late, rogue>>
      BY <2>7 DEF Grow, store, loopVars, batchVars, history
    <3> QED BY <1>1, <2>1, <3>1, ChainGrowthKeeps
  <2> QED BY <1>3, <2>2, <2>3, <2>4, <2>5, <2>6, <2>7
      DEF Next, Running, LoopsRun, Reindex, FixMissing
<1> QED BY <1>2, <1>3

-----------------------------------------------------------------------------
(* One node: nothing is missed *)

\* The chain does not shrink.
LEMMA HeadsGrow ==
  ASSUME TypeOK, Next, NEW n \in Nodes
  PROVE  head'[n] \in Nat /\ head[n] \in Nat /\ head[n] <= head'[n]
<1>1. head \in [Nodes -> Nat]
  BY BlockSyncAssumption DEF TypeOK, Block
<1>2. CASE \E m \in Nodes : Grow(m)
  BY <1>1, <1>2 DEF Grow
<1>3. CASE ~(\E m \in Nodes : Grow(m))
  <2>1. head' = head
    BY <1>3 DEF Next, Running, LoopsRun, LoopStep, ReadPointer, GetLatest, AnswerRange,
                TraceBlocks, Write, Advance, FinishExact, Commit, Fail, LandLate, Crash,
                Reindex, FixMissing, StartWorker
  <2> QED BY <1>1, <2>1
<1> QED BY <1>2, <1>3

\* The range a block lies in: the first one that ends above it.
LEMMA RangeOf ==
  ASSUME TypeOK, NEW p \in Loops, NEW b \in Nat, b >= start[p], Within(p, b)
  PROVE  \E i \in 0..(batch[p] - 1) : From(p, i) <= b /\ b < From(p, i) + BlockRange
<1>1. BlockRange \in Nat \ {0} /\ start[p] \in Nat /\ batch[p] \in Nat
  BY BlockSyncAssumption DEF TypeOK, CountsFrom
<1>2. PICK j \in 0..(batch[p] - 1) : b < From(p, j) + BlockRange
  BY DEF Within
<1> DEFINE S == {i \in Nat : b < From(p, i) + BlockRange}
<1>3. PICK m \in S : \A i \in S : m <= i
  <2>1. j \in S /\ S \subseteq Nat
    BY <1>1, <1>2
  <2> HIDE DEF S
  <2> QED BY <2>1, NatSubsetMin
<1>4. m \in 0..(batch[p] - 1) /\ b < From(p, m) + BlockRange
  BY <1>1, <1>2, <1>3
<1>5. From(p, m) <= b
  <2>1. CASE m = 0
    BY <1>1, <2>1 DEF From
  <2>2. CASE m # 0
    <3>1. m - 1 \in Nat /\ m - 1 \notin S
      BY <1>3, <1>4, <2>2
    <3>2. From(p, m - 1) \in Nat
      BY <3>1, RangeBegins
    <3>3. From(p, m) = From(p, m - 1) + BlockRange
      <4>1. m * BlockRange = (m - 1) * BlockRange + BlockRange
        BY <1>1, <1>4
      <4>2. (m - 1) * BlockRange \in Nat
        BY <1>1, <3>1
      <4> QED BY <1>1, <4>1, <4>2 DEF From
    <3> QED BY <1>1, <3>1, <3>2, <3>3
  <2> QED BY <2>1, <2>2
<1> QED BY <1>4, <1>5

\* A loop whose locals a step leaves alone.
LEMMA OneNodeLoopKept ==
  ASSUME TypeOK, NEW n, NEW q \in Loops, OneNodeLoop(q, n),
         head[n] \in Nat, head'[n] \in Nat, head[n] <= head'[n],
         pc'[q] = pc[q], target'[q] = target[q], batch'[q] = batch[q], start'[q] = start[q],
         latest'[q] = latest[q], pend'[q] = pend[q], got'[q] = got[q], traced'[q] = traced[q]
  PROVE  OneNodeLoop(q, n)'
<1>1. latest[q] \in Nat
  BY BlockSyncAssumption DEF TypeOK, Block
<1>2. pc'[q] \in Known => latest'[q] <= head'[n]
  BY <1>1 DEF OneNodeLoop
<1> QED BY <1>2 DEF OneNodeLoop, Within, From, To, Exact

\* A loop between two batches has no answers.
LEMMA OneNodeLoopAtRest ==
  ASSUME NEW n, NEW q \in Loops, pc'[q] \notin Known, got'[q] = {}, pend'[q] = {}
  PROVE  OneNodeLoop(q, n)'
BY DEF OneNodeLoop, Known

\* What a step of loop p does to the others.
LEMMA OneNodeStep ==
  ASSUME TypeOK, Next, NEW n \in Nodes, OneNodeInv(n), NEW p \in Loops, OneNodeLoop(p, n)',
         \A q \in Loops \ {p} :
            /\ pc'[q] = pc[q] /\ target'[q] = target[q] /\ batch'[q] = batch[q]
            /\ start'[q] = start[q] /\ latest'[q] = latest[q] /\ pend'[q] = pend[q]
            /\ got'[q] = got[q] /\ traced'[q] = traced[q]
  PROVE  \A q \in Loops : OneNodeLoop(q, n)'
<1>1. head[n] \in Nat /\ head'[n] \in Nat /\ head[n] <= head'[n]
  BY HeadsGrow
<1>2. ASSUME NEW q \in Loops, q # p PROVE OneNodeLoop(q, n)'
  BY <1>1, <1>2, OneNodeLoopKept DEF OneNodeInv
<1> QED BY <1>2

LEMMA GetLatestKnows ==
  ASSUME TypeOK, NEW n, Nodes = {n}, NEW p \in Loops, GetLatest(p, n), OneNodeLoop(p, n), got[p] = {},
         TypeOK'
  PROVE  OneNodeLoop(p, n)'
<1>1. /\ pc'[p] = "fetch" /\ got'[p] = {} /\ latest'[p] = head[n] /\ head' = head
      /\ start' = start /\ target' = target /\ batch' = batch
      /\ pend'[p] = {i \in 0..(batch[p] - 1) : From(p, i) <= head[n]}
  BY DEF GetLatest, TypeOK
<1>2. head[n] \in Nat
  BY BlockSyncAssumption DEF TypeOK, Block
<1>3. ASSUME ~Exact(p), NEW b \in start[p]..head[n], Within(p, b)
      PROVE  \E i \in pend'[p] : b \in From(p, i)..Lesser(From(p, i) + BlockRange - 1, head[n])
  <2>1. b \in Nat /\ b >= start[p] /\ b <= head[n]
    BY <1>2 DEF TypeOK
  <2>2. PICK i \in 0..(batch[p] - 1) : From(p, i) <= b /\ b < From(p, i) + BlockRange
    BY <1>3, <2>1, RangeOf
  <2>3. From(p, i) \in Nat /\ BlockRange \in Nat
    BY RangeBegins, BlockSyncAssumption
  <2> QED BY <1>1, <1>2, <2>1, <2>2, <2>3 DEF Lesser
<1>4. ASSUME ~Exact(p)', NEW b \in start'[p]..latest'[p], Within(p, b)'
      PROVE  \E i \in pend'[p] : b \in From(p, i)'..To(p, i)'
  <2>1. PICK i \in pend'[p] : b \in From(p, i)..Lesser(From(p, i) + BlockRange - 1, head[n])
    BY <1>1, <1>3, <1>4 DEF Exact, Within, From
  <2> QED BY <1>1, <1>4, <2>1 DEF From, To, Exact
<1> QED BY <1>1, <1>2, <1>4 DEF OneNodeLoop

LEMMA AnswerRangeKnows ==
  ASSUME TypeOK, NEW n, Nodes = {n}, NEW p \in Loops, NEW i \in pend[p], AnswerRange(p, i, n),
         OneNodeLoop(p, n)
  PROVE  OneNodeLoop(p, n)'
<1> DEFINE new == {b \in From(p, i)..To(p, i) : b <= head[n]}
<1>1. /\ pc[p] = "fetch" /\ got'[p] = got[p] \cup new /\ pend'[p] = pend[p] \ {i}
      /\ UNCHANGED <<head, pc, target, batch, start, latest>>
  BY DEF AnswerRange, TypeOK
<1>2. /\ i \in 0..(batch[p] - 1) /\ latest[p] <= head[n] /\ latest[p] \in Nat /\ head[n] \in Nat
      /\ BlockRange \in Nat \ {0} /\ target[p] \in Nat
  BY <1>1, BlockSyncAssumption DEF OneNodeLoop, Known, TypeOK, Block
<1>3. From(p, i) \in Nat
  BY <1>2, RangeBegins
<1>4. \A b \in From(p, i)..To(p, i) : b <= latest[p] /\ b < From(p, i) + BlockRange
  BY <1>2, <1>3 DEF To, Lesser
<1>5. new = From(p, i)..To(p, i)
  <2>1. \A b \in From(p, i)..To(p, i) : b \in Int /\ b <= head[n]
    BY <1>2, <1>3, <1>4
  <2> QED BY <2>1
<1>6. \A b \in got'[p] : b <= latest[p] /\ Within(p, b)
  BY <1>1, <1>2, <1>4 DEF OneNodeLoop, Within
<1>7. ASSUME ~Exact(p), NEW b \in start[p]..latest[p], Within(p, b)
      PROVE  b \in got'[p] \/ \E j \in pend'[p] : b \in From(p, j)..To(p, j)
  <2>1. b \in got[p] \/ \E j \in pend[p] : b \in From(p, j)..To(p, j)
    BY <1>1, <1>7 DEF OneNodeLoop, Known
  <2> QED BY <1>1, <1>5, <2>1
<1>8. pend'[p] \subseteq 0..(batch[p] - 1)
  BY <1>1 DEF OneNodeLoop
<1> QED
  BY <1>1, <1>2, <1>6, <1>7, <1>8 DEF OneNodeLoop, Within, From, To, Exact, Known, Phases

LEMMA TraceBlocksKnows ==
  ASSUME TypeOK, NEW n, Nodes = {n}, NEW p \in Loops, TraceBlocks(p), OneNodeLoop(p, n)
  PROVE  OneNodeLoop(p, n)'
<1>1. /\ pc[p] = "fetch" /\ pend[p] = {} /\ pc'[p] = "blocks"
      /\ UNCHANGED <<head, target, batch, start, latest, pend, got>>
  BY DEF TraceBlocks, TypeOK
<1>2. latest[p] <= head[n] /\ latest[p] \in Nat /\ head[n] \in Nat /\ got[p] \subseteq Nat
  BY <1>1, BlockSyncAssumption DEF OneNodeLoop, Known, TypeOK, Block
<1>3. \A b \in got[p] : b <= head[n]
  BY <1>2 DEF OneNodeLoop
<1>4. PICK tr \in SUBSET got[p] :
         /\ IF TraceEnabled
            THEN {b \in got[p] : \A m \in Nodes : b <= head[m]} \subseteq tr
            ELSE tr = {}
         /\ traced' = [traced EXCEPT ![p] = tr]
  BY DEF TraceBlocks
<1>5. traced'[p] = IF TraceEnabled THEN got[p] ELSE {}
  <2>1. traced'[p] = tr
    BY <1>4 DEF TypeOK
  <2>2. {b \in got[p] : \A m \in Nodes : b <= head[m]} = got[p]
    BY <1>3
  <2> QED BY <1>4, <2>1, <2>2
<1> QED
  BY <1>1, <1>2, <1>5 DEF OneNodeLoop, Within, From, To, Exact, Known, Phases

\* The stages of the insertions, and the beginning of a batch, leave the answers alone.
LEMMA StageKnows ==
  ASSUME TypeOK, NEW n, NEW p \in Loops, OneNodeLoop(p, n),
         UNCHANGED <<head, target, batch, start, latest, pend, got, traced>>,
         pc[p] \in Phases, pc'[p] \in Phases \cup {"commit"}
  PROVE  OneNodeLoop(p, n)'
BY DEF OneNodeLoop, Within, From, To, Exact, Known, Phases

\* Every loop, whatever the step.
LEMMA OneNodeLoopsKeep ==
  ASSUME IndInv, TypeOK', Next, NEW n, Nodes = {n}, OneNodeInv(n)
  PROVE  \A q \in Loops : OneNodeLoop(q, n)'
<1>1. TypeOK /\ n \in Nodes /\ \A q \in Loops : OneNodeLoop(q, n) /\ LoopInv(q)
  BY DEF OneNodeInv, IndInv
<1>2. head[n] \in Nat /\ head'[n] \in Nat /\ head[n] <= head'[n]
  BY <1>1, HeadsGrow
<1>3. \A q \in Loops : /\ pc[q] # "fetch" => pend[q] = {}
                       /\ pc[q] \in {"idle", "read", "latest"} => got[q] = {}
  BY <1>1 DEF OneNodeLoop, LoopInv, GotAbove
<1>4. ASSUME NEW p \in Loops, LoopStep(p) PROVE \A q \in Loops : OneNodeLoop(q, n)'
  <2>1. CASE ReadPointer(p)
    <3>1. pc'[p] = "latest" /\ got'[p] = {} /\ pend'[p] = {}
      BY <1>1, <1>3, <2>1 DEF ReadPointer, TypeOK
    <3>2. OneNodeLoop(p, n)'
      BY <3>1, OneNodeLoopAtRest DEF Known, Phases
    <3> QED BY <1>1, <2>1, <3>2, OneNodeStep DEF ReadPointer, TypeOK
  <2>2. ASSUME GetLatest(p, n) PROVE \A q \in Loops : OneNodeLoop(q, n)'
    <3>1. OneNodeLoop(p, n)'
      BY <1>1, <1>3, <2>2, GetLatestKnows DEF GetLatest
    <3> QED BY <1>1, <2>2, <3>1, OneNodeStep DEF GetLatest, TypeOK
  <2>3. ASSUME NEW i \in pend[p], AnswerRange(p, i, n)
        PROVE  \A q \in Loops : OneNodeLoop(q, n)'
    <3>1. OneNodeLoop(p, n)'
      BY <1>1, <2>3, AnswerRangeKnows
    <3> QED BY <1>1, <2>3, <3>1, OneNodeStep DEF AnswerRange, TypeOK
  <2>4. CASE TraceBlocks(p)
    <3>1. OneNodeLoop(p, n)'
      BY <1>1, <2>4, TraceBlocksKnows
    <3> QED BY <1>1, <2>4, <3>1, OneNodeStep DEF TraceBlocks, TypeOK
  <2>5. ASSUME NEW w \in todo[p], Write(p, w) PROVE \A q \in Loops : OneNodeLoop(q, n)'
    <3>1. OneNodeLoop(p, n)'
      BY <1>1, <2>5, StageKnows DEF Write
    <3> QED BY <1>1, <2>5, <3>1, OneNodeStep DEF Write, TypeOK
  <2>6. CASE Advance(p)
    <3>1. pc[p] \in Phases /\ pc'[p] \in Phases \cup {"commit"}
      BY <1>1, <2>6 DEF Advance, TypeOK, NextStage, Phases
    <3>2. OneNodeLoop(p, n)'
      BY <1>1, <2>6, <3>1, StageKnows DEF Advance
    <3> QED BY <1>1, <2>6, <3>2, OneNodeStep DEF Advance, TypeOK
  <2>7. CASE FinishExact(p) \/ Commit(p)
    <3>1. /\ pc'[p] \in {"idle", "read"} /\ got'[p] = {} /\ pend'[p] = {}
          /\ \A q \in Loops \ {p} :
                /\ pc'[q] = pc[q] /\ target'[q] = target[q] /\ batch'[q] = batch[q]
                /\ start'[q] = start[q] /\ latest'[q] = latest[q] /\ pend'[q] = pend[q]
                /\ got'[q] = got[q] /\ traced'[q] = traced[q]
      BY <1>1, <2>7 DEF FinishExact, Commit, Forget, TypeOK
    <3>2. OneNodeLoop(p, n)'
      BY <3>1, OneNodeLoopAtRest DEF Known, Phases
    <3> QED BY <1>1, <3>1, <3>2, OneNodeStep
  <2> QED BY <1>4, <2>1, <2>2, <2>3, <2>4, <2>5, <2>6, <2>7 DEF LoopStep
<1>5. ASSUME NEW p \in Loops, NEW b \in Block, Fail(p, b)
      PROVE  \A q \in Loops : OneNodeLoop(q, n)'
  <2>1. /\ pc'[p] = "read" /\ got'[p] = {} /\ pend'[p] = {}
        /\ \A q \in Loops \ {p} :
              /\ pc'[q] = pc[q] /\ target'[q] = target[q] /\ batch'[q] = batch[q]
              /\ start'[q] = start[q] /\ latest'[q] = latest[q] /\ pend'[q] = pend[q]
              /\ got'[q] = got[q] /\ traced'[q] = traced[q]
    BY <1>1, <1>5 DEF Fail, Forget, TypeOK
  <2>2. OneNodeLoop(p, n)'
    BY <2>1, OneNodeLoopAtRest DEF Known, Phases
  <2> QED BY <1>1, <2>1, <2>2, OneNodeStep
<1>6. CASE Crash
  <2>1. \A q \in Loops : pc'[q] \in {"read", "idle"} /\ got'[q] = {} /\ pend'[q] = {}
    BY <1>6 DEF Crash
  <2> QED BY <2>1, OneNodeLoopAtRest DEF Known, Phases
<1>7. ASSUME NEW p \in Workers, NEW b \in Block, StartWorker(p, b)
      PROVE  \A q \in Loops : OneNodeLoop(q, n)'
  <2>1. p \in Loops
    BY DEF Loops
  <2>2. pc'[p] = "read" /\ got'[p] = {} /\ pend'[p] = {}
    BY <1>1, <1>3, <1>7, <2>1 DEF StartWorker, TypeOK, batchVars
  <2>3. OneNodeLoop(p, n)'
    BY <2>1, <2>2, OneNodeLoopAtRest DEF Known, Phases
  <2> QED BY <1>1, <1>7, <2>1, <2>3, OneNodeStep DEF StartWorker, TypeOK, batchVars
<1>8. ASSUME UNCHANGED loopVars PROVE \A q \in Loops : OneNodeLoop(q, n)'
  BY <1>1, <1>2, <1>8, OneNodeLoopKept DEF loopVars, batchVars
<1>9. (\E w \in late : LandLate(w)) \/ (\E m \in Nodes : Grow(m)) => UNCHANGED loopVars
  BY DEF LandLate, Grow
<1> QED BY <1>4, <1>5, <1>6, <1>7, <1>8, <1>9
    DEF Next, Running, LoopsRun, Reindex, FixMissing

\* The pointer passes no block without its answer, and none without its trace.
LEMMA OneNodePassesNothing ==
  ASSUME IndInv, NEW n, Nodes = {n}, OneNodeInv(n), NEW p \in Loops, Commit(p)
  PROVE  (start[p]..LastFetched(p)) \ got[p] = {} /\ (TraceEnabled => got[p] \ traced[p] = {})
<1> DEFINE L == LastFetched(p)
<1>1. /\ pc[p] = "commit" /\ ~Exact(p) /\ OneNodeLoop(p, n)
      /\ start[p] \in Nat /\ latest[p] \in Nat /\ batch[p] \in Nat \ {0}
      /\ BlockRange \in Nat \ {0}
  BY BlockSyncAssumption DEF Commit, OneNodeInv, IndInv, TypeOK, Block, CountsFrom
<1>2. /\ L \in Nat
      /\ L > 0 => L \in got[p]
  BY LastFetchedIsGreatest, BlockSyncAssumption DEF IndInv, Block
<1>3. L <= latest[p]
  BY <1>1, <1>2 DEF OneNodeLoop
<1>4. ASSUME NEW b \in start[p]..L PROVE Within(p, b)
  <2>1. CASE L > 0
    <3>1. PICK i \in 0..(batch[p] - 1) : L < From(p, i) + BlockRange
      BY <1>1, <1>2, <2>1 DEF OneNodeLoop, Within
    <3>2. From(p, i) \in Nat
      BY <1>1, RangeBegins DEF IndInv
    <3>3. b < From(p, i) + BlockRange
      BY <1>1, <1>2, <1>4, <3>1, <3>2
    <3> QED BY <3>3 DEF Within
  <2>2. CASE L = 0
    <3>1. b = 0 /\ start[p] = 0 /\ 0 \in 0..(batch[p] - 1)
      BY <1>1, <1>4, <2>2
    <3>2. From(p, 0) = 0
      BY <1>1, <3>1 DEF From
    <3> QED BY <1>1, <3>1, <3>2 DEF Within
  <2> QED BY <1>2, <2>1, <2>2
<1>5. ASSUME NEW b \in start[p]..L PROVE b \in got[p]
  <2>1. b \in start[p]..latest[p]
    BY <1>1, <1>2, <1>3, <1>5
  <2> QED BY <1>1, <1>4, <1>5, <2>1 DEF OneNodeLoop, Known
<1>6. TraceEnabled => traced[p] = got[p]
  BY <1>1 DEF OneNodeLoop, Known
<1> QED BY <1>5, <1>6

\* What a loop has planned: transactions with their trace, and internal transactions
\* of a trace only.
LEMMA OneNodePlans ==
  ASSUME IndInv, NEW n, OneNodeInv(n), NEW p \in Loops, NEW w \in todo[p]
  PROVE  /\ w[1] = "transactions" => pc[p] = "transactions"
         /\ TraceEnabled => w[2] \in traced[p]
         /\ w[1] = "internal" => TraceEnabled
<1>1. TodoPlanned(p) /\ OneNodeLoop(p, n)
  BY DEF IndInv, LoopInv, OneNodeInv
<1>2. pc[p] \in Phases /\ w \in Planned(pc[p], got[p], traced[p])
  BY <1>1 DEF TodoPlanned
<1>3. /\ w[1] \in TablesOf(pc[p]) /\ w[2] \in got[p]
      /\ w[1] \in TraceTables => w[2] \in traced[p]
  BY <1>2 DEF Planned
<1>4. traced[p] = IF TraceEnabled THEN got[p] ELSE {}
  BY <1>1, <1>2 DEF OneNodeLoop, Known, Phases
<1>5. w[1] = "transactions" => pc[p] = "transactions"
  BY <1>2, <1>3 DEF TablesOf, TraceTables, Phases
<1> QED BY <1>3, <1>4, <1>5 DEF TraceTables

LEMMA MarksStayKept ==
  ASSUME IndInv, Next, NEW n, OneNodeInv(n)
  PROVE  MarksKept'
<1>1. MarksKept /\ TypeOK
  BY DEF OneNodeInv, IndInv
<1>2. ASSUME NEW p \in Loops, NEW w \in todo[p], Write(p, w) PROVE MarksKept'
  <2>1. /\ late' = late /\ w \in Writes
        /\ rows' = [rows EXCEPT ![w[1]] = @ \cup {w[2]}]
        /\ marked' = IF /\ w[1] = "transactions" /\ w[2] \notin rows["transactions"]
                        /\ w[2] \in traced[p]
                     THEN marked \cup {w[2]} ELSE marked
    BY <1>1, <1>2 DEF Write, TypeOK
  <2>2. /\ rows'["transactions"] \subseteq
              IF w[1] = "transactions" THEN rows["transactions"] \cup {w[2]}
                                       ELSE rows["transactions"]
        /\ w[1] # "internal" => rows'["internal"] = rows["internal"]
    BY <1>1, <2>1 DEF TypeOK, Tables, TraceTables, Writes
  <2> QED BY <1>1, <2>1, <2>2, OneNodePlans DEF MarksKept
<1>3. ASSUME NEW p \in Loops, NEW b \in Block, Fail(p, b) PROVE MarksKept'
  <2>1. UNCHANGED <<rows, marked>> /\ late' = late \cup Abandoned(p, b)
    BY <1>3 DEF Fail
  <2>2. ASSUME NEW w \in Abandoned(p, b)
        PROVE  w[1] # "transactions" /\ (~TraceEnabled => w[1] # "internal")
    <3>1. w \in todo[p] /\ pc[p] # "transactions"
      BY <2>2 DEF Abandoned
    <3> QED BY <3>1, OneNodePlans
  <2> QED BY <1>1, <2>1, <2>2 DEF MarksKept
<1>4. ASSUME NEW w \in late, LandLate(w) PROVE MarksKept'
  <2>1. /\ marked' = marked /\ late' \subseteq late /\ w \in Writes
        /\ rows' = [rows EXCEPT ![w[1]] = @ \cup {w[2]}]
    BY <1>1, <1>4 DEF LandLate, TypeOK
  <2>2. /\ w[1] # "transactions" => rows'["transactions"] = rows["transactions"]
        /\ w[1] # "internal" => rows'["internal"] = rows["internal"]
    BY <1>1, <2>1 DEF TypeOK, Tables, TraceTables, Writes
  <2> QED BY <1>1, <2>1, <2>2 DEF MarksKept
<1>5. CASE Crash
  <2>1. PICK landed \in SUBSET {w \in Flying : HasParent(w)} :
           /\ rows' = [t \in Tables |-> rows[t] \cup {b \in Block : <<t, b>> \in landed}]
           /\ marked' = marked \cup {b \in Block : /\ <<"transactions", b>> \in landed
                                                   /\ b \notin rows["transactions"]
                                                   /\ FlyingMarked(b)}
    BY <1>5 DEF Crash
  <2>2. late' = {}
    BY <1>5 DEF Crash
  <2>3. \A w \in landed : w \in late \/ \E p \in Loops : w \in todo[p]
    BY <2>1 DEF Flying
  <2>4. /\ rows'["transactions"] =
              rows["transactions"] \cup {b \in Block : <<"transactions", b>> \in landed}
        /\ rows'["internal"] =
              rows["internal"] \cup {b \in Block : <<"internal", b>> \in landed}
    BY <2>1 DEF Tables, TraceTables
  <2>5. CASE TraceEnabled
    <3>1. ASSUME NEW b \in Block, <<"transactions", b>> \in landed PROVE FlyingMarked(b)
      <4>1. <<"transactions", b>> \notin late
        BY <1>1 DEF MarksKept
      <4>2. PICK p \in Loops : <<"transactions", b>> \in todo[p]
        BY <2>3, <3>1, <4>1
      <4>3. b \in traced[p]
        BY <2>5, <4>2, OneNodePlans
      <4> QED BY <4>2, <4>3 DEF FlyingMarked
    <3> QED BY <1>1, <2>1, <2>2, <2>4, <2>5, <3>1 DEF MarksKept
  <2>6. CASE ~TraceEnabled
    <3>1. ASSUME NEW b \in Block, <<"internal", b>> \in landed PROVE FALSE
      <4>1. <<"internal", b>> \notin late
        BY <1>1, <2>6 DEF MarksKept
      <4>2. PICK p \in Loops : <<"internal", b>> \in todo[p]
        BY <2>3, <3>1, <4>1
      <4> QED BY <2>6, <4>2, OneNodePlans
    <3> QED BY <1>1, <2>2, <2>4, <2>6, <3>1 DEF MarksKept
  <2> QED BY <2>5, <2>6
<1>6. ASSUME UNCHANGED <<rows, marked, late>> PROVE MarksKept'
  BY <1>1, <1>6 DEF MarksKept
<1>7. \/ UNCHANGED <<rows, marked, late>>
      \/ Crash
      \/ \E p \in Loops : \E w \in todo[p] : Write(p, w)
      \/ \E p \in Loops, b \in Block : Fail(p, b)
      \/ \E w \in late : LandLate(w)
  <2>1. ASSUME NEW p \in Loops, LoopStep(p)
        PROVE  UNCHANGED <<rows, marked, late>> \/ \E w \in todo[p] : Write(p, w)
    BY <2>1 DEF LoopStep, ReadPointer, GetLatest, AnswerRange, TraceBlocks, Advance,
                FinishExact, Commit, store
  <2>2. ASSUME NEW p \in Workers, NEW b \in Block, Reindex(p, b) \/ FixMissing(p, b)
        PROVE  UNCHANGED <<rows, marked, late>>
    BY <2>2 DEF Reindex, FixMissing, StartWorker, store
  <2>3. ASSUME NEW m \in Nodes, Grow(m) PROVE UNCHANGED <<rows, marked, late>>
    BY <2>3 DEF Grow, store
  <2> QED BY <2>1, <2>2, <2>3 DEF Next, Running, LoopsRun
<1> QED BY <1>2, <1>3, <1>4, <1>5, <1>6, <1>7

LEMMA OneNodeInvPreserved ==
  ASSUME NEW n, Nodes = {n}, IndInv, OneNodeInv(n), [Next]_vars
  PROVE  OneNodeInv(n)'
<1>1. TypeOK /\ TypeOK'
  BY TypesPreserved DEF IndInv
<1>2. CASE UNCHANGED vars
  <2>1. head[n] \in Nat /\ head'[n] \in Nat /\ head[n] <= head'[n]
    BY <1>1, <1>2, BlockSyncAssumption DEF vars, TypeOK, Block
  <2>2. \A q \in Loops : OneNodeLoop(q, n)'
    BY <1>1, <1>2, <2>1, OneNodeLoopKept DEF vars, loopVars, batchVars, OneNodeInv
  <2>3. UNCHANGED <<rows, marked, late, skipped, untraced>>
    BY <1>2 DEF vars, store, history
  <2>4. MarksKept'
    BY <2>3 DEF OneNodeInv, MarksKept
  <2> QED BY <2>2, <2>3, <2>4 DEF OneNodeInv
<1>3. CASE Next
  <2>1. (\A q \in Loops : OneNodeLoop(q, n)') /\ MarksKept'
    BY <1>1, <1>3, OneNodeLoopsKeep, MarksStayKept
  <2>2. skipped = {} /\ (TraceEnabled => untraced = {})
    BY DEF OneNodeInv
  <2>3. ASSUME NEW p \in Loops, Commit(p)
        PROVE  skipped' = {} /\ (TraceEnabled => untraced' = {})
    BY <2>2, <2>3, OneNodePassesNothing DEF Commit
  <2>4. CASE ~(\E p \in Loops : Commit(p))
    <3>1. skipped' = skipped /\ untraced' = untraced
      BY <1>3, <2>4
         DEF Next, Running, LoopsRun, LoopStep, ReadPointer, GetLatest, AnswerRange,
             TraceBlocks, Write, Advance, FinishExact, Fail, LandLate, Crash, Reindex,
             FixMissing, StartWorker, Grow, history
    <3> QED BY <2>1, <2>2, <3>1 DEF OneNodeInv
  <2> QED BY <2>1, <2>2, <2>3, <2>4 DEF OneNodeInv
<1> QED BY <1>2, <1>3

LEMMA InitialOneNodeInv ==
  ASSUME NEW n, Init
  PROVE  OneNodeInv(n)
<1>1. \A p \in Loops : OneNodeLoop(p, n)
  BY DEF Init, OneNodeLoop, Known, Phases
<1>2. MarksKept
  BY DEF Init, MarksKept, Tables, TraceTables
<1> QED BY <1>1, <1>2 DEF Init, OneNodeInv

-----------------------------------------------------------------------------
(* The theorems *)

\* Whatever runs side by side: the inductive invariant, with what each stage of a loop
\* has stored, planned and left to do.
THEOREM IndInvHolds == Spec => []IndInv
<1> QED BY InitialIndInv, IndInvPreserved, PTL DEF Spec

\* Whatever fails, dies or runs side by side, every block up to the pointer is
\* stored with all its rows or was missing from the answers.
THEOREM PrefixIsCovered == Spec => []PrefixCovered
<1>1. IndInv => PrefixCovered
  BY DEF IndInv
<1> QED BY <1>1, IndInvHolds, PTL

\* The block the pointer names is stored, with all its rows.
THEOREM PointerIsStored == Spec => []PointerStored
<1>1. IndInv => PointerStored
  BY DEF IndInv
<1> QED BY <1>1, IndInvHolds, PTL

\* No insertion is sent, now or late, before its parent row is stored.
THEOREM ParentsComeFirst == Spec => []ParentsFirst
<1>1. IndInv => ParentsFirst
  BY TodoParents DEF IndInv, LoopInv, ParentsFirst
<1> QED BY <1>1, IndInvHolds, PTL

\* Without a worker on block 0 the pointer never goes back.
THEOREM PointerIsMonotone == Spec => PointerMonotone
<1>1. IndInv /\ [Next]_vars => [~rogue => pointer' >= pointer]_vars
  <2> SUFFICES ASSUME IndInv, Next, ~rogue PROVE pointer' >= pointer
    OBVIOUS
  <2>1. ASSUME NEW p \in Loops, Commit(p) PROVE pointer' >= pointer
    BY <2>1, CommitMovesUp DEF IndInv, LoopInv
  <2>2. CASE ~(\E p \in Loops : Commit(p))
    <3>1. pointer' = pointer
      BY <2>2 DEF Next, Running, LoopsRun, LoopStep, ReadPointer, GetLatest, AnswerRange,
                  TraceBlocks, Write,
                  Advance, FinishExact, Fail, LandLate, Crash, Reindex, FixMissing,
                  StartWorker, Grow, store
    <3>2. pointer \in Nat
      BY BlockSyncAssumption DEF IndInv, TypeOK, Block
    <3> QED BY <3>1, <3>2
  <2> QED BY <2>1, <2>2
<1> QED BY <1>1, IndInvHolds, PTL DEF Spec, PointerMonotone

\* The invariant of a shard with one node, where there is one.
OneNode == Cardinality(Nodes) = 1 => \E n : Nodes = {n} /\ OneNodeInv(n)

LEMMA OneNodeHolds == Spec => []OneNode
<1>1. Cardinality(Nodes) = 1 => \E n : Nodes = {n}
  BY FS_Singleton, BlockSyncAssumption
<1>2. Init => OneNode
  BY <1>1, InitialOneNodeInv DEF OneNode
<1>3. IndInv /\ OneNode /\ [Next]_vars => OneNode'
  BY OneNodeInvPreserved DEF OneNode
<1> QED BY <1>2, <1>3, IndInvHolds, PTL DEF Spec

\* One node: a batch never passes a block without its answer or its trace, whatever
\* fails, dies or runs side by side.
THEOREM SingleNodeIsGapless == Spec => []SingleNodeGapless
<1>1. OneNode => SingleNodeGapless
  BY DEF OneNode, OneNodeInv, SingleNodeGapless
<1> QED BY <1>1, OneNodeHolds, PTL

\* One node: a stored transaction whose internal transactions are stored has the mark
\* of its internal transfers.
THEOREM MarkedWithTraceHolds == Spec => []MarkedWithTrace
<1>1. OneNode => MarkedWithTrace
  BY DEF OneNode, OneNodeInv, MarksKept, MarkedWithTrace
<1> QED BY <1>1, OneNodeHolds, PTL
=============================================================================
