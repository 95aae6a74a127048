-------------------------- MODULE Retention_proofs --------------------------
(* The removal of internal transactions leaves the block indexer undisturbed: *)
(* Retention implements BlockSync, for every value of the constants, so what  *)
(* holds of BlockSync holds of both.                                         *)
EXTENDS Retention, BlockSync_proofs

-----------------------------------------------------------------------------
(* The deleted rows put back *)

LEMMA RowsEverIs ==
  ASSUME rows \in [Tables -> SUBSET Block]
  PROVE  /\ RowsEver["internal"] = rows["internal"] \cup pruned
         /\ \A t \in Tables \ {"internal"} : RowsEver[t] = rows[t]
BY DEF RowsEver, Tables

\* Internal transactions are nobody's parents.
LEMMA SameParents ==
  ASSUME rows \in [Tables -> SUBSET Block], NEW w \in Writes
  PROVE  Indexer!HasParent(w) <=> HasParent(w)
<1>1. w[1] \in Tables
  BY DEF Writes
<1>2. Parent(w[1]) \in Tables \ {"internal"} \/ w[1] = "blocks"
  BY <1>1 DEF Parent, TraceTables, Tables
<1> QED
  BY <1>2, RowsEverIs DEF HasParent, Indexer!HasParent, Parent, Indexer!Parent, TraceTables, Indexer!TraceTables

LEMMA InitRefined == RInit => Indexer!Init
<1> SUFFICES ASSUME RInit PROVE Indexer!Init
  OBVIOUS
<1>1. rows = [t \in Tables |-> {}] /\ pruned = {}
  BY DEF RInit, Init
<1>2. RowsEver = [t \in Tables |-> {}]
  BY <1>1 DEF RowsEver, Tables
<1> QED
  BY <1>2 DEF RInit, Init, Indexer!Init, Indexer!Tables, Tables, Block, Indexer!Block,
              Loops, Indexer!Loops, Main, Indexer!Main

-----------------------------------------------------------------------------
(* The steps of a loop: what it does to the tables is the same with the deleted *)
(* rows put back, and what it reads of them is not about internal transactions. *)

LEMMA ReadPointerRefined ==
  ASSUME NEW p \in Loops, ReadPointer(p), UNCHANGED pruned
  PROVE  Indexer!ReadPointer(p)
BY DEF ReadPointer, Indexer!ReadPointer, StartBlock, Indexer!StartBlock, Exact,
       Indexer!Exact, InitialStartOf, Indexer!InitialStartOf, Main, Indexer!Main, store,
       Indexer!store, history, Indexer!history, RowsEver

LEMMA GetLatestRefined ==
  ASSUME NEW p \in Loops, NEW n \in Nodes, GetLatest(p, n), UNCHANGED pruned
  PROVE  Indexer!GetLatest(p, n)
BY DEF GetLatest, Indexer!GetLatest, From, Indexer!From, store, Indexer!store, history,
       Indexer!history, RowsEver

LEMMA AnswerRangeRefined ==
  ASSUME NEW p \in Loops, NEW n \in Nodes, NEW i \in pend[p], AnswerRange(p, i, n), UNCHANGED pruned
  PROVE  Indexer!AnswerRange(p, i, n)
BY DEF AnswerRange, Indexer!AnswerRange, From, Indexer!From, To, Indexer!To, Exact,
       Indexer!Exact, Lesser, Indexer!Lesser, store, Indexer!store, history,
       Indexer!history, RowsEver

LEMMA TraceBlocksRefined ==
  ASSUME NEW p \in Loops, TraceBlocks(p), UNCHANGED pruned
  PROVE  Indexer!TraceBlocks(p)
BY DEF TraceBlocks, Indexer!TraceBlocks, Planned, Indexer!Planned, TablesOf,
       Indexer!TablesOf, TraceTables, Indexer!TraceTables, store, Indexer!store, history,
       Indexer!history, RowsEver

LEMMA WriteRefined ==
  ASSUME TypeOK, NEW p \in Loops, NEW w \in todo[p], Write(p, w), UNCHANGED pruned
  PROVE  Indexer!Write(p, w)
<1>1. w \in Writes /\ rows \in [Tables -> SUBSET Block]
  BY DEF TypeOK
<1>2. Indexer!HasParent(w)
  BY <1>1, SameParents DEF Write
<1>3. RowsEver' = [RowsEver EXCEPT ![w[1]] = @ \cup {w[2]}]
  BY <1>1 DEF Write, RowsEver, Writes, Tables
<1>4. RowsEver["transactions"] = rows["transactions"]
  BY <1>1, RowsEverIs DEF Tables
<1> QED
  BY <1>2, <1>3, <1>4 DEF Write, Indexer!Write, history, Indexer!history, Phases, Indexer!Phases,
     Issued, Indexer!Issued

LEMMA AdvanceRefined ==
  ASSUME NEW p \in Loops, Advance(p), UNCHANGED pruned
  PROVE  Indexer!Advance(p)
BY DEF Advance, Indexer!Advance, NextStage, Indexer!NextStage, Phases, Indexer!Phases,
       Planned, Indexer!Planned, TablesOf, Indexer!TablesOf, TraceTables,
       Indexer!TraceTables, store, Indexer!store, history, Indexer!history, RowsEver

LEMMA FinishExactRefined ==
  ASSUME NEW p \in Loops, FinishExact(p), UNCHANGED pruned
  PROVE  Indexer!FinishExact(p)
BY DEF FinishExact, Indexer!FinishExact, Exact, Indexer!Exact, Forget, Indexer!Forget,
       store, Indexer!store, history, Indexer!history, RowsEver

\* Arithmetic does not see the tables.
LEMMA SameSizes ==
  ASSUME NEW p \in Loops
  PROVE  /\ Indexer!LastFetched(p) = LastFetched(p)
         /\ Indexer!FullBatch(p) <=> FullBatch(p)
         /\ Indexer!Increased(batch[p]) = Increased(batch[p])
         /\ Indexer!Decreased(batch[p]) = Decreased(batch[p])
<1>1. Indexer!LastFetched(p) = LastFetched(p)
  BY DEF LastFetched, Indexer!LastFetched, Max, Indexer!Max
<1>2. \A m, n : Indexer!Lesser(m, n) = Lesser(m, n)
  BY DEF Lesser, Indexer!Lesser
<1>3. Indexer!FullBatch(p) <=> FullBatch(p)
  <2>1. Indexer!Cardinality(got[p]) = Cardinality(got[p])
    BY DEF Cardinality, Indexer!Cardinality
  <2> QED
    BY <1>1, <1>2, <2>1 DEF FullBatch, Indexer!FullBatch
<1>4. Indexer!Increased(batch[p]) = Increased(batch[p])
  BY DEF Increased, Indexer!Increased, CeilTimesOnePointOne, Indexer!CeilTimesOnePointOne,
         Lesser, Indexer!Lesser
<1>5. Indexer!Decreased(batch[p]) = Decreased(batch[p])
  BY DEF Decreased, Indexer!Decreased, Greater, Indexer!Greater
<1> QED
  BY <1>1, <1>3, <1>4, <1>5

LEMMA CommitRefined ==
  ASSUME NEW p \in Loops, Commit(p), UNCHANGED pruned
  PROVE  Indexer!Commit(p)
BY SameSizes DEF Commit, Indexer!Commit, Exact, Indexer!Exact, Forget, Indexer!Forget, RowsEver

LEMMA FailRefined ==
  ASSUME TypeOK, NEW p \in Loops, NEW b \in Block, Fail(p, b), UNCHANGED pruned
  PROVE  Indexer!Fail(p, b)
<1>1. \A w \in todo[p] : Indexer!HasParent(w) <=> HasParent(w)
  BY SameParents DEF TypeOK
<1>2. \A S, w : Indexer!Issued(S, w) <=> Issued(S, w)
  BY DEF Issued, Indexer!Issued
<1>3. pc[p] \in Indexer!Stages \ {"idle"}
  BY DEF Fail, Stages, Indexer!Stages, Phases, Indexer!Phases
<1>4. \/ faults < MaxFaults
      \/ \E w \in todo[p] : Indexer!Issued(todo[p], w) /\ ~Indexer!HasParent(w)
  BY <1>1, <1>2 DEF Fail
<1>5. /\ faults' = Indexer!Lesser(faults + 1, MaxFaults)
      /\ late' = late \cup Indexer!Abandoned(p, b)
  BY DEF Fail, Lesser, Indexer!Lesser, Abandoned, Indexer!Abandoned
<1>6. /\ batch' = [batch EXCEPT ![p] = Indexer!Decreased(batch[p])]
      /\ Indexer!Forget(p)
  BY SameSizes DEF Fail, Forget, Indexer!Forget
<1>7. UNCHANGED <<head, pointer, RowsEver, marked, target, Indexer!history>>
  BY DEF Fail, history, Indexer!history, RowsEver
<1> QED
  BY <1>3, <1>4, <1>5, <1>6, <1>7 DEF Fail, Indexer!Fail

LEMMA LandLateRefined ==
  ASSUME TypeOK, NEW w \in late, LandLate(w), UNCHANGED pruned
  PROVE  Indexer!LandLate(w)
<1>1. w \in Writes /\ rows \in [Tables -> SUBSET Block]
  BY DEF TypeOK
<1>2. Indexer!HasParent(w)
  BY <1>1, SameParents DEF LandLate
<1>3. RowsEver' = [RowsEver EXCEPT ![w[1]] = @ \cup {w[2]}]
  BY <1>1 DEF LandLate, RowsEver, Writes, Tables
<1> QED
  BY <1>2, <1>3 DEF LandLate, Indexer!LandLate, Issued, Indexer!Issued, loopVars, Indexer!loopVars,
       batchVars, Indexer!batchVars, history, Indexer!history

LEMMA GrowRefined ==
  ASSUME NEW n \in Nodes, Grow(n), UNCHANGED pruned
  PROVE  Indexer!Grow(n)
BY DEF Grow, Indexer!Grow, store, Indexer!store, loopVars, Indexer!loopVars, batchVars,
       Indexer!batchVars, history, Indexer!history, RowsEver

LEMMA StartWorkerRefined ==
  ASSUME NEW p \in Workers, NEW b \in Block, StartWorker(p, b), UNCHANGED pruned
  PROVE  Indexer!StartWorker(p, b)
BY DEF StartWorker, Indexer!StartWorker, store, Indexer!store, batchVars,
       Indexer!batchVars, RowsEver

\* The blocks that are missing are those without a row in the table of blocks.
LEMMA SameMissing ==
  ASSUME rows \in [Tables -> SUBSET Block]
  PROVE  Indexer!Missing = Missing
BY RowsEverIs DEF Missing, Indexer!Missing, Tables

\* What lands in a crash lands among the rows put back as well.
LEMMA CrashRefined ==
  ASSUME TypeOK, Crash, UNCHANGED pruned
  PROVE  Indexer!Crash
<1>1. \A S, w : Indexer!Issued(S, w) <=> Issued(S, w)
  BY DEF Issued, Indexer!Issued
<1>2. /\ Indexer!Flying = Flying
      /\ \A b \in Block : Indexer!FlyingMarked(b) <=> FlyingMarked(b)
  BY <1>1 DEF Flying, Indexer!Flying, FlyingMarked, Indexer!FlyingMarked, Loops, Indexer!Loops,
              Main, Indexer!Main
<1>3. Flying \subseteq Writes
  BY DEF Flying, TypeOK
<1>4. {w \in Indexer!Flying : Indexer!HasParent(w)} = {w \in Flying : HasParent(w)}
  BY <1>2, <1>3, SameParents DEF TypeOK
<1>5. RowsEver["transactions"] = rows["transactions"]
  BY RowsEverIs DEF TypeOK, Tables
<1>6. PICK landed \in SUBSET {w \in Flying : HasParent(w)} :
          /\ rows' = [t \in Tables |-> rows[t] \cup {b \in Block : <<t, b>> \in landed}]
          /\ marked' = marked \cup {b \in Block : /\ <<"transactions", b>> \in landed
                                                  /\ b \notin rows["transactions"]
                                                  /\ FlyingMarked(b)}
  BY DEF Crash
<1>7. RowsEver' = [t \in Tables |-> RowsEver[t] \cup {b \in Block : <<t, b>> \in landed}]
  BY <1>6 DEF RowsEver, TypeOK, Tables
<1>8. marked' = marked \cup {b \in Block : /\ <<"transactions", b>> \in landed
                                           /\ b \notin RowsEver["transactions"]
                                           /\ Indexer!FlyingMarked(b)}
  BY <1>2, <1>5, <1>6
<1>9. /\ Indexer!Tables = Tables /\ Indexer!Block = Block /\ Indexer!Loops = Loops
      /\ Indexer!Main = Main
  BY DEF Tables, Indexer!Tables, Block, Indexer!Block, Loops, Indexer!Loops, Main, Indexer!Main
<1>10. \E L \in SUBSET {w \in Indexer!Flying : Indexer!HasParent(w)} :
          /\ RowsEver' = [t \in Indexer!Tables |-> RowsEver[t] \cup {b \in Indexer!Block : <<t, b>> \in L}]
          /\ marked' = marked \cup {b \in Indexer!Block : /\ <<"transactions", b>> \in L
                                                          /\ b \notin RowsEver["transactions"]
                                                          /\ Indexer!FlyingMarked(b)}
  BY <1>4, <1>7, <1>8, <1>9
<1> QED
  BY <1>9, <1>10 DEF Crash, Indexer!Crash

-----------------------------------------------------------------------------
(* The removal *)

\* What is deleted is put back: the step is none of the block indexer's.
LEMMA DeleteRefined ==
  ASSUME RTypeOK, Delete
  PROVE  UNCHANGED Indexer!vars
<1>1. RowsEver' = RowsEver
  <2>1. rows \in [Tables -> SUBSET Block] /\ cutoff \in Int /\ Block \subseteq Int
    BY BlockSyncAssumption DEF RTypeOK, TypeOK, Block
  <2>2. /\ rows' = [rows EXCEPT !["internal"] = {b \in @ : b >= cutoff}]
        /\ pruned' = pruned \cup {b \in rows["internal"] : b < cutoff}
    BY DEF Delete
  <2>3. rows["internal"] \subseteq Int
    BY <2>1 DEF Tables
  <2>4. {b \in rows["internal"] : b >= cutoff} \cup (pruned \cup {b \in rows["internal"] : b < cutoff})
            = rows["internal"] \cup pruned
    BY <2>1, <2>3
  <2> QED
    BY <2>1, <2>2, <2>4 DEF RowsEver, Tables
<1> QED
  BY <1>1 DEF Delete, Indexer!vars, Indexer!store, Indexer!loopVars, Indexer!batchVars, Indexer!history,
              loopVars, batchVars, history

LEMMA LoopsRunRefined ==
  ASSUME TypeOK, LoopsRun, UNCHANGED pruned
  PROVE  Indexer!LoopsRun
<1> USE DEF Indexer!LoopsRun, Indexer!LoopStep
<1>1. Indexer!Loops = Loops /\ Indexer!Block = Block
  BY DEF Block, Indexer!Block, Loops, Indexer!Loops, Main, Indexer!Main
<1>2. ASSUME NEW p \in Loops, LoopStep(p) PROVE Indexer!LoopStep(p)
  BY <1>2, ReadPointerRefined, GetLatestRefined, AnswerRangeRefined, TraceBlocksRefined,
     WriteRefined, AdvanceRefined, FinishExactRefined, CommitRefined DEF LoopStep
<1>3. ASSUME NEW p \in Loops, NEW b \in Block, Fail(p, b) PROVE Indexer!Fail(p, b)
  BY <1>3, FailRefined
<1>4. ASSUME NEW w \in late, LandLate(w) PROVE Indexer!LandLate(w)
  BY <1>4, LandLateRefined
<1>5. ASSUME NEW n \in Nodes, Grow(n) PROVE Indexer!Grow(n)
  BY <1>5, GrowRefined
<1> QED
  BY <1>1, <1>2, <1>3, <1>4, <1>5 DEF LoopsRun

LEMMA RunningRefined ==
  ASSUME TypeOK, Running, UNCHANGED pruned
  PROVE  Indexer!Running
<1>1. CASE LoopsRun
  BY <1>1, LoopsRunRefined DEF Indexer!Running
<1>2. CASE \E p \in Workers, b \in Block : Reindex(p, b) \/ FixMissing(p, b)
  <2>1. PICK p \in Workers, b \in Block : Reindex(p, b) \/ FixMissing(p, b)
    BY <1>2
  <2>2. Indexer!StartWorker(p, b)
    BY <2>1, StartWorkerRefined DEF Reindex, FixMissing
  <2>3. Indexer!Reindex(p, b) \/ Indexer!FixMissing(p, b)
    BY <2>1, <2>2, SameMissing DEF Reindex, FixMissing, Indexer!Reindex, Indexer!FixMissing, TypeOK
  <2> QED
    BY <2>3 DEF Indexer!Running, Block, Indexer!Block
<1> QED
  BY <1>1, <1>2 DEF Running

-----------------------------------------------------------------------------

LEMMA RetentionTypesPreserved == RTypeOK /\ [RNext]_retentionVars => RTypeOK'
<1> SUFFICES ASSUME RTypeOK, [RNext]_retentionVars PROVE RTypeOK'
  OBVIOUS
<1> USE DEF RTypeOK
<1>0. 0 \in Block
  BY BlockSyncAssumption DEF Block
<1>1. CASE Running /\ UNCHANGED taskVars
  BY <1>1, TypesPreserved DEF Next, taskVars
<1>2. CASE Restart
  BY <1>0, <1>2, TypesPreserved DEF Restart, Next
<1>3. CASE ReadLatest
  BY <1>3, TypesPreserved DEF ReadLatest, TypeOK
<1>4. CASE Delete
  <2>1. rows' \in [Tables -> SUBSET Block] /\ rows["internal"] \subseteq Block
    BY <1>4 DEF Delete, TypeOK, Tables
  <2>2. UNCHANGED <<head, pointer, marked, late, pc, target, batch, start, latest, pend, got, traced,
                    todo, skipped, untraced, rogue, faults>>
    BY <1>4 DEF Delete, loopVars, batchVars, history
  <2>3. TypeOK'
    BY <2>1, <2>2 DEF TypeOK
  <2>4. task' = "sleep" /\ cutoff' = 0 /\ pruned' = pruned \cup {b \in rows["internal"] : b < cutoff}
    BY <1>4 DEF Delete
  <2> QED
    BY <1>0, <2>1, <2>3, <2>4
<1>5. CASE Wake \/ TaskFails
  <2>1. UNCHANGED vars
    BY <1>5 DEF Wake, TaskFails
  <2>2. TypeOK'
    BY <2>1, TypesPreserved
  <2>3. task' \in {"read", "dead"} /\ (cutoff' = cutoff \/ cutoff' = 0) /\ pruned' = pruned
    BY <1>5 DEF Wake, TaskFails
  <2> QED
    BY <1>0, <2>2, <2>3
<1>6. CASE UNCHANGED retentionVars
  <2>1. UNCHANGED vars /\ UNCHANGED taskVars
    BY <1>6 DEF retentionVars
  <2>2. TypeOK'
    BY <2>1, TypesPreserved
  <2> QED
    BY <2>1, <2>2 DEF taskVars
<1> QED
  BY <1>1, <1>2, <1>3, <1>4, <1>5, <1>6 DEF RNext, TaskStep

\* Types, with the removal task beside the block indexer.
THEOREM RetentionTypes == RSpec => []RTypeOK
<1>1. RInit => RTypeOK
  BY InitialTypes, BlockSyncAssumption DEF RInit, RTypeOK, Block
<1> QED
  BY <1>1, RetentionTypesPreserved, PTL DEF RSpec

\* Whatever the task deletes, and whenever: with the deleted rows put back, every
\* behaviour of the block indexer and the task is one of the block indexer alone.
THEOREM RemovalRefines == RSpec => IndexerUndisturbed
<1>1. RTypeOK /\ [RNext]_retentionVars => [Indexer!Next]_(Indexer!vars)
  <2> SUFFICES ASSUME RTypeOK, [RNext]_retentionVars
               PROVE  Indexer!Next \/ UNCHANGED Indexer!vars
    OBVIOUS
  <2> USE DEF RTypeOK
  <2>1. CASE Running /\ UNCHANGED taskVars
    BY <2>1, RunningRefined DEF taskVars, Indexer!Next
  <2>2. CASE Restart
    BY <2>2, CrashRefined DEF Restart, Indexer!Next
  <2>3. CASE Delete
    BY <2>3, DeleteRefined
  <2>4. CASE ReadLatest \/ Wake \/ TaskFails \/ UNCHANGED retentionVars
    BY <2>4 DEF ReadLatest, Wake, TaskFails, retentionVars, taskVars, vars, store, loopVars, batchVars,
                history, Indexer!vars, Indexer!store, Indexer!loopVars, Indexer!batchVars,
                Indexer!history, RowsEver
  <2> QED
    BY <2>1, <2>2, <2>3, <2>4 DEF RNext, TaskStep
<1> QED
  BY <1>1, InitRefined, RetentionTypes, PTL DEF RSpec, IndexerUndisturbed, Indexer!Spec

-----------------------------------------------------------------------------
(* What is not committed yet is above what the task deletes *)

\* The parts of KeptInv that do not speak of the tables, as a step of the block
\* indexer finds them.
LoopsOrdered == PointerOrder /\ \A p \in Loops : TodoPlanned(p) /\ GotAbove(p)

\* A step of one loop, p, that leaves the pointer and the tasks alone.
LEMMA OrderedStep ==
  ASSUME TypeOK, LoopsOrdered, NEW p \in Loops, TodoPlanned(p)', GotAbove(p)',
         pointer' = pointer, UNCHANGED <<target, rogue>>,
         \A q \in Loops \ {p} :
            /\ pc'[q] = pc[q] /\ start'[q] = start[q] /\ got'[q] = got[q]
            /\ traced'[q] = traced[q] /\ todo'[q] = todo[q],
         pc[p] # "idle",
         p = Main /\ ~rogue /\ pc'[Main] \notin {"idle", "read"} /\ pointer > 0
            => start'[Main] > pointer
  PROVE  LoopsOrdered'
<1>1. \A q \in Loops \ {p} : TodoPlanned(q)' /\ GotAbove(q)'
  BY DEF LoopsOrdered, TodoPlanned, GotAbove
<1>2. Main \in Loops /\ Workers \subseteq Loops
  BY DEF Loops
<1>3. PointerOrder'
  BY <1>2 DEF LoopsOrdered, PointerOrder, Exact
<1> QED BY <1>1, <1>3 DEF LoopsOrdered

LEMMA LoopStepOrdered ==
  ASSUME TypeOK, LoopsOrdered, NEW p \in Loops, LoopStep(p), ~Commit(p), ~FinishExact(p)
  PROVE  LoopsOrdered'
<1>0. TodoPlanned(p) /\ GotAbove(p) /\ PointerOrder
  BY DEF LoopsOrdered
<1>1. CASE ReadPointer(p)
  <2>1. /\ pc[p] = "read" /\ pc'[p] = "latest" /\ got'[p] = {} /\ todo'[p] = {}
        /\ start'[p] = StartBlock(p)
    BY <1>0, <1>1 DEF ReadPointer, TypeOK, GotAbove, TodoPlanned, Phases
  <2>2. p = Main /\ pointer > 0 => start'[Main] > pointer
    <3>1. pointer \in Nat
      BY BlockSyncAssumption DEF TypeOK, Block
    <3> QED BY <1>0, <2>1, <3>1 DEF StartBlock, Exact, PointerOrder
  <2>3. TodoPlanned(p)' /\ GotAbove(p)'
    BY <2>1 DEF TodoPlanned, GotAbove, Phases
  <2> QED BY <1>1, <2>1, <2>2, <2>3, OrderedStep DEF ReadPointer, TypeOK, store, history
<1>2. ASSUME NEW n \in Nodes, GetLatest(p, n) PROVE LoopsOrdered'
  <2>1. /\ pc[p] = "latest" /\ pc'[p] = "fetch" /\ got'[p] = {} /\ todo'[p] = {}
        /\ start' = start
    BY <1>0, <1>2 DEF GetLatest, TypeOK, GotAbove, TodoPlanned, Phases
  <2>2. TodoPlanned(p)' /\ GotAbove(p)'
    BY <2>1 DEF TodoPlanned, GotAbove, Phases
  <2>3. p = Main /\ ~rogue /\ pointer > 0 => start'[Main] > pointer
    BY <1>0, <2>1 DEF PointerOrder
  <2> QED BY <1>2, <2>1, <2>2, <2>3, OrderedStep DEF GetLatest, TypeOK, store, history
<1>3. ASSUME NEW i \in pend[p], NEW n \in Nodes, AnswerRange(p, i, n) PROVE LoopsOrdered'
  <2> DEFINE new == {b \in From(p, i)..To(p, i) : b <= head[n]}
  <2>1. /\ pc[p] = "fetch" /\ pc' = pc /\ todo'[p] = {} /\ got'[p] = got[p] \cup new
        /\ start' = start
    BY <1>0, <1>3 DEF AnswerRange, TypeOK, TodoPlanned, Phases
  <2>2. \A b \in new : b >= start[p]
    <3>1. From(p, i) \in Nat /\ From(p, i) >= start[p] /\ start[p] \in Nat
      BY RangeBegins DEF TypeOK
    <3> QED BY <3>1
  <2>3. TodoPlanned(p)' /\ GotAbove(p)'
    BY <1>0, <2>1, <2>2 DEF TodoPlanned, GotAbove, Phases
  <2>4. p = Main /\ ~rogue /\ pointer > 0 => start'[Main] > pointer
    BY <1>0, <2>1 DEF PointerOrder
  <2> QED BY <1>3, <2>1, <2>3, <2>4, OrderedStep DEF AnswerRange, TypeOK, store, history
<1>4. CASE TraceBlocks(p)
  <2>1. PICK tr \in SUBSET got[p] :
          /\ traced' = [traced EXCEPT ![p] = tr]
          /\ todo' = [todo EXCEPT ![p] = Planned("blocks", got[p], tr)]
    BY <1>4 DEF TraceBlocks
  <2>2. /\ pc[p] = "fetch" /\ pc'[p] = "blocks" /\ got' = got /\ start' = start
        /\ traced'[p] = tr /\ todo'[p] = Planned("blocks", got[p], tr)
    BY <1>4, <2>1 DEF TraceBlocks, TypeOK
  <2>3. TodoPlanned(p)' /\ GotAbove(p)'
    BY <1>0, <2>2 DEF TodoPlanned, GotAbove, Phases
  <2>4. p = Main /\ ~rogue /\ pointer > 0 => start'[Main] > pointer
    BY <1>0, <2>2 DEF PointerOrder
  <2> QED BY <1>4, <2>1, <2>2, <2>3, <2>4, OrderedStep DEF TraceBlocks, TypeOK, store, history
<1>5. ASSUME NEW w \in todo[p], Write(p, w) PROVE LoopsOrdered'
  <2>1. /\ pc[p] \in Phases /\ pc' = pc /\ got' = got /\ start' = start
        /\ traced' = traced /\ todo'[p] = todo[p] \ {w}
    BY <1>5 DEF Write, TypeOK
  <2>2. TodoPlanned(p)' /\ GotAbove(p)'
    BY <1>0, <2>1 DEF TodoPlanned, GotAbove
  <2>3. p = Main /\ ~rogue /\ pc'[Main] \notin {"idle", "read"} /\ pointer > 0
          => start'[Main] > pointer
    BY <1>0, <2>1 DEF PointerOrder
  <2>4. pc[p] # "idle"
    BY <2>1 DEF Phases
  <2> QED BY <1>5, <2>1, <2>2, <2>3, <2>4, OrderedStep DEF Write, TypeOK, history
<1>6. CASE Advance(p)
  <2>1. /\ pc[p] \in Phases /\ pc'[p] = NextStage(pc[p]) /\ got' = got /\ start' = start
        /\ traced' = traced
        /\ todo'[p] = IF NextStage(pc[p]) \in Phases
                      THEN Planned(NextStage(pc[p]), got[p], traced[p]) ELSE {}
    BY <1>6 DEF Advance, TypeOK
  <2>2. pc[p] \notin {"idle", "read", "latest"} /\ pc'[p] \notin {"idle", "read", "latest"}
    BY <2>1 DEF NextStage, Phases
  <2>3. TodoPlanned(p)' /\ GotAbove(p)'
    BY <1>0, <2>1, <2>2 DEF TodoPlanned, GotAbove
  <2>4. p = Main /\ ~rogue /\ pointer > 0 => start'[Main] > pointer
    BY <1>0, <2>1, <2>2 DEF PointerOrder
  <2> QED BY <1>6, <2>1, <2>2, <2>3, <2>4, OrderedStep DEF Advance, TypeOK, store, history
<1> QED BY <1>1, <1>2, <1>3, <1>4, <1>5, <1>6 DEF LoopStep

\* A loop that a step brings to rest has no batch any more.
LEMMA RestOrdered ==
  ASSUME NEW p \in Loops, pc'[p] \in {"idle", "read"}, got'[p] = {}, todo'[p] = {}
  PROVE  TodoPlanned(p)' /\ GotAbove(p)'
BY DEF TodoPlanned, GotAbove, Phases

LEMMA EndOfBatchOrdered ==
  ASSUME TypeOK, LoopsOrdered, NEW p \in Loops,
         FinishExact(p) \/ Commit(p) \/ (\E b \in Block : Fail(p, b))
  PROVE  LoopsOrdered'
<1>1. /\ Forget(p) /\ rogue' = rogue
      /\ pc[p] # "idle" /\ pc'[p] \in {"idle", "read"}
      /\ pc'[p] = "idle" => FinishExact(p)
      /\ \A q \in Loops \ {p} : pc'[q] = pc[q] /\ target'[q] = target[q]
      /\ target'[p] = target[p] \/ (FinishExact(p) /\ target'[p] = 0)
  BY DEF FinishExact, Commit, Fail, TypeOK, history
<1>2. /\ got'[p] = {} /\ todo'[p] = {}
      /\ \A q \in Loops \ {p} :
            /\ start'[q] = start[q] /\ got'[q] = got[q]
            /\ traced'[q] = traced[q] /\ todo'[q] = todo[q]
  BY <1>1, Forgotten
<1>3. \A q \in Loops : TodoPlanned(q)' /\ GotAbove(q)'
  <2>1. TodoPlanned(p)' /\ GotAbove(p)'
    BY <1>1, <1>2, RestOrdered
  <2>2. \A q \in Loops \ {p} : TodoPlanned(q)' /\ GotAbove(q)'
    BY <1>1, <1>2 DEF LoopsOrdered, TodoPlanned, GotAbove
  <2> QED BY <2>1, <2>2
<1>4. Main \in Loops /\ Workers \subseteq Loops
  BY DEF Loops
<1>5. ~rogue /\ p # Main => pointer' = pointer
  <2>1. ~rogue /\ Commit(p) => p = Main
    BY CommitMovesUp DEF LoopsOrdered
  <2> QED BY <2>1 DEF FinishExact, Fail, store
<1>6. target'[Main] = 0
  BY <1>1, <1>4 DEF LoopsOrdered, PointerOrder
<1>7. ASSUME ~rogue, NEW q \in Workers, pc'[q] # "idle" PROVE Exact(q)'
  <2>1. q \in Loops /\ pc[q] # "idle"
    BY <1>1, <1>4, <1>7
  <2>2. Exact(q)
    BY <1>7, <2>1 DEF LoopsOrdered, PointerOrder
  <2>3. CASE q # p
    BY <1>1, <2>1, <2>2, <2>3 DEF Exact
  <2>4. CASE q = p
    <3>1. target'[p] = target[p]
      BY <1>1, <1>7, <2>4 DEF FinishExact, TypeOK
    <3> QED BY <2>2, <2>4, <3>1 DEF Exact
  <2> QED BY <2>3, <2>4
<1>8. ASSUME ~rogue, pc'[Main] \notin {"idle", "read"}, pointer' > 0
      PROVE  start'[Main] > pointer'
  BY <1>1, <1>2, <1>4, <1>5, <1>8 DEF LoopsOrdered, PointerOrder
<1> QED BY <1>1, <1>3, <1>6, <1>7, <1>8 DEF LoopsOrdered, PointerOrder

LEMMA IndexerOrdered ==
  ASSUME TypeOK, LoopsOrdered, Next
  PROVE  LoopsOrdered'
<1>1. ASSUME NEW p \in Loops, LoopStep(p) PROVE LoopsOrdered'
  BY <1>1, LoopStepOrdered, EndOfBatchOrdered
<1>2. ASSUME NEW p \in Loops, NEW b \in Block, Fail(p, b) PROVE LoopsOrdered'
  BY <1>2, EndOfBatchOrdered
<1>3. CASE (\E w \in late : LandLate(w)) \/ (\E n \in Nodes : Grow(n))
  <2>1. UNCHANGED <<pc, target, start, got, traced, todo, pointer, rogue>>
    BY <1>3 DEF LandLate, Grow, store, loopVars, batchVars, history
  <2> QED BY <2>1 DEF LoopsOrdered, PointerOrder, TodoPlanned, GotAbove, Exact
<1>4. CASE Crash
  <2>1. /\ pc' = [q \in Loops |-> IF q = Main THEN "read" ELSE "idle"]
        /\ \A q \in Loops : got'[q] = {} /\ todo'[q] = {} /\ target'[q] = 0
    BY <1>4 DEF Crash
  <2>2. \A q \in Loops : TodoPlanned(q)' /\ GotAbove(q)'
    BY <2>1, RestOrdered
  <2>3. PointerOrder'
    BY <2>1, BlockSyncAssumption DEF PointerOrder, Loops
  <2> QED BY <2>2, <2>3 DEF LoopsOrdered
<1>5. ASSUME NEW p \in Workers, NEW b \in Block, StartWorker(p, b) PROVE LoopsOrdered'
  <2>1. p \in Loops /\ p # Main /\ Main \in Loops /\ Workers \subseteq Loops
    BY BlockSyncAssumption DEF Loops
  <2>2. /\ pc[p] = "idle" /\ pc'[p] = "read" /\ target'[p] = b
        /\ \A q \in Loops \ {p} : pc'[q] = pc[q] /\ target'[q] = target[q]
        /\ UNCHANGED <<start, got, traced, todo, pointer>>
        /\ rogue' = (rogue \/ b = 0)
    BY <1>5, <2>1 DEF StartWorker, TypeOK, store, batchVars
  <2>3. TodoPlanned(p)' /\ GotAbove(p)'
    BY <2>1, <2>2 DEF LoopsOrdered, TodoPlanned, GotAbove, Phases
  <2>4. \A q \in Loops \ {p} : TodoPlanned(q)' /\ GotAbove(q)'
    BY <2>1, <2>2 DEF LoopsOrdered, TodoPlanned, GotAbove
  <2>5. PointerOrder'
    BY <2>1, <2>2 DEF LoopsOrdered, PointerOrder, Exact
  <2> QED BY <2>3, <2>4, <2>5 DEF LoopsOrdered
<1> QED BY <1>1, <1>2, <1>3, <1>4, <1>5 DEF Next, Running, LoopsRun, Reindex, FixMissing

\* The rows of the batch of the service's loop, under a step of the block indexer.
LEMMA ServiceServed ==
  ASSUME TypeOK, LoopsOrdered, Next, Served(Main)
  PROVE  Served(Main)'
<1>1. Main \in Loops
  BY DEF Loops
<1>2. Grown
  BY StepsGrow
<1>3. CASE LoopStep(Main)
  <2>1. CASE ReadPointer(Main) \/ (\E n \in Nodes : GetLatest(Main, n))
             \/ (\E i \in pend[Main], n \in Nodes : AnswerRange(Main, i, n))
             \/ FinishExact(Main) \/ Commit(Main)
    <3>1. pc'[Main] \in {"idle", "read", "latest", "fetch"}
      BY <1>1, <2>1 DEF ReadPointer, GetLatest, AnswerRange, FinishExact, Commit, TypeOK
    <3> QED BY <3>1 DEF Served, Phases
  <2>2. CASE TraceBlocks(Main)
    BY <1>1, <2>2, TraceBlocksServes
  <2>3. ASSUME NEW w \in todo[Main], Write(Main, w) PROVE Served(Main)'
    BY <1>1, <2>3, WriteServes
  <2>4. CASE Advance(Main)
    BY <1>1, <2>4, AdvanceServes
  <2> QED BY <1>3, <2>1, <2>2, <2>3, <2>4 DEF LoopStep
<1>4. CASE pc'[Main] \in {"idle", "read"}
  BY <1>4 DEF Served, Phases
<1>5. CASE UNCHANGED <<pc[Main], got[Main], traced[Main], todo[Main]>>
  BY <1>2, <1>5 DEF Served, Grown
<1>6. ASSUME NEW p \in Loops \ {Main}, LoopStep(p)
      PROVE  UNCHANGED <<pc[Main], got[Main], traced[Main], todo[Main]>>
  BY <1>1, <1>6 DEF LoopStep, ReadPointer, GetLatest, AnswerRange, TraceBlocks, Write, Advance,
                    FinishExact, Commit, Forget, TypeOK
<1>7. ASSUME NEW p \in Loops, NEW b \in Block, Fail(p, b)
      PROVE  \/ pc'[Main] = "read"
             \/ UNCHANGED <<pc[Main], got[Main], traced[Main], todo[Main]>>
  BY <1>1, <1>7 DEF Fail, Forget, TypeOK
<1>8. CASE Crash
  <2>1. pc'[Main] = "read"
    BY <1>1, <1>8 DEF Crash
  <2> QED BY <1>4, <2>1
<1>9. CASE \/ \E w \in late : LandLate(w)
           \/ \E n \in Nodes : Grow(n)
           \/ \E p \in Workers, b \in Block : StartWorker(p, b)
  <2>1. UNCHANGED <<pc[Main], got[Main], traced[Main], todo[Main]>>
    BY <1>1, <1>9, BlockSyncAssumption
       DEF LandLate, Grow, StartWorker, loopVars, batchVars, TypeOK, Loops
  <2> QED BY <1>5, <2>1
<1> QED BY <1>3, <1>4, <1>5, <1>6, <1>7, <1>8, <1>9
        DEF Next, Running, LoopsRun, Reindex, FixMissing

\* The pointer goes back only after a rogue worker was started, or the service anew.
LEMMA PointerAboveCutoff ==
  ASSUME TypeOK, LoopsOrdered, Running, ~rogue'
  PROVE  ~rogue /\ pointer' >= pointer
<1>1. ~rogue
  BY DEF Running, LoopsRun, LoopStep, ReadPointer, GetLatest, AnswerRange, TraceBlocks, Write,
         Advance, FinishExact, Commit, Fail, LandLate, Grow, Reindex, FixMissing, StartWorker, history
<1>2. pointer \in Nat
  BY BlockSyncAssumption DEF TypeOK, Block
<1>3. ASSUME NEW p \in Loops, Commit(p) PROVE pointer' >= pointer
  BY <1>1, <1>3, CommitMovesUp DEF LoopsOrdered
<1>4. CASE ~(\E p \in Loops : Commit(p))
  <2>1. pointer' = pointer
    BY <1>4 DEF Running, LoopsRun, LoopStep, ReadPointer, GetLatest, AnswerRange, TraceBlocks,
         Write, Advance, FinishExact, Fail, LandLate, Grow, Reindex, FixMissing, StartWorker, store
  <2> QED BY <1>1, <1>2, <2>1
<1> QED BY <1>1, <1>3, <1>4

\* The deletion does not reach the batch of the service's loop.
LEMMA DeleteKeepsBatch ==
  ASSUME KeptInv, Delete, ~rogue
  PROVE  Served(Main)'
<1>1. Main \in Loops
  BY DEF Loops
<1>2. /\ TypeOK /\ cutoff \in Nat /\ pointer \in Nat /\ cutoff <= pointer
      /\ start[Main] \in Nat /\ got[Main] \subseteq Nat
  BY <1>1, BlockSyncAssumption DEF KeptInv, RTypeOK, TypeOK, Block
<1>3. /\ rows' = [rows EXCEPT !["internal"] = {b \in @ : b >= cutoff}]
      /\ UNCHANGED <<pc, got, traced, todo>>
  BY DEF Delete, loopVars, batchVars
<1>4. ASSUME NEW b \in got[Main] PROVE b >= cutoff
  <2>1. b >= start[Main] /\ pc[Main] \notin {"idle", "read"} /\ b \in Nat
    BY <1>1, <1>2 DEF KeptInv, GotAbove
  <2>2. CASE pointer > 0
    <3>1. start[Main] > pointer
      BY <2>1, <2>2 DEF KeptInv, PointerOrder
    <3> QED BY <1>2, <2>1, <3>1
  <2>3. CASE ~(pointer > 0)
    BY <1>2, <2>1, <2>3
  <2> QED BY <2>2, <2>3
<1>5. \A t \in Tables, b \in got[Main] : b \in rows[t] => b \in rows'[t]
  BY <1>2, <1>3, <1>4 DEF TypeOK
<1> QED BY <1>3, <1>5 DEF KeptInv, BatchKept, Served

LEMMA KeptInvPreserved == KeptInv /\ [RNext]_retentionVars => KeptInv'
<1> SUFFICES ASSUME KeptInv, [RNext]_retentionVars PROVE KeptInv'
  OBVIOUS
<1>1. RTypeOK /\ TypeOK /\ LoopsOrdered
  BY DEF KeptInv, RTypeOK, LoopsOrdered
<1>2. RTypeOK'
  BY <1>1, RetentionTypesPreserved
<1>3. pointer \in Nat /\ cutoff \in Nat /\ pointer' \in Nat
  BY <1>1, <1>2, BlockSyncAssumption DEF RTypeOK, TypeOK, Block
<1>4. SUFFICES LoopsOrdered' /\ (~rogue => cutoff <= pointer)' /\ BatchKept'
  BY <1>2 DEF KeptInv, LoopsOrdered
<1>5. CASE Running /\ UNCHANGED taskVars
  <2>1. LoopsOrdered'
    BY <1>1, <1>5, IndexerOrdered DEF Next
  <2>2. ASSUME ~rogue' PROVE cutoff' <= pointer' /\ Served(Main)'
    <3>1. ~rogue /\ pointer' >= pointer
      BY <1>1, <1>5, <2>2, PointerAboveCutoff
    <3>2. cutoff' <= pointer'
      BY <1>3, <1>5, <3>1 DEF KeptInv, taskVars
    <3>3. Served(Main)'
      BY <1>1, <1>5, <3>1, ServiceServed DEF KeptInv, BatchKept, Next
    <3> QED BY <3>2, <3>3
  <2> QED BY <2>1, <2>2 DEF BatchKept
<1>6. CASE Restart
  <2>1. LoopsOrdered'
    BY <1>1, <1>6, IndexerOrdered DEF Restart, Next
  <2>2. cutoff' = 0
    BY <1>6 DEF Restart
  <2>3. pc'[Main] = "read"
    BY <1>6 DEF Restart, Crash, Loops
  <2>4. Served(Main)'
    BY <2>3 DEF Served, Phases
  <2> QED BY <1>3, <2>1, <2>2, <2>4 DEF BatchKept
<1>7. CASE Delete
  <2>1. UNCHANGED <<pc, target, start, got, traced, todo, pointer, rogue>> /\ cutoff' = 0
    BY <1>7 DEF Delete, loopVars, batchVars, history
  <2>2. LoopsOrdered'
    BY <1>1, <2>1 DEF LoopsOrdered, PointerOrder, TodoPlanned, GotAbove, Exact
  <2>3. BatchKept'
    BY <1>7, <2>1, DeleteKeepsBatch DEF BatchKept
  <2> QED BY <1>3, <2>1, <2>2, <2>3
<1>8. CASE ReadLatest \/ Wake \/ TaskFails \/ UNCHANGED retentionVars
  <2>1. UNCHANGED vars /\ (cutoff' \in {pointer, cutoff, 0})
    BY <1>8 DEF ReadLatest, Wake, TaskFails, retentionVars, taskVars
  <2>2. UNCHANGED <<pc, target, start, got, traced, todo, rows, pointer, rogue>>
    BY <2>1 DEF vars, store, loopVars, batchVars, history
  <2>3. LoopsOrdered'
    BY <1>1, <2>2 DEF LoopsOrdered, PointerOrder, TodoPlanned, GotAbove, Exact
  <2>4. BatchKept'
    BY <2>2 DEF KeptInv, BatchKept, Served
  <2>5. ~rogue' => cutoff' <= pointer'
    BY <1>3, <2>1, <2>2 DEF KeptInv
  <2> QED BY <2>3, <2>4, <2>5
<1> QED BY <1>5, <1>6, <1>7, <1>8 DEF RNext, TaskStep

\* Whenever the task deletes, and whatever has failed, died or been reindexed before, the
\* batch of the service's loop loses no row it has written: the pointer the task read is
\* below every block of it, unless a loop on block 0 took the pointer back meanwhile.
THEOREM BatchIsKept == RSpec => []BatchKept
<1>1. RInit => KeptInv
  <2> SUFFICES ASSUME RInit PROVE KeptInv
    OBVIOUS
  <2>1. Init /\ IndInv
    BY InitialIndInv DEF RInit
  <2>2. RTypeOK
    BY <2>1, BlockSyncAssumption DEF IndInv, RInit, RTypeOK, Block
  <2>3. (\A p \in Loops : TodoPlanned(p) /\ GotAbove(p)) /\ PointerOrder /\ Served(Main)
    BY <2>1 DEF IndInv, LoopInv, Loops
  <2>4. cutoff <= pointer
    BY DEF RInit, Init
  <2> QED BY <2>2, <2>3, <2>4 DEF KeptInv, BatchKept
<1>2. KeptInv => BatchKept
  BY DEF KeptInv
<1> QED BY <1>1, <1>2, KeptInvPreserved, PTL DEF RSpec

-----------------------------------------------------------------------------
(* What the theorems of BlockSync say of the service with its removal task: they    *)
(* are instantiated with the deleted rows put back.                                *)

Facts == INSTANCE BlockSync_proofs WITH rows <- RowsEver

\* The two instances of BlockSync are the same specification, definition by definition.
LEMMA SameStep == Indexer!Next <=> Facts!Next
<1>1. \A p : Indexer!ReadPointer(p) <=> Facts!ReadPointer(p)
  BY DEF Indexer!ReadPointer, Facts!ReadPointer, Indexer!StartBlock, Facts!StartBlock,
        Indexer!InitialStartOf, Facts!InitialStartOf, Indexer!Exact, Facts!Exact,
        Indexer!Main, Facts!Main, Indexer!store, Facts!store, Indexer!history,
        Facts!history
<1>2. \A p, n : Indexer!GetLatest(p, n) <=> Facts!GetLatest(p, n)
  BY DEF Indexer!GetLatest, Facts!GetLatest, Indexer!From, Facts!From, Indexer!store,
        Facts!store, Indexer!history, Facts!history
<1>3. \A p, i, n : Indexer!AnswerRange(p, i, n) <=> Facts!AnswerRange(p, i, n)
  BY DEF Indexer!AnswerRange, Facts!AnswerRange, Indexer!From, Facts!From, Indexer!To,
        Facts!To, Indexer!Lesser, Facts!Lesser, Indexer!Exact, Facts!Exact, Indexer!store,
        Facts!store, Indexer!history, Facts!history
<1>4. \A p : Indexer!TraceBlocks(p) <=> Facts!TraceBlocks(p)
  BY DEF Indexer!TraceBlocks, Facts!TraceBlocks, Indexer!Planned, Facts!Planned,
        Indexer!TablesOf, Facts!TablesOf, Indexer!TraceTables, Facts!TraceTables,
        Indexer!store, Facts!store, Indexer!history, Facts!history
<1>5. \A p, w : Indexer!Write(p, w) <=> Facts!Write(p, w)
  BY DEF Indexer!Write, Facts!Write, Indexer!HasParent, Facts!HasParent, Indexer!Parent,
        Facts!Parent, Indexer!Issued, Facts!Issued, Indexer!TraceTables,
        Facts!TraceTables, Indexer!Phases, Facts!Phases, Indexer!history, Facts!history
<1>6. \A p : Indexer!Advance(p) <=> Facts!Advance(p)
  BY DEF Indexer!Advance, Facts!Advance, Indexer!NextStage, Facts!NextStage,
        Indexer!Planned, Facts!Planned, Indexer!TablesOf, Facts!TablesOf,
        Indexer!TraceTables, Facts!TraceTables, Indexer!Phases, Facts!Phases,
        Indexer!Exact, Facts!Exact, Indexer!store, Facts!store, Indexer!history,
        Facts!history
<1>7. \A p : Indexer!FinishExact(p) <=> Facts!FinishExact(p)
  BY DEF Indexer!FinishExact, Facts!FinishExact, Indexer!Forget, Facts!Forget,
        Indexer!Exact, Facts!Exact, Indexer!store, Facts!store, Indexer!history,
        Facts!history
<1>8. \A p : Indexer!Commit(p) <=> Facts!Commit(p)
  BY DEF Indexer!Commit, Facts!Commit, Indexer!Forget, Facts!Forget, Indexer!Exact,
        Facts!Exact, Indexer!LastFetched, Facts!LastFetched, Indexer!FullBatch,
        Facts!FullBatch, Indexer!Max, Facts!Max, Indexer!Lesser, Facts!Lesser,
        Indexer!Greater, Facts!Greater, Indexer!Increased, Facts!Increased,
        Indexer!Decreased, Facts!Decreased, Indexer!CeilTimesOnePointOne,
        Facts!CeilTimesOnePointOne, Indexer!Cardinality, Facts!Cardinality
<1>9. \A p, b : Indexer!Fail(p, b) <=> Facts!Fail(p, b)
  BY DEF Indexer!Fail, Facts!Fail, Indexer!Forget, Facts!Forget, Indexer!Abandoned,
        Facts!Abandoned, Indexer!Decreased, Facts!Decreased, Indexer!Lesser, Facts!Lesser,
        Indexer!Greater, Facts!Greater, Indexer!HasParent, Facts!HasParent,
        Indexer!Parent, Facts!Parent, Indexer!TraceTables, Facts!TraceTables,
        Indexer!Issued, Facts!Issued, Indexer!Phases, Facts!Phases, Indexer!Stages,
        Facts!Stages, Indexer!history, Facts!history
<1>10. \A w : Indexer!LandLate(w) <=> Facts!LandLate(w)
  BY DEF Indexer!LandLate, Facts!LandLate, Indexer!HasParent, Facts!HasParent,
        Indexer!Parent, Facts!Parent, Indexer!TraceTables, Facts!TraceTables,
        Indexer!Issued, Facts!Issued, Indexer!loopVars, Facts!loopVars, Indexer!batchVars,
        Facts!batchVars, Indexer!history, Facts!history
<1>11. \A n : Indexer!Grow(n) <=> Facts!Grow(n)
  BY DEF Indexer!Grow, Facts!Grow, Indexer!store, Facts!store, Indexer!loopVars,
        Facts!loopVars, Indexer!batchVars, Facts!batchVars, Indexer!history, Facts!history
<1>12. \A p, b : Indexer!Reindex(p, b) <=> Facts!Reindex(p, b)
  BY DEF Indexer!Reindex, Facts!Reindex, Indexer!StartWorker, Facts!StartWorker,
        Indexer!store, Facts!store, Indexer!batchVars, Facts!batchVars, Indexer!history,
        Facts!history
<1>13. \A p, b : Indexer!FixMissing(p, b) <=> Facts!FixMissing(p, b)
  BY DEF Indexer!FixMissing, Facts!FixMissing, Indexer!StartWorker, Facts!StartWorker,
        Indexer!Missing, Facts!Missing, Indexer!store, Facts!store, Indexer!batchVars,
        Facts!batchVars, Indexer!history, Facts!history
<1>14. Indexer!Crash <=> Facts!Crash
  BY DEF Indexer!Crash, Facts!Crash, Indexer!Flying, Facts!Flying, Indexer!FlyingMarked,
        Facts!FlyingMarked, Indexer!Issued, Facts!Issued, Indexer!HasParent,
        Facts!HasParent, Indexer!Parent, Facts!Parent, Indexer!TraceTables,
        Facts!TraceTables, Indexer!Tables, Facts!Tables, Indexer!Block, Facts!Block,
        Indexer!Loops, Facts!Loops, Indexer!Main, Facts!Main
<1> QED BY <1>1, <1>2, <1>3, <1>4, <1>5, <1>6, <1>7, <1>8, <1>9, <1>10, <1>11, <1>12, <1>13, <1>14
    DEF Indexer!Next, Facts!Next, Indexer!Running, Facts!Running, Indexer!LoopsRun,
        Facts!LoopsRun, Indexer!LoopStep, Facts!LoopStep, Indexer!Loops, Facts!Loops,
        Indexer!Block, Facts!Block, Indexer!Main, Facts!Main

LEMMA SameSpec == Indexer!Spec <=> Facts!Spec
<1>1. Indexer!Init <=> Facts!Init
  BY DEF Indexer!Init, Facts!Init, Indexer!Tables, Facts!Tables, Indexer!Loops, Facts!Loops,
         Indexer!Block, Facts!Block, Indexer!Main, Facts!Main
<1>2. [Indexer!Next]_(Indexer!vars) <=> [Facts!Next]_(Facts!vars)
  <2>1. Indexer!vars = Facts!vars
    BY DEF Indexer!vars, Facts!vars, Indexer!store, Facts!store, Indexer!loopVars, Facts!loopVars,
           Indexer!batchVars, Facts!batchVars, Indexer!history, Facts!history
  <2>2. UNCHANGED Indexer!vars <=> UNCHANGED Facts!vars
    BY DEF Indexer!vars, Facts!vars, Indexer!store, Facts!store, Indexer!loopVars, Facts!loopVars,
           Indexer!batchVars, Facts!batchVars, Indexer!history, Facts!history
  <2> QED BY <2>1, <2>2, SameStep
<1> QED BY <1>1, <1>2, PTL DEF Indexer!Spec, Facts!Spec

LEMMA IndexerSpec == RSpec => Facts!Spec
BY RemovalRefines, SameSpec DEF IndexerUndisturbed

\* Beside the removal task, too, each block up to the pointer is stored with all its rows or
\* was missing from the answers, but for internal transactions the task has deleted.
THEOREM CoveredBesideRemoval ==
  RSpec => [](pointer > 0 =>
                \A b \in InitialStart..pointer, t \in Tables :
                   b \in Content[t] => \/ b \in rows[t]
                                       \/ b \in skipped
                                       \/ t \in TraceTables /\ b \in untraced
                                       \/ t = "internal" /\ b \in pruned)
<1> DEFINE StillThere(b, t) == \/ b \in rows[t]
                               \/ b \in skipped
                               \/ t \in TraceTables /\ b \in untraced
                               \/ t = "internal" /\ b \in pruned
           StillCovered == pointer > 0 => \A b \in InitialStart..pointer, t \in Tables :
                                             b \in Content[t] => StillThere(b, t)
<1>1. Facts!Spec => []Facts!PrefixCovered
  BY Facts!PrefixIsCovered, BlockSyncAssumption, MaxBatchCountAssumption
     DEF Facts!Main, Main, Facts!IsFiniteSet, IsFiniteSet, Facts!Block, Block, Facts!Tables, Tables
<1>2. RTypeOK /\ Facts!PrefixCovered => StillCovered
  <2> SUFFICES ASSUME RTypeOK, Facts!PrefixCovered, pointer > 0,
                      NEW b \in InitialStart..pointer, NEW t \in Tables, b \in Content[t]
               PROVE  StillThere(b, t)
    OBVIOUS
  <2>1. b \in RowsEver[t] \/ b \in skipped \/ (t \in TraceTables /\ b \in untraced)
    BY DEF Facts!PrefixCovered, Facts!Covered, Facts!Tables, Tables, Facts!TraceTables, TraceTables
  <2>2. b \in RowsEver[t] => b \in rows[t] \/ (t = "internal" /\ b \in pruned)
    BY RowsEverIs DEF RTypeOK, TypeOK
  <2> QED BY <2>1, <2>2
<1> QED BY <1>1, <1>2, IndexerSpec, RetentionTypes, PTL

\* Beside the removal task, too, a shard with one node has no gaps.
THEOREM GaplessBesideRemoval == RSpec => []SingleNodeGapless
<1>1. Facts!Spec => []Facts!SingleNodeGapless
  BY Facts!SingleNodeIsGapless, BlockSyncAssumption, MaxBatchCountAssumption
     DEF Facts!Main, Main, Facts!IsFiniteSet, IsFiniteSet, Facts!Block, Block, Facts!Tables, Tables
<1>2. Facts!SingleNodeGapless <=> SingleNodeGapless
  BY DEF Facts!SingleNodeGapless, SingleNodeGapless, Facts!Cardinality, Cardinality
<1> QED BY <1>1, <1>2, IndexerSpec, PTL

\* Beside the removal task, too, with one node a stored transaction has the mark of its
\* internal transfers as long as the internal transactions are stored.
THEOREM MarkedBesideRemoval == RSpec => []MarkedWithTrace
<1>1. Facts!Spec => []Facts!MarkedWithTrace
  BY Facts!MarkedWithTraceHolds, BlockSyncAssumption, MaxBatchCountAssumption
     DEF Facts!Main, Main, Facts!IsFiniteSet, IsFiniteSet, Facts!Block, Block, Facts!Tables, Tables
<1>2. RTypeOK /\ Facts!MarkedWithTrace => MarkedWithTrace
  <2> SUFFICES ASSUME RTypeOK, Facts!MarkedWithTrace, Cardinality(Nodes) = 1,
                      NEW b \in rows["internal"], b \in rows["transactions"]
               PROVE  b \in marked
    BY DEF MarkedWithTrace
  <2>1. b \in RowsEver["internal"] /\ b \in RowsEver["transactions"]
    BY RowsEverIs DEF RTypeOK, TypeOK, Tables
  <2>2. Facts!Cardinality(Nodes) = 1
    BY DEF Facts!Cardinality, Cardinality
  <2> QED BY <2>1, <2>2 DEF Facts!MarkedWithTrace
<1> QED BY <1>1, <1>2, IndexerSpec, RetentionTypes, PTL

\* The removal, too, leaves the pointer where it is or further, unless a loop was started
\* on block 0.
THEOREM MonotoneBesideRemoval == RSpec => PointerMonotone
<1>1. Facts!Spec => Facts!PointerMonotone
  BY Facts!PointerIsMonotone, BlockSyncAssumption, MaxBatchCountAssumption
     DEF Facts!Main, Main, Facts!IsFiniteSet, IsFiniteSet, Facts!Block, Block, Facts!Tables, Tables
<1>2. RTypeOK /\ [~rogue => pointer' >= pointer]_(Facts!vars) => [~rogue => pointer' >= pointer]_vars
  BY BlockSyncAssumption DEF RTypeOK, TypeOK, Block, Facts!vars, Facts!store
<1> QED BY <1>1, <1>2, IndexerSpec, RetentionTypes, PTL DEF Facts!PointerMonotone, PointerMonotone
=============================================================================
