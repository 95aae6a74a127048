----------------------------- MODULE BlockSync -----------------------------
(***************************************************************************)
(* The block indexer of one shard: the loop of BlockIndexer that the       *)
(* service runs (Main), and the loops on one block number that the admin   *)
(* endpoint and the fixMissingBlocks script start beside it (Workers).     *)
(* Each `await' of the loop ends an action.  The RPC nodes behind the      *)
(* shard are external: they follow one chain without forks, each at its    *)
(* own height, and every call may be answered by any of them.              *)
(*                                                                         *)
(* A block's rows in a table stand for one another: a write <<t, b>> is    *)
(* the insertion of all of block b's rows into table t, every one of them  *)
(* an `insert ... on conflict do nothing'.                                 *)
(***************************************************************************)
EXTENDS Integers, FiniteSetsExt, BatchSize

CONSTANTS
    Nodes,          \* the RPC urls of the shard
    Workers,        \* slots for the loops on one block number
    MaxBlock,       \* bound: the height at which the chain stops growing
    BlockRange,     \* blockIndexerBlockRange: blocks in one hmy_getBlocks
    InitialBatch,   \* batchCount the service is configured with
    InitialStart,   \* initialBlockSyncingHeight
    TraceEnabled,   \* isBlocksTraceEnabled
    Content,        \* per table, the blocks that have rows to put there
    AdminBlocks,    \* the block numbers the admin endpoint is asked for
    MaxFaults       \* bound: failures and crashes in one behaviour

Main == "main"
Loops == Workers \cup {Main}
Block == 0..MaxBlock

Tables == {"blocks", "transactions", "staking", "internal", "contracts"}
TraceTables == {"internal", "contracts"}
Writes == Tables \X Block
Phases == {"blocks", "transactions", "staking", "internal"}
Stages == {"idle", "read", "latest", "fetch", "commit"} \cup Phases

ASSUME BlockSyncAssumption ==
    /\ Nodes # {} /\ IsFiniteSet(Nodes)
    /\ Main \notin Workers
    /\ MaxBlock \in Nat /\ MaxFaults \in Nat
    /\ BlockRange \in Nat \ {0}
    /\ InitialBatch \in Nat \ {0}
    /\ InitialStart \in Nat
    /\ TraceEnabled \in BOOLEAN
    /\ Content \in [Tables -> SUBSET Block]
    /\ Content["blocks"] = Block
    /\ Content["contracts"] \subseteq Content["internal"]
    /\ Content["internal"] \subseteq Content["transactions"]
    /\ AdminBlocks \subseteq Block

VARIABLES
    head,       \* the height of each node
    pointer,    \* indexer_state.last_synced_block_number of 'blocks'
    rows,       \* per table, the blocks whose rows it holds
    marked,     \* blocks whose transaction rows were written with their trace at hand
    late,       \* writes of failed batches that are still on their way
    pc,         \* the stage each loop is in
    target,     \* processExactBlock; 0 stands for null too, as it does in the code
    batch,      \* batchCount
    start,      \* startBlock
    latest,     \* latestBlockchainBlock
    pend,       \* the ranges whose answer is awaited
    got,        \* the blocks answered so far
    traced,     \* the blocks of got whose trace was answered
    todo,       \* the writes of the current stage that have not settled
    skipped,    \* history: blocks the pointer passed without an answer holding them
    untraced,   \* history: blocks the pointer passed without their trace
    rogue,      \* history: a worker was started on block 0 since the last crash
    faults      \* bound: failures and crashes so far

store == <<pointer, rows, marked, late>>
batchVars == <<start, latest, pend, got, traced, todo>>
loopVars == <<pc, target, batch, batchVars>>
history == <<skipped, untraced, rogue>>
vars == <<head, store, loopVars, history, faults>>

-----------------------------------------------------------------------------
(* Helpers *)

\* processExactBlock is tested for truth: block 0 is not an exact block.
Exact(p) == target[p] # 0

\* initialStartBlock: a worker on block 0 was created with 0.
InitialStartOf(p) == IF p = Main THEN InitialStart ELSE 0

\* Bugs: one block left out between batches; the block asked for forgotten.
StartBlockOffByOne(p) ==
    IF Exact(p) THEN target[p]
    ELSE IF pointer > 0 THEN pointer + 2
    ELSE InitialStartOf(p)
StartBlockAnyMode(p) == IF pointer > 0 THEN pointer + 1 ELSE InitialStartOf(p)

StartBlock(p) ==
    IF Exact(p) THEN target[p]
    ELSE IF pointer > 0 THEN pointer + 1
    ELSE InitialStartOf(p)

From(p, i) == start[p] + i * BlockRange

\* Bug: a range that ends before its last block.
ToExclusive(p, i) == Lesser(From(p, i) + BlockRange - 2, latest[p])

To(p, i) ==
    LET end == Lesser(From(p, i) + BlockRange - 1, latest[p])
    IN  IF Exact(p) THEN Lesser(end, target[p]) ELSE end

\* The foreign keys of scheme.sql.
Parent(t) == CASE t \in {"transactions", "staking"} -> "blocks"
               [] t \in TraceTables                 -> "transactions"
               [] OTHER                             -> t
HasParent(w) == w[1] = "blocks" \/ w[2] \in rows[Parent(w[1])]

TablesOf(ph) == IF ph = "internal" THEN TraceTables ELSE {ph}

\* What a stage inserts for the blocks g, of which tr were traced.
Planned(ph, g, tr) ==
    {w \in TablesOf(ph) \X g : /\ w[2] \in Content[w[1]]
                               /\ w[1] \in TraceTables => w[2] \in tr}

\* Bugs: internal transactions before the transactions they belong to; staking
\* transactions forgotten.
NextStageTraceFirst(ph) == CASE ph = "blocks"   -> "internal"
                             [] ph = "internal" -> "transactions"
                             [] ph = "transactions" -> "staking"
                             [] OTHER -> "commit"
NextStageNoStaking(ph) == CASE ph = "blocks"       -> "transactions"
                            [] ph = "transactions" -> "internal"
                            [] OTHER               -> "commit"

NextStage(ph) == CASE ph = "blocks"       -> "transactions"
                   [] ph = "transactions" -> "staking"
                   [] ph = "staking"      -> "internal"
                   [] OTHER               -> "commit"

\* addTransactions goes block by block, the other stages start all their
\* blocks at once; contracts of a block follow its internal transactions.
Issued(S, w) ==
    /\ w[1] = "transactions" => \A v \in S : v[1] = "transactions" => w[2] <= v[2]
    /\ w[1] = "contracts" => <<"internal", w[2]>> \notin S

\* Bug: the pointer follows the chain's height instead of the answers.
LastFetchedAtHeight(p) == IF got[p] = {} THEN 0 ELSE latest[p]

LastFetched(p) == Max(got[p] \cup {0})

\* A batch that brought all it asked for is followed at once by another one.
FullBatch(p) ==
    LET syncedTo == Lesser(LastFetched(p), start[p] + BlockRange * batch[p])
    IN  /\ Cardinality(got[p]) >= syncedTo - start[p] + 1
        /\ Cardinality(got[p]) >= BlockRange

\* The blocks fixMissingBlocks finds.
Missing == (0..pointer) \ rows["blocks"]

-----------------------------------------------------------------------------
(* The loops *)

Init ==
    /\ head \in [Nodes -> Block]
    /\ pointer = 0
    /\ rows = [t \in Tables |-> {}]
    /\ marked = {} /\ late = {}
    /\ pc = [p \in Loops |-> IF p = Main THEN "read" ELSE "idle"]
    /\ target = [p \in Loops |-> 0]
    /\ batch = [p \in Loops |-> IF p = Main THEN InitialBatch ELSE 1]
    /\ start = [p \in Loops |-> 0]
    /\ latest = [p \in Loops |-> 0]
    /\ pend = [p \in Loops |-> {}]
    /\ got = [p \in Loops |-> {}]
    /\ traced = [p \in Loops |-> {}]
    /\ todo = [p \in Loops |-> {}]
    /\ skipped = {} /\ untraced = {} /\ rogue = FALSE
    /\ faults = 0

\* The pointer is read, and where the batch starts follows from it.
ReadPointer(p) ==
    /\ pc[p] = "read"
    /\ start' = [start EXCEPT ![p] = StartBlock(p)]
    /\ pc' = [pc EXCEPT ![p] = "latest"]
    /\ UNCHANGED <<head, store, target, batch, latest, pend, got, traced, todo,
                   history, faults>>

\* Node n answers eth_getBlockByNumber('latest'); every range that does not
\* begin above its answer is then asked for.
GetLatest(p, n) ==
    /\ pc[p] = "latest"
    /\ latest' = [latest EXCEPT ![p] = head[n]]
    /\ pend' = [pend EXCEPT ![p] = {i \in 0..(batch[p] - 1) : From(p, i) <= head[n]}]
    /\ pc' = [pc EXCEPT ![p] = "fetch"]
    /\ UNCHANGED <<head, store, target, batch, start, got, traced, todo,
                   history, faults>>

\* Node n answers hmy_getBlocks for range i, with the blocks it has.
AnswerRange(p, i, n) ==
    /\ pc[p] = "fetch"
    /\ i \in pend[p]
    /\ got' = [got EXCEPT ![p] = @ \cup {b \in From(p, i)..To(p, i) : b <= head[n]}]
    /\ pend' = [pend EXCEPT ![p] = @ \ {i}]
    /\ UNCHANGED <<head, store, pc, target, batch, start, latest, traced, todo,
                   history, faults>>

\* Bug: a trace that fails is taken for an empty one.
TraceBlocksLenient(p) ==
    /\ pc[p] = "fetch"
    /\ pend[p] = {}
    /\ \E tr \in SUBSET got[p] :
          /\ traced' = [traced EXCEPT ![p] = tr]
          /\ todo' = [todo EXCEPT ![p] = Planned("blocks", got[p], tr)]
    /\ pc' = [pc EXCEPT ![p] = "blocks"]
    /\ UNCHANGED <<head, store, target, batch, start, latest, pend, got,
                   history, faults>>

\* trace_block of every block, each answered by some node.  A node that does
\* not have the block answers null, which traceBlock takes for no trace.
TraceBlocks(p) ==
    /\ pc[p] = "fetch"
    /\ pend[p] = {}
    /\ \E tr \in SUBSET got[p] :
          /\ IF TraceEnabled
             THEN {b \in got[p] : \A n \in Nodes : b <= head[n]} \subseteq tr
             ELSE tr = {}
          /\ traced' = [traced EXCEPT ![p] = tr]
          /\ todo' = [todo EXCEPT ![p] = Planned("blocks", got[p], tr)]
    /\ pc' = [pc EXCEPT ![p] = "blocks"]
    /\ UNCHANGED <<head, store, target, batch, start, latest, pend, got,
                   history, faults>>

\* One insertion of the current stage is done.
Write(p, w) ==
    /\ pc[p] \in Phases
    /\ w \in todo[p]
    /\ Issued(todo[p], w)
    /\ HasParent(w)
    /\ rows' = [rows EXCEPT ![w[1]] = @ \cup {w[2]}]
    /\ marked' = IF /\ w[1] = "transactions"
                    /\ w[2] \notin rows["transactions"]
                    /\ w[2] \in traced[p]
                 THEN marked \cup {w[2]} ELSE marked
    /\ todo' = [todo EXCEPT ![p] = @ \ {w}]
    /\ UNCHANGED <<head, pointer, late, pc, target, batch, start, latest, pend, got,
                   traced, history, faults>>

\* All insertions of the stage are done.
Advance(p) ==
    /\ pc[p] \in Phases
    /\ todo[p] = {}
    /\ pc' = [pc EXCEPT ![p] = NextStage(pc[p])]
    /\ todo' = [todo EXCEPT ![p] = IF NextStage(pc[p]) \in Phases
                                   THEN Planned(NextStage(pc[p]), got[p], traced[p])
                                   ELSE {}]
    /\ UNCHANGED <<head, store, target, batch, start, latest, pend, got, traced,
                   history, faults>>

\* The locals of a batch do not outlive it.
Forget(p) ==
    /\ start' = [start EXCEPT ![p] = 0]
    /\ latest' = [latest EXCEPT ![p] = 0]
    /\ pend' = [pend EXCEPT ![p] = {}]
    /\ got' = [got EXCEPT ![p] = {}]
    /\ traced' = [traced EXCEPT ![p] = {}]
    /\ todo' = [todo EXCEPT ![p] = {}]

\* Bug: the pointer is set before the loop on one block returns.
FinishExactAfterPointer(p) ==
    /\ pc[p] = "commit"
    /\ Exact(p)
    /\ pointer' = IF LastFetched(p) > 0 THEN LastFetched(p) ELSE pointer
    /\ pc' = [pc EXCEPT ![p] = "idle"]
    /\ target' = [target EXCEPT ![p] = 0]
    /\ batch' = [batch EXCEPT ![p] = 1]
    /\ Forget(p)
    /\ UNCHANGED <<head, rows, marked, late, history, faults>>

\* The end of a batch on one block: the pointer stays where it is.
FinishExact(p) ==
    /\ pc[p] = "commit"
    /\ Exact(p)
    /\ pc' = [pc EXCEPT ![p] = "idle"]
    /\ target' = [target EXCEPT ![p] = 0]
    /\ batch' = [batch EXCEPT ![p] = 1]
    /\ Forget(p)
    /\ UNCHANGED <<head, store, history, faults>>

\* The end of any other batch: the pointer moves to the highest block that was
\* answered, the batch count is adapted (failed requests and the time taken
\* decide whether a full batch grows or shrinks it) and the loop goes on.
Commit(p) ==
    /\ pc[p] = "commit"
    /\ ~Exact(p)
    /\ pointer' = IF LastFetched(p) > 0 THEN LastFetched(p) ELSE pointer
    /\ skipped' = skipped \cup ((start[p]..LastFetched(p)) \ got[p])
    /\ untraced' = untraced \cup (got[p] \ traced[p])
    /\ \E b \in {Increased(batch[p]), Decreased(batch[p])} :
          /\ ~FullBatch(p) => b = Decreased(batch[p])
          /\ batch' = [batch EXCEPT ![p] = b]
    /\ pc' = [pc EXCEPT ![p] = "read"]
    /\ Forget(p)
    /\ UNCHANGED <<head, rows, marked, late, target, rogue, faults>>

\* What is still on its way when an insertion for block b fails. Blocks follow one another
\* in the transactions stage: others of the same block's transactions may still be stored,
\* but a block's rows are stored in a table when all of them are.
Abandoned(p, b) ==
    IF pc[p] = "transactions" THEN {} ELSE {w \in todo[p] : w[2] # b}

\* Bug: the catch clause does not have the loop run again.
FailForGood(p, b) ==
    /\ pc[p] \in Stages \ {"idle"}
    /\ \/ faults < MaxFaults
       \/ \E w \in todo[p] : Issued(todo[p], w) /\ ~HasParent(w)
    /\ faults' = Lesser(faults + 1, MaxFaults)
    /\ late' = late \cup Abandoned(p, b)
    /\ batch' = [batch EXCEPT ![p] = Decreased(batch[p])]
    /\ pc' = [pc EXCEPT ![p] = "idle"]
    /\ Forget(p)
    /\ UNCHANGED <<head, pointer, rows, marked, target, history>>

\* An await throws: the catch clause shrinks the batch and has the loop run again
\* later, in exact mode too.  An insertion without its parent row always throws.
Fail(p, b) ==
    /\ pc[p] \in Stages \ {"idle"}
    /\ \/ faults < MaxFaults
       \/ \E w \in todo[p] : Issued(todo[p], w) /\ ~HasParent(w)
    /\ faults' = Lesser(faults + 1, MaxFaults)
    /\ late' = late \cup Abandoned(p, b)
    /\ batch' = [batch EXCEPT ![p] = Decreased(batch[p])]
    /\ pc' = [pc EXCEPT ![p] = "read"]
    /\ Forget(p)
    /\ UNCHANGED <<head, pointer, rows, marked, target, history>>

\* A write of a failed batch reaches the database after all.
LandLate(w) ==
    /\ w \in late
    /\ Issued(late, w)
    /\ HasParent(w)
    /\ late' = late \ {w}
    /\ rows' = [rows EXCEPT ![w[1]] = @ \cup {w[2]}]
    /\ UNCHANGED <<head, pointer, marked, loopVars, history, faults>>

\* The insertions that are on their way, and whether the transactions of block
\* b travel with their trace.
Flying == {w \in late : Issued(late, w)}
          \cup UNION {{w \in todo[p] : Issued(todo[p], w)} : p \in Loops}
FlyingMarked(b) == \E p \in Loops : <<"transactions", b>> \in todo[p] /\ b \in traced[p]

\* The processes die and the service is started again; of the insertions that
\* were on their way some reach the database.
Crash ==
    /\ faults < MaxFaults
    /\ faults' = faults + 1
    /\ \E landed \in SUBSET {w \in Flying : HasParent(w)} :
          /\ rows' = [t \in Tables |-> rows[t] \cup {b \in Block : <<t, b>> \in landed}]
          /\ marked' = marked \cup {b \in Block : /\ <<"transactions", b>> \in landed
                                                  /\ b \notin rows["transactions"]
                                                  /\ FlyingMarked(b)}
    /\ late' = {}
    /\ pc' = [p \in Loops |-> IF p = Main THEN "read" ELSE "idle"]
    /\ target' = [p \in Loops |-> 0]
    /\ batch' = [p \in Loops |-> IF p = Main THEN InitialBatch ELSE 1]
    /\ start' = [p \in Loops |-> 0]
    /\ latest' = [p \in Loops |-> 0]
    /\ pend' = [p \in Loops |-> {}]
    /\ got' = [p \in Loops |-> {}]
    /\ traced' = [p \in Loops |-> {}]
    /\ todo' = [p \in Loops |-> {}]
    /\ rogue' = FALSE
    /\ UNCHANGED <<head, pointer, skipped, untraced>>

-----------------------------------------------------------------------------
(* Loops on one block number *)

StartWorker(p, b) ==
    /\ p \in Workers
    /\ pc[p] = "idle"
    /\ pc' = [pc EXCEPT ![p] = "read"]
    /\ target' = [target EXCEPT ![p] = b]
    /\ rogue' = (rogue \/ b = 0)
    /\ UNCHANGED <<head, store, batch, batchVars, skipped, untraced, faults>>

\* The admin endpoint's reindexBlock.
Reindex(p, b) == b \in AdminBlocks /\ StartWorker(p, b)

\* fixMissingBlocks starts a loop for each missing block.
FixMissing(p, b) == b \in Missing /\ StartWorker(p, b)

-----------------------------------------------------------------------------
(* The chain *)

Grow(n) ==
    /\ head[n] < MaxBlock
    /\ head' = [head EXCEPT ![n] = @ + 1]
    /\ UNCHANGED <<store, loopVars, history, faults>>

-----------------------------------------------------------------------------

LoopStep(p) ==
    \/ ReadPointer(p)
    \/ \E n \in Nodes : GetLatest(p, n)
    \/ \E i \in pend[p], n \in Nodes : AnswerRange(p, i, n)
    \/ TraceBlocks(p)
    \/ \E w \in todo[p] : Write(p, w)
    \/ Advance(p)
    \/ FinishExact(p)
    \/ Commit(p)

LoopsRun ==
    \/ \E p \in Loops : LoopStep(p)
    \/ \E p \in Loops, b \in Block : Fail(p, b)
    \/ \E w \in late : LandLate(w)
    \/ \E n \in Nodes : Grow(n)

Running ==
    \/ LoopsRun
    \/ \E p \in Workers, b \in Block : Reindex(p, b) \/ FixMissing(p, b)

Next == Running \/ Crash

Spec == Init /\ [][Next]_vars

\* The event loop runs every continuation that is ready, and each node follows
\* the chain to its end.
Fairness ==
    /\ \A p \in Loops : WF_vars(LoopStep(p))
    /\ \A n \in Nodes : WF_vars(Grow(n))

FairSpec == Spec /\ Fairness

\* The operator runs the script again for as long as it finds a block missing. Block 0 is
\* left out: the script goes on after the first batch of a loop on it, but the loop does
\* not end and would keep one of the Workers for good.
RepairNext ==
    \/ LoopsRun
    \/ Crash
    \/ \E p \in Workers, b \in Block \ {0} : FixMissing(p, b)

RepairSpec ==
    /\ Init /\ [][RepairNext]_vars
    /\ Fairness
    /\ \A b \in Block \ {0} : SF_vars(\E p \in Workers : FixMissing(p, b))

-----------------------------------------------------------------------------
(* Properties *)

\* Types; the batch count keeps its bounds whatever the service was given.
TypeOK ==
    /\ head \in [Nodes -> Block]
    /\ pointer \in Block
    /\ rows \in [Tables -> SUBSET Block]
    /\ marked \subseteq Block /\ late \subseteq Writes
    /\ pc \in [Loops -> Stages]
    /\ target \in [Loops -> Block]
    /\ batch \in [Loops -> CountsFrom(InitialBatch)]
    /\ start \in [Loops -> Nat] /\ latest \in [Loops -> Block]
    /\ pend \in [Loops -> SUBSET Nat]
    /\ got \in [Loops -> SUBSET Block] /\ traced \in [Loops -> SUBSET Block]
    /\ todo \in [Loops -> SUBSET Writes]
    /\ skipped \subseteq Block /\ untraced \subseteq Block /\ rogue \in BOOLEAN
    /\ faults \in 0..MaxFaults

\* No insertion is ever sent before the rows its foreign keys name are stored:
\* neither by a batch nor, later, by what a failed batch left behind.
ParentsFirst ==
    /\ \A p \in Loops : \A w \in todo[p] : HasParent(w)
    /\ \A w \in late : HasParent(w)

\* What the tables owe a block: all its rows, but for a block whose number the
\* pointer passed without an answer holding it, and for the rows that come from
\* a trace nobody answered.
Covered(b) ==
    \A t \in Tables :
        b \in Content[t] => \/ b \in rows[t]
                            \/ b \in skipped
                            \/ t \in TraceTables /\ b \in untraced

\* Whatever fails or dies in the middle of a batch, and whichever loops run side
\* by side: every block up to the pointer is stored with all its rows, or was
\* missing from the answers.
\* (Pointer 0 says that nothing was indexed yet, not that block 0 was.)
PrefixCovered == pointer > 0 => \A b \in InitialStart..pointer : Covered(b)

\* The pointer itself names a block that is stored with all its rows, whatever
\* the answers missed.
PointerStored ==
    pointer > 0 => \A t \in Tables :
        pointer \in Content[t] => \/ pointer \in rows[t]
                                  \/ t \in TraceTables /\ pointer \in untraced

\* The pointer does not go back while the service's own loop is the only one
\* that moves it.
PointerMonotone == [][~rogue => pointer' >= pointer]_vars

\* With a single node there is nothing to miss: the height that was read and
\* every later answer come from the same, growing chain.
SingleNodeGapless == Cardinality(Nodes) = 1 => skipped = {} /\ (TraceEnabled => untraced = {})

\* A stored transaction carries the mark of its internal transfers whenever the
\* internal transactions themselves are stored.
MarkedWithTrace ==
    Cardinality(Nodes) = 1 =>
        \A b \in rows["internal"] : b \in rows["transactions"] => b \in marked

\* The pointer reaches the end of the chain and stays there.
HeadReached == <>[](pointer = MaxBlock)

\* Every gap the pointer has left behind is filled when the script is run for
\* long enough, even though the script's loops, too, ask nodes that lag.
GapsRepaired == <>[](Missing = {})

-----------------------------------------------------------------------------
(* The inductive invariant behind PrefixCovered, PointerStored, ParentsFirst *)
(* and PointerMonotone.                                                      *)

\* The tables whose stage comes after ph.
Ahead(ph) == CASE ph = "blocks"       -> Tables \ {"blocks"}
               [] ph = "transactions" -> {"staking"} \cup TraceTables
               [] ph = "staking"      -> TraceTables
               [] OTHER               -> {}

\* Once the blocks of a batch are known, each of their rows is stored, or on
\* its way, or belongs to a later stage.
Served(p) ==
    pc[p] \in Phases \cup {"commit"} =>
        \A t \in Tables, b \in got[p] :
            b \in Content[t] /\ (t \in TraceTables => b \in traced[p]) =>
                b \in rows[t] \/ <<t, b>> \in todo[p] \/ t \in Ahead(pc[p])

TodoPlanned(p) ==
    IF pc[p] \in Phases THEN todo[p] \subseteq Planned(pc[p], got[p], traced[p])
                        ELSE todo[p] = {}

GotAbove(p) ==
    /\ \A b \in got[p] : b >= start[p]
    /\ pc[p] \in {"idle", "read", "latest"} => got[p] = {}

\* The batch of a loop that moves the pointer begins where everything below is
\* covered, even if another loop moved the pointer since.
BelowStart(p) ==
    pc[p] \notin {"idle", "read"} /\ ~Exact(p) =>
        \A b \in InitialStart..(start[p] - 1) : Covered(b)

LoopInv(p) == Served(p) /\ TodoPlanned(p) /\ GotAbove(p) /\ BelowStart(p)

\* Without a rogue worker the service's loop works above the pointer, alone.
PointerOrder ==
    /\ target[Main] = 0
    /\ ~rogue => \A p \in Workers : pc[p] # "idle" => Exact(p)
    /\ ~rogue /\ pc[Main] \notin {"idle", "read"} /\ pointer > 0 => start[Main] > pointer

IndInv ==
    /\ TypeOK
    /\ \A p \in Loops : LoopInv(p)
    /\ \A w \in late : HasParent(w)
    /\ PrefixCovered
    /\ PointerStored
    /\ PointerOrder

-----------------------------------------------------------------------------
(* The inductive invariant behind SingleNodeGapless and MarkedWithTrace, for *)
(* the one node n.                                                           *)

Known == {"fetch", "commit"} \cup Phases

\* The ranges that were asked for reach beyond block b.
Within(p, b) == \E i \in 0..(batch[p] - 1) : b < From(p, i) + BlockRange

\* The node has what it reported; a block of a batch was answered or belongs to a
\* range that is awaited; every answered block was traced.
OneNodeLoop(p, n) ==
    /\ pc[p] \in Known => latest[p] <= head[n]
    /\ \A b \in got[p] : b <= latest[p] /\ Within(p, b)
    /\ pend[p] \subseteq 0..(batch[p] - 1)
    /\ pc[p] # "fetch" => pend[p] = {}
    /\ pc[p] \in Known /\ ~Exact(p) =>
          \A b \in start[p]..latest[p] :
              Within(p, b) => b \in got[p] \/ \E i \in pend[p] : b \in From(p, i)..To(p, i)
    /\ pc[p] \in Known \ {"fetch"} => traced[p] = IF TraceEnabled THEN got[p] ELSE {}

\* Transactions are written by a running batch only, never late.
MarksKept ==
    /\ \A w \in late : w[1] # "transactions"
    /\ IF TraceEnabled
       THEN rows["transactions"] \subseteq marked
       ELSE rows["internal"] = {} /\ \A w \in late : w[1] # "internal"

OneNodeInv(n) ==
    /\ \A p \in Loops : OneNodeLoop(p, n)
    /\ skipped = {} /\ (TraceEnabled => untraced = {})
    /\ MarksKept
=============================================================================
