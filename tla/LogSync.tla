------------------------------ MODULE LogSync ------------------------------
(***************************************************************************)
(* The log indexer of one shard: the loop of LogIndexer that the service   *)
(* runs (Main), and the loops on one block number the admin endpoint       *)
(* starts beside it (Workers).  It repeats the loop of the block indexer   *)
(* with three differences: every range is written as soon as it is         *)
(* answered, the pointer follows the chain height that was read and not    *)
(* the answers, and eth_getLogs does not tell which blocks it looked at.   *)
(* The RPC nodes are external, as in BlockSync.                            *)
(***************************************************************************)
EXTENDS Integers, FiniteSets, BatchSize

CONSTANTS
    Nodes,          \* the RPC urls of the shard
    Workers,        \* slots for the loops on one block number
    MaxBlock,       \* bound: the height at which the chain stops growing
    BlockRange,     \* blockRange: blocks in one eth_getLogs
    InitialBatch,   \* defaultBatchCount
    InitialPointer, \* initialLogsSyncingHeight, with which the pointer is created
    WithLogs,       \* the blocks that have logs
    AdminBlocks,    \* the block numbers the admin endpoint is asked for
    MaxFaults       \* bound: failures and crashes in one behaviour

Main == "main"
Loops == Workers \cup {Main}
Block == 0..MaxBlock

ASSUME LogSyncAssumption ==
    /\ Nodes # {} /\ IsFiniteSet(Nodes)
    /\ Main \notin Workers
    /\ MaxBlock \in Nat /\ MaxFaults \in Nat
    /\ BlockRange \in Nat \ {0}
    /\ InitialBatch \in Nat \ {0}
    /\ InitialPointer \in Nat
    /\ WithLogs \subseteq Block
    /\ AdminBlocks \subseteq Block

VARIABLES
    head,       \* the height of each node
    pointer,    \* indexer_state.last_synced_block_number of 'logs'
    stored,     \* the blocks whose logs are in the table
    late,       \* blocks whose logs ranges of failed batches may still store
    pc,         \* the stage each loop is in
    target,     \* processExactBlock; 0 stands for null too, as it does in the code
    batch,      \* batchCount
    start,      \* startBlock
    latest,     \* latestBlockchainBlock
    pend,       \* the ranges whose answer is awaited
    got,        \* the blocks some answer has covered
    todo,       \* the answered blocks whose logs are being stored
    missed,     \* history: blocks the pointer passed whose range a lagging node answered
    unasked,    \* history: blocks the pointer passed that no range contained
    rogue,      \* history: a worker was started on block 0 since the last crash
    faults      \* bound: failures and crashes so far

store == <<pointer, stored, late>>
batchVars == <<start, latest, pend, got, todo>>
loopVars == <<pc, target, batch, batchVars>>
history == <<missed, unasked, rogue>>
vars == <<head, store, loopVars, history, faults>>

-----------------------------------------------------------------------------
(* Helpers *)

Exact(p) == target[p] # 0

\* Bug: every batch from the beginning.
StartBlockFromScratch(p) == IF Exact(p) THEN target[p] ELSE 0

\* initialStartBlock is 0 for every LogIndexer whose loop reads the pointer.
StartBlock(p) ==
    IF Exact(p) THEN target[p] ELSE IF pointer > 0 THEN pointer + 1 ELSE 0

From(p, i) == start[p] + i * BlockRange

\* Bug: a range that ends before its last block.
ToExclusive(p, i) == Lesser(From(p, i) + BlockRange - 2, latest[p])

To(p, i) ==
    LET end == Lesser(From(p, i) + BlockRange - 1, latest[p])
    IN  IF Exact(p) THEN Lesser(end, target[p]) ELSE end

\* The ranges of a batch that begin where the chain has blocks.
Ranges(p, height) == {i \in 0..(batch[p] - 1) : From(p, i) <= height}
Asked(p) == UNION {From(p, i)..To(p, i) : i \in Ranges(p, latest[p])}

\* Bug: two blocks are left out after a full batch.
SyncedToTwoMore(p) == Lesser(latest[p], start[p] + BlockRange * batch[p] + 1)

\* The last range of a batch ends one block below start + range * count.
SyncedTo(p) == Lesser(latest[p], start[p] + BlockRange * batch[p])

-----------------------------------------------------------------------------
(* The loops *)

Init ==
    /\ head \in [Nodes -> Block]
    /\ pointer = InitialPointer
    /\ stored = {} /\ late = {}
    /\ pc = [p \in Loops |-> IF p = Main THEN "read" ELSE "idle"]
    /\ target = [p \in Loops |-> 0]
    /\ batch = [p \in Loops |-> IF p = Main THEN InitialBatch ELSE 1]
    /\ start = [p \in Loops |-> 0]
    /\ latest = [p \in Loops |-> 0]
    /\ pend = [p \in Loops |-> {}]
    /\ got = [p \in Loops |-> {}]
    /\ todo = [p \in Loops |-> {}]
    /\ missed = {} /\ unasked = {} /\ rogue = FALSE
    /\ faults = 0

ReadPointer(p) ==
    /\ pc[p] = "read"
    /\ start' = [start EXCEPT ![p] = StartBlock(p)]
    /\ pc' = [pc EXCEPT ![p] = "latest"]
    /\ UNCHANGED <<head, store, target, batch, latest, pend, got, todo, history, faults>>

\* Node n answers eth_getBlockByNumber('latest').
GetLatest(p, n) ==
    /\ pc[p] = "latest"
    /\ latest' = [latest EXCEPT ![p] = head[n]]
    /\ pend' = [pend EXCEPT ![p] = Ranges(p, head[n])]
    /\ pc' = [pc EXCEPT ![p] = "fetch"]
    /\ UNCHANGED <<head, store, target, batch, start, got, todo, history, faults>>

\* Node n answers eth_getLogs for range i with the logs of the blocks it has,
\* and their insertion begins.
AnswerRange(p, i, n) ==
    /\ pc[p] = "fetch"
    /\ i \in pend[p]
    /\ LET answered == {b \in From(p, i)..To(p, i) : b <= head[n]}
       IN  /\ got' = [got EXCEPT ![p] = @ \cup answered]
           /\ todo' = [todo EXCEPT ![p] = @ \cup (answered \cap WithLogs)]
    /\ pend' = [pend EXCEPT ![p] = @ \ {i}]
    /\ UNCHANGED <<head, store, pc, target, batch, start, latest, history, faults>>

\* Bug: the pointer is set before the insertions are done.
WriteUnawaited(p, b) ==
    /\ pc[p] = "fetch"
    /\ b \in todo[p]
    /\ todo' = [todo EXCEPT ![p] = @ \ {b}]
    /\ late' = late \cup {b}
    /\ UNCHANGED <<head, pointer, stored, pc, target, batch, start, latest, pend, got,
                   history, faults>>

\* The logs of block b are inserted.
Write(p, b) ==
    /\ pc[p] = "fetch"
    /\ b \in todo[p]
    /\ stored' = stored \cup {b}
    /\ todo' = [todo EXCEPT ![p] = @ \ {b}]
    /\ UNCHANGED <<head, pointer, late, pc, target, batch, start, latest, pend, got,
                   history, faults>>

Forget(p) ==
    /\ start' = [start EXCEPT ![p] = 0]
    /\ latest' = [latest EXCEPT ![p] = 0]
    /\ pend' = [pend EXCEPT ![p] = {}]
    /\ got' = [got EXCEPT ![p] = {}]
    /\ todo' = [todo EXCEPT ![p] = {}]

\* Every range is answered and stored.
Settled(p) == pc[p] = "fetch" /\ pend[p] = {} /\ todo[p] = {}

FinishExact(p) ==
    /\ Settled(p)
    /\ Exact(p)
    /\ pc' = [pc EXCEPT ![p] = "idle"]
    /\ target' = [target EXCEPT ![p] = 0]
    /\ batch' = [batch EXCEPT ![p] = 1]
    /\ Forget(p)
    /\ UNCHANGED <<head, store, history, faults>>

\* The pointer is set, backwards too; a batch whose ranges were all asked grows
\* (or shrinks when requests failed), any other shrinks.
Commit(p) ==
    /\ Settled(p)
    /\ ~Exact(p)
    /\ pointer' = SyncedTo(p)
    /\ missed' = missed \cup (Asked(p) \ got[p])
    /\ unasked' = unasked \cup ((start[p]..SyncedTo(p)) \ Asked(p))
    /\ \E b \in {Increased(batch[p]), Decreased(batch[p])} :
          /\ Ranges(p, latest[p]) # 0..(batch[p] - 1) => b = Decreased(batch[p])
          /\ batch' = [batch EXCEPT ![p] = b]
    /\ pc' = [pc EXCEPT ![p] = "read"]
    /\ Forget(p)
    /\ UNCHANGED <<head, stored, late, target, rogue, faults>>

\* What the ranges of loop p would still store.
Outstanding(p) ==
    todo[p] \cup (WithLogs \cap UNION {From(p, i)..To(p, i) : i \in pend[p]})

\* An await throws, in exact mode too; when it was the insertion of block b's
\* logs these are lost, and the other ranges go on by themselves.
Fail(p, b) ==
    /\ pc[p] # "idle"
    /\ faults < MaxFaults
    /\ faults' = faults + 1
    /\ late' = late \cup (Outstanding(p) \ {b})
    /\ batch' = [batch EXCEPT ![p] = Decreased(batch[p])]
    /\ pc' = [pc EXCEPT ![p] = "read"]
    /\ Forget(p)
    /\ UNCHANGED <<head, pointer, stored, target, history>>

\* A range of a failed batch stores block b's logs after all.
LandLate(b) ==
    /\ b \in late
    /\ \E n \in Nodes : b <= head[n]
    /\ late' = late \ {b}
    /\ stored' = stored \cup {b}
    /\ UNCHANGED <<head, pointer, loopVars, history, faults>>

\* The process dies and is started again; of the insertions that were on their
\* way some reach the database.
Crash ==
    /\ faults < MaxFaults
    /\ faults' = faults + 1
    /\ \E landed \in SUBSET UNION {todo[p] : p \in Loops} : stored' = stored \cup landed
    /\ late' = {}
    /\ pc' = [p \in Loops |-> IF p = Main THEN "read" ELSE "idle"]
    /\ target' = [p \in Loops |-> 0]
    /\ batch' = [p \in Loops |-> IF p = Main THEN InitialBatch ELSE 1]
    /\ start' = [p \in Loops |-> 0]
    /\ latest' = [p \in Loops |-> 0]
    /\ pend' = [p \in Loops |-> {}]
    /\ got' = [p \in Loops |-> {}]
    /\ todo' = [p \in Loops |-> {}]
    /\ rogue' = FALSE
    /\ UNCHANGED <<head, pointer, missed, unasked>>

\* The admin endpoint's reindexBlock.
Reindex(p, b) ==
    /\ p \in Workers
    /\ pc[p] = "idle"
    /\ b \in AdminBlocks
    /\ pc' = [pc EXCEPT ![p] = "read"]
    /\ target' = [target EXCEPT ![p] = b]
    /\ rogue' = (rogue \/ b = 0)
    /\ UNCHANGED <<head, store, batch, batchVars, missed, unasked, faults>>

Grow(n) ==
    /\ head[n] < MaxBlock
    /\ head' = [head EXCEPT ![n] = @ + 1]
    /\ UNCHANGED <<store, loopVars, history, faults>>

-----------------------------------------------------------------------------

LoopStep(p) ==
    \/ ReadPointer(p)
    \/ \E n \in Nodes : GetLatest(p, n)
    \/ \E i \in pend[p], n \in Nodes : AnswerRange(p, i, n)
    \/ \E b \in todo[p] : Write(p, b)
    \/ FinishExact(p)
    \/ Commit(p)

Next ==
    \/ \E p \in Loops : LoopStep(p)
    \/ \E p \in Loops, b \in Block : Fail(p, b)
    \/ \E b \in late : LandLate(b)
    \/ Crash
    \/ \E p \in Workers, b \in Block : Reindex(p, b)
    \/ \E n \in Nodes : Grow(n)

Spec == Init /\ [][Next]_vars

\* As in BlockSync.
Fairness ==
    /\ \A p \in Loops : WF_vars(LoopStep(p))
    /\ \A n \in Nodes : WF_vars(Grow(n))

FairSpec == Spec /\ Fairness

-----------------------------------------------------------------------------
(* Properties *)

\* Types; the batch count keeps its bounds, and the pointer never leaves the
\* chain again once it has reached it.
TypeOK ==
    /\ head \in [Nodes -> Block]
    /\ pointer \in Block \cup {InitialPointer}
    /\ stored \subseteq WithLogs /\ late \subseteq WithLogs
    /\ pc \in [Loops -> {"idle", "read", "latest", "fetch"}]
    /\ target \in [Loops -> Block]
    /\ batch \in [Loops -> CountsFrom(InitialBatch)]
    /\ start \in [Loops -> Nat] /\ latest \in [Loops -> Block]
    /\ pend \in [Loops -> SUBSET Nat]
    /\ got \in [Loops -> SUBSET Block] /\ todo \in [Loops -> SUBSET WithLogs]
    /\ missed \subseteq Block /\ unasked \subseteq Block /\ rogue \in BOOLEAN
    /\ faults \in 0..MaxFaults

FirstBlock == IF InitialPointer = 0 THEN 0 ELSE InitialPointer + 1

\* What the table owes a block: its logs, unless the pointer passed it with an
\* answer that did not reach it, or without asking for it at all.
Covered(b) == b \in WithLogs => b \in stored \cup missed \cup unasked

\* Whatever fails, dies or runs side by side, and however often the pointer
\* goes back and forth: every block up to the pointer has its logs stored, or
\* was missing from an answer, or was never asked for.
LogsCovered == pointer > 0 => \A b \in FirstBlock..pointer : Covered(b)

\* A batch leaves at most one block unasked: the one its ranges end before.
SkipsOneBlock == [][Cardinality(unasked' \ unasked) <= 1]_vars

\* The pointer goes back only to a height that a node reported, never because
\* of where a batch ends.
BackOnlyWithTheNode ==
    [][~rogue /\ pointer' < pointer => pointer' = latest[Main]]_vars

\* The pointer reaches the end of the chain and stays there.
HeadReached == <>[](pointer = MaxBlock)

\* What the log line of a batch says, `Processed [start,synced]': with a single
\* node, no failure and no other loop, the logs of all blocks from the first one
\* to the pointer are stored.
ProcessedIsStored ==
    Cardinality(Nodes) = 1 /\ faults = 0 /\ pointer > 0 =>
        \A b \in (FirstBlock..pointer) \cap WithLogs : b \in stored

-----------------------------------------------------------------------------
(* The inductive invariant behind LogsCovered and BackOnlyWithTheNode. *)

\* The logs of every answered block are stored or on their way.
Served(p) ==
    IF pc[p] = "fetch" THEN got[p] \cap WithLogs \subseteq stored \cup todo[p]
                       ELSE got[p] = {} /\ todo[p] = {}

\* The batch of a loop that moves the pointer begins where everything below is
\* covered, wherever the pointer is by now.
BelowStart(p) ==
    pc[p] \notin {"idle", "read"} /\ ~Exact(p) =>
        \A b \in FirstBlock..(start[p] - 1) : Covered(b)

LoopInv(p) == Served(p) /\ BelowStart(p)

\* Without a rogue worker the pointer stays where the service's loop read it.
PointerOrder ==
    /\ target[Main] = 0
    /\ ~rogue => \A p \in Workers : pc[p] # "idle" => Exact(p)
    /\ ~rogue /\ pc[Main] \notin {"idle", "read"} /\ pointer > 0 => start[Main] = pointer + 1

IndInv ==
    /\ TypeOK
    /\ \A p \in Loops : LoopInv(p)
    /\ LogsCovered
    /\ PointerOrder
=============================================================================
