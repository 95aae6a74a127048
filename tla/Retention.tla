----------------------------- MODULE Retention -----------------------------
(***************************************************************************)
(* The task of PostgresStorage that removes internal transactions, running *)
(* beside the block indexer.  It starts with the process and repeats after *)
(* a day, each time reading the block pointer and then deleting.  A query  *)
(* that fails ends it until the process is started again: its timer is set *)
(* only after the deletion.                                                *)
(***************************************************************************)
EXTENDS BlockSync

CONSTANT Window         \* blockNumber7DayOld: the blocks of seven days

ASSUME RetentionAssumption == Window \in Nat

VARIABLES
    task,       \* where the task is
    cutoff,     \* lastBlockNumber, as the task read it
    pruned      \* history: the blocks whose internal transactions were deleted

taskVars == <<task, cutoff, pruned>>
retentionVars == <<vars, taskVars>>

-----------------------------------------------------------------------------

RInit ==
    /\ Init
    /\ task = "read" /\ cutoff = 0 /\ pruned = {}

\* Bug: the height of the chain is read, not the pointer.
ReadChainHeight ==
    /\ task = "read"
    /\ task' = "delete"
    /\ cutoff' = Max({head[n] : n \in Nodes})
    /\ UNCHANGED <<vars, pruned>>

\* getLatestBlockNumber: the pointer of 'blocks'.
ReadLatest ==
    /\ task = "read"
    /\ task' = "delete"
    /\ cutoff' = pointer
    /\ UNCHANGED <<vars, pruned>>

\* Bug: the transactions go with their internal transactions.
DeleteWithTransactions ==
    /\ task = "delete"
    /\ rows' = [rows EXCEPT !["internal"] = {b \in @ : b >= cutoff},
                            !["transactions"] = {b \in @ : b >= cutoff}]
    /\ pruned' = pruned \cup {b \in rows["internal"] : b < cutoff}
    /\ task' = "sleep" /\ cutoff' = 0
    /\ UNCHANGED <<head, pointer, marked, late, loopVars, history, faults>>

\* removeInternalTransactionsOlder7Days, given lastBlockNumber.
Delete ==
    /\ task = "delete"
    /\ rows' = [rows EXCEPT !["internal"] = {b \in @ : b >= cutoff}]
    /\ pruned' = pruned \cup {b \in rows["internal"] : b < cutoff}
    /\ task' = "sleep" /\ cutoff' = 0
    /\ UNCHANGED <<head, pointer, marked, late, loopVars, history, faults>>

\* The day is over.
Wake ==
    /\ task = "sleep"
    /\ task' = "read"
    /\ UNCHANGED <<vars, cutoff, pruned>>

\* A query of the task fails for good.
TaskFails ==
    /\ task \in {"read", "delete"}
    /\ task' = "dead" /\ cutoff' = 0
    /\ UNCHANGED <<vars, pruned>>

\* The task starts anew with the service.
Restart ==
    /\ Crash
    /\ task' = "read" /\ cutoff' = 0
    /\ UNCHANGED pruned

TaskStep == ReadLatest \/ Delete

RNext ==
    \/ Running /\ UNCHANGED taskVars
    \/ Restart
    \/ TaskStep
    \/ Wake
    \/ TaskFails

RSpec == RInit /\ [][RNext]_retentionVars

RFairSpec == RSpec /\ WF_retentionVars(TaskStep) /\ WF_retentionVars(Wake)

-----------------------------------------------------------------------------
(* Properties *)

\* Types.
RTypeOK ==
    /\ TypeOK
    /\ task \in {"read", "delete", "sleep", "dead"}
    /\ cutoff \in Block /\ pruned \subseteq Block

\* Whatever the task deletes, and whenever, the block indexer behaves as if it
\* had not: with the deleted rows put back, every behaviour is one of BlockSync.
RowsEver == [rows EXCEPT !["internal"] = @ \cup pruned]
Indexer == INSTANCE BlockSync WITH rows <- RowsEver
IndexerUndisturbed == Indexer!Spec

\* The task never deletes a row of a batch that is not committed yet: the
\* pointer it reads stays below the batch of the service's loop.
BatchKept == ~rogue => Served(Main)

\* What the method's name, the constant and the log line say: only internal
\* transactions older than seven days are deleted.
SevenDaysKept == \A b \in pruned : b < pointer - Window

\* What the comment says: old internal transactions are removed every day.
RemovedEveryDay == []<>(task = "delete")

-----------------------------------------------------------------------------
(* The inductive invariant behind BatchKept *)

\* A rogue worker lasts until the service is started again, and with it the task:
\* without one, the pointer has not gone back since the task read it.
KeptInv ==
    /\ RTypeOK
    /\ \A p \in Loops : TodoPlanned(p) /\ GotAbove(p)
    /\ PointerOrder
    /\ ~rogue => cutoff <= pointer
    /\ BatchKept
=============================================================================
