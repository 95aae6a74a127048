---------------------------- MODULE ContractSync ----------------------------
(***************************************************************************)
(* ContractIndexer for one type of token contract: it follows the block    *)
(* and the log indexer at a distance of Threshold blocks, registers the    *)
(* token contracts of a range of blocks, marks every holding a transfer    *)
(* of the range touches (need_update), and brings the marked holdings and  *)
(* the totals of their tokens up to date with calls to a node.             *)
(*                                                                         *)
(* A holding is <<token, id, owner>>: the balance of an owner, or, with    *)
(* owner Nobody, the asset itself.  What a call returned is told by the    *)
(* height of the node that answered.  The loop has no catch clause: an     *)
(* await that throws ends it.  Deployed and Transfers are what the tables  *)
(* `contracts' and `logs' hold; what the other indexers missed is not in   *)
(* them.                                                                   *)
(***************************************************************************)
EXTENDS Integers, FiniteSets

CONSTANTS
    Tokens,         \* the contracts with all signatures of the type
    Owners,         \* the addresses other than zeroAddress
    Ids,            \* the ids of assets
    MaxBlock,       \* bound: the height at which the chain stops growing
    Deployed,       \* the block of each token's deployment
    Transfers,      \* the Transfer (TransferSingle) events of the chain that decode
    BlocksRange,    \* blocksRange: blocks in one batch
    Threshold,      \* blocksThreshold: blocks left to the other indexers
    MaxLag,         \* by how many blocks a node that answers may lag
    InitialHeight,  \* initialBlockSyncingHeight
    MaxFaults       \* bound: failures and crashes in one behaviour

Block == 0..MaxBlock
Zero == "zeroAddress"
Nobody == "nobody"
Fungible == "fungible"
Types == {"erc20", "erc721", "erc1155"}
Holdings == Tokens \X (Ids \cup {Fungible}) \X (Owners \cup {Nobody})

ASSUME ContractSyncAssumption ==
    /\ MaxBlock \in Nat /\ MaxFaults \in Nat
    /\ IsFiniteSet(Tokens)
    /\ Zero \notin Owners /\ Nobody \notin Owners
    /\ Deployed \in [Tokens -> Block]
    /\ Transfers \subseteq [block : Block, token : Tokens, id : Ids,
                            from : Owners \cup {Zero}, to : Owners \cup {Zero}]
    /\ \A tr \in Transfers : Deployed[tr.token] <= tr.block
    /\ BlocksRange \in Nat \ {0}
    /\ Threshold \in Nat /\ MaxLag \in 0..Threshold
    /\ InitialHeight \in Nat

VARIABLES
    tip,        \* the height of the chain
    indexed,    \* the lower of the block and the log pointer
    type,       \* contractType
    pointer,    \* indexer_state.last_synced_block_number of '<type>_contracts'
    registered, \* the tokens in the table of the type
    flagged,    \* the holdings with need_update
    asOf,       \* the height as of which each holding is stored, 0 for never
    pc,         \* the stage of the loop
    upto,       \* blockTo
    todo,       \* contracts to add, or holdings to mark
    cache,      \* contractsCache
    touched,    \* tokensForUpdate
    refused,    \* history: tokens whose registration failed
    givenUp,    \* history: holdings unmarked without an answer
    outdated,   \* history: tokens with holdings newer than their totals
    unfinished, \* history: the tokens of outdated whose update a crash cut off
    faults      \* bound: failures and crashes so far

chain == <<tip, indexed>>
store == <<pointer, registered, flagged, asOf>>
locals == <<upto, todo, cache, touched>>
history == <<refused, givenUp, outdated, unfinished>>
vars == <<chain, type, store, pc, locals, history, faults>>

-----------------------------------------------------------------------------
(* Helpers *)

\* Bugs: a block left out between batches; no distance to the other indexers.
BlockFromOffByOne == (IF pointer > 0 THEN pointer ELSE InitialHeight) + 2
BlocksHeightLimitAtIndexed == indexed

BlockFrom == (IF pointer > 0 THEN pointer ELSE InitialHeight) + 1
BlocksHeightLimit == indexed - Threshold

\* Bug: a batch is never cut short.
BlockToUncut == BlockFrom + BlocksRange - 1

BlockTo ==
    LET end == BlockFrom + BlocksRange - 1
    IN  IF end <= BlocksHeightLimit THEN end ELSE BlocksHeightLimit

\* The holdings a transfer touches: none for one from nobody to nobody.
AssetsOf(tr) ==
    IF type = "erc20" \/ {tr.from, tr.to} = {Zero} THEN {} ELSE {<<tr.token, tr.id, Nobody>>}
BalancesOf(tr) ==
    CASE type = "erc20"   -> {<<tr.token, Fungible, o>> : o \in {tr.from, tr.to} \ {Zero}}
      [] type = "erc721"  -> {}
      [] type = "erc1155" -> {<<tr.token, tr.id, o>> : o \in {tr.from, tr.to} \ {Zero}}
Touched(tr) == AssetsOf(tr) \cup BalancesOf(tr)

IsAsset(i) == i[3] = Nobody

\* erc1155 contracts are never given their totals.
HasTotals == type # "erc1155"

\* Bug: the events of contracts that are not registered are not left out.
EventsUnfiltered(known) ==
    UNION {Touched(tr) : tr \in {t \in Transfers : t.block \in BlockFrom..upto}}

\* The holdings parseEvents marks, given the contract addresses.
Events(known) ==
    UNION {Touched(tr) : tr \in {t \in Transfers : /\ t.block \in BlockFrom..upto
                                                   /\ t.token \in known}}

\* The heights at which a call may be answered.
Answers == {h \in Block : tip - MaxLag <= h /\ h <= tip}

-----------------------------------------------------------------------------
(* The loop *)

Init ==
    /\ tip = 0 /\ indexed = 0
    /\ type \in Types
    /\ pointer = 0 /\ registered = {} /\ flagged = {}
    /\ asOf = [i \in Holdings |-> 0]
    /\ pc = "read"
    /\ upto = 0 /\ todo = {} /\ cache = {} /\ touched = {}
    /\ refused = {} /\ givenUp = {} /\ outdated = {} /\ unfinished = {}
    /\ faults = 0

\* The heights are read; when the range is not empty, so are its contracts.
ReadHeights ==
    /\ pc = "read"
    /\ BlockFrom <= BlockTo
    /\ upto' = BlockTo
    /\ todo' = {t \in Tokens : Deployed[t] \in BlockFrom..BlockTo}
    /\ pc' = "contracts"
    /\ UNCHANGED <<chain, type, store, cache, touched, history, faults>>

\* Nothing to do for ten seconds.
Wait ==
    /\ pc = "read"
    /\ BlockTo < BlockFrom
    /\ UNCHANGED vars

\* The contract answers for its name and symbol and is registered.
AddContract(t) ==
    /\ pc = "contracts"
    /\ t \in todo
    /\ registered' = registered \cup {t}
    /\ todo' = todo \ {t}
    /\ UNCHANGED <<chain, type, pointer, flagged, asOf, pc, upto, cache, touched,
                   history, faults>>

\* A call or the insertion fails: the contract is passed over.
RefuseContract(t) ==
    /\ pc = "contracts"
    /\ t \in todo
    /\ faults < MaxFaults
    /\ faults' = faults + 1
    /\ refused' = refused \cup {t}
    /\ todo' = todo \ {t}
    /\ UNCHANGED <<chain, type, store, pc, upto, cache, touched, givenUp, outdated,
                   unfinished>>

\* Bug: the cache is filled once.
CountsDifferOnce == cache = {} /\ registered # {}

\* The addresses are read again when their number has changed.
CountsDiffer == Cardinality(registered) # Cardinality(cache)

RefreshCache ==
    /\ pc = "contracts"
    /\ todo = {}
    /\ cache' = IF CountsDiffer THEN registered ELSE cache
    /\ todo' = Events(cache')
    /\ pc' = "events"
    /\ UNCHANGED <<chain, type, store, upto, touched, history, faults>>

\* One touched holding is marked.  Marking a balance of an erc1155 asset marks
\* the balances above zero of every asset with that id, of all tokens.
Mark(i) ==
    /\ pc = "events"
    /\ i \in todo
    /\ \E more \in SUBSET {j \in Holdings : /\ type = "erc1155" /\ ~IsAsset(i) /\ ~IsAsset(j)
                                            /\ j[2] = i[2] /\ asOf[j] > 0} :
          flagged' = flagged \cup {i} \cup more
    /\ todo' = todo \ {i}
    /\ UNCHANGED <<chain, type, pointer, registered, asOf, pc, upto, cache, touched,
                   history, faults>>

MarkedAll ==
    /\ pc = "events"
    /\ todo = {}
    /\ pc' = "update"
    /\ UNCHANGED <<chain, type, store, locals, history, faults>>

\* Assets come first.
Due(i) == i \in flagged /\ (IsAsset(i) \/ \A j \in flagged : ~IsAsset(j))

\* Bug: the mark stays.
UpdateKeepsMark(i, h) ==
    /\ pc = "update"
    /\ Due(i)
    /\ asOf' = [asOf EXCEPT ![i] = h]
    /\ touched' = IF HasTotals THEN touched \cup {i[1]} ELSE touched
    /\ outdated' = IF HasTotals THEN outdated \cup {i[1]} ELSE outdated
    /\ UNCHANGED <<chain, type, pointer, registered, flagged, pc, upto, todo, cache,
                   refused, givenUp, unfinished, faults>>

\* A node of height h answers for holding i (ownerOf, balanceOf,
\* balanceOfBatch, uri), and the answer is stored.
Update(i, h) ==
    /\ pc = "update"
    /\ Due(i)
    /\ asOf' = [asOf EXCEPT ![i] = h]
    /\ flagged' = flagged \ {i}
    /\ touched' = IF HasTotals THEN touched \cup {i[1]} ELSE touched
    /\ givenUp' = givenUp \ {i}
    /\ outdated' = IF HasTotals THEN outdated \cup {i[1]} ELSE outdated
    /\ UNCHANGED <<chain, type, pointer, registered, pc, upto, todo, cache, refused,
                   unfinished, faults>>

\* An erc1155 asset that has its metadata is not asked for again.
KeepMetadata(i) ==
    /\ pc = "update"
    /\ type = "erc1155" /\ IsAsset(i) /\ Due(i) /\ asOf[i] > 0
    /\ flagged' = flagged \ {i}
    /\ UNCHANGED <<chain, type, pointer, registered, asOf, pc, locals, history, faults>>

\* A call for an erc721 asset fails, for whatever reason: the mark is cleared.
GiveUp(i) ==
    /\ pc = "update"
    /\ type = "erc721" /\ Due(i)
    /\ faults < MaxFaults
    /\ faults' = faults + 1
    /\ flagged' = flagged \ {i}
    /\ touched' = IF HasTotals THEN touched \cup {i[1]} ELSE touched
    /\ givenUp' = givenUp \cup {i}
    /\ UNCHANGED <<chain, type, pointer, registered, asOf, pc, upto, todo, cache, refused,
                   outdated, unfinished>>

UpdatedAll ==
    /\ pc = "update"
    /\ flagged = {}
    /\ pc' = "totals"
    /\ UNCHANGED <<chain, type, store, locals, history, faults>>

\* The holders of a token are counted and its total supply is asked for.
UpdateToken(t) ==
    /\ pc = "totals"
    /\ t \in touched
    /\ touched' = touched \ {t}
    /\ outdated' = outdated \ {t}
    /\ unfinished' = unfinished \ {t}
    /\ UNCHANGED <<chain, type, store, pc, upto, todo, cache, refused, givenUp, faults>>

\* Bug: the pointer is set before the totals are.
TotalsDoneAnyway == flagged = {}

TotalsDone == touched = {}

Commit ==
    /\ pc = "totals"
    /\ TotalsDone
    /\ pointer' = upto
    /\ pc' = "read"
    /\ upto' = 0 /\ touched' = {}
    /\ UNCHANGED <<chain, type, registered, flagged, asOf, todo, cache, history, faults>>

\* An await outside addContract and the erc721 calls throws: the loop ends.
Die ==
    /\ pc # "dead"
    /\ faults < MaxFaults
    /\ faults' = faults + 1
    /\ pc' = "dead"
    /\ UNCHANGED <<chain, type, store, locals, history>>

\* The process is started again, after the loop or the whole process died.
Restart ==
    /\ pc = "dead"
    /\ pc' = "read"
    /\ upto' = 0 /\ todo' = {} /\ cache' = {} /\ touched' = {}
    /\ unfinished' = unfinished \cup outdated
    /\ UNCHANGED <<chain, type, store, refused, givenUp, outdated, faults>>

-----------------------------------------------------------------------------
(* The chain and the other indexers *)

Grow ==
    /\ tip < MaxBlock
    /\ tip' = tip + 1
    /\ UNCHANGED <<indexed, type, store, pc, locals, history, faults>>

IndexersAdvance ==
    /\ indexed < tip
    /\ indexed' = indexed + 1
    /\ UNCHANGED <<tip, type, store, pc, locals, history, faults>>

\* The log pointer goes back to the height of a node that lags.
LogPointerBack ==
    /\ faults < MaxFaults
    /\ indexed > 0
    /\ faults' = faults + 1
    /\ \E h \in 0..(indexed - 1) : indexed' = h
    /\ UNCHANGED <<tip, type, store, pc, locals, history>>

-----------------------------------------------------------------------------

LoopStep ==
    \/ ReadHeights
    \/ Wait
    \/ \E t \in todo : AddContract(t)
    \/ RefreshCache
    \/ \E i \in todo : Mark(i)
    \/ MarkedAll
    \/ \E i \in flagged, h \in Answers : Update(i, h)
    \/ \E i \in flagged : KeepMetadata(i)
    \/ UpdatedAll
    \/ \E t \in touched : UpdateToken(t)
    \/ Commit

Next ==
    \/ LoopStep
    \/ \E t \in todo : RefuseContract(t)
    \/ \E i \in flagged : GiveUp(i)
    \/ Die
    \/ Restart
    \/ Grow
    \/ IndexersAdvance
    \/ LogPointerBack

Spec == Init /\ [][Next]_vars

\* The event loop runs the next step, and the chain and the other indexers go
\* on.  Nothing starts the loop again once it has died.
FairSpec ==
    /\ Spec
    /\ WF_vars(LoopStep) /\ WF_vars(Grow) /\ WF_vars(IndexersAdvance)

-----------------------------------------------------------------------------
(* Properties *)

\* Types.
TypeOK ==
    /\ tip \in Block /\ indexed \in 0..tip /\ type \in Types
    /\ pointer \in Block /\ registered \subseteq Tokens
    /\ flagged \subseteq Holdings /\ asOf \in [Holdings -> Block]
    /\ pc \in {"read", "contracts", "events", "update", "totals", "dead"}
    /\ upto \in Block
    /\ todo \subseteq IF pc = "contracts" THEN Tokens
                      ELSE IF pc = "dead" THEN Tokens \cup Holdings ELSE Holdings
    /\ cache \subseteq Tokens /\ touched \subseteq Tokens
    /\ refused \subseteq Tokens /\ givenUp \subseteq Holdings
    /\ outdated \subseteq Tokens /\ unfinished \subseteq Tokens
    /\ faults \in 0..MaxFaults

Behind == (InitialHeight + 1)..pointer

\* What is stored of a holding reflects a transfer at block b.
Reflects(i, b) == asOf[i] >= b \/ i \in givenUp

\* The holdings that change hands; an erc1155 asset stands for its metadata only.
Owned(tr) == IF type = "erc1155" THEN BalancesOf(tr) ELSE Touched(tr)

\* Whatever node answers, whatever dies in between: every holding a transfer
\* below the pointer touched is stored as of that transfer or later, or its
\* update was given up.  It is the distance of Threshold blocks that makes the
\* answer of a node that lags good enough.
HoldingsFresh ==
    \A tr \in Transfers : tr.block \in Behind /\ tr.token \in registered =>
        \A i \in Owned(tr) : Reflects(i, tr.block)

\* Every token below the pointer is registered, or failed to answer on the only
\* occasion it is asked.
TokensRegistered ==
    \A t \in Tokens : Deployed[t] \in Behind => t \in registered \cup refused

\* No holding is marked whose token the foreign key would not find.
MarkedAreRegistered == \A i \in flagged : i[1] \in registered

\* Between two batches the totals of a token follow its holdings, unless the
\* loop died after the holdings and before the totals: the set of tokens to
\* count is only in memory.
TotalsFollow == pc = "read" => outdated \subseteq unfinished

\* The loop does not get stuck in a batch: it catches up with the other
\* indexers, or an await has ended it.
CatchesUp == <>[](pc = "dead") \/ <>[](pointer + Threshold = MaxBlock)

-----------------------------------------------------------------------------
(* The inductive invariant behind the four safety properties. *)

Active == pc \in {"contracts", "events", "update", "totals"}

\* The batch begins above the pointer and, like the pointer, ends Threshold
\* blocks below a height the chain has reached.
BatchBelowTip ==
    /\ pointer > 0 => pointer + Threshold <= tip
    /\ Active => BlockFrom <= upto /\ upto + Threshold <= tip

\* Each token of the batch is registered, was refused, or is still to add.
BatchTokens ==
    /\ pc = "contracts" => \A t \in todo : Deployed[t] >= BlockFrom
    /\ Active => \A t \in Tokens :
          Deployed[t] \in BlockFrom..upto =>
              \/ t \in registered \cup refused
              \/ pc = "contracts" /\ t \in todo

\* Each holding the batch touches is up to date, marked, or still to mark.
BatchHoldings ==
    pc \in {"events", "update", "totals"} =>
        \A tr \in Transfers : tr.block \in BlockFrom..upto /\ tr.token \in registered =>
            \A i \in Owned(tr) : \/ Reflects(i, tr.block)
                                 \/ i \in flagged
                                 \/ pc = "events" /\ i \in todo

\* Only registered tokens are in the cache and have holdings.
Known ==
    /\ cache \subseteq registered
    /\ MarkedAreRegistered
    /\ \A i \in Holdings : asOf[i] > 0 => i[1] \in registered
    /\ pc = "events" => \A i \in todo : i[1] \in registered
    /\ pc = "totals" => flagged = {}

TotalsInHand ==
    /\ pc \in {"read", "contracts", "events"} => outdated \subseteq unfinished
    /\ pc \in {"update", "totals"} => outdated \subseteq unfinished \cup touched

IndInv ==
    /\ TypeOK
    /\ BatchBelowTip
    /\ BatchTokens
    /\ BatchHoldings
    /\ Known
    /\ TotalsInHand
    /\ HoldingsFresh
    /\ TokensRegistered
=============================================================================
