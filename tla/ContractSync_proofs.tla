------------------------ MODULE ContractSync_proofs ------------------------
(* Safety of the contract indexer, for every set of tokens and transfers,   *)
(* every chain length and batch size, every distance to the other indexers  *)
(* that a node's lag does not exceed, and every number of faults.           *)
EXTENDS ContractSync, FiniteSetTheorems, TLAPS

-----------------------------------------------------------------------------
(* Holdings *)

\* What a transfer touches are holdings of its token; all that change hands are
\* among them.
LEMMA TouchedType ==
  ASSUME type \in Types, NEW tr \in Transfers
  PROVE  /\ Touched(tr) \subseteq Holdings
         /\ \A i \in Touched(tr) : i[1] = tr.token
         /\ Owned(tr) \subseteq Touched(tr)
<1>1. /\ tr.token \in Tokens /\ tr.id \in Ids
      /\ tr.from \in Owners \cup {Zero} /\ tr.to \in Owners \cup {Zero}
  BY ContractSyncAssumption
<1>2. AssetsOf(tr) \subseteq Holdings /\ \A i \in AssetsOf(tr) : i[1] = tr.token
  BY <1>1 DEF AssetsOf, Holdings
<1>3. BalancesOf(tr) \subseteq Holdings /\ \A i \in BalancesOf(tr) : i[1] = tr.token
  BY <1>1 DEF BalancesOf, Holdings, Types
<1> QED BY <1>2, <1>3 DEF Touched, Owned

\* The metadata of an erc1155 asset does not change hands.
LEMMA AssetsOf1155 ==
  ASSUME type = "erc1155", NEW tr \in Transfers, NEW i \in Owned(tr)
  PROVE  ~IsAsset(i)
<1>1. /\ tr.from \in Owners \cup {Zero} /\ tr.to \in Owners \cup {Zero}
  BY ContractSyncAssumption
<1>2. PICK o \in {tr.from, tr.to} \ {Zero} : i = <<tr.token, tr.id, o>>
  BY DEF Owned, BalancesOf
<1>3. o \in Owners /\ i[3] = o
  BY <1>1, <1>2
<1> QED BY <1>3, ContractSyncAssumption DEF IsAsset

LEMMA EventsType ==
  ASSUME type \in Types, NEW known
  PROVE  Events(known) \subseteq Holdings /\ \A i \in Events(known) : i[1] \in known
BY TouchedType DEF Events

-----------------------------------------------------------------------------
(* Types *)

LEMMA InitialTypes == Init => TypeOK
<1> SUFFICES ASSUME Init PROVE TypeOK
  OBVIOUS
<1>1. 0 \in Block /\ 0 \in 0..tip /\ 0 \in 0..MaxFaults
  BY ContractSyncAssumption DEF Init, Block
<1> QED BY <1>1 DEF Init, TypeOK

\* A range that is not empty ends Threshold blocks below the indexers' height.
LEMMA RangeType ==
  ASSUME TypeOK, BlockFrom <= BlockTo
  PROVE  BlockTo \in Block /\ BlockTo + Threshold <= tip /\ BlockFrom \in Nat
<1>1. /\ BlocksRange \in Nat /\ Threshold \in Nat /\ InitialHeight \in Nat
      /\ MaxBlock \in Nat /\ tip \in 0..MaxBlock /\ indexed \in 0..tip /\ pointer \in Nat
  BY ContractSyncAssumption DEF TypeOK, Block
<1>2. BlockFrom \in Nat
  BY <1>1 DEF BlockFrom
<1>3. BlockTo \in Int /\ BlockTo <= indexed - Threshold
  BY <1>1, <1>2 DEF BlockTo, BlocksHeightLimit
<1> QED BY <1>1, <1>2, <1>3 DEF Block

LEMMA TypesPreserved == TypeOK /\ [Next]_vars => TypeOK'
<1> SUFFICES ASSUME TypeOK, [Next]_vars PROVE TypeOK'
  OBVIOUS
<1> USE DEF TypeOK, chain, store, locals, history
<1>1. CASE ReadHeights
  BY <1>1, RangeType DEF ReadHeights
<1>2. CASE Wait \/ UNCHANGED vars
  BY <1>2 DEF Wait, vars
<1>3. ASSUME NEW t \in todo, AddContract(t) PROVE TypeOK'
  BY <1>3 DEF AddContract
<1>4. ASSUME NEW t \in todo, RefuseContract(t) PROVE TypeOK'
  BY <1>4, ContractSyncAssumption DEF RefuseContract
<1>5. CASE RefreshCache
  <2>1. Events(cache') \subseteq Holdings
    BY EventsType
  <2>2. cache' \subseteq Tokens
    BY <1>5 DEF RefreshCache
  <2> QED BY <1>5, <2>1, <2>2 DEF RefreshCache
<1>6. ASSUME NEW i \in todo, Mark(i) PROVE TypeOK'
  BY <1>6 DEF Mark
<1>7. CASE MarkedAll
  BY <1>7 DEF MarkedAll
<1>8. ASSUME NEW i \in flagged, NEW h \in Answers, Update(i, h) PROVE TypeOK'
  <2>1. i \in Holdings /\ i[1] \in Tokens /\ h \in Block
    BY DEF Holdings, Answers
  <2> QED BY <1>8, <2>1 DEF Update
<1>9. ASSUME NEW i \in flagged, KeepMetadata(i) PROVE TypeOK'
  BY <1>9 DEF KeepMetadata
<1>10. ASSUME NEW i \in flagged, GiveUp(i) PROVE TypeOK'
  <2>1. i \in Holdings /\ i[1] \in Tokens
    BY DEF Holdings
  <2> QED BY <1>10, <2>1, ContractSyncAssumption DEF GiveUp
<1>11. CASE UpdatedAll
  BY <1>11 DEF UpdatedAll
<1>12. ASSUME NEW t \in touched, UpdateToken(t) PROVE TypeOK'
  BY <1>12 DEF UpdateToken
<1>13. CASE Commit
  BY <1>13, ContractSyncAssumption DEF Commit, Block
<1>14. CASE Die
  BY <1>14, ContractSyncAssumption DEF Die
<1>15. CASE Restart
  BY <1>15, ContractSyncAssumption DEF Restart, Block
<1>16. CASE Grow
  BY <1>16, ContractSyncAssumption DEF Grow, Block
<1>17. CASE IndexersAdvance
  BY <1>17, ContractSyncAssumption DEF IndexersAdvance, Block
<1>18. CASE LogPointerBack
  BY <1>18, ContractSyncAssumption DEF LogPointerBack, Block
<1> QED BY <1>1, <1>2, <1>3, <1>4, <1>5, <1>6, <1>7, <1>8, <1>9, <1>10, <1>11, <1>12,
           <1>13, <1>14, <1>15, <1>16, <1>17, <1>18 DEF Next, LoopStep

\* Every reachable state has the types of TypeOK: the range of a batch stays
\* within the chain however the heights of the other indexers move.
THEOREM ContractSyncTypes == Spec => []TypeOK
<1> QED BY InitialTypes, TypesPreserved, PTL DEF Spec

-----------------------------------------------------------------------------
(* The inductive invariant *)

LEMMA InitialIndInv == Init => IndInv
<1> SUFFICES ASSUME Init PROVE IndInv
  OBVIOUS
<1>1. pointer = 0 /\ Behind = {}
  <2>1. InitialHeight \in Nat
    BY ContractSyncAssumption
  <2> QED BY <2>1 DEF Init, Behind
<1>2. BatchBelowTip /\ BatchTokens /\ BatchHoldings /\ TotalsInHand
  BY <1>1 DEF Init, BatchBelowTip, BatchTokens, BatchHoldings, TotalsInHand, Active
<1>3. Known
  BY DEF Init, Known, MarkedAreRegistered
<1>4. HoldingsFresh /\ TokensRegistered
  BY <1>1 DEF HoldingsFresh, TokensRegistered
<1> QED BY <1>2, <1>3, <1>4, InitialTypes DEF IndInv

\* The pointer, the first block of a batch and what lies behind them.
LEMMA Bounds ==
  ASSUME IndInv
  PROVE  /\ pointer \in Nat /\ upto \in Nat /\ tip \in Nat /\ BlockFrom \in Nat
         /\ Threshold \in Nat /\ InitialHeight \in Nat
         /\ pointer < BlockFrom
         /\ \A b \in Behind : b <= pointer /\ b + Threshold <= tip
<1>1. /\ pointer \in Nat /\ upto \in Nat /\ tip \in Nat
      /\ Threshold \in Nat /\ InitialHeight \in Nat
  BY ContractSyncAssumption DEF IndInv, TypeOK, Block
<1>2. BlockFrom \in Nat /\ pointer < BlockFrom
  BY <1>1 DEF BlockFrom
<1>3. ASSUME NEW b \in Behind PROVE b <= pointer /\ b + Threshold <= tip
  BY <1>1 DEF Behind, IndInv, BatchBelowTip
<1> QED BY <1>1, <1>2, <1>3

\* A block up to the pointer that a batch sets lies behind it already, or in
\* the batch.
LEMMA BehindOrInBatch ==
  ASSUME IndInv, NEW b \in (InitialHeight + 1)..upto
  PROVE  b \in Behind \/ b \in BlockFrom..upto
<1>1. b \in Nat /\ pointer \in Nat /\ upto \in Nat /\ InitialHeight \in Nat
  BY Bounds
<1> QED BY <1>1 DEF Behind, BlockFrom

LEMMA BatchBelowTipKept == IndInv /\ TypeOK' /\ [Next]_vars => BatchBelowTip'
<1> SUFFICES ASSUME IndInv, TypeOK', [Next]_vars PROVE BatchBelowTip'
  OBVIOUS
<1> USE Bounds
<1>1. CASE ReadHeights
  <2>1. BlockTo + Threshold <= tip
    BY <1>1, RangeType DEF ReadHeights, IndInv
  <2> QED BY <1>1, <2>1
          DEF ReadHeights, IndInv, BatchBelowTip, BlockFrom, chain, store
<1>2. CASE Commit
  BY <1>2 DEF Commit, IndInv, BatchBelowTip, Active, chain
<1>3. CASE Grow
  BY <1>3 DEF Grow, IndInv, BatchBelowTip, Active, BlockFrom, store, locals
<1>4. ASSUME UNCHANGED <<tip, pointer>>, pc' # "dead" /\ pc' # "read" => pc # "dead" /\ pc # "read" /\ upto' = upto
      PROVE  BatchBelowTip'
  BY <1>4 DEF IndInv, TypeOK, BatchBelowTip, Active, BlockFrom
<1>5. CASE ~ReadHeights /\ ~Commit /\ ~Grow
  <2>1. UNCHANGED <<tip, pointer>>
    BY <1>5 DEF Next, LoopStep, Wait, AddContract, RefuseContract, RefreshCache, Mark,
       MarkedAll, Update, KeepMetadata, GiveUp, UpdatedAll, UpdateToken, Die, Restart,
       IndexersAdvance, LogPointerBack, vars, chain, store
  <2>2. pc' # "dead" /\ pc' # "read" => pc # "dead" /\ pc # "read" /\ upto' = upto
    BY <1>5 DEF Next, LoopStep, Wait, AddContract, RefuseContract, RefreshCache, Mark,
       MarkedAll, Update, KeepMetadata, GiveUp, UpdatedAll, UpdateToken, Die, Restart,
       IndexersAdvance, LogPointerBack, vars, locals
  <2> QED BY <2>1, <2>2, <1>4
<1> QED BY <1>1, <1>2, <1>3, <1>5

LEMMA BatchTokensKept == IndInv /\ TypeOK' /\ [Next]_vars => BatchTokens'
<1> SUFFICES ASSUME IndInv, TypeOK', [Next]_vars PROVE BatchTokens'
  OBVIOUS
<1>1. CASE ReadHeights
  <2>1. todo' = {t \in Tokens : Deployed[t] \in BlockFrom..upto'} /\ pc' = "contracts"
    BY <1>1 DEF ReadHeights
  <2>2. BlockFrom' = BlockFrom
    BY <1>1 DEF ReadHeights, BlockFrom, store
  <2> QED BY <2>1, <2>2 DEF BatchTokens
<1>2. ASSUME NEW t \in todo, AddContract(t) PROVE BatchTokens'
  BY <1>2 DEF AddContract, IndInv, BatchTokens, Active, BlockFrom, history
<1>3. ASSUME NEW t \in todo, RefuseContract(t) PROVE BatchTokens'
  BY <1>3 DEF RefuseContract, IndInv, BatchTokens, Active, BlockFrom, store
<1>4. CASE pc' \in {"read", "dead"}
  BY <1>4 DEF BatchTokens, Active
<1>5. CASE RefreshCache
  BY <1>5 DEF RefreshCache, IndInv, BatchTokens, Active, BlockFrom, store, history
<1>6. ASSUME pc' \in {"events", "update", "totals"} => pc \in {"events", "update", "totals"},
             pc' = "contracts" => pc = "contracts" /\ todo' = todo,
             UNCHANGED <<pointer, upto, registered, refused>>
      PROVE  BatchTokens'
  BY <1>6 DEF IndInv, BatchTokens, Active, BlockFrom
<1>7. CASE /\ pc' \notin {"read", "dead"} /\ ~ReadHeights /\ ~RefreshCache
           /\ ~(\E t \in todo : AddContract(t) \/ RefuseContract(t))
  <2>1. /\ pc' \in {"events", "update", "totals"} => pc \in {"events", "update", "totals"}
        /\ pc' = "contracts" => pc = "contracts" /\ todo' = todo
    BY <1>7 DEF Next, LoopStep, Wait, Mark, MarkedAll, Update, KeepMetadata, GiveUp,
       UpdatedAll, UpdateToken, Commit, Die, Restart, Grow, IndexersAdvance,
       LogPointerBack, vars, locals
  <2>2. UNCHANGED <<pointer, upto, registered, refused>>
    BY <1>7 DEF Next, LoopStep, Wait, Mark, MarkedAll, Update, KeepMetadata, GiveUp,
       UpdatedAll, UpdateToken, Commit, Die, Restart, Grow, IndexersAdvance,
       LogPointerBack, vars, locals, store, history
  <2> QED BY <2>1, <2>2, <1>6
<1> QED BY <1>1, <1>2, <1>3, <1>4, <1>5, <1>7

\* What the cache holds when the events are read are the registered tokens: the
\* table only grows, so equal numbers mean equal sets.
LEMMA CacheIsRegistered ==
  ASSUME IndInv, RefreshCache
  PROVE  cache' = registered
<1>1. CASE CountsDiffer
  BY <1>1 DEF RefreshCache
<1>2. CASE ~CountsDiffer
  <2>1. IsFiniteSet(registered)
    BY ContractSyncAssumption, FS_Subset DEF IndInv, TypeOK
  <2>2. cache \subseteq registered /\ Cardinality(registered) = Cardinality(cache)
    BY <1>2 DEF CountsDiffer, IndInv, Known
  <2>3. cache = registered
    BY <2>1, <2>2, FS_Subset
  <2> QED BY <1>2, <2>3 DEF RefreshCache
<1> QED BY <1>1, <1>2

\* An answer given now is as good as the tip less the lag, and it is the
\* distance of the batch to the tip that makes this enough.
LEMMA AnswerReflects ==
  ASSUME IndInv, NEW i \in flagged, NEW h \in Answers, Update(i, h),
         NEW b \in Nat, b + Threshold <= tip, NEW j \in Holdings, Reflects(j, b) \/ j = i
  PROVE  Reflects(j, b)'
<1>1. MaxLag \in Nat /\ MaxLag <= Threshold /\ Threshold \in Nat /\ tip \in Nat /\ h \in Nat
  BY ContractSyncAssumption DEF IndInv, TypeOK, Block, Answers
<1>2. h >= b
  BY <1>1 DEF Answers
<1>3. i \in Holdings /\ asOf \in [Holdings -> Block]
  BY DEF IndInv, TypeOK
<1>4. CASE j = i
  BY <1>2, <1>3, <1>4 DEF Update, Reflects
<1>5. CASE j # i
  BY <1>3, <1>5 DEF Update, Reflects
<1> QED BY <1>4, <1>5

LEMMA OwnedHoldings ==
  ASSUME IndInv, NEW tr \in Transfers
  PROVE  Owned(tr) \subseteq Holdings
BY TouchedType DEF IndInv, TypeOK

LEMMA OwnedKept ==
  ASSUME type' = type, NEW tr
  PROVE  Owned(tr)' = Owned(tr)
BY DEF Owned, Touched, AssetsOf, BalancesOf

LEMMA TypeKept == [Next]_vars => type' = type
BY DEF Next, LoopStep, ReadHeights, Wait, AddContract, RefuseContract, RefreshCache, Mark,
   MarkedAll, Update, KeepMetadata, GiveUp, UpdatedAll, UpdateToken, Commit, Die, Restart,
   Grow, IndexersAdvance, LogPointerBack, vars

LEMMA BatchHoldingsKept == IndInv /\ TypeOK' /\ [Next]_vars => BatchHoldings'
<1> SUFFICES ASSUME IndInv, TypeOK', [Next]_vars, pc' \in {"events", "update", "totals"},
                    NEW tr \in Transfers,
                    tr.block \in (BlockFrom..upto)', (tr.token \in registered)',
                    NEW i \in Owned(tr)'
             PROVE  \/ Reflects(i, tr.block)'
                    \/ i \in flagged'
                    \/ pc' = "events" /\ i \in todo'
  BY DEF BatchHoldings
<1> DEFINE Held == \/ Reflects(i, tr.block)
                   \/ i \in flagged
                   \/ pc = "events" /\ i \in todo
<1>1. i \in Owned(tr) /\ i \in Holdings
  BY OwnedKept, OwnedHoldings, TypeKept
<1>2. ASSUME pc \in {"events", "update", "totals"},
             UNCHANGED <<pointer, upto, registered>>
      PROVE  Held /\ tr.block \in BlockFrom..upto
  BY <1>1, <1>2 DEF IndInv, BatchHoldings, BlockFrom
<1>3. CASE RefreshCache
  <2>1. tr.token \in cache' /\ i \in Touched(tr)
    BY <1>1, <1>3, CacheIsRegistered, TouchedType DEF RefreshCache, IndInv, TypeOK, store
  <2>2. tr.block \in BlockFrom..upto
    BY <1>3 DEF RefreshCache, BlockFrom, store
  <2>3. i \in Events(cache')
    BY <2>1, <2>2 DEF Events
  <2> QED BY <1>3, <2>3 DEF RefreshCache
<1>4. ASSUME NEW j \in todo, Mark(j)
      PROVE  Reflects(i, tr.block)' \/ i \in flagged' \/ (pc' = "events" /\ i \in todo')
  BY <1>2, <1>4 DEF Mark, Reflects, history
<1>5. CASE MarkedAll
  BY <1>2, <1>5 DEF MarkedAll, Reflects, store, locals, history
<1>6. ASSUME NEW j \in flagged, NEW h \in Answers, Update(j, h)
      PROVE  Reflects(i, tr.block)' \/ i \in flagged'
  <2>1. Held /\ tr.block \in BlockFrom..upto
    BY <1>2, <1>6 DEF Update
  <2>2. tr.block \in Nat /\ tr.block + Threshold <= tip
    BY <1>6, <2>1, Bounds DEF IndInv, BatchBelowTip, Active, Update
  <2>3. CASE Reflects(i, tr.block) \/ i = j
    BY <1>1, <1>6, <2>2, <2>3, AnswerReflects
  <2>4. CASE i \in flagged /\ i # j
    BY <1>6, <2>4 DEF Update
  <2> QED BY <1>6, <2>1, <2>3, <2>4 DEF Update
<1>7. ASSUME NEW j \in flagged, KeepMetadata(j)
      PROVE  Reflects(i, tr.block)' \/ i \in flagged'
  <2>1. Held
    BY <1>2, <1>7 DEF KeepMetadata, locals
  <2>2. i # j
    BY <1>1, <1>7, AssetsOf1155 DEF KeepMetadata
  <2> QED BY <1>7, <2>1, <2>2 DEF KeepMetadata, Reflects, history
<1>8. ASSUME NEW j \in flagged, GiveUp(j)
      PROVE  Reflects(i, tr.block)' \/ i \in flagged'
  BY <1>2, <1>8 DEF GiveUp, Reflects
<1>9. CASE UpdatedAll
  BY <1>2, <1>9 DEF UpdatedAll, Reflects, store, locals, history
<1>10. ASSUME NEW t \in touched, UpdateToken(t)
       PROVE  Reflects(i, tr.block)' \/ i \in flagged'
  BY <1>2, <1>10 DEF UpdateToken, Reflects, store
<1>11. CASE Wait \/ Grow \/ IndexersAdvance \/ LogPointerBack \/ UNCHANGED vars
  BY <1>2, <1>11
     DEF Wait, Grow, IndexersAdvance, LogPointerBack, vars, Reflects, store, locals, history
<1>12. pc' \notin {"events", "update", "totals"} \/ ~(\/ ReadHeights \/ Commit \/ Die \/ Restart
          \/ \E t \in todo : AddContract(t) \/ RefuseContract(t))
  BY DEF ReadHeights, Commit, Die, Restart, AddContract, RefuseContract
<1> QED BY <1>3, <1>4, <1>5, <1>6, <1>7, <1>8, <1>9, <1>10, <1>11, <1>12 DEF Next, LoopStep

LEMMA KnownKept == IndInv /\ TypeOK' /\ [Next]_vars => Known'
<1> SUFFICES ASSUME IndInv, TypeOK', [Next]_vars PROVE Known'
  OBVIOUS
<1> USE DEF Known, MarkedAreRegistered
<1>1. /\ asOf \in [Holdings -> Block] /\ flagged \subseteq Holdings
  BY DEF IndInv, TypeOK
<1>2. ASSUME NEW t \in todo, AddContract(t) PROVE Known'
  BY <1>2 DEF AddContract, IndInv
<1>3. CASE RefreshCache
  <2>1. cache' = registered /\ \A i \in Events(cache') : i[1] \in registered
    BY <1>3, CacheIsRegistered, EventsType DEF IndInv, TypeOK
  <2> QED BY <1>3, <2>1 DEF RefreshCache, IndInv, store
<1>4. ASSUME NEW i \in todo, Mark(i) PROVE Known'
  BY <1>4 DEF Mark, IndInv
<1>5. ASSUME NEW i \in flagged, NEW h \in Answers, Update(i, h) PROVE Known'
  BY <1>1, <1>5 DEF Update, IndInv
<1>6. ASSUME NEW i \in flagged, KeepMetadata(i) \/ GiveUp(i) PROVE Known'
  BY <1>6 DEF KeepMetadata, GiveUp, IndInv, locals
<1>7. CASE ReadHeights \/ MarkedAll \/ UpdatedAll \/ Commit \/ Die \/ Restart
  BY <1>7 DEF ReadHeights, MarkedAll, UpdatedAll, Commit, Die, Restart, IndInv, store, locals
<1>8. CASE \/ Wait \/ Grow \/ IndexersAdvance \/ LogPointerBack \/ UNCHANGED vars
           \/ \E t \in todo : RefuseContract(t)
           \/ \E t \in touched : UpdateToken(t)
  BY <1>8 DEF Wait, Grow, IndexersAdvance, LogPointerBack, RefuseContract, UpdateToken,
              IndInv, vars, store, locals
<1> QED BY <1>2, <1>3, <1>4, <1>5, <1>6, <1>7, <1>8 DEF Next, LoopStep

LEMMA TotalsInHandKept == IndInv /\ TypeOK' /\ [Next]_vars => TotalsInHand'
<1> SUFFICES ASSUME IndInv, TypeOK', [Next]_vars PROVE TotalsInHand'
  OBVIOUS
<1> USE DEF IndInv, TotalsInHand
<1>1. ASSUME NEW i \in flagged, NEW h \in Answers, Update(i, h) PROVE TotalsInHand'
  BY <1>1 DEF Update
<1>2. ASSUME NEW i \in flagged, GiveUp(i) PROVE TotalsInHand'
  BY <1>2 DEF GiveUp
<1>3. ASSUME NEW t \in touched, UpdateToken(t) PROVE TotalsInHand'
  BY <1>3 DEF UpdateToken
<1>4. CASE Commit
  BY <1>4 DEF Commit, TotalsDone, history
<1>5. CASE Restart
  BY <1>5 DEF Restart
<1>6. CASE Die
  BY <1>6 DEF Die
<1>7. CASE ReadHeights \/ RefreshCache \/ MarkedAll \/ UpdatedAll
  BY <1>7 DEF ReadHeights, RefreshCache, MarkedAll, UpdatedAll, locals, history
<1>8. CASE \/ Wait \/ Grow \/ IndexersAdvance \/ LogPointerBack \/ UNCHANGED vars
           \/ \E t \in todo : AddContract(t) \/ RefuseContract(t)
           \/ \E i \in todo : Mark(i)
           \/ \E i \in flagged : KeepMetadata(i)
  BY <1>8 DEF Wait, Grow, IndexersAdvance, LogPointerBack, AddContract, RefuseContract,
              Mark, KeepMetadata, vars, locals, history
<1> QED BY <1>1, <1>2, <1>3, <1>4, <1>5, <1>6, <1>7, <1>8 DEF Next, LoopStep

LEMMA HoldingsFreshKept == IndInv /\ TypeOK' /\ [Next]_vars => HoldingsFresh'
<1> SUFFICES ASSUME IndInv, TypeOK', [Next]_vars,
                    NEW tr \in Transfers,
                    (tr.block \in Behind)', (tr.token \in registered)',
                    NEW i \in Owned(tr)'
             PROVE  Reflects(i, tr.block)'
  BY DEF HoldingsFresh
<1>1. i \in Owned(tr) /\ i \in Holdings
  BY OwnedKept, OwnedHoldings, TypeKept
<1>2. ASSUME UNCHANGED <<pointer, registered>>
      PROVE  tr.block \in Behind /\ Reflects(i, tr.block)
  BY <1>1, <1>2 DEF IndInv, HoldingsFresh, Behind
<1>3. ASSUME NEW t \in todo, AddContract(t) PROVE Reflects(i, tr.block)'
  <2>1. tr.block \in Behind /\ UNCHANGED <<asOf, givenUp>>
    BY <1>3 DEF AddContract, Behind, history
  <2>2. Deployed[t] >= BlockFrom
    BY <1>3 DEF AddContract, IndInv, BatchTokens
  <2>3. tr.token # t
    <3>1. Deployed[tr.token] <= tr.block /\ Deployed[tr.token] \in Nat /\ tr.block \in Nat
      BY ContractSyncAssumption DEF Block
    <3> QED BY <2>1, <2>2, <3>1, Bounds
  <2>4. Reflects(i, tr.block)
    BY <1>1, <1>3, <2>1, <2>3 DEF AddContract, IndInv, HoldingsFresh
  <2> QED BY <2>1, <2>4 DEF Reflects
<1>4. ASSUME NEW j \in flagged, NEW h \in Answers, Update(j, h) PROVE Reflects(i, tr.block)'
  <2>1. tr.block \in Behind /\ Reflects(i, tr.block)
    BY <1>2, <1>4 DEF Update
  <2>2. tr.block \in Nat /\ tr.block + Threshold <= tip
    BY <2>1, Bounds, ContractSyncAssumption DEF Block
  <2> QED BY <1>1, <1>4, <2>1, <2>2, AnswerReflects
<1>5. ASSUME NEW j \in flagged, KeepMetadata(j) \/ GiveUp(j) PROVE Reflects(i, tr.block)'
  BY <1>2, <1>5 DEF KeepMetadata, GiveUp, Reflects, history
<1>6. CASE Commit
  <2>1. /\ pc = "totals" /\ flagged = {} /\ UNCHANGED <<asOf, givenUp, registered>>
        /\ tr.block \in (InitialHeight + 1)..upto
    BY <1>6 DEF Commit, IndInv, Known, Behind, history
  <2>2. CASE tr.block \in Behind
    BY <1>1, <2>1, <2>2 DEF IndInv, HoldingsFresh, Reflects
  <2>3. CASE tr.block \in BlockFrom..upto
    BY <1>1, <2>1, <2>3 DEF IndInv, BatchHoldings, Reflects
  <2> QED BY <2>1, <2>2, <2>3, BehindOrInBatch
<1>7. CASE ~Commit /\ UNCHANGED <<asOf, givenUp, registered, pointer>>
  BY <1>2, <1>7 DEF Reflects
<1>8. CASE /\ ~Commit /\ ~(\E t \in todo : AddContract(t))
           /\ ~(\E j \in flagged : KeepMetadata(j) \/ GiveUp(j) \/ \E h \in Answers : Update(j, h))
  <2>1. UNCHANGED <<asOf, givenUp, registered, pointer>>
    BY <1>8 DEF Next, LoopStep, ReadHeights, Wait, RefuseContract, RefreshCache, Mark,
       MarkedAll, UpdatedAll, UpdateToken, Die, Restart, Grow, IndexersAdvance,
       LogPointerBack, vars, store, history
  <2> QED BY <1>7, <1>8, <2>1
<1> QED BY <1>3, <1>4, <1>5, <1>6, <1>8

LEMMA TokensRegisteredKept == IndInv /\ TypeOK' /\ [Next]_vars => TokensRegistered'
<1> SUFFICES ASSUME IndInv, TypeOK', [Next]_vars PROVE TokensRegistered'
  OBVIOUS
<1>1. CASE Commit
  <2> SUFFICES ASSUME NEW t \in Tokens, Deployed[t] \in (InitialHeight + 1)..upto
               PROVE  t \in registered \cup refused
    BY <1>1 DEF Commit, TokensRegistered, Behind, history
  <2>1. CASE Deployed[t] \in Behind
    BY <2>1 DEF IndInv, TokensRegistered
  <2>2. CASE Deployed[t] \in BlockFrom..upto
    BY <1>1, <2>2 DEF Commit, IndInv, BatchTokens, Active
  <2> QED BY <2>1, <2>2, BehindOrInBatch
<1>2. CASE ~Commit
  <2>1. pointer' = pointer
    BY <1>2 DEF Next, LoopStep, ReadHeights, Wait, AddContract, RefuseContract, RefreshCache,
       Mark, MarkedAll, Update, KeepMetadata, GiveUp, UpdatedAll, UpdateToken, Die, Restart,
       Grow, IndexersAdvance, LogPointerBack, vars, store
  <2>2. registered \subseteq registered' /\ refused \subseteq refused'
    BY <1>2 DEF Next, LoopStep, ReadHeights, Wait, AddContract, RefuseContract, RefreshCache,
       Mark, MarkedAll, Update, KeepMetadata, GiveUp, UpdatedAll, UpdateToken, Die, Restart,
       Grow, IndexersAdvance, LogPointerBack, vars, store, history
  <2> QED BY <2>1, <2>2 DEF IndInv, TokensRegistered, Behind
<1> QED BY <1>1, <1>2

LEMMA IndInvHolds == Spec => []IndInv
<1>1. IndInv /\ [Next]_vars => IndInv'
  BY TypesPreserved, BatchBelowTipKept, BatchTokensKept, BatchHoldingsKept, KnownKept,
     TotalsInHandKept, HoldingsFreshKept, TokensRegisteredKept DEF IndInv
<1> QED BY <1>1, InitialIndInv, PTL DEF Spec

-----------------------------------------------------------------------------
(* The theorems *)

\* Whatever node answers and whatever dies in between, a holding of a token in
\* the table is stored as of every transfer below the pointer, or was given up.
THEOREM HoldingsAreFresh == Spec => []HoldingsFresh
<1>1. IndInv => HoldingsFresh
  BY DEF IndInv
<1> QED BY <1>1, IndInvHolds, PTL

\* No token deployed below the pointer is left out, except where it was refused.
THEOREM TokensAreRegistered == Spec => []TokensRegistered
<1>1. IndInv => TokensRegistered
  BY DEF IndInv
<1> QED BY <1>1, IndInvHolds, PTL

\* Every mark names a token of the table, so no insertion breaks the foreign key.
THEOREM MarksHaveTokens == Spec => []MarkedAreRegistered
<1>1. IndInv => MarkedAreRegistered
  BY DEF IndInv, Known
<1> QED BY <1>1, IndInvHolds, PTL

\* Between batches only a crash leaves the totals of a token behind its holdings.
THEOREM TotalsFollowHoldings == Spec => []TotalsFollow
<1>1. IndInv => TotalsFollow
  BY DEF IndInv, TotalsInHand, TotalsFollow
<1> QED BY <1>1, IndInvHolds, PTL
=============================================================================
