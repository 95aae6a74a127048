--------------------------- MODULE EventMigration ---------------------------
(* The script that fills contract_events from the logs already stored             *)
(* (cli/migrateContractEvents.ts), beside a contract indexer that registers        *)
(* tokens. It reads the tokens once, goes over a range of blocks batch by batch,    *)
(* writes the events of a batch type by type and chunk by chunk, and ends at the    *)
(* first error; an operator starts it again, from the first block.                  *)
(*                                                                                *)
(* A log is its block, its token, the event of its signature, whether the zero      *)
(* address takes part - mints and burns are no events - and whether the ABI of its   *)
(* type decodes it; a token has one type and perhaps an empty symbol. Not modelled:   *)
(* what a log decodes to, and logs stored while the script runs - the range lies     *)
(* far below the pointer.                                                         *)
EXTENDS Naturals, Sequences, FiniteSets, FiniteSetsExt, Functions

CONSTANTS
    Tokens,         \* the addresses, with their type and symbol
    Logs,           \* the logs there may be
    Start, Finish,  \* START_BLOCK_NUMBER, FINISH_BLOCK_NUMBER
    BatchSize,      \* BLOCKS_BATCH_SIZE
    ChunkSize,      \* the rows of one insert
    MaxErrors       \* bound on the failures


VARIABLES
    logs,           \* the table logs
    registered,     \* the tables erc20, erc721 and erc1155
    events,         \* the table contract_events, as the rows' logs and types
    stage,          \* of the script: "maps", "logs", "write", "exit"
    known,          \* erc20Map, erc721Map and erc1155Map, and the types still to load
    toLoad,
    blocksFrom,
    isStopped,
    unwritten,      \* the rows still to be inserted for this batch, parse by parse
    before,         \* tokens registered when this run began
    completed,      \* the run went to its end
    errors

scriptVars == <<stage, known, toLoad, blocksFrom, isStopped, unwritten>>
historyVars == <<before, completed, errors>>
vars == <<logs, registered, events, scriptVars, historyVars>>

Types == <<"erc20", "erc721", "erc1155">>

\* The parseLogs of a batch, in the order in which their events are written.
Parses == <<[type |-> "erc20",   event |-> "Transfer"],
            [type |-> "erc20",   event |-> "Approval"],
            [type |-> "erc721",  event |-> "Transfer"],
            [type |-> "erc721",  event |-> "Approval"],
            [type |-> "erc721",  event |-> "ApprovalForAll"],
            [type |-> "erc1155", event |-> "TransferSingle"],
            [type |-> "erc1155", event |-> "ApprovalForAll"]>>

Transfers == {"Transfer", "TransferSingle"}

\* The events of these tokens, whatever way they are looked for.
IsEvent(l) ==
    /\ \E i \in DOMAIN Parses : Parses[i] = [type |-> l.token.type, event |-> l.event]
    /\ l.event \in Transfers => ~l.zero

Wanted(tokens) ==
    {[log |-> l, type |-> l.token.type] : l \in {k \in logs : k.token \in tokens /\ IsEvent(k)}}

\* What the script passes over without a word: the maps hold the symbols and are asked
\* for a true value, and the catch clause of parseLogs is empty.
PassedOver(l) == ~l.token.symbol \/ ~l.decodes

\* No rows, of any of the parses.
Nothing == [i \in DOMAIN Parses |-> {}]

-----------------------------------------------------------------------------

Init ==
    /\ logs \in SUBSET Logs
    /\ registered \in SUBSET Tokens
    /\ events = {}
    /\ stage = "maps"
    /\ known = {}
    /\ toLoad = Types
    /\ blocksFrom = Start
    /\ isStopped = FALSE
    /\ unwritten = Nothing
    /\ before = registered
    /\ completed = FALSE
    /\ errors = 0

\* The contract indexer finds a token.
Register ==
    /\ \E t \in Tokens \ registered : registered' = registered \cup {t}
    /\ UNCHANGED <<logs, events, scriptVars, historyVars>>

\* getErc20Map, getErc721Map, getErc1155Map, one after the other.
LoadMap ==
    /\ stage = "maps"
    /\ known' = known \cup {t \in registered : t.type = Head(toLoad)}
    /\ toLoad' = Tail(toLoad)
    /\ stage' = IF Len(toLoad) = 1 THEN "logs" ELSE "maps"
    /\ UNCHANGED <<logs, registered, events, blocksFrom, isStopped, unwritten, historyVars>>

BlocksTo == blocksFrom + BatchSize - 1
\* Stops one batch early.
StopsBefore(to) == to + BatchSize > Finish
Stops(to) == to >= Finish

\* The rows of parseLogs: of the tokens whose symbol the map of this type holds, what
\* has the signature of the event and decodes.
Parse(batch, p) ==
    {[log |-> l, type |-> p.type] : l \in
        {k \in batch : /\ k.token \in known /\ k.token.type = p.type /\ ~PassedOver(k)
                       /\ k.event = p.event
                       /\ p.event \in Transfers => ~k.zero}}

\* The loop goes on with the next batch, or ends.
NextBatch(stopped) ==
    /\ blocksFrom' = blocksFrom + BatchSize
    /\ stage' = IF stopped THEN "exit" ELSE "logs"
    /\ completed' = stopped

GetLogs ==
    /\ stage = "logs"
    /\ LET batch == {l \in logs : blocksFrom <= l.block /\ l.block <= BlocksTo}
       IN  unwritten' = [i \in DOMAIN Parses |-> Parse(batch, Parses[i])]
    /\ isStopped' = (isStopped \/ Stops(BlocksTo))
    /\ IF unwritten' = Nothing
       THEN NextBatch(isStopped')
       ELSE stage' = "write" /\ UNCHANGED <<blocksFrom, completed>>
    /\ UNCHANGED <<logs, registered, events, known, toLoad, before, errors>>

\* addContractEventsBatch, of the first parse with rows left; the rows come in the order
\* in which the database returned the logs. After the last insert the loop goes on.
WriteChunk ==
    /\ stage = "write"
    /\ \E i \in DOMAIN Parses :
          /\ unwritten[i] # {} /\ \A j \in 1..i - 1 : unwritten[j] = {}
          /\ \E chunk \in kSubset(Min({ChunkSize, Cardinality(unwritten[i])}), unwritten[i]) :
                /\ events' = events \cup chunk
                /\ unwritten' = [unwritten EXCEPT ![i] = @ \ chunk]
    /\ IF unwritten' = Nothing
       THEN NextBatch(isStopped)
       ELSE UNCHANGED <<stage, blocksFrom, completed>>
    /\ UNCHANGED <<logs, registered, known, toLoad, isStopped, before, errors>>

\* A query fails: in the loop the script exits, with the code it also ends with;
\* before it the rejection is nobody's, and the process ends too.
Error ==
    /\ stage # "exit"
    /\ errors < MaxErrors
    /\ errors' = errors + 1
    /\ stage' = "exit"
    /\ UNCHANGED <<logs, registered, events, known, toLoad, blocksFrom, isStopped, unwritten, before, completed>>

\* Started again by hand after an error.
Again ==
    /\ stage = "exit"
    /\ ~completed
    /\ stage' = "maps"
    /\ known' = {} /\ toLoad' = Types
    /\ blocksFrom' = Start /\ isStopped' = FALSE /\ unwritten' = Nothing
    /\ before' = registered
    /\ UNCHANGED <<logs, registered, events, completed, errors>>

Next == Register \/ LoadMap \/ GetLogs \/ WriteChunk \/ Error \/ Again

Spec == Init /\ [][Next]_vars

-----------------------------------------------------------------------------
(* Properties *)

\* Types.
TypeOK ==
    /\ logs \subseteq Logs /\ registered \subseteq Tokens /\ known \subseteq registered
    /\ stage \in {"maps", "logs", "write", "exit"}
    /\ blocksFrom \in Start..Finish + BatchSize
    /\ isStopped \in BOOLEAN /\ completed \in BOOLEAN
    /\ before \subseteq registered
    /\ errors \in 0..MaxErrors

\* When a run has gone to its end, the table holds every event of the range of the tokens
\* that were registered when it began, but for what the script passes over: the events
\* of tokens without a symbol, although its first lines speak of all addresses, and what
\* does not decode. Batches without logs, the last batch, which is longer than the rest
\* of the range, and the rows an earlier run wrote before it failed make no difference,
\* and nothing is ever stored that is not an event of a registered token, of its type.
EventsMigrated ==
    /\ events \subseteq Wanted(registered)
    /\ completed => \A e \in Wanted(before) :
          e.log.block \in Start..Finish => e \in events \/ PassedOver(e.log)

-----------------------------------------------------------------------------
(* The inductive invariant behind EventsMigrated *)

\* The events a run has to store, of these blocks.
Expected(B) == {e \in Wanted(before) : e.log.block \in B /\ ~PassedOver(e.log)}

Ahead == UNION {unwritten[i] : i \in DOMAIN Parses}

\* The maps that are loaded hold the tokens that were there when the run began; the events
\* of the batches behind are stored, and those of the batch at hand are or are about to be.
MigrationInv ==
    /\ toLoad \in {Types, Tail(Types), <<"erc1155">>, <<>>}
    /\ stage = "maps" => toLoad # <<>>
    /\ stage \in {"logs", "write"} => toLoad = <<>>
    /\ stage # "exit" =>
          \A t \in before : t.type \in Range(Types) \ Range(toLoad) => t \in known
    /\ unwritten \in [DOMAIN Parses -> SUBSET Wanted(registered)] /\ events \subseteq Wanted(registered)
    /\ stage \in {"maps", "logs"} => ~isStopped
    /\ stage = "maps" => blocksFrom = Start
    /\ stage \in {"logs", "write"} =>
          blocksFrom <= Finish /\ Expected(Start..blocksFrom - 1) \subseteq events
    /\ stage = "write" =>
          /\ isStopped <=> Stops(BlocksTo)
          /\ Expected(blocksFrom..BlocksTo) \subseteq events \cup Ahead
    /\ completed => stage = "exit" /\ Expected(Start..Finish) \subseteq events

=============================================================================
