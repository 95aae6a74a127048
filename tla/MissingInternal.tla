--------------------------- MODULE MissingInternal ---------------------------
(* The script that stores the internal transactions of the blocks the block       *)
(* indexer does not trace, those whose transactions have no input                 *)
(* (cli/fixMissingInternal.ts). For every configured shard it goes over the same   *)
(* blocks of shard 0, batch by batch: it reads blocks and traces from any node,     *)
(* which may not have them, and writes the blocks of a batch side by side, each     *)
(* chunk by chunk.                                                                 *)
(*                                                                               *)
(* A block is what its transactions are after the ignore list's filter, and the    *)
(* number of its internal transactions. Not modelled: the list of all internal      *)
(* transactions the script keeps and prints, and the chain id it may set.          *)
EXTENDS Naturals, Sequences, FiniteSetsExt, Functions

CONSTANTS
    Shards,         \* config.indexer.shards
    From, To,       \* BLOCK_FROM, BLOCK_TO
    BatchSize,
    ChunkSize,      \* defaultChunkSize
    Height,         \* the height of the chain
    Lowest,         \* the height every node has reached
    Inputs,         \* block -> "none", "short" or "long": its transactions
    Traced,         \* block -> the number of its internal transactions
    MaxErrors       \* bound on the failures


VARIABLES
    stored,         \* the blocks whose transactions the database has
    rows,           \* the table internal_transactions: <<block, index>>
    stage,          \* of each shard's loop: "check", "blocks", "traces", "write", "done", "dead"
    from,           \* the batch's first block
    blocks,         \* the blocks as the node gave them, in order
    traces,         \* their traces, in the same order
    written,        \* position -> rows of its trace handled; the positions still under way
    missed,         \* history: blocks of a run some node did not have
    errors

loopVars == <<stage, from, blocks, traces, written>>
vars == <<stored, rows, loopVars, missed, errors>>

Trace(b) == [i \in 1..Traced[b] |-> <<b, i>>]
ToDo(s) == DOMAIN written[s]

Init ==
    /\ stored \in {0..h : h \in From..Height}
    /\ rows = {}
    /\ stage = [s \in Shards |-> "check"]
    /\ from = [s \in Shards |-> From]
    /\ blocks = [s \in Shards |-> <<>>]
    /\ traces = [s \in Shards |-> <<>>]
    /\ written = [s \in Shards |-> <<>>]
    /\ missed = [s \in Shards |-> {}]
    /\ errors = 0

\* Promise.all of checkChainID: no loop begins before every shard has passed.
Check ==
    /\ \A s \in Shards : stage[s] = "check"
    /\ stage' = [s \in Shards |-> IF From < To THEN "blocks" ELSE "done"]
    /\ UNCHANGED <<stored, rows, from, blocks, traces, written, missed, errors>>

CheckFails ==
    /\ \A s \in Shards : stage[s] = "check"
    /\ errors < MaxErrors
    /\ errors' = errors + 1
    /\ stage' = [s \in Shards |-> "dead"]
    /\ UNCHANGED <<stored, rows, from, blocks, traces, written, missed>>

\* The blocks of the batch up to the height of the node that answers.
GetBlocks(s) ==
    /\ stage[s] = "blocks"
    /\ \E height \in Lowest..Height :
          LET last == Min({from[s] + BatchSize - 1, height})
              size == IF last < from[s] THEN 0 ELSE last - from[s] + 1
          IN  /\ blocks' = [blocks EXCEPT ![s] = [i \in 1..size |-> from[s] + i - 1]]
              /\ missed' = [missed EXCEPT ![s] = @ \cup (last + 1 .. from[s] + BatchSize - 1)]
    /\ stage' = [stage EXCEPT ![s] = "traces"]
    /\ UNCHANGED <<stored, rows, from, traces, written, errors>>

\* The blocks without transactions left out, and the traces not with them.
FilteredOut(bs) == SelectSeq(bs, LAMBDA b : Inputs[b] # "none")

\* filterBlocks drops transactions, never a block: a trace is found by its position.
Filtered(bs) == bs

\* The positions whose traces are to be stored.
Quiet(bs) == {i \in DOMAIN bs : Inputs[bs[i]] = "short"}

\* Each trace from a node of its own; where a node has none it is empty.
GetTraces(s) ==
    /\ stage[s] = "traces"
    /\ \E without \in SUBSET (Range(blocks[s]) \ (0..Lowest)) :
          LET given == Filtered(blocks[s])
              found == [i \in DOMAIN blocks[s] |->
                            IF blocks[s][i] \in without THEN <<>> ELSE Trace(blocks[s][i])]
          IN  /\ missed' = [missed EXCEPT ![s] = @ \cup without]
              /\ traces' = [traces EXCEPT ![s] = found]
              /\ written' = [written EXCEPT ![s] =
                                [i \in {j \in Quiet(given) : found[j] # <<>>} |-> 0]]
    /\ stage' = [stage EXCEPT ![s] = "write"]
    /\ UNCHANGED <<stored, rows, from, blocks, errors>>

\* The next chunk of the trace at position i, up to its n-th row.
ChunkEnd(s, i) == Min({written[s][i] + ChunkSize, Len(traces[s][i])})
Chunk(s, i) == {traces[s][i][j] : j \in written[s][i] + 1 .. ChunkEnd(s, i)}

\* The chunk is stored; its rows refer to the block's transactions.
WriteChunk(s, i) ==
    /\ stage[s] \in {"write", "dead"}
    /\ i \in ToDo(s)
    /\ \A row \in Chunk(s, i) : row[1] \in stored
    /\ rows' = rows \cup Chunk(s, i)
    /\ written' = [written EXCEPT ![s] = IF ChunkEnd(s, i) = Len(traces[s][i])
                                         THEN Restrict(@, ToDo(s) \ {i})
                                         ELSE [@ EXCEPT ![i] = ChunkEnd(s, i)]]
    /\ UNCHANGED <<stored, stage, from, blocks, traces, missed, errors>>

\* An insert of the chunk fails, always so without the transaction: others of the chunk
\* may be stored, the shard's loop is over, and the other blocks of its batch are
\* written to their end.
WriteFails(s, i) ==
    /\ stage[s] \in {"write", "dead"}
    /\ i \in ToDo(s)
    /\ IF \A row \in Chunk(s, i) : row[1] \in stored
       THEN errors < MaxErrors /\ errors' = errors + 1
       ELSE UNCHANGED errors
    /\ \E landed \in SUBSET {row \in Chunk(s, i) : row[1] \in stored} : rows' = rows \cup landed
    /\ stage' = [stage EXCEPT ![s] = "dead"]
    /\ written' = [written EXCEPT ![s] = Restrict(@, ToDo(s) \ {i})]
    /\ UNCHANGED <<stored, from, blocks, traces, missed>>

\* A request to the nodes fails after its attempts.
RequestFails(s) ==
    /\ stage[s] \in {"blocks", "traces"}
    /\ errors < MaxErrors
    /\ errors' = errors + 1
    /\ stage' = [stage EXCEPT ![s] = "dead"]
    /\ UNCHANGED <<stored, rows, from, blocks, traces, written, missed>>

NextBatch(s) ==
    /\ stage[s] = "write"
    /\ ToDo(s) = {}
    /\ from' = [from EXCEPT ![s] = @ + BatchSize]
    /\ stage' = [stage EXCEPT ![s] = IF from[s] + BatchSize < To THEN "blocks" ELSE "done"]
    /\ blocks' = [blocks EXCEPT ![s] = <<>>]
    /\ traces' = [traces EXCEPT ![s] = <<>>]
    /\ UNCHANGED <<stored, rows, written, missed, errors>>

\* Stopped and started again by hand, when no loop goes on.
Again ==
    /\ \A s \in Shards : stage[s] \in {"done", "dead"}
    /\ \E s \in Shards : stage[s] = "dead"
    /\ stage' = [s \in Shards |-> "check"]
    /\ from' = [s \in Shards |-> From]
    /\ blocks' = [s \in Shards |-> <<>>] /\ traces' = [s \in Shards |-> <<>>]
    /\ written' = [s \in Shards |-> <<>>] /\ missed' = [s \in Shards |-> {}]
    /\ UNCHANGED <<stored, rows, errors>>

Next ==
    \/ Check \/ CheckFails \/ Again
    \/ \E s \in Shards :
          \/ GetBlocks(s) \/ GetTraces(s) \/ RequestFails(s) \/ NextBatch(s)
          \/ \E i \in ToDo(s) : WriteChunk(s, i) \/ WriteFails(s, i)

Spec == Init /\ [][Next]_vars

-----------------------------------------------------------------------------
(* Properties *)

\* Types.
TypeOK ==
    /\ stored \subseteq 0..Height
    /\ rows \subseteq UNION {Range(Trace(b)) : b \in 0..Height}
    /\ stage \in [Shards -> {"check", "blocks", "traces", "write", "done", "dead"}]
    /\ \A s \in Shards : from[s] \in From..To + BatchSize /\ Len(traces[s]) \in {0, Len(blocks[s])}
    /\ errors \in 0..MaxErrors

\* A shard's loop that went to its end has stored, with the rows of the runs before
\* it and of the other shards' loops, all internal transactions of the blocks of the
\* range without inputs, but for what no node gave it - and no loop ever stores one
\* of another block, wherever in the batch the blocks without transactions are.
QuietBlocksFilled ==
    /\ \A row \in rows : Inputs[row[1]] = "short"
    /\ \A s \in Shards : stage[s] = "done" =>
          \A b \in From..To - 1 : b <= Height /\ Inputs[b] = "short" /\ b \notin missed[s] =>
              Range(Trace(b)) \subseteq rows

-----------------------------------------------------------------------------
(* The inductive invariant behind QuietBlocksFilled *)

\* The rows of a block whose first n are handled.
RowsTo(b, n) == {<<b, j>> : j \in 1..n}

\* What the loop of shard s owes the table.
Owed(s, b) == b <= Height /\ Inputs[b] = "short" /\ b \notin missed[s]

\* The blocks of a batch follow one another from its first.
BatchShape(s) ==
    /\ from[s] \in From..To + BatchSize
    /\ \E n \in 0..BatchSize :
          /\ blocks[s] = [i \in 1..n |-> from[s] + i - 1]
          /\ n > 0 => from[s] + n - 1 <= Height
          /\ stage[s] \in {"traces", "write"} => from[s] + n .. from[s] + BatchSize - 1 \subseteq missed[s]

\* The traces still to be written are those of the blocks at their positions.
WriteShape(s) ==
    /\ traces[s] = <<>> \/ DOMAIN traces[s] = DOMAIN blocks[s]
    /\ stage[s] \in {"check", "blocks", "traces"} => traces[s] = <<>>
    /\ ToDo(s) # {} => stage[s] \in {"write", "dead"}
    /\ \A i \in ToDo(s) :
          /\ i \in DOMAIN blocks[s] /\ i \in DOMAIN traces[s]
          /\ traces[s][i] = Trace(blocks[s][i]) /\ Inputs[blocks[s][i]] = "short"
          /\ written[s][i] \in 0..Traced[blocks[s][i]]

\* The blocks behind the batch are filled; so are those of the batch, up to the rows
\* still to be written.
FillShape(s) ==
    /\ stage[s] = "check" => from[s] = From
    /\ stage[s] \in {"blocks", "traces", "write"} => from[s] < To
    /\ stage[s] = "done" => To <= from[s]
    /\ stage[s] \in {"check", "blocks", "traces", "write", "done"} =>
          \A b \in From..from[s] - 1 : Owed(s, b) => RowsTo(b, Traced[b]) \subseteq rows
    /\ stage[s] = "write" =>
          \A i \in DOMAIN blocks[s] :
             LET b == blocks[s][i]
             IN  Owed(s, b) => RowsTo(b, IF i \in ToDo(s) THEN written[s][i] ELSE Traced[b]) \subseteq rows

RowsSound ==
    \A row \in rows :
        row[1] \in 0..Height /\ Inputs[row[1]] = "short" /\ row \in RowsTo(row[1], Traced[row[1]])

InternalInv == RowsSound /\ \A s \in Shards : BatchShape(s) /\ WriteShape(s) /\ FillShape(s)

=============================================================================
