------------------------------ MODULE SideJobs ------------------------------
(* What works on the database beside the indexers, in one specification: the read  *)
(* side, two scripts and the loop of the daily metrics. None of them changes what   *)
(* another reads, so a behaviour is one of them at work with the others idle; their  *)
(* variables of the same name are shared.                                         *)
EXTENDS Naturals, Sequences, FiniteSets

CONSTANTS
    Requests, Asked, MaxNow, MaxRead, MaxVersion,      \* ApiCache
    Tokens, Logs, Start, Finish,                       \* EventMigration
    Shards, From, To, Height, Lowest, Inputs, Traced,  \* MissingInternal
    Kinds, Window, LastDay, RowsADay,                  \* DailyStats
    BatchSize, ChunkSize, MaxErrors                    \* more than one

ASSUME ApiAssumption == MaxNow \in Nat /\ MaxRead \in Nat /\ MaxVersion \in Nat

ASSUME ScriptAssumption ==
    BatchSize \in Nat \ {0} /\ ChunkSize \in Nat \ {0} /\ MaxErrors \in Nat

ASSUME MigrationAssumption ==
    /\ Start \in Nat /\ Finish \in Nat /\ Start <= Finish
    /\ \A l \in Logs : l.block \in Nat

ASSUME InternalAssumption ==
    /\ From \in Nat /\ To \in Nat /\ From <= To
    /\ Height \in Nat /\ Lowest \in 0..Height
    /\ Inputs \in [0..Height -> {"none", "short", "long"}] /\ Traced \in [0..Height -> Nat]

ASSUME StatsAssumption ==
    /\ Kinds \in Seq([name : STRING, extra : Nat]) /\ Kinds # <<>>
    /\ Window \in Nat /\ LastDay \in Nat /\ RowsADay \in Nat

VARIABLES
    job,                                                            \* which of them
    queries, now, version, storedAt, cache, req,                    \* ApiCache
    logs, registered, events, known, toLoad, blocksFrom,
        isStopped, unwritten, before, completed,                       \* EventMigration
    rows, from, blocks, traces, written, missed,                    \* MissingInternal
    today, held, at, counted, due, whole,                           \* DailyStats
    stage, stored, errors                                           \* more than one

apiVars == <<queries, now, version, storedAt, cache, req>>
migrationVars == <<logs, registered, events, known, toLoad, blocksFrom, isStopped, unwritten, before, completed>>
internalVars == <<rows, from, blocks, traces, written, missed>>
statsVars == <<today, held, at, counted, due, whole>>

-----------------------------------------------------------------------------

Api == INSTANCE ApiCache
Migration == INSTANCE EventMigration
Internal == INSTANCE MissingInternal
Stats == INSTANCE DailyStats

\* The variables of a job that is not at work.
ApiIdle == queries = {} /\ now = 0 /\ version = 0 /\ storedAt = 0 /\ cache = <<>> /\ req = <<>>

MigrationIdle ==
    /\ logs = {} /\ registered = {} /\ events = {} /\ known = {} /\ toLoad = <<>> /\ blocksFrom = 0
    /\ isStopped = FALSE /\ unwritten = <<>> /\ before = {} /\ completed = FALSE

InternalIdle == rows = {} /\ from = 0 /\ blocks = <<>> /\ traces = <<>> /\ written = <<>> /\ missed = {}

StatsIdle == today = 0 /\ held = <<>> /\ at = 0 /\ counted = {} /\ due = {} /\ whole = FALSE

-----------------------------------------------------------------------------

Init ==
    \/ /\ job = "api" /\ Api!Init
       /\ MigrationIdle /\ InternalIdle /\ StatsIdle /\ stage = "" /\ stored = {} /\ errors = 0
    \/ /\ job = "migration" /\ Migration!Init
       /\ ApiIdle /\ InternalIdle /\ StatsIdle /\ stored = {}
    \/ /\ job = "internal" /\ Internal!Init
       /\ ApiIdle /\ MigrationIdle /\ StatsIdle
    \/ /\ job = "stats" /\ Stats!Init
       /\ ApiIdle /\ MigrationIdle /\ InternalIdle /\ stage = ""

ApiStep ==
    /\ job = "api" /\ Api!Next
    /\ UNCHANGED <<job, migrationVars, internalVars, statsVars, stage, stored, errors>>

MigrationStep ==
    /\ job = "migration" /\ Migration!Next
    /\ UNCHANGED <<job, apiVars, internalVars, statsVars, stored>>

InternalStep ==
    /\ job = "internal" /\ Internal!Next
    /\ UNCHANGED <<job, apiVars, migrationVars, statsVars>>

StatsStep ==
    /\ job = "stats" /\ Stats!Next
    /\ UNCHANGED <<job, apiVars, migrationVars, internalVars, stage>>

Next == ApiStep \/ MigrationStep \/ InternalStep \/ StatsStep

vars == <<job, apiVars, migrationVars, internalVars, statsVars, stage, stored, errors>>

Spec == Init /\ [][Next]_vars

-----------------------------------------------------------------------------
(* Properties, each of the job at work *)

\* Types.
TypeOK ==
    CASE job = "api"       -> Api!TypeOK
      [] job = "migration" -> Migration!TypeOK
      [] job = "internal"  -> Internal!TypeOK
      [] job = "stats"     -> Stats!TypeOK

\* ApiCache: nobody is answered with what another question found.
RightAnswer == job = "api" => Api!RightAnswer

\* ApiCache: an answer is as old as its maxAge and the time of its query, at most.
BoundedStaleness == job = "api" => Api!BoundedStaleness

\* ApiCache: "not found" is never served from the cache.
NotFoundIsFresh == job = "api" => Api!NotFoundIsFresh

\* EventMigration: a run that went to its end stored every event, and nothing else.
EventsMigrated == job = "migration" => Migration!EventsMigrated

\* MissingInternal: a loop that went to its end filled the blocks without inputs.
QuietBlocksFilled == job = "internal" => Internal!QuietBlocksFilled

\* DailyStats: a round without error left no day of the window without its value.
DaysCounted == job = "stats" => Stats!DaysCounted

=============================================================================
