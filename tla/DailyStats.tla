----------------------------- MODULE DailyStats -----------------------------
(* The daily metrics (indexer/metrics/stats.ts, updates and insertStats of          *)
(* postgres/Metrics.ts): a loop that counts, one kind after the other, the days of   *)
(* a window that ends before today, and stores the days it has not stored before.    *)
(*                                                                                *)
(* What a metric of a day is, is the number of the day's rows the database had; a   *)
(* day without rows has no value. The rows of a day arrive in any order and as late *)
(* as the indexer and its repairs bring them. The top lists, which follow in the    *)
(* same round, are TopStats.                                                       *)
EXTENDS Integers, Sequences, FiniteSets

CONSTANTS
    Kinds,      \* the metrics, in the order of the round, with the days each looks back beyond the others
    Window,     \* daysCount
    LastDay,    \* bound on the days
    RowsADay,   \* bound on the rows of a day
    MaxErrors   \* bound on the failures


Days == 0..LastDay

VARIABLES
    today,
    held,       \* the rows of each day in the database
    stored,     \* the table metrics_daily: kind, day and value, and when it was counted
    at,         \* the metric the round is at; 0 while it sleeps
    counted,    \* what the metric's query has found; {} before
    due,        \* history: the days the round has to store, to its end in its window
    whole,      \* history: the last round was without error
    errors

roundVars == <<at, counted, due, whole>>
vars == <<today, held, stored, roundVars, errors>>

Init ==
    /\ today = 0
    /\ held = [d \in Days |-> 0]
    /\ stored = {}
    /\ at = 0 /\ counted = {}
    /\ due = {} /\ whole = FALSE
    /\ errors = 0

\* The indexer stores a row of a day, late perhaps.
Index ==
    /\ \E d \in 0..today : held[d] < RowsADay /\ held' = [held EXCEPT ![d] = @ + 1]
    /\ UNCHANGED <<today, stored, roundVars, errors>>

\* A round looks at the window of the day on which it asks.
Midnight ==
    /\ today < LastDay
    /\ today' = today + 1
    /\ due' = IF at = 0 THEN due ELSE {d \in due : today' - Window <= d}
    /\ UNCHANGED <<held, stored, at, counted, whole, errors>>

\* The days of updateBlockSize, too, one short.
InWindowShort(kind, d) == today - Window < d /\ d < today

\* From offsetFrom days before today up to its beginning; updateBlockSize looks one day further.
InWindow(kind, d) == today - Window - kind.extra <= d /\ d < today

Wake ==
    /\ at = 0
    /\ at' = 1
    /\ due' = {d \in Days : today - Window <= d /\ d < today /\ held[d] > 0}
    /\ whole' = FALSE
    /\ UNCHANGED <<today, held, stored, counted, errors>>

\* Without the end of the round.
AfterLast == at + 1

\* The next metric of the round, or the end of it.
After == IF at = Len(Kinds) THEN 0 ELSE at + 1

\* The select; without rows there is no insert.
Count ==
    /\ at # 0
    /\ counted = {}
    /\ LET kind == Kinds[at]
           found == {[kind |-> kind.name, day |-> d, value |-> held[d], on |-> today] :
                        d \in {e \in Days : InWindow(kind, e) /\ held[e] > 0}}
       IN  /\ counted' = found
           /\ at' = IF found = {} THEN After ELSE at
           /\ whole' = (found = {} /\ at = Len(Kinds))
    /\ UNCHANGED <<today, held, stored, due, errors>>

\* insertStats: on conflict (type, date) do nothing.
Insert ==
    /\ counted # {}
    /\ stored' = stored \cup {r \in counted : ~\E s \in stored : s.kind = r.kind /\ s.day = r.day}
    /\ counted' = {}
    /\ at' = After
    /\ whole' = (at = Len(Kinds))
    /\ UNCHANGED <<today, held, due, errors>>

\* A query fails, or the service starts anew: the rest waits for the next round.
Error ==
    /\ at # 0
    /\ errors < MaxErrors
    /\ errors' = errors + 1
    /\ at' = 0 /\ counted' = {}
    /\ UNCHANGED <<today, held, stored, due, whole>>

Next == Index \/ Midnight \/ Wake \/ Count \/ Insert \/ Error

Spec == Init /\ [][Next]_vars

-----------------------------------------------------------------------------
(* Properties *)

\* Types.
TypeOK ==
    /\ today \in Days
    /\ held \in [Days -> 0..RowsADay]
    /\ at \in 0..Len(Kinds)
    /\ counted # {} => at # 0
    /\ errors \in 0..MaxErrors

\* A round without error leaves a value of every metric for each day that had rows when
\* the round began and is in its window until the end, the days earlier rounds lost
\* included; a metric has one value a day, counted when the day was over and on rows
\* that are still there - but not, if the indexer was behind, on all of the day's.
DaysCounted ==
    /\ whole => \A i \in DOMAIN Kinds, d \in due :
                    \E r \in stored : r.kind = Kinds[i].name /\ r.day = d
    /\ \A r \in stored : r.day < r.on /\ r.value \in 1..held[r.day]
    /\ \A r, s \in stored : r.kind = s.kind /\ r.day = s.day => r = s

-----------------------------------------------------------------------------
(* The inductive invariant behind DaysCounted *)

\* A value of the day's rows as they were when it was counted, after the day.
Sound(r) == r.day \in Days /\ r.day < r.on /\ r.value \in 1..held[r.day]

Has(i, d) == \E r \in stored : r.kind = Kinds[i].name /\ r.day = d

\* The metrics the round has passed have the days that are due; what is counted for the
\* one it is at covers them, one value a day.
RoundInv ==
    /\ \A r \in stored : Sound(r)
    /\ \A r, s \in stored : r.kind = s.kind /\ r.day = s.day => r = s
    /\ \A r \in counted : Sound(r) /\ r.kind = Kinds[at].name
    /\ \A r, s \in counted : r.day = s.day => r = s
    /\ due \subseteq Days /\ whole \in BOOLEAN /\ (whole => at = 0)
    /\ at # 0 => \A d \in due : today - Window <= d /\ d < today /\ held[d] > 0
    /\ counted # {} => \A d \in due : \E r \in counted : r.day = d
    /\ \A i \in DOMAIN Kinds, d \in due : whole \/ i < at => Has(i, d)

=============================================================================
