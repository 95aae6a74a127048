------------------------------ MODULE TopStats ------------------------------
(***************************************************************************)
(* insertTopStats exchanges the rows of one top list with four queries,    *)
(* BEGIN, a deletion, an insertion and COMMIT, each sent through the pool  *)
(* the other tasks of the process use as well.  A query runs on the        *)
(* connection that became idle last, whichever that is: a transaction      *)
(* belongs to a connection, not to the task that began it.                 *)
(*                                                                         *)
(* The other tasks are loops that read their pointer, insert the rows of   *)
(* the next block and set the pointer.  The top lists are known by the     *)
(* number of their update; any two of them share an address.               *)
(***************************************************************************)
EXTENDS Integers, Sequences, SequencesExt

CONSTANTS
    Loops,      \* the other tasks of the process
    PoolSize,   \* options.poolSize
    MaxBlock,   \* bound: the last block a loop writes
    MaxUpdate,  \* bound: updates of the top list
    MaxFaults   \* bound: connections lost

Stats == "statsIndexer"
Tasks == Loops \cup {Stats}
Conns == 1..PoolSize
Blocks == 1..MaxBlock
None == -1

ASSUME TopStatsAssumption ==
    /\ PoolSize \in Nat \ {0} /\ MaxBlock \in Nat
    /\ MaxUpdate \in Nat /\ MaxFaults \in Nat
    /\ Stats \notin Loops

VARIABLES
    connected,  \* _clients: the connections of the pool
    idle,       \* _idle: those no query runs on, the last used last
    waiting,    \* _pendingQueue: the tasks that wait for a connection
    stmt,       \* the query each task is at
    conn,       \* the connection it runs on, 0 for none
    retried,    \* the tasks that send their query a second time
    tx,         \* what each connection has not committed
    top,        \* metrics_top: the updates whose rows are stored
    rows,       \* the blocks whose rows are stored, for each loop
    pointer,    \* indexer_state, for each loop
    update,     \* the update at hand
    block,      \* the block at hand, for each loop
    disturbed,  \* history: an update was not alone on the pool
    lost,       \* history: rows that were rolled back
    faults      \* bound: connections lost so far

pool == <<connected, idle, waiting, conn>>
task == <<stmt, retried, update, block>>
db == <<top, rows, pointer>>
vars == <<pool, task, tx, db, disturbed, lost, faults>>

-----------------------------------------------------------------------------
(* Changes to the database *)

NoChange == [dels |-> {}, ins |-> {}, rows |-> {}, ptrs |-> [l \in Loops |-> None]]
NoTx == [open |-> FALSE, change |-> NoChange]

\* What a connection sees: what is committed and its own changes.
Top(k) == (top \ tx[k].change.dels) \cup tx[k].change.ins
Pointer(k, l) == IF tx[k].change.ptrs[l] # None THEN tx[k].change.ptrs[l] ELSE pointer[l]

Change(c) ==
    CASE stmt[c] = "DELETE"  -> [NoChange EXCEPT !.dels = Top(conn[c])]
      [] stmt[c] = "INSERT"  -> [NoChange EXCEPT !.ins = {update}]
      [] stmt[c] = "ROW"     -> [NoChange EXCEPT !.rows = {<<c, block[c]>>}]
      [] stmt[c] = "POINTER" -> [NoChange EXCEPT !.ptrs[c] = block[c]]
      [] OTHER -> NoChange

Merge(a, b) ==
    [dels |-> a.dels \cup b.dels,
     ins  |-> (a.ins \ b.dels) \cup b.ins,
     rows |-> a.rows \cup b.rows,
     ptrs |-> [l \in Loops |-> IF b.ptrs[l] # None THEN b.ptrs[l] ELSE a.ptrs[l]]]

Store(x) ==
    /\ top' = (top \ x.dels) \cup x.ins
    /\ rows' = rows \cup x.rows
    /\ pointer' = [l \in Loops |-> IF x.ptrs[l] # None THEN x.ptrs[l] ELSE pointer[l]]

\* The query waits for a lock of another connection's transaction.
Blocked(c) ==
    \E k \in Conns \ {conn[c]} :
        LET x == tx[k].change
        IN  CASE stmt[c] = "DELETE"  -> x.dels \cap Top(conn[c]) # {}
              [] stmt[c] = "INSERT"  -> x.dels # {} \/ x.ins # {}
              [] stmt[c] = "ROW"     -> <<c, block[c]>> \in x.rows
              [] stmt[c] = "POINTER" -> x.ptrs[c] # None
              [] OTHER -> FALSE

\* unique (type, period, address)
KeyExists(c) == stmt[c] = "INSERT" /\ Top(conn[c]) # {}

-----------------------------------------------------------------------------
(* The pool *)

Acquire(c) ==
    \/ /\ idle # <<>>
       /\ conn' = [conn EXCEPT ![c] = Last(idle)]
       /\ idle' = Front(idle)
       /\ UNCHANGED <<connected, waiting>>
    \/ /\ idle = <<>> /\ connected # Conns
       /\ LET k == CHOOSE i \in Conns : i \notin connected
          IN  conn' = [conn EXCEPT ![c] = k] /\ connected' = connected \cup {k}
       /\ UNCHANGED <<idle, waiting>>
    \/ /\ idle = <<>> /\ connected = Conns
       /\ waiting' = Append(waiting, c)
       /\ UNCHANGED <<connected, idle, conn>>

\* Bug of another pool: the connection idle for longest comes first.
IdlingFifo(k) == <<k>> \o idle

Idling(k) == Append(idle, k)

\* Bug: a released connection is idle even when tasks wait.
ReleaseUnnoticed(c) ==
    /\ conn' = [conn EXCEPT ![c] = 0]
    /\ idle' = Idling(conn[c])
    /\ UNCHANGED <<connected, waiting>>

\* The connection goes to the task that waits longest, or is idle.
Release(c) ==
    /\ IF waiting = <<>>
       THEN /\ conn' = [conn EXCEPT ![c] = 0]
            /\ idle' = Idling(conn[c])
            /\ UNCHANGED waiting
       ELSE /\ conn' = [conn EXCEPT ![c] = 0, ![Head(waiting)] = conn[c]]
            /\ waiting' = Tail(waiting)
            /\ UNCHANGED idle
    /\ UNCHANGED connected

\* Bug: a closed connection still counts.
CloseUncounted(c) ==
    /\ conn' = [conn EXCEPT ![c] = 0]
    /\ UNCHANGED <<connected, idle, waiting>>

\* A connection whose query failed is closed; the next task gets a new one.
Close(c) ==
    /\ IF waiting = <<>>
       THEN /\ conn' = [conn EXCEPT ![c] = 0]
            /\ connected' = connected \ {conn[c]}
            /\ UNCHANGED waiting
       ELSE /\ conn' = [conn EXCEPT ![c] = 0, ![Head(waiting)] = conn[c]]
            /\ waiting' = Tail(waiting)
            /\ UNCHANGED connected
    /\ UNCHANGED idle

-----------------------------------------------------------------------------
(* The tasks *)

\* Bug: the pointer is set before the rows are inserted.
AfterPointerFirst(s) ==
    CASE s = "TOP" -> "BEGIN" [] s = "BEGIN" -> "DELETE" [] s = "DELETE" -> "INSERT"
      [] s = "INSERT" -> "COMMIT" [] s = "COMMIT" -> "TOP" [] s = "ROLLBACK" -> "TOP"
      [] s = "READ" -> "POINTER" [] s = "POINTER" -> "ROW" [] s = "ROW" -> "READ"

\* Bug: the transaction is not ended.
AfterWithoutCommit(s) ==
    CASE s = "TOP" -> "BEGIN" [] s = "BEGIN" -> "DELETE" [] s = "DELETE" -> "INSERT"
      [] s \in {"INSERT", "COMMIT", "ROLLBACK"} -> "TOP"
      [] s = "READ" -> "ROW" [] s = "ROW" -> "POINTER" [] s = "POINTER" -> "READ"

\* The query a task sends when one has succeeded.
After(s) ==
    CASE s = "TOP" -> "BEGIN" [] s = "BEGIN" -> "DELETE" [] s = "DELETE" -> "INSERT"
      [] s = "INSERT" -> "COMMIT" [] s = "COMMIT" -> "TOP" [] s = "ROLLBACK" -> "TOP"
      [] s = "READ" -> "ROW" [] s = "ROW" -> "POINTER" [] s = "POINTER" -> "READ"

\* The selection of a top list may find no row: it is not exchanged then.
NothingToStore(c) == stmt[c] = "TOP"

\* The query a task sends when one has failed for good.
Caught(s) ==
    CASE s \in {"BEGIN", "DELETE", "INSERT", "COMMIT"} -> "ROLLBACK"
      [] s \in {"TOP", "ROLLBACK"} -> "TOP"
      [] OTHER -> "READ"

\* The time between BEGIN and COMMIT.
Updating ==
    \/ stmt[Stats] \in {"DELETE", "INSERT", "COMMIT", "ROLLBACK"}
    \/ stmt[Stats] = "BEGIN" /\ conn[Stats] # 0

Init ==
    /\ connected = {} /\ idle = <<>> /\ waiting = <<>>
    /\ stmt = [c \in Tasks |-> IF c = Stats THEN "TOP" ELSE "READ"]
    /\ conn = [c \in Tasks |-> 0]
    /\ retried = {}
    /\ tx = [k \in Conns |-> NoTx]
    /\ top = {} /\ rows = {} /\ pointer = [l \in Loops |-> 0]
    /\ update = 0 /\ block = [l \in Loops |-> 0]
    /\ disturbed = FALSE /\ lost = {} /\ faults = 0

\* A task sends its next query.
Send(c) ==
    /\ conn[c] = 0 /\ c \notin ToSet(waiting)
    /\ stmt[c] = "TOP" => update < MaxUpdate
    /\ stmt[c] = "READ" => block[c] < MaxBlock
    /\ Acquire(c)
    /\ disturbed' = (disturbed \/ (Updating /\ c # Stats))
    /\ UNCHANGED <<task, tx, db, lost, faults>>

\* The query takes effect and is answered.
Answer(c) ==
    /\ conn[c] # 0
    /\ ~Blocked(c) /\ ~KeyExists(c)
    /\ LET k == conn[c]
       IN  CASE stmt[c] = "BEGIN" ->
                /\ tx' = [tx EXCEPT ![k].open = TRUE]
                /\ UNCHANGED <<db, lost>>
             [] stmt[c] = "COMMIT" ->
                /\ tx' = [tx EXCEPT ![k] = NoTx]
                /\ Store(tx[k].change)
                /\ UNCHANGED lost
             [] stmt[c] = "ROLLBACK" ->
                /\ tx' = [tx EXCEPT ![k] = NoTx]
                /\ lost' = lost \cup tx[k].change.rows
                /\ UNCHANGED db
             [] OTHER ->
                /\ IF tx[k].open
                   THEN tx' = [tx EXCEPT ![k].change = Merge(@, Change(c))] /\ UNCHANGED db
                   ELSE Store(Change(c)) /\ UNCHANGED tx
                /\ UNCHANGED lost
    /\ update' = IF stmt[c] = "TOP" THEN update + 1 ELSE update
    /\ block' = IF stmt[c] = "READ" THEN [block EXCEPT ![c] = Pointer(conn[c], c) + 1] ELSE block
    /\ \/ stmt' = [stmt EXCEPT ![c] = After(@)]
       \/ NothingToStore(c) /\ UNCHANGED stmt
    /\ retried' = retried \ {c}
    /\ Release(c)
    /\ disturbed' = (disturbed \/ (Updating /\ c # Stats))
    /\ UNCHANGED faults

\* A query that failed is sent a second time; then the task gives up.
Failed(c) ==
    /\ IF c \in retried
       THEN stmt' = [stmt EXCEPT ![c] = Caught(@)] /\ retried' = retried \ {c}
       ELSE retried' = retried \cup {c} /\ UNCHANGED stmt
    /\ Close(c)
    /\ tx' = [tx EXCEPT ![conn[c]] = NoTx]
    /\ lost' = lost \cup tx[conn[c]].change.rows
    /\ disturbed' = (disturbed \/ Updating)
    /\ UNCHANGED <<update, block>>

\* The insertion meets a row with its key.
Reject(c) ==
    /\ conn[c] # 0
    /\ ~Blocked(c) /\ KeyExists(c)
    /\ Failed(c)
    /\ UNCHANGED <<db, faults>>

\* The connection is lost, before the query took effect or after.
LoseConnection(c) ==
    /\ conn[c] # 0
    /\ faults < MaxFaults
    /\ faults' = faults + 1
    /\ Failed(c)
    /\ \/ UNCHANGED db
       \/ ~Blocked(c) /\ ~KeyExists(c) /\ ~tx[conn[c]].open /\ Store(Change(c))
       \/ stmt[c] = "COMMIT" /\ Store(tx[conn[c]].change)

Next == \E c \in Tasks : Send(c) \/ Answer(c) \/ Reject(c) \/ LoseConnection(c)

Spec == Init /\ [][Next]_vars

\* The event loop sends what is to be sent; the database answers.
FairSpec == Spec /\ \A c \in Tasks : WF_vars(Send(c)) /\ WF_vars(Answer(c))

-----------------------------------------------------------------------------
(* Properties *)

StatsStmts == {"TOP", "BEGIN", "DELETE", "INSERT", "COMMIT", "ROLLBACK"}
LoopStmts == {"READ", "ROW", "POINTER"}
Updates == 0..MaxUpdate
Rows == Loops \X Nat

Changes ==
    [dels : SUBSET Updates, ins : SUBSET Updates, rows : SUBSET Rows,
     ptrs : [Loops -> Nat \cup {None}]]

InUse == {conn[c] : c \in Tasks} \ {0}

\* The pool's books: every connection is idle, in use by one task or closed, and no task
\* waits while one is idle or may be opened.
Books ==
    /\ connected \subseteq Conns /\ conn \in [Tasks -> Conns \cup {0}]
    /\ idle \in Seq(Conns) /\ waiting \in Seq(Tasks)
    /\ IsInjective(idle) /\ IsInjective(waiting)
    /\ ToSet(idle) \cup InUse = connected
    /\ ToSet(idle) \cap InUse = {}
    /\ \A c, d \in Tasks : conn[c] # 0 /\ conn[c] = conn[d] => c = d
    /\ \A c \in ToSet(waiting) : conn[c] = 0
    /\ waiting # <<>> => idle = <<>> /\ connected = Conns

\* The types, and the pool's books.
TypeOK ==
    /\ Books
    /\ stmt \in [Tasks -> StatsStmts \cup LoopStmts]
    /\ stmt[Stats] \in StatsStmts /\ \A l \in Loops : stmt[l] \in LoopStmts
    /\ retried \subseteq Tasks
    /\ tx \in [Conns -> [open : BOOLEAN, change : Changes]]
    /\ \A k \in Conns : ~tx[k].open => tx[k] = NoTx
    /\ top \subseteq Updates /\ rows \subseteq Rows
    /\ pointer \in [Loops -> Nat] /\ block \in [Loops -> Nat]
    /\ update \in Updates
    /\ stmt[Stats] = "TOP" /\ (conn[Stats] # 0 \/ Stats \in ToSet(waiting)) => update < MaxUpdate
    /\ disturbed \in BOOLEAN /\ lost \subseteq Rows
    /\ faults \in 0..MaxFaults

\* Metrics.ts sends BEGIN, the deletion, the insertion and COMMIT one after the
\* other and names no connection.  As long as every update was alone on the pool
\* a step leaves the top list alone or makes it the list of the update at hand:
\* no reader meets an empty list or a mixed one.
UpdateWhole == [][~disturbed' => top' = top \/ top' = {update}]_vars

\* And no transaction outlives its update: the queries of the other tasks are
\* never part of one.
NoneLeftOpen ==
    ~disturbed /\ ~Updating => \A k \in Conns : ~tx[k].open

\* The row of block n of loop l is stored, or an update took it in.
Accounted(l, n) ==
    \/ <<l, n>> \in rows
    \/ disturbed /\ (<<l, n>> \in lost \/ \E k \in Conns : <<l, n>> \in tx[k].change.rows)

\* A loop sets its pointer after the rows it covers.  They are stored, even with
\* an update in between, unless the transaction of an update took them in.
RowsBelowPointer == \A l \in Loops : \A n \in 1..pointer[l] : Accounted(l, n)

\* Metrics.ts:306-313 means the list to be exchanged in one transaction: a list
\* that was once stored is never found empty.
TopAlwaysThere == [][top # {} => top' # {}]_vars

\* Without an update among their queries the loops get through.
PointersAdvance == [](~disturbed) => <>(\A l \in Loops : pointer[l] = MaxBlock)

-----------------------------------------------------------------------------
(* The inductive invariants behind NoneLeftOpen and UpdateWhole, and behind *)
(* RowsBelowPointer                                                         *)

\* What the transaction of an update has changed before its next query.
UpdateSoFar ==
    CASE stmt[Stats] = "DELETE" -> NoChange
      [] stmt[Stats] = "INSERT" -> [NoChange EXCEPT !.dels = top]
      [] stmt[Stats] = "COMMIT" ->
          [dels |-> top, ins |-> {update}, rows |-> {}, ptrs |-> NoChange.ptrs]

\* Where the connection k of the transaction is: the next query of the update runs on it;
\* or is sent to it, for it was released last; or has to wait, for a task that waited
\* before has been given it.
AtHand(k) ==
    \/ conn[Stats] = k
    \/ conn[Stats] = 0 /\ Stats \notin ToSet(waiting) /\ idle # <<>> /\ Last(idle) = k
    \/ conn[Stats] = 0 /\ idle = <<>> /\ connected = Conns /\ \E l \in Loops : conn[l] = k

\* As long as every update was alone on the pool, the transaction of the update at hand is
\* the only one, and holds nothing but the update.
UpdateInv ==
    ~disturbed =>
        IF stmt[Stats] \in {"TOP", "BEGIN"}
        THEN \A k \in Conns : ~tx[k].open
        ELSE /\ stmt[Stats] # "ROLLBACK"
             /\ \E k \in Conns :
                   /\ tx[k] = [open |-> TRUE, change |-> UpdateSoFar]
                   /\ \A j \in Conns \ {k} : ~tx[j].open
                   /\ AtHand(k)

\* Whoever reads the pointer of a loop, with or without what is not committed, finds the rows
\* below accounted for; so does the loop that is about to set it.
RowsInv ==
    \A l \in Loops :
        /\ \A n \in 1..pointer[l] : Accounted(l, n)
        /\ \A k \in Conns : \A n \in 1..tx[k].change.ptrs[l] : Accounted(l, n)
        /\ stmt[l] # "READ" => \A n \in 1..(block[l] - 1) : Accounted(l, n)
        /\ stmt[l] = "POINTER" => Accounted(l, block[l])
=============================================================================
