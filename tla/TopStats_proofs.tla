-------------------------- MODULE TopStats_proofs --------------------------
(* Safety of the top lists' update on a shared pool, for every number of loops, *)
(* connections, blocks, updates and lost connections.                           *)
EXTENDS TopStats, TLAPS

-----------------------------------------------------------------------------
(* Sequences without repetition *)

LEMMA Appended ==
  ASSUME NEW S, NEW s \in Seq(S), NEW x \in S
  PROVE  /\ Append(s, x) \in Seq(S) /\ Append(s, x) # <<>> /\ Last(Append(s, x)) = x
         /\ ToSet(Append(s, x)) = ToSet(s) \cup {x}
         /\ IsInjective(s) /\ x \notin ToSet(s) => IsInjective(Append(s, x))
<1> DEFINE t == Append(s, x)
<1>1. /\ t \in Seq(S) /\ Len(t) = Len(s) + 1 /\ Len(s) \in Nat
      /\ DOMAIN s = 1..Len(s) /\ DOMAIN t = 1..(Len(s) + 1)
      /\ \A i \in 1..Len(s) : t[i] = s[i]
      /\ t[Len(s) + 1] = x
  OBVIOUS
<1> HIDE DEF t
<1>2. t # <<>> /\ Last(t) = x
  BY <1>1 DEF Last
<1>3. ToSet(t) = ToSet(s) \cup {x}
  BY <1>1 DEF ToSet
<1>4. ASSUME IsInjective(s), x \notin ToSet(s) PROVE IsInjective(t)
  <2> SUFFICES ASSUME NEW i \in DOMAIN t, NEW j \in DOMAIN t, t[i] = t[j] PROVE i = j
    BY DEF IsInjective
  <2>1. CASE i \in DOMAIN s /\ j \in DOMAIN s
    BY <1>1, <1>4, <2>1 DEF IsInjective
  <2>2. \A m \in DOMAIN s : t[m] # x
    BY <1>1, <1>4 DEF ToSet
  <2> QED BY <1>1, <2>1, <2>2
<1> QED BY <1>1, <1>2, <1>3, <1>4 DEF t

LEMMA LastTaken ==
  ASSUME NEW S, NEW s \in Seq(S), s # <<>>, IsInjective(s)
  PROVE  /\ Last(s) \in ToSet(s) /\ Last(s) \in S
         /\ Front(s) \in Seq(S) /\ IsInjective(Front(s))
         /\ ToSet(Front(s)) = ToSet(s) \ {Last(s)}
<1> DEFINE n == Len(s)
           t == Front(s)
<1>1. /\ n \in Nat \ {0} /\ DOMAIN s = 1..n
      /\ \A i \in 1..n : s[i] \in S
  OBVIOUS
<1>2. t \in Seq(S) /\ DOMAIN t = 1..(n - 1) /\ \A i \in 1..(n - 1) : t[i] = s[i]
  BY <1>1 DEF Front
<1> HIDE DEF n, t
<1>3. Last(s) = s[n] /\ s[n] \in ToSet(s) /\ s[n] \in S
  BY <1>1 DEF Last, ToSet, n
<1>4. IsInjective(t)
  BY <1>1, <1>2 DEF IsInjective
<1>5. \A i \in 1..(n - 1) : s[i] # s[n]
  BY <1>1 DEF IsInjective
<1>6. ToSet(t) = ToSet(s) \ {s[n]}
  BY <1>1, <1>2, <1>5 DEF ToSet
<1> QED BY <1>2, <1>3, <1>4, <1>6 DEF t

LEMMA HeadTaken ==
  ASSUME NEW S, NEW s \in Seq(S), s # <<>>, IsInjective(s)
  PROVE  /\ Head(s) \in ToSet(s) /\ Head(s) \in S
         /\ Tail(s) \in Seq(S) /\ IsInjective(Tail(s))
         /\ ToSet(Tail(s)) = ToSet(s) \ {Head(s)}
<1> DEFINE n == Len(s)
           t == Tail(s)
<1>1. /\ n \in Nat \ {0} /\ DOMAIN s = 1..n
      /\ \A i \in 1..n : s[i] \in S
  OBVIOUS
<1>2. t \in Seq(S) /\ DOMAIN t = 1..(n - 1) /\ \A i \in 1..(n - 1) : t[i] = s[i + 1]
  BY <1>1
<1> HIDE DEF n, t
<1>3. Head(s) = s[1] /\ s[1] \in ToSet(s) /\ s[1] \in S
  BY <1>1 DEF ToSet
<1>4. IsInjective(t)
  <2> SUFFICES ASSUME NEW i \in 1..(n - 1), NEW j \in 1..(n - 1), s[i + 1] = s[j + 1] PROVE i = j
    BY <1>2 DEF IsInjective
  <2>1. i + 1 \in DOMAIN s /\ j + 1 \in DOMAIN s
    BY <1>1
  <2> QED BY <2>1 DEF IsInjective
<1>5. \A i \in 1..(n - 1) : i + 1 \in DOMAIN s /\ s[i + 1] # s[1]
  BY <1>1 DEF IsInjective
<1>6. \A j \in DOMAIN s : j # 1 => j - 1 \in 1..(n - 1) /\ t[j - 1] = s[j]
  BY <1>1, <1>2
<1>7. ToSet(t) = ToSet(s) \ {s[1]}
  <2>1. ToSet(t) \subseteq ToSet(s) \ {s[1]}
    BY <1>2, <1>5 DEF ToSet
  <2>2. ToSet(s) \ {s[1]} \subseteq ToSet(t)
    BY <1>2, <1>6 DEF ToSet
  <2> QED BY <2>1, <2>2
<1> QED BY <1>2, <1>3, <1>4, <1>7 DEF t

LEMMA Members ==
  ASSUME NEW S, NEW s \in Seq(S)
  PROVE  ToSet(s) \subseteq S /\ (s = <<>> <=> ToSet(s) = {})
<1>1. DOMAIN s = 1..Len(s) /\ Len(s) \in Nat /\ \A i \in 1..Len(s) : s[i] \in S
  OBVIOUS
<1>2. ToSet(s) \subseteq S
  BY <1>1 DEF ToSet
<1>3. s # <<>> => s[1] \in ToSet(s)
  <2>1. s # <<>> => 1 \in DOMAIN s
    BY <1>1
  <2> QED BY <2>1 DEF ToSet
<1>4. ToSet(<<>>) = {}
  BY DEF ToSet
<1> QED BY <1>2, <1>3, <1>4

-----------------------------------------------------------------------------
(* The pool's books *)

LEMMA Used == \A k : k \in InUse <=> k # 0 /\ \E c \in Tasks : conn[c] = k
BY DEF InUse

LEMMA UsedAfter == \A k : k \in InUse' <=> k # 0 /\ \E c \in Tasks : conn'[c] = k
BY DEF InUse

LEMMA ZeroIsNoConnection == 0 \notin Conns
BY TopStatsAssumption DEF Conns

LEMMA AcquireBooks ==
  ASSUME Books, NEW c \in Tasks, conn[c] = 0, c \notin ToSet(waiting), Acquire(c)
  PROVE  Books'
<1> USE DEF Books
<1>1. CASE idle # <<>>
  <2> DEFINE k == Last(idle)
  <2>1. /\ conn' = [conn EXCEPT ![c] = k] /\ idle' = Front(idle)
        /\ UNCHANGED <<connected, waiting>>
    BY <1>1 DEF Acquire
  <2>2. /\ k \in ToSet(idle) /\ k \in Conns /\ idle' \in Seq(Conns) /\ IsInjective(idle')
        /\ ToSet(idle') = ToSet(idle) \ {k}
    BY <1>1, <2>1, LastTaken
  <2>3. k # 0 /\ \A d \in Tasks : conn[d] # k
    BY <2>2, Used, ZeroIsNoConnection
  <2>4. InUse' = InUse \cup {k}
    BY <2>1, <2>3, Used, UsedAfter
  <2>5. \A d, e \in Tasks : conn'[d] # 0 /\ conn'[d] = conn'[e] => d = e
    BY <2>1, <2>3
  <2>6. waiting = <<>> /\ ToSet(waiting) = {}
    BY <1>1, Members
  <2> QED BY <2>1, <2>2, <2>3, <2>4, <2>5, <2>6
<1>2. CASE idle = <<>> /\ connected # Conns
  <2> DEFINE k == CHOOSE i \in Conns : i \notin connected
  <2>1. /\ conn' = [conn EXCEPT ![c] = k] /\ connected' = connected \cup {k}
        /\ UNCHANGED <<idle, waiting>>
    BY <1>2 DEF Acquire
  <2>2. k \in Conns /\ k \notin connected
    BY <1>2
  <2> HIDE DEF k
  <2>3. k # 0 /\ \A d \in Tasks : conn[d] # k
    BY <2>2, Used, ZeroIsNoConnection
  <2>4. InUse' = InUse \cup {k}
    BY <2>1, <2>3, Used, UsedAfter
  <2>5. \A d, e \in Tasks : conn'[d] # 0 /\ conn'[d] = conn'[e] => d = e
    BY <2>1, <2>3
  <2>6. waiting = <<>> /\ ToSet(waiting) = {} /\ ToSet(idle) = {}
    BY <1>2, Members
  <2> QED BY <2>1, <2>2, <2>3, <2>4, <2>5, <2>6
<1>3. CASE idle = <<>> /\ connected = Conns
  <2>1. waiting' = Append(waiting, c) /\ UNCHANGED <<connected, idle, conn>>
    BY <1>3 DEF Acquire
  <2>2. /\ waiting' \in Seq(Tasks) /\ IsInjective(waiting')
        /\ ToSet(waiting') = ToSet(waiting) \cup {c}
    BY <2>1, Appended
  <2>3. InUse' = InUse
    BY <2>1 DEF InUse
  <2> QED BY <1>3, <2>1, <2>2, <2>3
<1> QED BY <1>1, <1>2, <1>3

\* The next task takes over the connection of c, or another of its number.
LEMMA HandedOver ==
  ASSUME Books, NEW c \in Tasks, conn[c] # 0, waiting # <<>>,
         conn' = [conn EXCEPT ![c] = 0, ![Head(waiting)] = conn[c]],
         waiting' = Tail(waiting), UNCHANGED <<idle, connected>>
  PROVE  Books' /\ Head(waiting) \in Tasks \ {c} /\ conn'[Head(waiting)] = conn[c]
         /\ \A d \in Tasks \ {c, Head(waiting)} : conn'[d] = conn[d]
<1> USE DEF Books
<1> DEFINE h == Head(waiting)
<1>1. /\ h \in ToSet(waiting) /\ h \in Tasks /\ waiting' \in Seq(Tasks) /\ IsInjective(waiting')
      /\ ToSet(waiting') = ToSet(waiting) \ {h}
  BY HeadTaken
<1> HIDE DEF h
<1>2. conn[h] = 0 /\ h # c
  BY <1>1
<1>3. conn' = [conn EXCEPT ![c] = 0, ![h] = conn[c]]
  BY DEF h
<1>4. conn'[c] = 0 /\ conn'[h] = conn[c] /\ \A d \in Tasks \ {c, h} : conn'[d] = conn[d]
  BY <1>1, <1>2, <1>3
<1>5. InUse' = InUse
  <2>1. ASSUME NEW k \in InUse PROVE k \in InUse'
    <3>1. PICK d \in Tasks : conn[d] = k /\ k # 0
      BY <2>1, Used
    <3>2. CASE d = c
      BY <1>1, <1>4, <3>1, <3>2, UsedAfter
    <3>3. CASE d # c
      BY <1>2, <1>4, <3>1, <3>3, UsedAfter
    <3> QED BY <3>2, <3>3
  <2>2. ASSUME NEW k \in InUse' PROVE k \in InUse
    <3>1. PICK d \in Tasks : conn'[d] = k /\ k # 0
      BY <2>2, UsedAfter
    <3>2. k \in {conn[c], conn[d]}
      BY <1>1, <1>4, <3>1
    <3> QED BY <3>1, <3>2, Used
  <2> QED BY <2>1, <2>2
<1>6. \A d, e \in Tasks : conn'[d] # 0 /\ conn'[d] = conn'[e] => d = e
  BY <1>1, <1>2, <1>4
<1>7. conn' \in [Tasks -> Conns \cup {0}]
  BY <1>1, <1>3
<1>8. \A d \in ToSet(waiting') : conn'[d] = 0
  BY <1>1, <1>2, <1>4, Members
<1>9. Books'
  BY <1>1, <1>5, <1>6, <1>7, <1>8
<1> QED BY <1>1, <1>2, <1>4, <1>9 DEF h

LEMMA ReleaseBooks ==
  ASSUME Books, NEW c \in Tasks, conn[c] # 0, Release(c)
  PROVE  Books'
<1> USE DEF Books
<1>1. CASE waiting = <<>>
  <2> DEFINE k == conn[c]
  <2>1. /\ conn' = [conn EXCEPT ![c] = 0] /\ idle' = Append(idle, k)
        /\ UNCHANGED <<waiting, connected>>
    BY <1>1 DEF Release, Idling
  <2>2. k \in InUse /\ k \in Conns /\ k \notin ToSet(idle)
    BY Used
  <2>3. /\ idle' \in Seq(Conns) /\ IsInjective(idle') /\ ToSet(idle') = ToSet(idle) \cup {k}
    BY <2>1, <2>2, Appended
  <2>4. InUse' = InUse \ {k}
    BY <2>1, <2>2, Used, UsedAfter
  <2>5. \A d, e \in Tasks : conn'[d] # 0 /\ conn'[d] = conn'[e] => d = e
    BY <2>1
  <2>6. ToSet(waiting) = {}
    BY <1>1, Members
  <2> QED BY <1>1, <2>1, <2>2, <2>3, <2>4, <2>5, <2>6
<1>2. CASE waiting # <<>>
  BY <1>2, HandedOver DEF Release
<1> QED BY <1>1, <1>2

LEMMA CloseBooks ==
  ASSUME Books, NEW c \in Tasks, conn[c] # 0, Close(c)
  PROVE  Books'
<1> USE DEF Books
<1>1. CASE waiting = <<>>
  <2> DEFINE k == conn[c]
  <2>1. /\ conn' = [conn EXCEPT ![c] = 0] /\ connected' = connected \ {k}
        /\ UNCHANGED <<waiting, idle>>
    BY <1>1 DEF Close
  <2>2. k \in InUse /\ k \notin ToSet(idle)
    BY Used
  <2>3. InUse' = InUse \ {k}
    BY <2>1, <2>2, Used, UsedAfter
  <2>4. \A d, e \in Tasks : conn'[d] # 0 /\ conn'[d] = conn'[e] => d = e
    BY <2>1
  <2>5. ToSet(waiting) = {}
    BY <1>1, Members
  <2> QED BY <1>1, <2>1, <2>2, <2>3, <2>4, <2>5
<1>2. CASE waiting # <<>>
  BY <1>2, HandedOver DEF Close
<1> QED BY <1>1, <1>2

\* A task that waits for a connection or has one.
Busy(c) == conn[c] # 0 \/ c \in ToSet(waiting)

\* The pool makes no other task busy or idle.
LEMMA OthersStayBusy ==
  ASSUME Books, NEW c \in Tasks,
         (~Busy(c) /\ Acquire(c)) \/ (conn[c] # 0 /\ (Release(c) \/ Close(c)))
  PROVE  \A d \in Tasks \ {c} : Busy(d)' <=> Busy(d)
<1>1. CASE ~Busy(c) /\ Acquire(c)
  <2>1. CASE idle # <<>> \/ connected # Conns
    BY <1>1, <2>1 DEF Acquire, Books, Busy
  <2>2. CASE idle = <<>> /\ connected = Conns
    <3>1. waiting' = Append(waiting, c) /\ conn' = conn
      BY <1>1, <2>2 DEF Acquire
    <3>2. ToSet(waiting') = ToSet(waiting) \cup {c}
      BY <3>1, Appended DEF Books
    <3> QED BY <3>1, <3>2 DEF Busy
  <2> QED BY <2>1, <2>2
<1>2. CASE conn[c] # 0 /\ (Release(c) \/ Close(c))
  <2>1. CASE waiting = <<>>
    BY <1>2, <2>1 DEF Release, Close, Books, Busy
  <2>2. CASE waiting # <<>>
    <3>1. /\ conn' = [conn EXCEPT ![c] = 0, ![Head(waiting)] = conn[c]]
          /\ waiting' = Tail(waiting) /\ UNCHANGED <<idle, connected>>
      BY <1>2, <2>2 DEF Release, Close
    <3>2. /\ Head(waiting) \in Tasks \ {c} /\ conn'[Head(waiting)] = conn[c]
          /\ \A d \in Tasks \ {c, Head(waiting)} : conn'[d] = conn[d]
      BY <1>2, <2>2, <3>1, HandedOver
    <3>3. /\ Head(waiting) \in ToSet(waiting)
          /\ ToSet(waiting') = ToSet(waiting) \ {Head(waiting)}
      BY <2>2, <3>1, HeadTaken DEF Books
    <3> QED BY <1>2, <3>2, <3>3 DEF Busy
  <2> QED BY <2>1, <2>2
<1> QED BY <1>1, <1>2

LEMMA ReleasedIsNotBusy ==
  ASSUME Books, NEW c \in Tasks, conn[c] # 0, Release(c) \/ Close(c)
  PROVE  conn'[c] = 0 /\ ~Busy(c)'
<1>1. c \notin ToSet(waiting)
  BY DEF Books
<1>2. CASE waiting = <<>>
  BY <1>1, <1>2 DEF Release, Close, Books, Busy
<1>3. CASE waiting # <<>>
  <2>1. /\ conn' = [conn EXCEPT ![c] = 0, ![Head(waiting)] = conn[c]]
        /\ waiting' = Tail(waiting)
    BY <1>3 DEF Release, Close
  <2>2. /\ Head(waiting) \in ToSet(waiting)
        /\ ToSet(waiting') = ToSet(waiting) \ {Head(waiting)}
    BY <1>3, <2>1, HeadTaken DEF Books
  <2>3. Head(waiting) # c
    BY <1>1, <2>2
  <2> QED BY <1>1, <2>1, <2>2, <2>3 DEF Books, Busy
<1> QED BY <1>2, <1>3

-----------------------------------------------------------------------------
(* Changes to the database *)

LEMMA NoChangeType == NoChange \in Changes
BY DEF NoChange, Changes, None

LEMMA ChangeType ==
  ASSUME TypeOK, NEW c \in Tasks, conn[c] # 0
  PROVE  Change(c) \in Changes
<1>1. conn[c] \in Conns
  BY DEF TypeOK, Books
<1>2. Top(conn[c]) \subseteq Updates
  BY <1>1 DEF TypeOK, Changes, Top
<1>3. ASSUME stmt[c] \in {"ROW", "POINTER"} PROVE c \in Loops /\ block[c] \in Nat
  BY <1>3 DEF TypeOK, StatsStmts, Tasks
<1>4. CASE stmt[c] = "DELETE"
  BY <1>2, <1>4, NoChangeType DEF Change, Changes, NoChange
<1>5. CASE stmt[c] = "INSERT"
  BY <1>5, NoChangeType DEF Change, Changes, NoChange, TypeOK
<1>6. CASE stmt[c] = "ROW"
  BY <1>3, <1>6, NoChangeType DEF Change, Changes, NoChange, Rows
<1>7. CASE stmt[c] = "POINTER"
  BY <1>3, <1>7, NoChangeType DEF Change, Changes, NoChange
<1>8. CASE stmt[c] \notin {"DELETE", "INSERT", "ROW", "POINTER"}
  BY <1>8, NoChangeType DEF Change
<1> QED BY <1>4, <1>5, <1>6, <1>7, <1>8

LEMMA MergeType ==
  ASSUME NEW a \in Changes, NEW b \in Changes
  PROVE  Merge(a, b) \in Changes
BY DEF Merge, Changes

LEMMA StoreTypes ==
  ASSUME TypeOK, NEW x \in Changes, Store(x)
  PROVE  top' \subseteq Updates /\ rows' \subseteq Rows /\ pointer' \in [Loops -> Nat]
BY DEF Store, Changes, TypeOK

\* What an answered query does to the database, case by case.
LEMMA AnswerEffect ==
  ASSUME NEW c \in Tasks, Answer(c)
  PROVE  /\ stmt[c] = "BEGIN" => tx' = [tx EXCEPT ![conn[c]].open = TRUE] /\ UNCHANGED <<db, lost>>
         /\ stmt[c] = "COMMIT" => /\ tx' = [tx EXCEPT ![conn[c]] = NoTx]
                                  /\ Store(tx[conn[c]].change) /\ lost' = lost
         /\ stmt[c] = "ROLLBACK" => /\ tx' = [tx EXCEPT ![conn[c]] = NoTx]
                                    /\ lost' = lost \cup tx[conn[c]].change.rows /\ UNCHANGED db
         /\ stmt[c] \notin {"BEGIN", "COMMIT", "ROLLBACK"} =>
               /\ lost' = lost
               /\ IF tx[conn[c]].open
                  THEN /\ tx' = [tx EXCEPT ![conn[c]].change = Merge(@, Change(c))]
                       /\ UNCHANGED db
                  ELSE Store(Change(c)) /\ UNCHANGED tx
<1>1. CASE stmt[c] = "BEGIN"
  BY <1>1 DEF Answer
<1>2. CASE stmt[c] = "COMMIT"
  BY <1>2 DEF Answer
<1>3. CASE stmt[c] = "ROLLBACK"
  BY <1>3 DEF Answer
<1>4. CASE stmt[c] \notin {"BEGIN", "COMMIT", "ROLLBACK"}
  BY <1>4 DEF Answer
<1> QED BY <1>1, <1>2, <1>3, <1>4

TxType == tx \in [Conns -> [open : BOOLEAN, change : Changes]] /\ \A k \in Conns : ~tx[k].open => tx[k] = NoTx
DbType == top \subseteq Updates /\ rows \subseteq Rows /\ pointer \in [Loops -> Nat] /\ lost \subseteq Rows

LEMMA NoTxType == NoTx \in [open : BOOLEAN, change : Changes] /\ ~NoTx.open /\ NoTx.change = NoChange
BY NoChangeType DEF NoTx

LEMMA AnswerTypes ==
  ASSUME TypeOK, NEW c \in Tasks, Answer(c)
  PROVE  TxType' /\ DbType'
<1>1. conn[c] \in Conns /\ Change(c) \in Changes
  BY ChangeType DEF Answer, TypeOK, Books
<1> DEFINE k == conn[c]
<1>2. TxType /\ DbType /\ tx[k] \in [open : BOOLEAN, change : Changes]
  BY <1>1 DEF TypeOK, TxType, DbType
<1>3. tx[k].change \in Changes /\ tx[k].change.rows \subseteq Rows
  BY <1>2 DEF Changes
<1>4. CASE stmt[c] = "BEGIN"
  <2>1. tx' = [tx EXCEPT ![k].open = TRUE] /\ UNCHANGED <<db, lost>>
    BY <1>4, AnswerEffect
  <2> QED BY <1>1, <1>2, <2>1 DEF TxType, DbType, db
<1>5. CASE stmt[c] = "COMMIT"
  <2>1. tx' = [tx EXCEPT ![k] = NoTx] /\ Store(tx[k].change) /\ lost' = lost
    BY <1>5, AnswerEffect
  <2>2. DbType'
    BY <1>2, <1>3, <2>1, StoreTypes DEF DbType
  <2> QED BY <1>1, <1>2, <2>1, <2>2, NoTxType DEF TxType
<1>6. CASE stmt[c] = "ROLLBACK"
  <2>1. tx' = [tx EXCEPT ![k] = NoTx] /\ lost' = lost \cup tx[k].change.rows /\ UNCHANGED db
    BY <1>6, AnswerEffect
  <2>2. DbType'
    BY <1>2, <1>3, <2>1 DEF DbType, db
  <2> QED BY <1>1, <1>2, <2>1, <2>2, NoTxType DEF TxType
<1>7. CASE stmt[c] \notin {"BEGIN", "COMMIT", "ROLLBACK"} /\ tx[k].open
  <2>1. tx' = [tx EXCEPT ![k].change = Merge(@, Change(c))] /\ UNCHANGED <<db, lost>>
    BY <1>7, AnswerEffect
  <2>2. Merge(tx[k].change, Change(c)) \in Changes
    BY <1>1, <1>3, MergeType
  <2> QED BY <1>1, <1>2, <1>7, <2>1, <2>2 DEF TxType, DbType, db
<1>8. CASE stmt[c] \notin {"BEGIN", "COMMIT", "ROLLBACK"} /\ ~tx[k].open
  <2>1. Store(Change(c)) /\ UNCHANGED <<tx, lost>>
    BY <1>8, AnswerEffect
  <2> QED BY <1>1, <1>2, <2>1, StoreTypes DEF TxType, DbType
<1> QED BY <1>4, <1>5, <1>6, <1>7, <1>8

\* What a connection that breaks may have done before.
LEMMA FailureEffect ==
  ASSUME NEW c \in Tasks, Reject(c) \/ LoseConnection(c)
  PROVE  /\ Failed(c) /\ conn[c] # 0
         /\ \/ UNCHANGED db
            \/ ~tx[conn[c]].open /\ Store(Change(c))
            \/ stmt[c] = "COMMIT" /\ Store(tx[conn[c]].change)
BY DEF Reject, LoseConnection

LEMMA FailureTypes ==
  ASSUME TypeOK, NEW c \in Tasks, Reject(c) \/ LoseConnection(c)
  PROVE  TxType' /\ DbType'
<1> DEFINE k == conn[c]
<1>1. k \in Conns /\ Change(c) \in Changes /\ Failed(c)
  BY ChangeType, FailureEffect DEF TypeOK, Books
<1>2. TxType /\ DbType /\ tx[k] \in [open : BOOLEAN, change : Changes]
  BY <1>1 DEF TypeOK, TxType, DbType
<1>3. tx[k].change \in Changes /\ tx[k].change.rows \subseteq Rows
  BY <1>2 DEF Changes
<1>4. tx' = [tx EXCEPT ![k] = NoTx] /\ lost' = lost \cup tx[k].change.rows
  BY <1>1 DEF Failed
<1>5. TxType'
  BY <1>1, <1>2, <1>4, NoTxType DEF TxType
<1>6. top' \subseteq Updates /\ rows' \subseteq Rows /\ pointer' \in [Loops -> Nat]
  BY <1>1, <1>2, <1>3, FailureEffect, StoreTypes DEF DbType, db
<1> QED BY <1>2, <1>3, <1>4, <1>5, <1>6 DEF DbType

-----------------------------------------------------------------------------
(* Types *)

LEMMA NextStmtTypes ==
  /\ \A s \in StatsStmts : After(s) \in StatsStmts /\ Caught(s) \in StatsStmts
  /\ \A s \in LoopStmts : After(s) \in LoopStmts /\ Caught(s) \in LoopStmts
BY DEF After, Caught, StatsStmts, LoopStmts

StmtType ==
  /\ stmt \in [Tasks -> StatsStmts \cup LoopStmts]
  /\ stmt[Stats] \in StatsStmts /\ \A l \in Loops : stmt[l] \in LoopStmts

LEMMA StmtTypeAfter ==
  ASSUME StmtType, NEW c \in Tasks,
         stmt' \in {stmt, [stmt EXCEPT ![c] = After(@)], [stmt EXCEPT ![c] = Caught(@)]}
  PROVE  StmtType'
<1>1. stmt[c] \in StatsStmts \cup LoopStmts /\ Stats \in Tasks /\ Loops \subseteq Tasks
  BY DEF StmtType, Tasks
<1>2. CASE stmt' = stmt
  BY <1>2 DEF StmtType
<1>3. ASSUME NEW s \in StatsStmts \cup LoopStmts, stmt' = [stmt EXCEPT ![c] = s],
             c = Stats => s \in StatsStmts, c \in Loops => s \in LoopStmts
      PROVE  StmtType'
  BY <1>1, <1>3 DEF StmtType
<1>4. (c = Stats => stmt[c] \in StatsStmts) /\ (c \in Loops => stmt[c] \in LoopStmts)
  BY DEF StmtType
<1> QED BY <1>1, <1>2, <1>3, <1>4, NextStmtTypes

LEMMA InitialTypes == Init => TypeOK
<1> SUFFICES ASSUME Init PROVE TypeOK
  OBVIOUS
<1> USE DEF Init
<1>1. Stats \in Tasks /\ Loops \subseteq Tasks /\ Stats \notin Loops
  BY TopStatsAssumption DEF Tasks
<1>2. Books
  <2>1. ToSet(idle) = {} /\ ToSet(waiting) = {} /\ InUse = {}
    BY DEF ToSet, InUse
  <2>2. IsInjective(idle) /\ IsInjective(waiting)
    BY DEF IsInjective
  <2> QED BY <2>1, <2>2 DEF Books
<1>3. StmtType
  BY <1>1 DEF StmtType, StatsStmts, LoopStmts
<1>4. tx \in [Conns -> [open : BOOLEAN, change : Changes]] /\ \A k \in Conns : tx[k] = NoTx
  BY NoTxType
<1>5. update \in Updates /\ faults \in 0..MaxFaults
  BY TopStatsAssumption DEF Updates
<1>6. conn[Stats] = 0 /\ ToSet(waiting) = {}
  BY <1>1 DEF ToSet
<1> QED BY <1>2, <1>3, <1>4, <1>5, <1>6 DEF TypeOK, StmtType

LEMMA TypesPreserved == TypeOK /\ [Next]_vars => TypeOK'
<1> SUFFICES ASSUME TypeOK, [Next]_vars PROVE TypeOK'
  OBVIOUS
<1>0. Stats \in Tasks /\ Books /\ StmtType /\ TxType /\ DbType
  BY DEF TypeOK, Tasks, StmtType, TxType, DbType
<1>1. CASE UNCHANGED vars
  <2>1. Books'
    BY <1>0, <1>1 DEF vars, pool, Books, InUse
  <2> QED BY <1>1, <2>1 DEF vars, pool, task, db, TypeOK
<1>2. ASSUME NEW c \in Tasks, Send(c) PROVE TypeOK'
  <2>1. ~Busy(c) /\ Acquire(c) /\ UNCHANGED <<stmt, retried, update, block, tx, top, rows, pointer, lost, faults>>
    BY <1>2 DEF Send, Busy, task, db
  <2>2. Books'
    BY <1>0, <2>1, AcquireBooks DEF Busy
  <2>3. stmt[Stats] = "TOP" /\ Busy(Stats)' => update < MaxUpdate
    <3>1. CASE c = Stats
      BY <1>2, <3>1 DEF Send
    <3>2. CASE c # Stats
      BY <1>0, <2>1, <3>2, OthersStayBusy DEF TypeOK, Busy
    <3> QED BY <3>1, <3>2
  <2>4. disturbed' \in BOOLEAN
    BY <1>2 DEF Send, TypeOK, Updating
  <2> QED BY <2>1, <2>2, <2>3, <2>4 DEF TypeOK, Busy
<1>3. ASSUME NEW c \in Tasks, Answer(c) PROVE TypeOK'
  <2>1. /\ conn[c] # 0 /\ Release(c) /\ stmt' \in {stmt, [stmt EXCEPT ![c] = After(@)]}
        /\ retried' = retried \ {c} /\ faults' = faults
    BY <1>3 DEF Answer
  <2>2. Books'
    BY <1>0, <2>1, ReleaseBooks
  <2>3. StmtType'
    BY <1>0, <2>1, StmtTypeAfter
  <2>4. TxType' /\ DbType'
    BY <1>3, AnswerTypes
  <2>5. update' \in Updates /\ (c # Stats => update' = update)
    <3>1. stmt[c] = "TOP" => c = Stats
      BY <1>0 DEF StmtType, LoopStmts, Tasks
    <3>2. update \in Updates /\ (stmt[c] = "TOP" => update < MaxUpdate)
      BY <2>1, <3>1 DEF TypeOK
    <3> QED BY <1>3, <3>1, <3>2, TopStatsAssumption DEF Answer, Updates
  <2>6. stmt'[Stats] = "TOP" /\ Busy(Stats)' => update' < MaxUpdate
    <3>1. CASE c = Stats
      BY <1>0, <2>1, <3>1, ReleasedIsNotBusy
    <3>2. CASE c # Stats
      <4>1. stmt'[Stats] = stmt[Stats]
        BY <1>0, <2>1, <3>2 DEF StmtType
      <4>2. Busy(Stats)' => Busy(Stats)
        BY <1>0, <2>1, <3>2, OthersStayBusy
      <4> QED BY <2>5, <3>2, <4>1, <4>2 DEF TypeOK, Busy
    <3> QED BY <3>1, <3>2
  <2>7. block' \in [Loops -> Nat]
    <3>1. CASE stmt[c] = "READ"
      <4>1. c \in Loops
        BY <1>0, <3>1 DEF StmtType, StatsStmts, Tasks
      <4>2. conn[c] \in Conns
        BY <1>0, <2>1 DEF Books
      <4>3. tx[conn[c]].change.ptrs[c] \in Nat \cup {None} /\ pointer[c] \in Nat
        BY <1>0, <4>1, <4>2 DEF TxType, DbType, Changes
      <4>4. Pointer(conn[c], c) + 1 \in Nat
        BY <4>3 DEF Pointer
      <4> QED BY <1>3, <3>1, <4>1, <4>4 DEF Answer, TypeOK
    <3>2. CASE stmt[c] # "READ"
      BY <1>3, <3>2 DEF Answer, TypeOK
    <3> QED BY <3>1, <3>2
  <2>8. disturbed' \in BOOLEAN
    BY <1>3 DEF Answer, TypeOK, Updating
  <2> QED BY <2>1, <2>2, <2>3, <2>4, <2>5, <2>6, <2>7, <2>8
          DEF TypeOK, StmtType, TxType, DbType, Busy
<1>4. ASSUME NEW c \in Tasks, Reject(c) \/ LoseConnection(c) PROVE TypeOK'
  <2>1. conn[c] # 0 /\ Failed(c)
    BY <1>4, FailureEffect
  <2>2. /\ Close(c) /\ UNCHANGED <<update, block>>
        /\ stmt' \in {stmt, [stmt EXCEPT ![c] = Caught(@)]}
        /\ retried' \subseteq retried \cup {c}
    BY <2>1 DEF Failed
  <2>3. Books'
    BY <1>0, <2>1, <2>2, CloseBooks
  <2>4. StmtType'
    BY <1>0, <2>2, StmtTypeAfter
  <2>5. TxType' /\ DbType'
    BY <1>4, FailureTypes
  <2>6. stmt'[Stats] = "TOP" /\ Busy(Stats)' => update' < MaxUpdate
    <3>1. CASE c = Stats
      BY <1>0, <2>1, <2>2, <3>1, ReleasedIsNotBusy
    <3>2. CASE c # Stats
      <4>1. stmt'[Stats] = stmt[Stats]
        BY <1>0, <2>2, <3>2 DEF StmtType
      <4>2. Busy(Stats)' => Busy(Stats)
        BY <1>0, <2>1, <2>2, <3>2, OthersStayBusy
      <4> QED BY <2>2, <4>1, <4>2 DEF TypeOK, Busy
    <3> QED BY <3>1, <3>2
  <2>7. disturbed' \in BOOLEAN
    BY <2>1 DEF Failed, TypeOK, Updating
  <2>8. faults' \in 0..MaxFaults
    BY <1>4, TopStatsAssumption DEF Reject, LoseConnection, TypeOK
  <2> QED BY <2>2, <2>3, <2>4, <2>5, <2>6, <2>7, <2>8
          DEF TypeOK, StmtType, TxType, DbType, Busy
<1> QED BY <1>1, <1>2, <1>3, <1>4 DEF Next

\* Types and the pool's books: whatever is answered, rejected or lost, every connection is
\* idle, in use by one task or closed, and no task waits while one is idle.
THEOREM TopStatsTypes == Spec => []TypeOK
BY InitialTypes, TypesPreserved, PTL DEF Spec

-----------------------------------------------------------------------------
(* One update at a time *)

\* The connection of the update, when its query has been answered.
LEMMA StaysAtHand ==
  ASSUME Books, NEW k \in Conns, conn[Stats] = k, Release(Stats)
  PROVE  AtHand(k)'
<1>1. k # 0 /\ Stats \in Tasks
  BY ZeroIsNoConnection DEF Tasks
<1>2. conn'[Stats] = 0 /\ Stats \notin ToSet(waiting')
  BY <1>1, ReleasedIsNotBusy DEF Busy
<1>3. CASE waiting = <<>>
  <2>1. idle' = Append(idle, k)
    BY <1>3 DEF Release, Idling
  <2>2. idle' # <<>> /\ Last(idle') = k
    BY <2>1, Appended DEF Books
  <2> QED BY <1>2, <2>2 DEF AtHand
<1>4. CASE waiting # <<>>
  <2>1. /\ conn' = [conn EXCEPT ![Stats] = 0, ![Head(waiting)] = conn[Stats]]
        /\ waiting' = Tail(waiting) /\ UNCHANGED <<idle, connected>>
    BY <1>4 DEF Release
  <2>2. Head(waiting) \in Tasks \ {Stats} /\ conn'[Head(waiting)] = k
    BY <1>1, <1>4, <2>1, HandedOver
  <2>3. Head(waiting) \in Loops
    BY <2>2 DEF Tasks
  <2>4. idle' = <<>> /\ connected' = Conns
    BY <1>4, <2>1 DEF Books
  <2> QED BY <1>2, <2>2, <2>3, <2>4 DEF AtHand
<1> QED BY <1>3, <1>4

\* And when its next query is sent.
LEMMA SentToHand ==
  ASSUME Books, NEW k \in Conns, AtHand(k), ~Busy(Stats), Acquire(Stats)
  PROVE  AtHand(k)'
<1>1. k # 0 /\ Stats \in Tasks /\ conn[Stats] = 0 /\ Loops \subseteq Tasks
  BY ZeroIsNoConnection DEF Tasks, Busy
<1>2. CASE idle # <<>>
  <2>1. Last(idle) = k
    BY <1>1, <1>2 DEF AtHand
  <2>2. conn'[Stats] = k
    BY <1>1, <1>2, <2>1 DEF Acquire, Books
  <2> QED BY <2>2 DEF AtHand
<1>3. CASE idle = <<>>
  <2>1. connected = Conns /\ \E l \in Loops : conn[l] = k
    BY <1>1, <1>3 DEF AtHand
  <2>2. UNCHANGED <<conn, idle, connected>>
    BY <1>3, <2>1 DEF Acquire
  <2> QED BY <1>1, <1>3, <2>1, <2>2 DEF AtHand
<1> QED BY <1>2, <1>3

\* The queries of an update, on its own connection, make up the update.
LEMMA UpdateGrows ==
  ASSUME TypeOK, Answer(Stats), stmt[Stats] \in {"DELETE", "INSERT"},
         tx[conn[Stats]] = [open |-> TRUE, change |-> UpdateSoFar]
  PROVE  tx'[conn[Stats]] = [open |-> TRUE, change |-> UpdateSoFar']
<1> DEFINE k == conn[Stats]
<1>1. Stats \in Tasks /\ k \in Conns /\ tx[k].open /\ tx[k].change = UpdateSoFar
  BY DEF TypeOK, Books, Answer, Tasks
<1>2. tx' = [tx EXCEPT ![k].change = Merge(@, Change(Stats))] /\ UNCHANGED db
  BY <1>1, AnswerEffect
<1>3. /\ tx'[k] = [open |-> TRUE, change |-> Merge(UpdateSoFar, Change(Stats))]
      /\ top' = top /\ update' = update /\ stmt'[Stats] = After(stmt[Stats])
  BY <1>1, <1>2 DEF Answer, NothingToStore, TypeOK, db
<1>4. CASE stmt[Stats] = "DELETE"
  <2>1. UpdateSoFar = NoChange /\ stmt'[Stats] = "INSERT"
    BY <1>3, <1>4 DEF UpdateSoFar, After
  <2>2. Top(k) = top
    BY <1>1, <2>1 DEF Top, NoChange
  <2>3. Change(Stats) = [NoChange EXCEPT !.dels = top]
    BY <1>4, <2>2 DEF Change
  <2>4. Merge(NoChange, [NoChange EXCEPT !.dels = top]) = [NoChange EXCEPT !.dels = top]
    BY DEF Merge, NoChange
  <2>5. UpdateSoFar' = [NoChange EXCEPT !.dels = top]
    BY <1>3, <2>1 DEF UpdateSoFar, NoChange
  <2> QED BY <1>3, <2>1, <2>3, <2>4, <2>5
<1>5. CASE stmt[Stats] = "INSERT"
  <2>1. UpdateSoFar = [NoChange EXCEPT !.dels = top] /\ stmt'[Stats] = "COMMIT"
    BY <1>3, <1>5 DEF UpdateSoFar, After
  <2>2. Change(Stats) = [NoChange EXCEPT !.ins = {update}]
    BY <1>5 DEF Change
  <2>3. Merge([NoChange EXCEPT !.dels = top], [NoChange EXCEPT !.ins = {update}])
          = [dels |-> top, ins |-> {update}, rows |-> {}, ptrs |-> NoChange.ptrs]
    <3> DEFINE a == [NoChange EXCEPT !.dels = top]
               b == [NoChange EXCEPT !.ins = {update}]
    <3>1. /\ a.dels = top /\ a.ins = {} /\ a.rows = {} /\ a.ptrs = [l \in Loops |-> None]
          /\ b.dels = {} /\ b.ins = {update} /\ b.rows = {} /\ b.ptrs = [l \in Loops |-> None]
      BY DEF NoChange
    <3> HIDE DEF a, b
    <3>2. [l \in Loops |-> IF b.ptrs[l] # None THEN b.ptrs[l] ELSE a.ptrs[l]]
            = [l \in Loops |-> None]
      BY <3>1
    <3>3. a.dels \cup b.dels = top /\ (a.ins \ b.dels) \cup b.ins = {update}
          /\ a.rows \cup b.rows = {}
      BY <3>1
    <3>4. Merge(a, b) = [dels |-> top, ins |-> {update}, rows |-> {},
                         ptrs |-> [l \in Loops |-> None]]
      BY <3>2, <3>3 DEF Merge
    <3> QED BY <3>4 DEF a, b, NoChange
  <2>4. UpdateSoFar' = [dels |-> top, ins |-> {update}, rows |-> {}, ptrs |-> NoChange.ptrs]
    BY <1>3, <2>1 DEF UpdateSoFar, NoChange
  <2> QED BY <1>3, <2>1, <2>2, <2>3, <2>4
<1> QED BY <1>4, <1>5

LEMMA UpdateInvPreserved == TypeOK /\ UpdateInv /\ [Next]_vars => UpdateInv'
<1> SUFFICES ASSUME TypeOK, UpdateInv, [Next]_vars, ~disturbed' PROVE UpdateInv'
  BY DEF UpdateInv
<1>0. /\ Stats \in Tasks /\ Loops \subseteq Tasks /\ Stats \notin Loops /\ Books /\ StmtType
  BY TopStatsAssumption DEF TypeOK, Tasks, StmtType
<1>1. ~disturbed
  BY DEF Next, Send, Answer, Reject, LoseConnection, Failed, vars
<1>2. stmt[Stats] \in StatsStmts
  BY <1>0 DEF StmtType
<1>3. CASE UNCHANGED vars
  <2>1. UNCHANGED <<stmt, conn, idle, waiting, connected, tx, top, update, disturbed>>
    BY <1>3 DEF vars, pool, task, db
  <2> QED BY <2>1 DEF UpdateInv, UpdateSoFar, AtHand
<1>4. CASE Next /\ stmt[Stats] \in {"TOP", "BEGIN"}
  <2>1. \A k \in Conns : ~tx[k].open
    BY <1>1, <1>4 DEF UpdateInv
  <2>2. ASSUME NEW c \in Tasks, Send(c) PROVE UpdateInv'
    <3>1. UNCHANGED <<stmt, tx>>
      BY <2>2 DEF Send, task
    <3> QED BY <1>4, <2>1, <3>1 DEF UpdateInv
  <2>3. ASSUME NEW c \in Tasks \ {Stats}, Answer(c) PROVE UpdateInv'
    <3>1. stmt[c] \notin {"BEGIN", "COMMIT", "ROLLBACK"} /\ conn[c] \in Conns
      BY <1>0, <2>3 DEF StmtType, LoopStmts, Tasks, Answer, Books
    <3>2. tx' = tx /\ stmt'[Stats] = stmt[Stats]
      BY <1>0, <2>1, <2>3, <3>1, AnswerEffect DEF Answer, StmtType
    <3> QED BY <1>4, <2>1, <3>2 DEF UpdateInv
  <2>4. CASE Answer(Stats)
    <3>1. /\ conn[Stats] \in Conns /\ Release(Stats)
          /\ \/ stmt'[Stats] = After(stmt[Stats])
             \/ stmt[Stats] = "TOP" /\ stmt'[Stats] = "TOP"
      BY <1>0, <2>4 DEF Answer, NothingToStore, Books, StmtType
    <3>2. CASE stmt[Stats] = "TOP"
      <4>1. tx' = tx /\ stmt'[Stats] \in {"TOP", "BEGIN"}
        BY <1>0, <2>1, <2>4, <3>1, <3>2, AnswerEffect DEF After
      <4> QED BY <2>1, <4>1 DEF UpdateInv
    <3>3. CASE stmt[Stats] = "BEGIN"
      <4>1. PICK k \in Conns : k = conn[Stats]
        BY <3>1
      <4>2. tx[k] = NoTx /\ tx' = [tx EXCEPT ![k].open = TRUE] /\ stmt'[Stats] = "DELETE"
        BY <1>0, <2>1, <2>4, <3>1, <3>3, <4>1, AnswerEffect DEF After, TypeOK
      <4>3. tx'[k] = [NoTx EXCEPT !.open = TRUE] /\ \A j \in Conns \ {k} : ~tx'[j].open
        BY <2>1, <4>2 DEF TypeOK
      <4>4. tx'[k] = [open |-> TRUE, change |-> NoChange]
        BY <4>3 DEF NoTx
      <4>5. UpdateSoFar' = NoChange
        BY <4>2 DEF UpdateSoFar, NoChange
      <4>6. AtHand(k)'
        BY <1>0, <3>1, <4>1, StaysAtHand
      <4> QED BY <4>2, <4>3, <4>4, <4>5, <4>6 DEF UpdateInv
    <3> QED BY <1>4, <3>2, <3>3
  <2>5. ASSUME NEW c \in Tasks, Reject(c) \/ LoseConnection(c) PROVE UpdateInv'
    <3>1. Failed(c) /\ conn[c] # 0 /\ conn[c] \in Conns
      BY <1>0, <2>5, FailureEffect DEF Books
    <3>2. ~Updating
      BY <3>1 DEF Failed
    <3>3. stmt[Stats] = "TOP" \/ (stmt[Stats] = "BEGIN" /\ c # Stats)
      BY <1>4, <3>1, <3>2 DEF Updating
    <3>4. stmt'[Stats] = stmt[Stats]
      BY <1>0, <3>1, <3>3 DEF Failed, Caught, StmtType
    <3>5. \A k \in Conns : ~tx'[k].open
      BY <2>1, <3>1, NoTxType DEF Failed, TypeOK
    <3> QED BY <1>4, <3>4, <3>5 DEF UpdateInv
  <2> QED BY <1>4, <2>2, <2>3, <2>4, <2>5 DEF Next
<1>5. CASE Next /\ stmt[Stats] \notin {"TOP", "BEGIN"}
  <2>1. PICK k \in Conns :
          /\ tx[k] = [open |-> TRUE, change |-> UpdateSoFar]
          /\ \A j \in Conns \ {k} : ~tx[j].open
          /\ AtHand(k)
    BY <1>1, <1>5 DEF UpdateInv
  <2>2. stmt[Stats] \in {"DELETE", "INSERT", "COMMIT"} /\ Updating
    BY <1>1, <1>2, <1>5 DEF UpdateInv, StatsStmts, Updating
  <2>3. Send(Stats) \/ Answer(Stats)
    <3>1. ASSUME NEW c \in Tasks, Send(c) PROVE c = Stats
      BY <2>2, <3>1 DEF Send
    <3>2. ASSUME NEW c \in Tasks, Answer(c) PROVE c = Stats
      BY <2>2, <3>2 DEF Answer
    <3>3. ASSUME NEW c \in Tasks, Reject(c) \/ LoseConnection(c) PROVE FALSE
      BY <2>2, <3>3, FailureEffect DEF Failed
    <3> QED BY <1>5, <3>1, <3>2, <3>3 DEF Next
  <2>4. CASE Send(Stats)
    <3>1. /\ UNCHANGED <<stmt, tx, top, update>>
          /\ ~Busy(Stats) /\ Acquire(Stats)
      BY <2>4 DEF Send, task, db, Busy
    <3>2. AtHand(k)'
      BY <1>0, <2>1, <3>1, SentToHand
    <3>3. UpdateSoFar' = UpdateSoFar
      BY <3>1 DEF UpdateSoFar
    <3> QED BY <2>1, <2>2, <3>1, <3>2, <3>3 DEF UpdateInv
  <2>5. CASE Answer(Stats)
    <3>1. conn[Stats] = k
      BY <2>1, <2>5 DEF AtHand, Answer
    <3>2. Release(Stats) /\ stmt'[Stats] = After(stmt[Stats])
      BY <1>0, <2>2, <2>5 DEF Answer, NothingToStore, StmtType
    <3>3. AtHand(k)'
      BY <1>0, <3>1, <3>2, StaysAtHand
    <3>4. CASE stmt[Stats] \in {"DELETE", "INSERT"}
      <4>1. tx'[k] = [open |-> TRUE, change |-> UpdateSoFar']
        BY <2>1, <2>5, <3>1, <3>4, UpdateGrows
      <4>2. \A j \in Conns \ {k} : ~tx'[j].open
        <5>1. tx' = [tx EXCEPT ![k].change = Merge(@, Change(Stats))]
          <6>1. tx[k].open /\ stmt[Stats] \notin {"BEGIN", "COMMIT", "ROLLBACK"}
            BY <2>1, <3>4
          <6> QED BY <1>0, <2>5, <3>1, <6>1, AnswerEffect
        <5> QED BY <2>1, <5>1 DEF TypeOK
      <4>3. stmt'[Stats] \in {"INSERT", "COMMIT"}
        BY <3>2, <3>4 DEF After
      <4> QED BY <3>3, <4>1, <4>2, <4>3 DEF UpdateInv
    <3>5. CASE stmt[Stats] = "COMMIT"
      <4>1. tx' = [tx EXCEPT ![k] = NoTx] /\ stmt'[Stats] = "TOP"
        BY <1>0, <2>5, <3>1, <3>2, <3>5, AnswerEffect DEF After
      <4>2. \A j \in Conns : ~tx'[j].open
        BY <2>1, <4>1, NoTxType DEF TypeOK
      <4> QED BY <4>1, <4>2 DEF UpdateInv
    <3> QED BY <2>2, <3>4, <3>5
  <2> QED BY <2>3, <2>4, <2>5
<1> QED BY <1>3, <1>4, <1>5

\* The transaction of the update at hand is the only one, holds nothing but the update, and
\* the next query of the update comes to the connection it is on.
THEOREM UpdateInvHolds == Spec => []UpdateInv
<1>1. Init => UpdateInv
  BY NoTxType DEF Init, UpdateInv, Tasks
<1> QED BY <1>1, TopStatsTypes, UpdateInvPreserved, PTL DEF Spec

\* As long as every update was alone on the pool, none leaves its transaction open: the
\* queries of the other tasks are never part of one.
THEOREM NoTransactionLeftOpen == Spec => []NoneLeftOpen
<1>1. TypeOK /\ UpdateInv => NoneLeftOpen
  BY DEF TypeOK, StatsStmts, UpdateInv, NoneLeftOpen, Updating
<1> QED BY <1>1, TopStatsTypes, UpdateInvHolds, PTL

-----------------------------------------------------------------------------
(* The top list *)

\* Only the deletion and the insertion change the top list.
LEMMA NoTopChange ==
  ASSUME NEW c \in Tasks, stmt[c] \notin {"DELETE", "INSERT"}
  PROVE  Change(c).dels = {} /\ Change(c).ins = {}
<1>1. CASE stmt[c] = "ROW"
  BY <1>1 DEF Change, NoChange
<1>2. CASE stmt[c] = "POINTER"
  BY <1>2 DEF Change, NoChange
<1>3. CASE stmt[c] \notin {"ROW", "POINTER"}
  BY <1>3 DEF Change, NoChange
<1> QED BY <1>1, <1>2, <1>3

LEMMA WholeStep ==
  ASSUME TypeOK, UpdateInv, [Next]_vars, ~disturbed'
  PROVE  top' = top \/ top' = {update}
<1>0. /\ Stats \in Tasks /\ Loops \subseteq Tasks /\ Stats \notin Loops /\ Books /\ StmtType
  BY TopStatsAssumption DEF TypeOK, Tasks, StmtType
<1>1. ~disturbed
  BY DEF Next, Send, Answer, Reject, LoseConnection, Failed, vars
<1>2. ASSUME NEW c \in Tasks, stmt[c] \notin {"DELETE", "INSERT"}, Store(Change(c))
      PROVE  top' = top
  BY <1>2, NoTopChange DEF Store
<1>3. CASE UNCHANGED vars
  BY <1>3 DEF vars, db
<1>4. ASSUME NEW c \in Tasks, Send(c) PROVE top' = top
  BY <1>4 DEF Send, db
<1>5. ASSUME NEW c \in Tasks \ {Stats}, Answer(c) PROVE top' = top
  <2>1. stmt[c] \in LoopStmts
    BY <1>0 DEF StmtType, Tasks
  <2>2. UNCHANGED db \/ Store(Change(c))
    BY <1>5, <2>1, AnswerEffect DEF LoopStmts
  <2> QED BY <1>2, <2>1, <2>2 DEF LoopStmts, db
<1>6. CASE Answer(Stats) /\ stmt[Stats] \in {"TOP", "BEGIN", "ROLLBACK"}
  <2>1. UNCHANGED db \/ Store(Change(Stats))
    BY <1>0, <1>6, AnswerEffect
  <2> QED BY <1>0, <1>2, <1>6, <2>1 DEF db
<1>7. CASE Answer(Stats) /\ stmt[Stats] \in {"DELETE", "INSERT", "COMMIT"}
  <2>1. PICK k \in Conns : tx[k] = [open |-> TRUE, change |-> UpdateSoFar] /\ AtHand(k)
    BY <1>1, <1>7 DEF UpdateInv
  <2>2. conn[Stats] = k
    BY <1>7, <2>1 DEF AtHand, Answer
  <2>3. CASE stmt[Stats] \in {"DELETE", "INSERT"}
    <3>1. tx[k].open /\ stmt[Stats] \notin {"BEGIN", "COMMIT", "ROLLBACK"}
      BY <2>1, <2>3
    <3>2. UNCHANGED db
      BY <1>0, <1>7, <2>2, <3>1, AnswerEffect
    <3> QED BY <3>2 DEF db
  <2>4. CASE stmt[Stats] = "COMMIT"
    <3>1. tx[k].change.dels = top /\ tx[k].change.ins = {update}
      BY <2>1, <2>4 DEF UpdateSoFar
    <3>2. Store(tx[k].change)
      BY <1>0, <1>7, <2>2, <2>4, AnswerEffect
    <3> QED BY <3>1, <3>2 DEF Store
  <2> QED BY <1>7, <2>3, <2>4
<1>8. ASSUME NEW c \in Tasks, Reject(c) \/ LoseConnection(c) PROVE top' = top
  <2>1. Failed(c) /\ conn[c] # 0
    BY <1>8, FailureEffect
  <2>2. ~Updating
    BY <2>1 DEF Failed
  <2>3. stmt[c] \in LoopStmts \cup {"TOP"}
    BY <1>0, <2>1, <2>2 DEF Updating, StmtType, StatsStmts, Tasks
  <2>4. UNCHANGED db \/ Store(Change(c))
    BY <1>8, <2>3, FailureEffect DEF LoopStmts
  <2> QED BY <1>2, <2>3, <2>4 DEF LoopStmts, db
<1>9. stmt[Stats] \in {"TOP", "BEGIN", "ROLLBACK"} \cup {"DELETE", "INSERT", "COMMIT"}
  BY <1>0 DEF StmtType, StatsStmts
<1> QED BY <1>3, <1>4, <1>5, <1>6, <1>7, <1>8, <1>9 DEF Next

\* As long as every update was alone on the pool, no step makes the top list anything but
\* the list of the update at hand: nobody reads an empty list or one of two updates.
THEOREM UpdateIsWhole == Spec => UpdateWhole
<1>1. TypeOK /\ UpdateInv /\ [Next]_vars => [~disturbed' => top' = top \/ top' = {update}]_vars
  BY WholeStep
<1> QED BY <1>1, TopStatsTypes, UpdateInvHolds, PTL DEF Spec, UpdateWhole

-----------------------------------------------------------------------------
(* Rows and pointers *)

Below(l, m) == \A n \in 1..m : Accounted(l, n)

\* A row a connection has not committed is kept, stored or listed as lost.
LEMMA UncommittedRows ==
  ASSUME TypeOK, Next, NEW k \in Conns, NEW r, r \in tx[k].change.rows
  PROVE  r \in tx'[k].change.rows \/ r \in rows' \/ r \in lost'
<1>1. ASSUME NEW c \in Tasks, Send(c) PROVE tx' = tx
  BY <1>1 DEF Send
<1>2. ASSUME NEW c \in Tasks, Answer(c)
      PROVE  r \in tx'[k].change.rows \/ r \in rows' \/ r \in lost'
  <2>1. conn[c] \in Conns /\ TxType
    BY <1>2 DEF Answer, TypeOK, Books, TxType
  <2>2. CASE stmt[c] = "BEGIN"
    <3>1. tx' = [tx EXCEPT ![conn[c]].open = TRUE]
      BY <1>2, <2>2, AnswerEffect
    <3> QED BY <2>1, <3>1 DEF TxType
  <2>3. CASE stmt[c] = "COMMIT"
    <3>1. tx' = [tx EXCEPT ![conn[c]] = NoTx] /\ Store(tx[conn[c]].change)
      BY <1>2, <2>3, AnswerEffect
    <3> QED BY <2>1, <3>1 DEF TxType, Store
  <2>4. CASE stmt[c] = "ROLLBACK"
    <3>1. tx' = [tx EXCEPT ![conn[c]] = NoTx] /\ lost' = lost \cup tx[conn[c]].change.rows
      BY <1>2, <2>4, AnswerEffect
    <3> QED BY <2>1, <3>1 DEF TxType
  <2>5. CASE stmt[c] \notin {"BEGIN", "COMMIT", "ROLLBACK"}
    <3>1. tx' = tx \/ tx' = [tx EXCEPT ![conn[c]].change = Merge(@, Change(c))]
      BY <1>2, <2>5, AnswerEffect
    <3> QED BY <2>1, <3>1 DEF TxType, Merge
  <2> QED BY <2>2, <2>3, <2>4, <2>5
<1>3. ASSUME NEW c \in Tasks, Reject(c) \/ LoseConnection(c)
      PROVE  r \in tx'[k].change.rows \/ r \in lost'
  <2>1. /\ conn[c] \in Conns /\ TxType
        /\ tx' = [tx EXCEPT ![conn[c]] = NoTx] /\ lost' = lost \cup tx[conn[c]].change.rows
    BY <1>3, FailureEffect DEF Failed, TypeOK, Books, TxType
  <2> QED BY <2>1 DEF TxType
<1> QED BY <1>1, <1>2, <1>3 DEF Next

\* Nothing that is stored, was lost or was disturbed becomes undone.
LEMMA HistoryGrows ==
  ASSUME Next
  PROVE  rows \subseteq rows' /\ lost \subseteq lost' /\ (disturbed => disturbed')
<1>1. ASSUME NEW c \in Tasks, Send(c)
      PROVE  UNCHANGED <<rows, lost>> /\ (disturbed => disturbed')
  BY <1>1 DEF Send, db
<1>2. ASSUME NEW c \in Tasks, Answer(c)
      PROVE  rows \subseteq rows' /\ lost \subseteq lost' /\ (disturbed => disturbed')
  <2>1. disturbed => disturbed'
    BY <1>2 DEF Answer
  <2>2. UNCHANGED db \/ \E x : Store(x)
    BY <1>2, AnswerEffect
  <2>3. lost \subseteq lost'
    BY <1>2, AnswerEffect
  <2> QED BY <2>1, <2>2, <2>3 DEF Store, db
<1>3. ASSUME NEW c \in Tasks, Reject(c) \/ LoseConnection(c)
      PROVE  rows \subseteq rows' /\ lost \subseteq lost' /\ (disturbed => disturbed')
  <2>1. Failed(c) /\ (UNCHANGED db \/ \E x : Store(x))
    BY <1>3, FailureEffect
  <2> QED BY <2>1 DEF Failed, Store, db
<1> QED BY <1>1, <1>2, <1>3 DEF Next

LEMMA StaysBelow ==
  ASSUME TypeOK, Next, NEW l, NEW m, Below(l, m)
  PROVE  Below(l, m)'
<1> SUFFICES ASSUME NEW n \in 1..m, Accounted(l, n) PROVE Accounted(l, n)'
  BY DEF Below
<1>1. CASE <<l, n>> \in rows \/ (disturbed /\ <<l, n>> \in lost)
  BY <1>1, HistoryGrows DEF Accounted
<1>2. CASE disturbed /\ \E k \in Conns : <<l, n>> \in tx[k].change.rows
  BY <1>2, HistoryGrows, UncommittedRows DEF Accounted
<1> QED BY <1>1, <1>2 DEF Accounted

\* RowsInv, for one loop, in terms of Below.
RowsOf(l) ==
  /\ Below(l, pointer[l])
  /\ \A k \in Conns : Below(l, tx[k].change.ptrs[l])
  /\ stmt[l] # "READ" => Below(l, block[l] - 1)
  /\ stmt[l] = "POINTER" => Accounted(l, block[l])

LEMMA RowsInvIsRowsOf == RowsInv <=> \A l \in Loops : RowsOf(l)
BY DEF RowsInv, RowsOf, Below

\* A pointer that is set, now or when its transaction is committed, is the block of its loop.
LEMMA SetPointerIsBelow ==
  ASSUME TypeOK, NEW l \in Loops, RowsOf(l), NEW c \in Tasks
  PROVE  Below(l, Change(c).ptrs[l])
<1>1. Below(l, None)
  BY DEF Below, None
<1>2. CASE stmt[c] = "POINTER" /\ c = l
  <2>1. block[l] \in Nat /\ Change(c).ptrs[l] = block[l]
    BY <1>2 DEF TypeOK, Change, NoChange
  <2>2. Below(l, block[l] - 1) /\ Accounted(l, block[l])
    BY <1>2 DEF RowsOf
  <2>3. \A n \in 1..block[l] : n = block[l] \/ n \in 1..(block[l] - 1)
    BY <2>1
  <2> QED BY <2>1, <2>2, <2>3 DEF Below
<1>3. CASE stmt[c] = "POINTER" /\ c # l
  BY <1>1, <1>3 DEF Change, NoChange
<1>4. CASE stmt[c] = "ROW"
  BY <1>1, <1>4 DEF Change, NoChange
<1>5. CASE stmt[c] = "DELETE"
  BY <1>1, <1>5 DEF Change, NoChange
<1>6. CASE stmt[c] = "INSERT"
  BY <1>1, <1>6 DEF Change, NoChange
<1>7. CASE stmt[c] \notin {"POINTER", "ROW", "DELETE", "INSERT"}
  BY <1>1, <1>7 DEF Change, NoChange
<1> QED BY <1>2, <1>3, <1>4, <1>5, <1>6, <1>7

\* Where the pointer of a loop may come from.
LEMMA StoredPointer ==
  ASSUME NEW l \in Loops, NEW x, Store(x)
  PROVE  pointer'[l] = pointer[l] \/ pointer'[l] = x.ptrs[l]
BY DEF Store

LEMMA PointersStayBelow ==
  ASSUME TypeOK, Next, NEW l \in Loops, RowsOf(l)
  PROVE  Below(l, pointer'[l]) /\ \A k \in Conns : Below(l, tx'[k].change.ptrs[l])
<1>1. Below(l, pointer[l]) /\ \A k \in Conns : Below(l, tx[k].change.ptrs[l])
  BY DEF RowsOf
<1>2. TxType /\ NoTx.change.ptrs[l] = None /\ Below(l, None)
  BY DEF TypeOK, TxType, NoTx, NoChange, Below, None
<1>3. ASSUME NEW c \in Tasks, Send(c)
      PROVE  Below(l, pointer'[l]) /\ \A k \in Conns : Below(l, tx'[k].change.ptrs[l])
  BY <1>1, <1>3 DEF Send, db
<1>4. ASSUME NEW c \in Tasks, Answer(c)
      PROVE  Below(l, pointer'[l]) /\ \A k \in Conns : Below(l, tx'[k].change.ptrs[l])
  <2>1. conn[c] \in Conns /\ Below(l, Change(c).ptrs[l]) /\ Below(l, tx[conn[c]].change.ptrs[l])
    BY <1>1, <1>4, SetPointerIsBelow DEF Answer, TypeOK, Books
  <2>2. UNCHANGED db \/ Store(Change(c)) \/ Store(tx[conn[c]].change)
    BY <1>4, AnswerEffect
  <2>3. Below(l, pointer'[l])
    BY <1>1, <2>1, <2>2, StoredPointer DEF db
  <2>4. \/ tx' = tx \/ tx' = [tx EXCEPT ![conn[c]].open = TRUE]
        \/ tx' = [tx EXCEPT ![conn[c]] = NoTx]
        \/ tx' = [tx EXCEPT ![conn[c]].change = Merge(@, Change(c))]
    BY <1>4, AnswerEffect
  <2>5. \A a, b : Merge(a, b).ptrs[l] = a.ptrs[l] \/ Merge(a, b).ptrs[l] = b.ptrs[l]
    BY DEF Merge
  <2>6. ASSUME NEW k \in Conns PROVE Below(l, tx'[k].change.ptrs[l])
    <3>1. CASE tx' = tx \/ k # conn[c]
      BY <1>1, <1>2, <2>1, <2>4, <3>1 DEF TxType
    <3>2. CASE tx' = [tx EXCEPT ![conn[c]].open = TRUE]
      BY <1>1, <1>2, <2>1, <3>2 DEF TxType
    <3>3. CASE tx' = [tx EXCEPT ![conn[c]] = NoTx] /\ k = conn[c]
      BY <1>2, <2>1, <3>3 DEF TxType
    <3>4. CASE tx' = [tx EXCEPT ![conn[c]].change = Merge(@, Change(c))] /\ k = conn[c]
      <4>1. tx'[k].change = Merge(tx[k].change, Change(c))
        BY <1>2, <2>1, <3>4 DEF TxType
      <4> QED BY <2>1, <2>5, <3>4, <4>1
    <3> QED BY <2>4, <3>1, <3>2, <3>3, <3>4
  <2> QED BY <2>3, <2>6
<1>5. ASSUME NEW c \in Tasks, Reject(c) \/ LoseConnection(c)
      PROVE  Below(l, pointer'[l]) /\ \A k \in Conns : Below(l, tx'[k].change.ptrs[l])
  <2>1. conn[c] \in Conns /\ Failed(c) /\ tx' = [tx EXCEPT ![conn[c]] = NoTx]
    BY <1>5, FailureEffect DEF Failed, TypeOK, Books
  <2>2. Below(l, Change(c).ptrs[l]) /\ Below(l, tx[conn[c]].change.ptrs[l])
    BY <1>1, <2>1, SetPointerIsBelow
  <2>3. Below(l, pointer'[l])
    BY <1>1, <1>5, <2>2, FailureEffect, StoredPointer DEF db
  <2> QED BY <1>1, <1>2, <2>1, <2>3 DEF TxType
<1> QED BY <1>3, <1>4, <1>5 DEF Next

\* A row that is inserted into an open transaction disturbs its update.
LEMMA InsertedRow ==
  ASSUME TypeOK, UpdateInv, NEW l \in Loops, Answer(l), stmt[l] = "ROW"
  PROVE  Accounted(l, block[l])'
<1>1. /\ l \in Tasks /\ Stats \in Tasks /\ l # Stats /\ conn[l] \in Conns
      /\ stmt[Stats] \in StatsStmts /\ TxType
  BY TopStatsAssumption DEF Answer, TypeOK, Books, Tasks, TxType
<1>2. block'[l] = block[l] /\ disturbed' = (disturbed \/ Updating)
  BY <1>1 DEF Answer
<1>3. <<l, block[l]>> \in Change(l).rows
  BY DEF Change, NoChange
<1>4. CASE tx[conn[l]].open
  <2>1. disturbed'
    BY <1>1, <1>2, <1>4 DEF UpdateInv, Updating, StatsStmts
  <2>2. tx' = [tx EXCEPT ![conn[l]].change = Merge(@, Change(l))]
    BY <1>1, <1>4, AnswerEffect
  <2>3. tx'[conn[l]].change = Merge(tx[conn[l]].change, Change(l))
    BY <1>1, <2>2 DEF TxType
  <2>4. <<l, block[l]>> \in tx'[conn[l]].change.rows
    BY <1>3, <2>3 DEF Merge
  <2> QED BY <1>1, <1>2, <2>1, <2>4 DEF Accounted
<1>5. CASE ~tx[conn[l]].open
  <2>1. Store(Change(l))
    BY <1>1, <1>5, AnswerEffect
  <2> QED BY <1>2, <1>3, <2>1 DEF Store, Accounted
<1> QED BY <1>4, <1>5

LEMMA LoopStepRows ==
  ASSUME TypeOK, UpdateInv, Next, NEW l \in Loops, RowsOf(l)
  PROVE  /\ stmt'[l] # "READ" => Below(l, block'[l] - 1)
         /\ stmt'[l] = "POINTER" => \/ Accounted(l, block[l])'
                                    \/ Accounted(l, block[l]) /\ block'[l] = block[l]
<1>1. l \in Tasks /\ StmtType /\ stmt[l] \in LoopStmts /\ block \in [Loops -> Nat]
  BY DEF Tasks, TypeOK, StmtType
<1>2. CASE stmt'[l] = stmt[l] /\ block'[l] = block[l]
  BY <1>2 DEF RowsOf
<1>3. CASE stmt'[l] = "READ"
  BY <1>3
<1>4. CASE Answer(l)
  <2>1. stmt'[l] = After(stmt[l])
    BY <1>1, <1>4 DEF Answer, NothingToStore, StmtType, LoopStmts
  <2>2. CASE stmt[l] = "READ"
    <3>1. conn[l] \in Conns /\ stmt'[l] = "ROW" /\ block'[l] = Pointer(conn[l], l) + 1
      BY <1>1, <1>4, <2>1, <2>2 DEF After, Answer, TypeOK, Books
    <3>2. tx[conn[l]].change.ptrs[l] \in Nat \cup {None} /\ pointer[l] \in Nat
      BY <3>1 DEF TypeOK, Changes
    <3>3. Pointer(conn[l], l) \in Int /\ Below(l, Pointer(conn[l], l))
      BY <3>1, <3>2 DEF RowsOf, Pointer
    <3>4. block'[l] - 1 = Pointer(conn[l], l)
      BY <3>1, <3>3
    <3> QED BY <3>1, <3>3, <3>4
  <2>3. CASE stmt[l] = "ROW"
    <3>1. block'[l] = block[l]
      BY <1>4, <2>3 DEF Answer
    <3> QED BY <1>4, <2>3, <3>1, InsertedRow DEF RowsOf
  <2>4. CASE stmt[l] = "POINTER"
    BY <2>1, <2>4 DEF After
  <2> QED BY <1>1, <2>2, <2>3, <2>4 DEF LoopStmts
<1>5. ASSUME NEW c \in Tasks, Send(c) \/ (Answer(c) /\ c # l)
      PROVE  stmt'[l] = stmt[l] /\ block'[l] = block[l]
  BY <1>1, <1>5 DEF Send, task, Answer, StmtType
<1>6. ASSUME NEW c \in Tasks, Reject(c) \/ LoseConnection(c)
      PROVE  stmt'[l] \in {stmt[l], "READ"} /\ block'[l] = block[l]
  <2>1. Failed(c)
    BY <1>6, FailureEffect
  <2>2. Caught(stmt[l]) = "READ"
    BY <1>1 DEF Caught, LoopStmts
  <2> QED BY <1>1, <2>1, <2>2 DEF Failed, StmtType
<1> QED BY <1>2, <1>3, <1>4, <1>5, <1>6 DEF Next

LEMMA RowsInvPreserved == TypeOK /\ UpdateInv /\ RowsInv /\ [Next]_vars => RowsInv'
<1> SUFFICES ASSUME TypeOK, UpdateInv, RowsInv, [Next]_vars PROVE RowsInv'
  OBVIOUS
<1>1. CASE UNCHANGED vars
  BY <1>1 DEF vars, pool, task, db, RowsInv, Accounted
<1>2. CASE Next
  <2>1. ASSUME NEW l \in Loops PROVE RowsOf(l)'
    <3>1. RowsOf(l)
      BY RowsInvIsRowsOf
    <3>2. Below(l, pointer[l])'
      <4>1. PICK m : m = pointer'[l]
        OBVIOUS
      <4>2. Below(l, m)'
        BY <1>2, <3>1, <4>1, PointersStayBelow, StaysBelow
      <4> QED BY <4>1, <4>2 DEF Below
    <3>3. ASSUME NEW k \in Conns PROVE Below(l, tx[k].change.ptrs[l])'
      <4>1. PICK m : m = tx'[k].change.ptrs[l]
        OBVIOUS
      <4>2. Below(l, m)'
        BY <1>2, <3>1, <4>1, PointersStayBelow, StaysBelow
      <4> QED BY <4>1, <4>2 DEF Below
    <3>4. ASSUME stmt'[l] # "READ" PROVE Below(l, block[l] - 1)'
      <4>1. PICK m : m = block'[l] - 1
        OBVIOUS
      <4>2. Below(l, m)'
        BY <1>2, <3>1, <3>4, <4>1, LoopStepRows, StaysBelow
      <4> QED BY <4>1, <4>2 DEF Below
    <3>5. ASSUME stmt'[l] = "POINTER" PROVE Accounted(l, block[l])'
      <4>1. CASE Accounted(l, block[l]) /\ block'[l] = block[l]
        <5>1. PICK m \in Nat : m = block[l]
          BY DEF TypeOK
        <5>2. CASE <<l, m>> \in rows \/ (disturbed /\ <<l, m>> \in lost)
          BY <1>2, <4>1, <5>1, <5>2, HistoryGrows DEF Accounted
        <5>3. CASE disturbed /\ \E k \in Conns : <<l, m>> \in tx[k].change.rows
          BY <1>2, <4>1, <5>1, <5>3, HistoryGrows, UncommittedRows DEF Accounted
        <5> QED BY <4>1, <5>1, <5>2, <5>3 DEF Accounted
      <4> QED BY <1>2, <3>1, <3>5, <4>1, LoopStepRows
    <3> QED BY <3>2, <3>3, <3>4, <3>5 DEF RowsOf
  <2>2. (\A l \in Loops : RowsOf(l)')
    BY <2>1
  <2> QED BY <2>2 DEF RowsInv, RowsOf, Below
<1> QED BY <1>1, <1>2

\* Every block below the pointer of a loop has its rows stored; or an update that was not
\* alone on the pool took them into its transaction, and holds them, or lost them.
THEOREM RowsAreBelowPointer == Spec => []RowsBelowPointer
<1>1. Init => RowsInv
  <2> SUFFICES ASSUME Init, NEW l \in Loops
      PROVE  /\ pointer[l] = 0 /\ stmt[l] = "READ"
             /\ \A k \in Conns : tx[k].change.ptrs[l] = None
      BY DEF RowsInv, None
  <2>1. l # Stats /\ l \in Tasks
    BY TopStatsAssumption DEF Tasks
  <2>2. NoTx.change.ptrs[l] = None
    BY DEF NoTx, NoChange
  <2> QED BY <2>1, <2>2 DEF Init
<1>2. RowsInv => RowsBelowPointer
  BY DEF RowsInv, RowsBelowPointer
<1> QED BY <1>1, <1>2, TopStatsTypes, UpdateInvHolds, RowsInvPreserved, PTL DEF Spec
=============================================================================
