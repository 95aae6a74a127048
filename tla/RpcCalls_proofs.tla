-------------------------- MODULE RpcCalls_proofs --------------------------
(* The types of the urls' statistics, the exactness of their load over HTTP and  *)
(* the retries that reach every url, for every set of urls and calls, all times *)
(* and any number of broken connections.                                        *)
EXTENDS RpcCalls, FiniteSetTheorems, TLAPS

-----------------------------------------------------------------------------
(* The statistics *)

LEMMA BestConfigured ==
  ASSUME NEW time, NEW failed, NEW queries
  PROVE  Best(time, failed, queries) \subseteq configured
BY DEF Best

LEMMA Mean ==
  ASSUME NEW s \in 0..FetchTimeout, NEW t \in 0..FetchTimeout
  PROVE  (s + t) \div 2 \in 0..FetchTimeout
<1>1. s \in Nat /\ t \in Nat /\ s <= 10000 /\ t <= 10000
  BY DEF FetchTimeout
<1>2. s + t \in Nat /\ s + t <= 20000
  BY <1>1
<1>3. \A n \in Nat : n <= 20000 => n \div 2 \in Nat /\ n \div 2 <= 10000
  OBVIOUS
<1> QED BY <1>2, <1>3 DEF FetchTimeout

\* The mean stays between its two times, and nothing but queriesCount goes down.
LEMMA StatTypes ==
  ASSUME TypeOK, NEW u \in Urls, NEW time \in 0..FetchTimeout
  PROVE  /\ TimeAfter(u, time) \in [Urls -> 0..FetchTimeout]
         /\ FailedAfter(u) \in [Urls -> Nat]
         /\ QueriesAfter(u) \in [Urls -> Int]
<1>1. (responseTime[u] + time) \div 2 \in 0..FetchTimeout
  BY Mean DEF TypeOK
<1> QED BY <1>1 DEF TypeOK, TimeAfter, FailedAfter, QueriesAfter

LEMMA SubmitTypes ==
  ASSUME TypeOK, NEW u \in Urls, SubmitFailure(u, 0) \/ UNCHANGED statVars
  PROVE  /\ responseTime' \in [Urls -> 0..FetchTimeout]
         /\ failedRequests' \in [Urls -> Nat]
         /\ queriesCount' \in [Urls -> Int]
<1>1. CASE SubmitFailure(u, 0)
  <2>1. 0 \in 0..FetchTimeout
    BY DEF FetchTimeout
  <2>2. /\ TimeAfter(u, 0) \in [Urls -> 0..FetchTimeout]
        /\ FailedAfter(u) \in [Urls -> Nat]
        /\ QueriesAfter(u) \in [Urls -> Int]
    BY <2>1, StatTypes
  <2> QED BY <1>1, <2>2 DEF SubmitFailure
<1>2. CASE UNCHANGED statVars
  BY <1>2 DEF statVars, TypeOK
<1> QED BY <1>1, <1>2

LEMMA CountedType ==
  ASSUME NEW queries \in [Urls -> Int], NEW u \in Urls
  PROVE  Counted(queries, u) \in [Urls -> Int]
BY DEF Counted

-----------------------------------------------------------------------------
(* The attempts under way *)

LEMMA UnderWayFinite ==
  ASSUME NEW u
  PROVE  IsFiniteSet(UnderWay(u)) /\ Cardinality(UnderWay(u)) \in Nat
BY CallsAssumption, FS_Subset, FS_CardinalityType DEF UnderWay

\* A call under way counts at its url and nowhere else.
LEMMA Leaves ==
  ASSUME NEW c \in Calls, pc[c] = "sent", NEW u
  PROVE  /\ IsFiniteSet(UnderWay(u) \ {c})
         /\ Cardinality(UnderWay(u) \ {c}) =
                IF u = url[c] THEN Cardinality(UnderWay(u)) - 1 ELSE Cardinality(UnderWay(u))
<1>1. c \in UnderWay(u) <=> u = url[c]
  BY DEF UnderWay
<1> QED BY <1>1, UnderWayFinite, FS_RemoveElement

\* What the end of an attempt, and nothing else, takes from the load.
LEMMA EndKeepsLoad ==
  ASSUME IndInv, NEW c \in Calls, pc[c] = "sent", NEW stage, stage # "sent",
         pc' = [pc EXCEPT ![c] = stage], queriesCount' = QueriesAfter(url[c]),
         UNCHANGED <<transport, configured, url>>
  PROVE  LoadExact'
<1> SUFFICES ASSUME transport = "http", Cardinality(configured) > 1, NEW u \in configured
             PROVE  queriesCount'[u] = Cardinality(UnderWay(u)')
  BY DEF LoadExact
<1>1. UnderWay(u)' = UnderWay(u) \ {c}
  BY DEF UnderWay, IndInv, TypeOK
<1>2. queriesCount[u] = Cardinality(UnderWay(u)) /\ u \in Urls
  BY DEF IndInv, LoadExact, TypeOK
<1>3. queriesCount'[u] = IF u = url[c] THEN queriesCount[u] - 1 ELSE queriesCount[u]
  BY <1>2 DEF QueriesAfter, IndInv, TypeOK
<1> QED BY <1>1, <1>2, <1>3, Leaves

\* The first attempt of a call.
LEMMA StartKeepsLoad ==
  ASSUME IndInv, NEW c \in Calls, HttpStart(c)
  PROVE  LoadExact'
<1> SUFFICES ASSUME transport = "http", Cardinality(configured) > 1, NEW v \in configured
             PROVE  queriesCount'[v] = Cardinality(UnderWay(v)')
  BY DEF LoadExact, HttpStart
<1>1. PICK u \in configured : url' = [url EXCEPT ![c] = u] /\ queriesCount' = Counted(queriesCount, u)
  BY BestConfigured DEF HttpStart
<1>2. c \notin UnderWay(v) /\ UnderWay(v)' = IF v = u THEN UnderWay(v) \cup {c} ELSE UnderWay(v)
  BY <1>1 DEF HttpStart, UnderWay, IndInv, TypeOK
<1>3. Cardinality(UnderWay(v) \cup {c}) = Cardinality(UnderWay(v)) + 1
  BY <1>2, UnderWayFinite, FS_AddElement
<1>4. queriesCount[v] = Cardinality(UnderWay(v)) /\ v \in Urls
  BY DEF IndInv, LoadExact, TypeOK
<1>5. Cardinality(configured) # 1
  OBVIOUS
<1>6. queriesCount'[v] = IF v = u THEN queriesCount[v] + 1 ELSE queriesCount[v]
  BY <1>1, <1>4, <1>5 DEF Counted, IndInv, TypeOK
<1> QED BY <1>2, <1>3, <1>4, <1>6

\* Another attempt, at the same url or another: the call leaves one and enters one.
LEMMA RetryKeepsLoad ==
  ASSUME IndInv, NEW c \in Calls, HttpFail(c), left[c] # 1
  PROVE  LoadExact'
<1> SUFFICES ASSUME transport = "http", Cardinality(configured) > 1, NEW v \in configured
             PROVE  queriesCount'[v] = Cardinality(UnderWay(v)')
  BY DEF LoadExact, HttpFail
<1>1. PICK u \in configured : /\ url' = [url EXCEPT ![c] = u]
                              /\ queriesCount' = Counted(QueriesAfter(url[c]), u)
  BY BestConfigured DEF HttpFail
<1> DEFINE rest == UnderWay(v) \ {c}
<1>2. UnderWay(v)' = IF v = u THEN rest \cup {c} ELSE rest
  BY <1>1 DEF HttpFail, UnderWay, IndInv, TypeOK
<1>3. /\ IsFiniteSet(rest)
      /\ Cardinality(rest) =
            IF v = url[c] THEN Cardinality(UnderWay(v)) - 1 ELSE Cardinality(UnderWay(v))
  BY Leaves DEF HttpFail
<1>4. Cardinality(rest \cup {c}) = Cardinality(rest) + 1
  BY <1>3, FS_AddElement
<1>5. queriesCount[v] = Cardinality(UnderWay(v)) /\ v \in Urls
  BY DEF IndInv, LoadExact, TypeOK
<1>6. Cardinality(UnderWay(v)) \in Nat
  BY UnderWayFinite
<1>7. QueriesAfter(url[c])[v] = IF v = url[c] THEN queriesCount[v] - 1 ELSE queriesCount[v]
  BY <1>5 DEF QueriesAfter, IndInv, TypeOK
<1>8. queriesCount'[v] =
        IF v = u THEN QueriesAfter(url[c])[v] + 1 ELSE QueriesAfter(url[c])[v]
  <2>1. Cardinality(configured) # 1 /\ QueriesAfter(url[c]) \in [Urls -> Int]
    BY DEF QueriesAfter, IndInv, TypeOK
  <2> QED BY <1>1, <1>5, <2>1 DEF Counted
<1>9. queriesCount'[v] = IF v = u THEN Cardinality(rest) + 1 ELSE Cardinality(rest)
  BY <1>3, <1>5, <1>7, <1>8
<1> QED BY <1>2, <1>4, <1>9

-----------------------------------------------------------------------------
(* The invariant *)

LEMMA InitialIndInv == Init => IndInv
<1> SUFFICES ASSUME Init PROVE IndInv
  OBVIOUS
<1>1. TypeOK
  <2>1. (CHOOSE u \in Urls : TRUE) \in Urls
    BY UrlsAssumption
  <2> QED BY <2>1, MaxFaultsAssumption DEF Init, TypeOK, FetchTimeout, HttpAttempts
<1>2. LoadExact
  <2>1. \A u \in configured : UnderWay(u) = {} /\ queriesCount[u] = 0
    BY DEF Init, UnderWay
  <2> QED BY <2>1, FS_EmptySet DEF LoadExact
<1> QED BY <1>1, <1>2 DEF IndInv, Init, Trying

LEMMA HttpKeeps ==
  ASSUME IndInv, NEW c \in Calls,
         HttpStart(c) \/ HttpAnswer(c) \/ HttpRefuse(c) \/ HttpFail(c)
  PROVE  IndInv'
<1> USE DEF IndInv, Trying
<1>1. CASE HttpStart(c)
  <2>1. PICK u \in configured : url' = [url EXCEPT ![c] = u] /\ queriesCount' = Counted(queriesCount, u)
    BY <1>1, BestConfigured DEF HttpStart
  <2>2. TypeOK'
    BY <1>1, <2>1, CountedType DEF HttpStart, TypeOK, wsVars, HttpAttempts
  <2>3. \A d \in Calls : Trying(d)' => left'[d] # 0 /\ url'[d] \in configured'
    BY <1>1, <2>1 DEF HttpStart, TypeOK, HttpAttempts
  <2>4. LoadExact'
    BY <1>1, StartKeepsLoad
  <2> QED BY <1>1, <2>2, <2>3, <2>4 DEF HttpStart, wsVars
<1>2. CASE HttpAnswer(c)
  <2>1. url[c] \in Urls
    BY DEF TypeOK
  <2>2. TypeOK'
    BY <1>2, <2>1, OkTimesAssumption, StatTypes DEF HttpAnswer, TypeOK, wsVars, Ended
  <2>3. LoadExact'
    BY <1>2, EndKeepsLoad DEF HttpAnswer
  <2> QED BY <1>2, <2>2, <2>3 DEF HttpAnswer, TypeOK, wsVars
<1>3. CASE HttpRefuse(c)
  <2>1. url[c] \in Urls /\ FetchTimeout \in 0..FetchTimeout
    BY DEF TypeOK, FetchTimeout
  <2>2. TypeOK'
    BY <1>3, <2>1, StatTypes DEF HttpRefuse, SubmitFailure, TypeOK, wsVars, Ended
  <2>3. LoadExact'
    BY <1>3, EndKeepsLoad DEF HttpRefuse, SubmitFailure
  <2> QED BY <1>3, <2>2, <2>3 DEF HttpRefuse, TypeOK, wsVars
<1>4. CASE HttpFail(c)
  <2>1. url[c] \in Urls /\ FetchTimeout \in 0..FetchTimeout /\ left[c] \in 1..HttpAttempts
    BY <1>4 DEF HttpFail, TypeOK, FetchTimeout, HttpAttempts
  <2>2. /\ responseTime' \in [Urls -> 0..FetchTimeout] /\ failedRequests' \in [Urls -> Nat]
        /\ left' \in [Calls -> 0..HttpAttempts]
        /\ QueriesAfter(url[c]) \in [Urls -> Int]
    BY <1>4, <2>1, StatTypes DEF HttpFail, TypeOK, HttpAttempts
  <2>3. CASE left[c] = 1
    <3>1. pc' = [pc EXCEPT ![c] = "failed"] /\ queriesCount' = QueriesAfter(url[c]) /\ url' = url
      BY <1>4, <2>3 DEF HttpFail
    <3>2. TypeOK'
      BY <1>4, <2>2, <3>1 DEF HttpFail, TypeOK, wsVars, Ended
    <3>3. LoadExact'
      BY <1>4, <3>1, EndKeepsLoad DEF HttpFail
    <3> QED BY <1>4, <2>3, <3>1, <3>2, <3>3 DEF HttpFail, TypeOK, wsVars
  <2>4. CASE left[c] # 1
    <3>1. PICK u \in configured : /\ url' = [url EXCEPT ![c] = u]
                                  /\ queriesCount' = Counted(QueriesAfter(url[c]), u)
      BY <1>4, <2>4, BestConfigured DEF HttpFail
    <3>2. pc' = pc /\ left' = [left EXCEPT ![c] = left[c] - 1] /\ left[c] - 1 # 0
      BY <1>4, <2>1, <2>4 DEF HttpFail
    <3>3. TypeOK'
      BY <1>4, <2>2, <3>1, <3>2, CountedType DEF HttpFail, TypeOK, wsVars
    <3>4. LoadExact'
      BY <1>4, <2>4, RetryKeepsLoad
    <3> QED BY <1>4, <3>1, <3>2, <3>3, <3>4 DEF HttpFail, TypeOK, wsVars
  <2> QED BY <2>3, <2>4
<1> QED BY <1>1, <1>2, <1>3, <1>4

LEMMA WsKeeps ==
  ASSUME IndInv, NEW c \in Calls, WsStart(c) \/ WsWake(c) \/ WsAnswer(c) \/ WsFail(c)
  PROVE  IndInv'
<1> USE DEF IndInv, Trying
<1>1. CASE WsStart(c)
  <2>1. PICK u \in configured : /\ url' = [url EXCEPT ![c] = u]
                                /\ queriesCount' = Counted(queriesCount, u)
                                /\ connected' = connected \cup {u}
                                /\ pc' = [pc EXCEPT ![c] = SentOr(u)]
    BY <1>1, BestConfigured DEF WsStart
  <2>2. TypeOK'
    BY <1>1, <2>1, CountedType DEF WsStart, TypeOK, SentOr, HttpAttempts, WsAttempts
  <2> QED BY <1>1, <2>1, <2>2 DEF WsStart, LoadExact, TypeOK, WsAttempts
<1>2. CASE WsWake(c)
  <2>1. transport = "ws"
    BY <1>2 DEF WsWake, TypeOK
  <2> QED BY <1>2, <2>1 DEF WsWake, TypeOK, LoadExact, statVars, wsVars
<1>3. CASE WsAnswer(c)
  BY <1>3 DEF WsAnswer, TypeOK, LoadExact, statVars, wsVars, Ended
<1>4. CASE WsFail(c)
  <2>1. url[c] \in Urls /\ left[c] \in 1..HttpAttempts
    BY <1>4 DEF WsFail, TypeOK, HttpAttempts
  <2>2. TypeOK'
    <3>1. /\ responseTime' \in [Urls -> 0..FetchTimeout] /\ failedRequests' \in [Urls -> Nat]
          /\ queriesCount' \in [Urls -> Int]
      BY <1>4, <2>1, SubmitTypes DEF WsFail
    <3>2. pc' \in [Calls -> {"idle", "asleep", "sent", "lost"} \cup Ended]
      BY <1>4 DEF WsFail, TypeOK, Ended
    <3> QED BY <1>4, <2>1, <3>1, <3>2 DEF WsFail, TypeOK, wsVars, HttpAttempts
  <2>3. \A d \in Calls : Trying(d)' => left'[d] # 0 /\ url'[d] \in configured'
    BY <1>4, <2>1 DEF WsFail, TypeOK, HttpAttempts
  <2> QED BY <1>4, <2>2, <2>3 DEF WsFail, LoadExact, wsVars
<1> QED BY <1>1, <1>2, <1>3, <1>4

LEMMA ConnectionKeeps ==
  ASSUME IndInv, NEW u \in Urls, OnOpen(u) \/ OnClose(u) \/ OnError(u)
  PROVE  IndInv'
<1> USE DEF IndInv, Trying
<1>1. transport = "ws"
  BY DEF OnOpen, OnClose, OnError, TypeOK
<1>2. CASE OnOpen(u)
  BY <1>1, <1>2 DEF OnOpen, TypeOK, LoadExact, statVars, callVars
<1>3. CASE OnClose(u) \/ OnError(u)
  <2>1. /\ responseTime' \in [Urls -> 0..FetchTimeout] /\ failedRequests' \in [Urls -> Nat]
        /\ queriesCount' \in [Urls -> Int]
    BY <1>3, SubmitTypes DEF OnClose, OnError
  <2>2. Down(u)
    BY <1>3 DEF OnClose, OnError
  <2>3. TypeOK'
    BY <2>1, <2>2, MaxFaultsAssumption DEF Down, TypeOK
  <2>4. \A d \in Calls : Trying(d)' => Trying(d)
    BY <2>2 DEF Down
  <2> QED BY <1>1, <2>2, <2>3, <2>4 DEF Down, LoadExact
<1> QED BY <1>2, <1>3

LEMMA IndInvPreserved == IndInv /\ [Next]_vars => IndInv'
<1> SUFFICES ASSUME IndInv, [Next]_vars PROVE IndInv'
  OBVIOUS
<1>1. CASE UNCHANGED vars
  BY <1>1 DEF vars, statVars, callVars, wsVars, IndInv, TypeOK, Trying, LoadExact, UnderWay
<1>2. CASE Next
  BY <1>2, HttpKeeps, WsKeeps, ConnectionKeeps DEF Next, CallStep
<1> QED BY <1>1, <1>2

-----------------------------------------------------------------------------
(* Where the retries of a call go *)

LEMMA ConfiguredFinite ==
  ASSUME TypeOK
  PROVE  IsFiniteSet(configured) /\ Cardinality(configured) \in Nat
BY UrlsAssumption, FS_Subset, FS_CardinalityType DEF TypeOK

\* Of at most two urls, none is a third.
LEMMA NoThird ==
  ASSUME TypeOK, Cardinality(configured) <= 2,
         NEW u \in configured, NEW v \in configured, u # v
  PROVE  Cardinality(configured) > 1 /\ configured = {u, v}
<1>1. IsFiniteSet(configured) /\ Cardinality(configured) \in Nat
  BY ConfiguredFinite
<1>2. /\ IsFiniteSet(configured \ {u})
      /\ Cardinality(configured \ {u}) = Cardinality(configured) - 1
  BY <1>1, FS_RemoveElement
<1>3. /\ IsFiniteSet((configured \ {u}) \ {v})
      /\ Cardinality((configured \ {u}) \ {v}) = Cardinality(configured) - 2
  <2> DEFINE rest == configured \ {u}
  <2>1. v \in rest
    OBVIOUS
  <2> HIDE DEF rest
  <2>2. IsFiniteSet(rest) /\ Cardinality(rest) = Cardinality(configured) - 1
    BY <1>2 DEF rest
  <2>3. IsFiniteSet(rest \ {v}) /\ Cardinality(rest \ {v}) = Cardinality(rest) - 1
    BY <2>1, <2>2, FS_RemoveElement
  <2>4. Cardinality(rest \ {v}) = Cardinality(configured) - 2
    BY <1>1, <2>2, <2>3
  <2> QED BY <2>3, <2>4 DEF rest
<1>4. Cardinality((configured \ {u}) \ {v}) \in Nat
  BY <1>3, FS_CardinalityType
<1>5. Cardinality((configured \ {u}) \ {v}) = 0
  BY <1>1, <1>3, <1>4
<1>6. (configured \ {u}) \ {v} = {}
  BY <1>3, <1>5, FS_EmptySet
<1> QED BY <1>1, <1>3, <1>4, <1>6

\* No url has more attempts under way than there are calls.
LEMMA LoadBounded ==
  ASSUME IndInv, transport = "http", Cardinality(configured) > 1, NEW u \in configured
  PROVE  queriesCount[u] \in Nat /\ queriesCount[u] <= Cardinality(Calls)
<1>1. queriesCount[u] = Cardinality(UnderWay(u))
  BY DEF IndInv, LoadExact
<1>2. Cardinality(UnderWay(u)) <= Cardinality(Calls)
  BY CallsAssumption, FS_Subset DEF UnderWay
<1> QED BY <1>1, <1>2, UnderWayFinite

\* The mean of two answers' times is not above the longer.
LEMMA MeanOfAnswers ==
  ASSUME NEW s \in 0..FetchTimeout, NEW time \in OkTimes \cup {0}, s <= time,
         NEW t \in OkTimes
  PROVE  \E longer \in OkTimes \cup {0} : (s + t) \div 2 <= longer
<1>1. s \in Nat /\ t \in Nat /\ time \in Nat
  BY OkTimesAssumption DEF FetchTimeout
<1>2. CASE t <= time
  <2>1. (s + t) \div 2 <= time
    BY <1>1, <1>2
  <2> QED BY <2>1
<1>3. CASE time <= t
  <2>1. (s + t) \div 2 <= t
    BY <1>1, <1>3
  <2> QED BY <2>1
<1> QED BY <1>1, <1>2, <1>3

\* A failed url outweighs one that never failed: the next attempt goes to the latter.
LEMMA RetryElsewhere ==
  ASSUME IndInv, RetryInv, AnswersQuick, Cardinality(configured) <= 2, NEW c \in Calls,
         HttpFail(c), left[c] # 1, NEW u \in configured \ {url'[c]}
  PROVE  failedRequests'[u] > 0
<1> DEFINE v == url[c]
<1>1. /\ TypeOK /\ transport = "http" /\ pc[c] = "sent" /\ v \in configured
      /\ v \in Urls /\ u \in Urls
  BY DEF HttpFail, IndInv, Trying, TypeOK
<1>2. /\ responseTime' = TimeAfter(v, FetchTimeout) /\ failedRequests' = FailedAfter(v)
      /\ url'[c] \in Best(responseTime', failedRequests', QueriesAfter(v))
  <2>1. PICK w \in Best(responseTime', failedRequests', QueriesAfter(url[c])) :
           url' = [url EXCEPT ![c] = w]
    BY DEF HttpFail
  <2> QED BY <1>1, <2>1 DEF HttpFail, TypeOK
<1>3. CASE u = v
  BY <1>1, <1>2, <1>3 DEF FailedAfter, TypeOK
<1>4. CASE u # v
  <2>1. Cardinality(configured) > 1 /\ configured = {u, v}
    BY <1>1, <1>4, NoThird
  <2>2. url'[c] = v
    BY <1>2, <2>1 DEF Best
  <2>3. Score(v, responseTime', failedRequests', QueriesAfter(v))
          <= Score(u, responseTime', failedRequests', QueriesAfter(v))
    BY <1>2, <2>1, <2>2 DEF Best
  <2>4. SUFFICES ASSUME failedRequests'[u] = 0 PROVE FALSE
    <3>1. failedRequests'[u] \in Nat
      BY <1>1, <1>2 DEF FailedAfter, TypeOK
    <3> QED BY <2>4, <3>1
  <2>5. /\ responseTime'[u] = responseTime[u] /\ failedRequests[u] = 0
        /\ responseTime'[v] = (responseTime[v] + FetchTimeout) \div 2
        /\ failedRequests'[v] = failedRequests[v] + 1
        /\ QueriesAfter(v)[u] = queriesCount[u] /\ QueriesAfter(v)[v] = queriesCount[v] - 1
    BY <1>1, <1>2, <1>4, <2>4 DEF TimeAfter, FailedAfter, QueriesAfter, TypeOK
  <2>6. queriesCount[u] \in Nat /\ queriesCount[u] <= Cardinality(Calls)
    BY <1>1, <2>1, LoadBounded
  <2>7. queriesCount[v] \in Nat /\ queriesCount[v] >= 1
    <3>1. queriesCount[v] = Cardinality(UnderWay(v)) /\ c \in UnderWay(v)
      BY <1>1, <2>1 DEF IndInv, LoadExact, UnderWay
    <3>2. Cardinality(UnderWay(v)) # 0
      BY <3>1, UnderWayFinite, FS_EmptySet
    <3> QED BY <3>1, <3>2, UnderWayFinite
  <2>8. responseTime'[v] \in Nat /\ responseTime'[v] >= 5000
    <3>1. responseTime[v] \in Nat
      BY <1>1 DEF TypeOK
    <3> QED BY <2>5, <3>1 DEF FetchTimeout
  <2>9. PICK time \in OkTimes \cup {0} : responseTime[u] <= time
    BY <2>5 DEF RetryInv
  <2>10. time \in Nat /\ time + 2 * Cardinality(Calls) < 5010
    BY OkTimesAssumption DEF AnswersQuick, FetchTimeout
  <2>11. responseTime[u] \in Nat /\ failedRequests[v] \in Nat /\ Cardinality(Calls) \in Nat
    BY <1>1, CallsAssumption, FS_CardinalityType DEF TypeOK
  <2>12. Score(u, responseTime', failedRequests', QueriesAfter(v)) < 5010
    BY <2>4, <2>5, <2>6, <2>9, <2>10, <2>11 DEF Score
  <2>13. Score(v, responseTime', failedRequests', QueriesAfter(v)) >= 5010
    BY <2>5, <2>7, <2>8, <2>11 DEF Score
  <2>14. /\ Score(u, responseTime', failedRequests', QueriesAfter(v)) \in Int
         /\ Score(v, responseTime', failedRequests', QueriesAfter(v)) \in Int
    BY <2>4, <2>5, <2>6, <2>7, <2>8, <2>11 DEF Score
  <2> QED BY <2>3, <2>12, <2>13, <2>14
<1> QED BY <1>3, <1>4

LEMMA InitialTriedInv == Init => TriedInv
BY DEF Init, TriedInv, RetryInv

LEMMA TriedInvPreserved == IndInv /\ TriedInv /\ [Next]_vars => TriedInv'
<1> SUFFICES ASSUME IndInv, TriedInv, [Next]_vars PROVE TriedInv'
  OBVIOUS
<1>1. TypeOK
  BY DEF IndInv
<1>2. transport' = transport /\ configured' = configured
  BY DEF Next, CallStep, HttpStart, HttpAnswer, HttpRefuse, HttpFail, WsStart, WsWake,
         WsAnswer, WsFail, OnOpen, OnClose, OnError, Down, vars
<1>3. SUFFICES ASSUME AnswersQuick, Cardinality(configured) <= 2, transport = "http", RetryInv
               PROVE  RetryInv'
  BY <1>2 DEF TriedInv, AnswersQuick
<1>4. ASSUME NEW c \in Calls, HttpStart(c) PROVE RetryInv'
  <2>1. /\ UNCHANGED <<responseTime, failedRequests>>
        /\ pc' = [pc EXCEPT ![c] = "sent"] /\ left' = [left EXCEPT ![c] = HttpAttempts]
        /\ \A d \in Calls \ {c} : url'[d] = url[d]
    BY <1>1, <1>4 DEF HttpStart, TypeOK
  <2> QED BY <1>1, <1>2, <1>3, <2>1 DEF RetryInv, TypeOK, HttpAttempts
<1>5. ASSUME NEW c \in Calls, HttpAnswer(c) PROVE RetryInv'
  <2>1. PICK t \in OkTimes : responseTime' = TimeAfter(url[c], t)
    BY <1>5 DEF HttpAnswer
  <2>2. /\ UNCHANGED <<failedRequests, url, left>> /\ pc' = [pc EXCEPT ![c] = "answered"]
    BY <1>5 DEF HttpAnswer
  <2>3. ASSUME NEW u \in configured, failedRequests[u] = 0
        PROVE  \E time \in OkTimes \cup {0} : responseTime'[u] <= time
    <3>1. PICK time \in OkTimes \cup {0} : responseTime[u] <= time
      BY <1>3, <2>3 DEF RetryInv
    <3>2. responseTime[u] \in 0..FetchTimeout /\ u \in Urls
      BY <1>1 DEF TypeOK
    <3>3. \E longer \in OkTimes \cup {0} : (responseTime[u] + t) \div 2 <= longer
      BY <3>1, <3>2, MeanOfAnswers
    <3> QED BY <1>1, <2>1, <3>1, <3>2, <3>3 DEF TimeAfter, TypeOK
  <2> QED BY <1>1, <1>2, <1>3, <2>2, <2>3 DEF RetryInv, TypeOK
<1>6. ASSUME NEW c \in Calls, HttpRefuse(c) \/ HttpFail(c) PROVE RetryInv'
  <2>1. /\ pc[c] = "sent" /\ url[c] \in configured /\ url[c] \in Urls
        /\ responseTime' = TimeAfter(url[c], FetchTimeout)
        /\ failedRequests' = FailedAfter(url[c])
        /\ \A d \in Calls \ {c} : pc'[d] = pc[d] /\ url'[d] = url[d] /\ left'[d] = left[d]
    BY <1>1, <1>6 DEF HttpRefuse, HttpFail, SubmitFailure, IndInv, Trying, TypeOK
  <2>2. \A u \in Urls : /\ failedRequests'[u] >= failedRequests[u]
                        /\ u = url[c] => failedRequests'[u] > 0
                        /\ u # url[c] => responseTime'[u] = responseTime[u]
                        /\ failedRequests[u] \in Nat /\ failedRequests'[u] \in Nat
    BY <1>1, <2>1 DEF TimeAfter, FailedAfter, TypeOK
  <2>3. configured \subseteq Urls
    BY <1>1 DEF TypeOK
  <2>4. \A u \in configured :
           failedRequests'[u] = 0 => \E time \in OkTimes \cup {0} : responseTime'[u] <= time
    <3>1. ASSUME NEW u \in configured, failedRequests'[u] = 0
          PROVE  responseTime'[u] = responseTime[u] /\ failedRequests[u] = 0
      BY <2>2, <2>3, <3>1
    <3> QED BY <1>3, <3>1 DEF RetryInv
  <2>5. \A u \in configured : failedRequests[u] > 0 => failedRequests'[u] > 0
    BY <2>2, <2>3
  <2>6. \A d \in Calls \ {c} :
          /\ pc'[d] = "sent" /\ left'[d] < HttpAttempts =>
                \A u \in configured \ {url'[d]} : failedRequests'[u] > 0
          /\ pc'[d] = "failed" => \A u \in configured : failedRequests'[u] > 0
    BY <1>3, <2>1, <2>5 DEF RetryInv
  <2>7. pc'[c] = "failed" => \A u \in configured : failedRequests'[u] > 0
    <3>1. SUFFICES ASSUME pc'[c] = "failed" PROVE \A u \in configured : failedRequests'[u] > 0
      OBVIOUS
    <3>2. left[c] = 1
      BY <1>1, <1>6, <2>1, <3>1 DEF HttpRefuse, HttpFail, TypeOK
    <3>3. \A u \in configured \ {url[c]} : failedRequests[u] > 0
      BY <1>3, <2>1, <3>2 DEF RetryInv, HttpAttempts
    <3> QED BY <2>2, <2>3, <2>5, <3>3
  <2>8. pc'[c] = "sent" => \A u \in configured \ {url'[c]} : failedRequests'[u] > 0
    <3>1. SUFFICES ASSUME pc'[c] = "sent"
                   PROVE  \A u \in configured \ {url'[c]} : failedRequests'[u] > 0
      OBVIOUS
    <3>2. HttpFail(c) /\ left[c] # 1
      BY <1>1, <1>6, <2>1, <3>1 DEF HttpRefuse, HttpFail, TypeOK
    <3> QED BY <1>3, <3>2, RetryElsewhere
  <2> QED BY <1>2, <2>4, <2>6, <2>7, <2>8 DEF RetryInv
<1>7. ASSUME UNCHANGED <<responseTime, failedRequests, pc, url, left>> PROVE RetryInv'
  BY <1>2, <1>3, <1>7 DEF RetryInv
<1>8. ASSUME NEW c \in Calls, WsStart(c) \/ WsWake(c) \/ WsAnswer(c) \/ WsFail(c) PROVE FALSE
  BY <1>1, <1>3, <1>8 DEF WsStart, WsWake, WsAnswer, WsFail, IndInv, TypeOK
<1>9. ASSUME NEW u \in Urls, OnOpen(u) \/ OnClose(u) \/ OnError(u) PROVE FALSE
  BY <1>1, <1>3, <1>9 DEF OnOpen, OnClose, OnError, IndInv, TypeOK
<1>10. UNCHANGED vars => UNCHANGED <<responseTime, failedRequests, pc, url, left>>
  BY DEF vars, statVars, callVars
<1> QED BY <1>4, <1>5, <1>6, <1>7, <1>8, <1>9, <1>10 DEF Next, CallStep

-----------------------------------------------------------------------------
(* The theorems *)

\* Types; in particular no statistic of a url leaves its bounds, however often it fails.
THEOREM RpcCallsTypes == Spec => []TypeOK
<1>1. IndInv => TypeOK
  BY DEF IndInv
<1> QED BY <1>1, InitialIndInv, IndInvPreserved, PTL DEF Spec

\* Over HTTP, with several urls, queriesCount is the number of attempts under way.
THEOREM LoadIsExact == Spec => []LoadExact
<1>1. IndInv => LoadExact
  BY DEF IndInv
<1> QED BY <1>1, InitialIndInv, IndInvPreserved, PTL DEF Spec

\* Over HTTP, with at most two urls and answers that weigh less than a failure, a call that
\* was given up has left no url that never failed.
THEOREM EveryUrlIsTried == Spec => []EveryUrlTried
<1>1. TriedInv => EveryUrlTried
  BY DEF TriedInv, RetryInv, EveryUrlTried
<1> QED BY <1>1, InitialIndInv, IndInvPreserved, InitialTriedInv, TriedInvPreserved, PTL DEF Spec
=============================================================================
