------------------------------ MODULE RpcCalls ------------------------------
(* The calls the indexer makes to the nodes of a shard: the choice of a url by   *)
(* its statistics (RPCUrls.ts), and the two transports between which the         *)
(* configuration chooses once, HTTP with a new choice of url for every attempt   *)
(* (fetch.ts) and WebSocket with one connection per url (WebSocketRPC.ts).       *)
(*                                                                               *)
(* Not modelled: the order of the urls' array, which getURL sorts in place - of  *)
(* equal urls any may be chosen -, fractions of a millisecond in the mean times, *)
(* totalQueries, which is only reported, and the wrap of safeIncrement at 2^53.  *)
EXTENDS Integers, FiniteSets

CONSTANTS
    Urls,       \* the urls an operator may configure for the shard
    Calls,      \* the calls made, each of them once
    OkTimes,    \* how long an answered request may have taken, in milliseconds
    MaxFaults   \* bound on the errors and closings of connections

FetchTimeout == 10000
HttpAttempts == 5
WsAttempts == 3

ASSUME UrlsAssumption == Urls # {} /\ IsFiniteSet(Urls)
ASSUME CallsAssumption == IsFiniteSet(Calls)
\* The timer aborts an attempt that takes longer.
ASSUME OkTimesAssumption == OkTimes \subseteq 0..FetchTimeout
ASSUME MaxFaultsAssumption == MaxFaults \in Nat

VARIABLES
    transport,      \* config.indexer.rpc.transport
    configured,     \* config.indexer.rpc.urls of the shard
    responseTime, failedRequests, queriesCount,     \* RPCUrls, per url
    pc,             \* the stage of each call
    url,            \* the url each call uses
    left,           \* the attempts each call has left
    connected,      \* urls with a WebSocketRPC (lazyConnection)
    open,           \* WebSocketRPC.open
    faults

statVars == <<responseTime, failedRequests, queriesCount>>
callVars == <<pc, url, left>>
wsVars == <<connected, open, faults>>
vars == <<transport, configured, statVars, callVars, wsVars>>

Ended == {"answered", "refused", "failed"}

Init ==
    /\ transport \in {"http", "ws"}
    /\ configured \in (SUBSET Urls) \ {{}}
    /\ responseTime = [u \in Urls |-> 0]
    /\ failedRequests = [u \in Urls |-> 0]
    /\ queriesCount = [u \in Urls |-> 0]
    /\ pc = [c \in Calls |-> "idle"]
    /\ url = [c \in Calls |-> CHOOSE u \in Urls : TRUE]
    /\ left = [c \in Calls |-> 0]
    /\ connected = {}
    /\ open = {}
    /\ faults = 0

-----------------------------------------------------------------------------
(* The statistics of the urls *)

Score(u, time, failed, queries) == time[u] + 2 * queries[u] + 10 * failed[u]

\* The order of the sort turned round.
Worst(time, failed, queries) ==
    {u \in configured : \A v \in configured :
        Score(v, time, failed, queries) <= Score(u, time, failed, queries)}

\* The urls getURL may return for these statistics, and what it does to queriesCount.
Best(time, failed, queries) ==
    {u \in configured : \A v \in configured :
        Score(u, time, failed, queries) <= Score(v, time, failed, queries)}

Counted(queries, u) ==
    IF Cardinality(configured) = 1 THEN queries ELSE [queries EXCEPT ![u] = @ + 1]

\* The sum for the mean, and no decrement.
TimeSummed(u, time) == [responseTime EXCEPT ![u] = @ + time]
QueriesKept(u) == queriesCount

\* What submitStatistic leaves in each of the three.
TimeAfter(u, time) == [responseTime EXCEPT ![u] = (@ + time) \div 2]
FailedAfter(u) == [failedRequests EXCEPT ![u] = @ + 1]
QueriesAfter(u) == [queriesCount EXCEPT ![u] = @ - 1]

SubmitFailure(u, time) ==
    /\ responseTime' = TimeAfter(u, time)
    /\ failedRequests' = FailedAfter(u)
    /\ queriesCount' = QueriesAfter(u)

-----------------------------------------------------------------------------
(* HTTP *)

HttpStart(c) ==
    /\ transport = "http"
    /\ pc[c] = "idle"
    /\ \E u \in Best(responseTime, failedRequests, queriesCount) :
          /\ url' = [url EXCEPT ![c] = u]
          /\ queriesCount' = Counted(queriesCount, u)
    /\ pc' = [pc EXCEPT ![c] = "sent"]
    /\ left' = [left EXCEPT ![c] = HttpAttempts]
    /\ UNCHANGED <<transport, configured, responseTime, failedRequests, wsVars>>

HttpAnswer(c) ==
    /\ transport = "http"
    /\ pc[c] = "sent"
    /\ \E time \in OkTimes : responseTime' = TimeAfter(url[c], time)
    /\ queriesCount' = QueriesAfter(url[c])
    /\ pc' = [pc EXCEPT ![c] = "answered"]
    /\ UNCHANGED <<transport, configured, failedRequests, url, left, wsVars>>

\* The node answers with an error: counted as a failure of the url, not repeated.
HttpRefuse(c) ==
    /\ transport = "http"
    /\ pc[c] = "sent"
    /\ SubmitFailure(url[c], FetchTimeout)
    /\ pc' = [pc EXCEPT ![c] = "refused"]
    /\ UNCHANGED <<transport, configured, url, left, wsVars>>

\* The attempt is aborted after FetchTimeout, breaks, or brings a falsy result.
HttpFail(c) ==
    /\ transport = "http"
    /\ pc[c] = "sent"
    /\ responseTime' = TimeAfter(url[c], FetchTimeout)
    /\ failedRequests' = FailedAfter(url[c])
    /\ left' = [left EXCEPT ![c] = @ - 1]
    /\ IF left[c] = 1
       THEN /\ pc' = [pc EXCEPT ![c] = "failed"]
            /\ queriesCount' = QueriesAfter(url[c])
            /\ UNCHANGED url
       ELSE /\ UNCHANGED pc
            /\ \E u \in Best(responseTime', failedRequests', QueriesAfter(url[c])) :
                  /\ url' = [url EXCEPT ![c] = u]
                  /\ queriesCount' = Counted(QueriesAfter(url[c]), u)
    /\ UNCHANGED <<transport, configured, wsVars>>

-----------------------------------------------------------------------------
(* WebSocket *)

\* WebSocketRPC.call: sent when the connection is open, else asleep.
SentOr(u) == IF u \in open THEN "sent" ELSE "asleep"

WsStart(c) ==
    /\ transport = "ws"
    /\ pc[c] = "idle"
    /\ \E u \in Best(responseTime, failedRequests, queriesCount) :
          /\ url' = [url EXCEPT ![c] = u]
          /\ queriesCount' = Counted(queriesCount, u)
          /\ connected' = connected \cup {u}
          /\ pc' = [pc EXCEPT ![c] = SentOr(u)]
    /\ left' = [left EXCEPT ![c] = WsAttempts]
    /\ UNCHANGED <<transport, configured, responseTime, failedRequests, open, faults>>

\* The second is over and the connection open; while it is closed the call sleeps again.
WsWake(c) ==
    /\ pc[c] = "asleep"
    /\ url[c] \in open
    /\ pc' = [pc EXCEPT ![c] = "sent"]
    /\ UNCHANGED <<transport, configured, statVars, url, left, wsVars>>

WsAnswer(c) ==
    /\ transport = "ws"
    /\ pc[c] = "sent"
    /\ pc' = [pc EXCEPT ![c] = "answered"]
    /\ UNCHANGED <<transport, configured, statVars, url, left, wsVars>>

\* No timer beside the request.
WsFailUntimed(c) ==
    /\ transport = "ws"
    /\ pc[c] = "sent"
    /\ left' = [left EXCEPT ![c] = @ - 1]
    /\ pc' = [pc EXCEPT ![c] = IF left[c] = 1 THEN "failed" ELSE "asleep"]
    /\ UNCHANGED <<transport, configured, statVars, url, wsVars>>

\* The node answers with an error, or the race is won by the timeout: always so when
\* the connection closed under the request ("lost").
WsFail(c) ==
    /\ transport = "ws"
    /\ pc[c] \in {"sent", "lost"}
    /\ left' = [left EXCEPT ![c] = @ - 1]
    /\ IF left[c] = 1
       THEN /\ pc' = [pc EXCEPT ![c] = "failed"]
            /\ UNCHANGED statVars
       ELSE /\ pc' = [pc EXCEPT ![c] = "asleep"]
            /\ SubmitFailure(url[c], 0)
    /\ UNCHANGED <<transport, configured, url, wsVars>>

OnOpen(u) ==
    /\ u \in connected \ open
    /\ open' = open \cup {u}
    /\ UNCHANGED <<transport, configured, statVars, callVars, connected, faults>>

\* The connection is gone, and with it the answers to what was sent over it.
Down(u) ==
    /\ faults < MaxFaults
    /\ faults' = faults + 1
    /\ open' = open \ {u}
    /\ pc' = [c \in Calls |-> IF pc[c] = "sent" /\ url[c] = u THEN "lost" ELSE pc[c]]
    /\ UNCHANGED <<transport, configured, url, left, connected>>

OnClose(u) ==
    /\ u \in open
    /\ Down(u)
    /\ UNCHANGED statVars

\* An error counts as a failed request of the url, whether or not one was under way.
OnError(u) ==
    /\ u \in connected
    /\ Down(u)
    /\ SubmitFailure(u, 0)

-----------------------------------------------------------------------------

CallStep(c) ==
    \/ HttpAnswer(c)
    \/ HttpRefuse(c)
    \/ HttpFail(c)
    \/ WsWake(c)
    \/ WsAnswer(c)
    \/ WsFail(c)

Next ==
    \/ \E c \in Calls : HttpStart(c) \/ WsStart(c) \/ CallStep(c)
    \/ \E u \in Urls : OnOpen(u) \/ OnClose(u) \/ OnError(u)

Spec == Init /\ [][Next]_vars

\* An attempt ends, by its timer at the latest; a connection that is down is opened
\* again (max_reconnects 0: without an end).
Fairness ==
    /\ \A c \in Calls : WF_vars(CallStep(c))
    /\ \A u \in Urls : WF_vars(OnOpen(u))

FairSpec == Spec /\ Fairness

-----------------------------------------------------------------------------
(* Properties *)

\* Types.
TypeOK ==
    /\ transport \in {"http", "ws"}
    /\ configured \in (SUBSET Urls) \ {{}}
    /\ responseTime \in [Urls -> 0..FetchTimeout]
    /\ failedRequests \in [Urls -> Nat]
    /\ queriesCount \in [Urls -> Int]
    /\ pc \in [Calls -> {"idle", "asleep", "sent", "lost"} \cup Ended]
    /\ url \in [Calls -> Urls]
    /\ left \in [Calls -> 0..HttpAttempts]
    /\ open \subseteq connected
    /\ connected \subseteq configured
    /\ faults \in 0..MaxFaults

\* The attempts under way at url u.
UnderWay(u) == {c \in Calls : pc[c] = "sent" /\ url[c] = u}

\* Over HTTP, with several urls to choose from, queriesCount of a url is the number of
\* attempts under way at it, whatever way each of them ends and wherever the call that
\* made it goes on: the load by which getURL compares the urls never drifts.
LoadExact ==
    transport = "http" /\ Cardinality(configured) > 1 =>
        \A u \in configured : queriesCount[u] = Cardinality(UnderWay(u))

\* An answer and the load at a url weigh less than one failure.
AnswersQuick ==
    \A time \in OkTimes \cup {0} : time + 2 * Cardinality(Calls) < FetchTimeout \div 2 + 10

\* Over HTTP a call gives up only when no url is left that never failed: of two urls,
\* as in mainnet.env.example, its attempts do not all go to a dead one while the other
\* has answered everything, even if that is slow or has more requests under way.  (Of
\* three, one may be passed over: answers to other calls in between bring the mean times
\* of the two that fail down again.)
EveryUrlTried ==
    AnswersQuick /\ Cardinality(configured) <= 2
        /\ transport = "http" /\ (\E c \in Calls : pc[c] = "failed") =>
            \A u \in configured : failedRequests[u] > 0

\* Every call ends, with an answer or an error, over either transport: over WebSocket
\* the request lost with its connection is given up by its timer, and the call sleeps
\* only until the connection is open again.
CallsEnd == \A c \in Calls : pc[c] \in {"sent", "asleep"} ~> pc[c] \in Ended

-----------------------------------------------------------------------------
(* The inductive invariants behind TypeOK and LoadExact, and behind EveryUrlTried *)

Trying(c) == pc[c] \in {"sent", "asleep", "lost"}

IndInv ==
    /\ TypeOK
    /\ transport = "http" => connected = {}
    /\ \A c \in Calls : Trying(c) => left[c] # 0 /\ url[c] \in configured
    /\ LoadExact

\* A url that never failed has answered all along; a call that has failed somewhere is at
\* such a url, if there is one.
RetryInv ==
    /\ \A u \in configured :
          failedRequests[u] = 0 => \E time \in OkTimes \cup {0} : responseTime[u] <= time
    /\ \A c \in Calls : pc[c] = "sent" /\ left[c] < HttpAttempts =>
          \A u \in configured \ {url[c]} : failedRequests[u] > 0
    /\ \A c \in Calls : pc[c] = "failed" => \A u \in configured : failedRequests[u] > 0

TriedInv == AnswersQuick /\ Cardinality(configured) <= 2 /\ transport = "http" => RetryInv

=============================================================================
