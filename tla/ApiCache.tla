------------------------------ MODULE ApiCache ------------------------------
(* The read side of the service: the REST routes, the controllers they call, and  *)
(* the cache between the controllers and the database (controllers/cache). A      *)
(* route turns its parameters into a query; the controller validates it, looks    *)
(* its key up, and on a miss asks the database and stores what is not empty.      *)
(*                                                                                *)
(* A parameter is a kind and a name: what the validators and the keys tell apart. *)
(* The database is one version number that the indexer increases: each time it     *)
(* stores one more thing of the kind looked for, in a block of its own after the    *)
(* blocks that were there; 0 is nothing found. Not modelled: the filters' contents   *)
(* (a filter of logs has the range to "latest"), logs whose block is not stored     *)
(* yet, the WebSocket API, which passes a client's arguments on as they are, and    *)
(* the metrics of the routes.                                                     *)
EXTENDS Naturals, Sequences

CONSTANTS
    Requests,   \* requests at a time
    Asked,      \* the sets of queries clients may ask for
    MaxNow,     \* bound on the clock, in seconds
    MaxRead,    \* seconds a query may take in the database
    MaxVersion  \* bound on the indexer's writes


VARIABLES
    queries,    \* the queries asked for in this behaviour
    now,
    version,    \* of the database
    storedAt,   \* when the first thing was stored
    cache,      \* the LRU: entries by key
    req         \* the requests

vars == <<queries, now, version, storedAt, cache, req>>

-----------------------------------------------------------------------------
(* Parameters and validators *)

Arg(kind, name) == [kind |-> kind, name |-> name]
Args(kind, names) == {Arg(kind, n) : n \in names}

\* The kinds a validator lets pass.
Uint == {"number"}
Address == {"address"}
Hash == {"hash"}
OneOf == {"word"}
Filters == {"filter"}
Unchecked == {"number", "address", "hash", "word", "filter"}

\* One row per controller method that has a route: does the key begin with the shard, the key's name,
\* the validators of the parameters, and maxAge.
Cached(byShard, key, params, age) ==
    [cached |-> TRUE, byShard |-> byShard, key |-> key, params |-> params, age |-> age]
Uncached(params) ==
    [cached |-> FALSE, byShard |-> FALSE, key |-> "", params |-> params, age |-> 0]

Minute == 60
Hour == 3600

BlockController ==
    [getBlockByNumber |-> Cached(FALSE, "getBlockByNumber", <<Uint, Uint>>, 10),
     getBlockByHash   |-> Cached(FALSE, "getBlockByHash", <<Uint, Hash>>, 2),
     getBlocks        |-> Cached(FALSE, "getBlocks", <<Uint, Filters>>, 2)]

\* Of the methods with a field, block_number takes a number and the others a hash:
\* the routes give a number to no other field.
TransactionController ==
    [getTransactionByField |-> Cached(FALSE, "getTransactionByField", <<Unchecked, OneOf, Uint \cup Hash>>, 1),
     getTransactions       |-> Cached(FALSE, "getTransactions", <<Uint, Filters>>, 2)]

StakingController ==
    [getStakingTransactionsByField |-> Uncached(<<Unchecked, OneOf, Uint \cup Hash>>),
     getStakingTransactions        |-> Uncached(<<Uint, Filters>>)]

InternalController ==
    [getInternalTransactionsByField |->
        Cached(FALSE, "getInternalTransactionsByField", <<Unchecked, OneOf, Uint \cup Hash>>, 10)]

AddressController ==
    [getRelatedTransactionsByType |->
        Cached(FALSE, "getRelatedTransactionsByType", <<Uint, Address, OneOf, Filters>>, 2)]

ContractController ==
    [getContractsByField |-> Cached(FALSE, "getContractByField", <<Unchecked, OneOf, Address>>, 10)]

CountController == [getCount |-> Uncached(<<Unchecked, OneOf>>)]

SignatureController == [getSignaturesByHash |-> Cached(FALSE, "getSignaturesByHash", <<Hash>>, 1)]

PriceController ==
    [getBinancePairPrice           |-> Cached(FALSE, "getBinancePairPrice", <<OneOf>>, Minute),
     getBinancePairHistoricalPrice |-> Cached(FALSE, "getBinancePairHistoricalPrice", <<OneOf>>, 24 * Hour),
     getOneTokenPrice              |-> Cached(FALSE, "getOneTokenPrice", <<>>, 5 * Minute)]

GasController == [getGasPrice |-> Cached(FALSE, "getGasPrice", <<>>, Minute)]

MetricsController ==
    [getTransactionCountLast14Days |-> Cached(FALSE, "getTransactionCountLast14Days", <<>>, Hour),
     getWalletsCountLast14Days     |-> Cached(FALSE, "getWalletsCountLast14Days", <<>>, Hour),
     getMetricsByType              |-> Cached(FALSE, "getMetricsByType", <<OneOf, Uint, Uint>>, 10 * Minute)]

LogController ==
    [getLogsByField |-> Cached(FALSE, "getLogsByField", <<Unchecked, OneOf, Uint \cup Hash>>, 1)]

\* latestOfLogs is the first of the two reads of ethGetLogs.
EthLogsController ==
    [ethGetLogs   |-> Cached(FALSE, "ethGetLogs", <<Unchecked, Filters>>, 2),
     latestOfLogs |-> Cached(FALSE, "getLatestBlockNumber", <<Unchecked, Filters>>, 2)]

ERC20Controller ==
    [getAllERC20          |-> Cached(TRUE, "getAllERC20", <<Uint>>, Hour),
     getUserERC20Balances |-> Cached(TRUE, "getAllERC20", <<Uint, Address>>, Hour),
     getERC20TokenHolders |-> Cached(TRUE, "getERC20TokenHolders", <<Uint, Address, Uint, Uint>>, Hour),
     getERC20TransferInfo |-> Cached(TRUE, "getERC20TokenHolders", <<Unchecked, Unchecked>>, 10)]

ERC721Controller ==
    [getAllERC721         |-> Cached(TRUE, "getAllERC721", <<Uint>>, Hour),
     getUserERC721Assets  |-> Cached(TRUE, "getUserERC721Assets", <<Uint, Address>>, Hour),
     getTokenERC721Assets |-> Cached(TRUE, "getTokenERC721Assets", <<Uint, Address>>, 10 * Minute)]

ERC1155Controller ==
    [getAllERC1155               |-> Cached(TRUE, "getAllERC1155", <<Uint>>, Hour),
     getUserERC1155Balances      |-> Cached(TRUE, "getUserERC1155Balances", <<Uint, Address>>, 10 * Minute),
     getTokenERC1155Balances     |-> Cached(TRUE, "getTokenERC1155Balances", <<Uint, Address>>, 10 * Minute),
     getTokenERC1155Assets       |-> Cached(TRUE, "getTokenERC1155Assets", <<Uint, Address>>, 5),
     getTokenERC1155AssetDetails |-> Cached(TRUE, "getTokenERC1155Assets", <<Uint, Address, Unchecked>>, 5)]

\* The method of this name, of whichever controller has it.
Method(m) ==
    CASE m \in DOMAIN BlockController -> BlockController[m]
      [] m \in DOMAIN TransactionController -> TransactionController[m]
      [] m \in DOMAIN StakingController -> StakingController[m]
      [] m \in DOMAIN InternalController -> InternalController[m]
      [] m \in DOMAIN AddressController -> AddressController[m]
      [] m \in DOMAIN ContractController -> ContractController[m]
      [] m \in DOMAIN CountController -> CountController[m]
      [] m \in DOMAIN SignatureController -> SignatureController[m]
      [] m \in DOMAIN PriceController -> PriceController[m]
      [] m \in DOMAIN GasController -> GasController[m]
      [] m \in DOMAIN MetricsController -> MetricsController[m]
      [] m \in DOMAIN LogController -> LogController[m]
      [] m \in DOMAIN EthLogsController -> EthLogsController[m]
      [] m \in DOMAIN ERC20Controller -> ERC20Controller[m]
      [] m \in DOMAIN ERC721Controller -> ERC721Controller[m]
      [] m \in DOMAIN ERC1155Controller -> ERC1155Controller[m]

-----------------------------------------------------------------------------
(* Routes: the queries a client can make *)

Query(method, args) == [method |-> method, args |-> args]

\* "h" is the hash of a transaction, "g" Harmony's hash of one.
Numbers == Args("number", {"0", "1"})
Strings == Args("address", {"a", "b"}) \cup Args("hash", {"h", "g"}) \cup Args("word", {"w"})
Filter == Args("filter", {"all", "some"})
ShardArgs == Args("number", {"0", "1"})
Word(w) == {Arg("word", w)}

\* Every query of a method with its arguments from the given sets.
Queries1(m, A) == {Query(m, <<a>>) : a \in A}
Queries2(m, A, B) == {Query(m, <<a, b>>) : a \in A, b \in B}
Queries3(m, A, B, C) == {Query(m, <<a, b, c>>) : a \in A, b \in B, c \in C}
Queries4(m, A, B, C, D) == {Query(m, <<a, b, c, d>>) : a \in A, b \in B, c \in C, d \in D}

Counts(entity) == Queries2("getCount", ShardArgs, Word(entity))

BlockRoutes ==
    Queries2("getBlockByNumber", ShardArgs, Numbers) \cup Queries2("getBlockByHash", ShardArgs, Strings)
        \cup Queries2("getBlocks", ShardArgs, Filter) \cup Counts("blocks")

\* The routes by block number, by block hash and by hash of a method with a field.
ByField(method, field) ==
    Queries3(method, ShardArgs, Word("block_number"), Numbers)
        \cup Queries3(method, ShardArgs, Word("block_hash") \cup Word(field), Strings)

TransactionRoutes ==
    ByField("getTransactionByField", "hash") \cup Queries2("getTransactions", ShardArgs, Filter)
        \cup Counts("transactions")

StakingRoutes ==
    ByField("getStakingTransactionsByField", "hash")
        \cup Queries2("getStakingTransactions", ShardArgs, Filter) \cup Counts("stakingTransactions")

InternalRoutes ==
    ByField("getInternalTransactionsByField", "transaction_hash") \cup Counts("internalTransactions")

LogsRoutes == ByField("getLogsByField", "transaction_hash") \cup Counts("logs")

AddressRoutes ==
    Queries4("getRelatedTransactionsByType", ShardArgs, Strings, Word("transaction") \cup Word("erc20"), Filter)
        \cup Queries3("getContractsByField", ShardArgs, Word("address"), Strings)

ERC20Routes ==
    Queries1("getAllERC20", ShardArgs) \cup Queries2("getUserERC20Balances", ShardArgs, Strings)
        \cup Queries4("getERC20TokenHolders", ShardArgs, Strings, Numbers, Numbers)
        \cup Queries2("getERC20TransferInfo", Args("number", {"0"}), Strings)

ERC721Routes ==
    Queries1("getAllERC721", ShardArgs) \cup Queries2("getUserERC721Assets", ShardArgs, Strings)
        \cup Queries2("getTokenERC721Assets", ShardArgs, Strings)

ERC1155Routes ==
    Queries1("getAllERC1155", ShardArgs) \cup Queries2("getUserERC1155Balances", ShardArgs, Strings)
        \cup Queries2("getTokenERC1155Balances", ShardArgs, Strings)
        \cup Queries2("getTokenERC1155Assets", ShardArgs, Strings)
        \cup Queries3("getTokenERC1155AssetDetails", ShardArgs, Strings, Strings)

PriceRoutes ==
    Queries1("getBinancePairPrice", Strings) \cup Queries1("getBinancePairHistoricalPrice", Strings)
        \cup {Query("getOneTokenPrice", <<>>)}

MetricsRoutes ==
    {Query("getTransactionCountLast14Days", <<>>), Query("getWalletsCountLast14Days", <<>>)}
        \cup Queries3("getMetricsByType", Strings, Numbers, Numbers)

SignatureRoutes == Queries1("getSignaturesByHash", Strings)

GasRoute == {Query("getGasPrice", <<>>)}

\* eth_getLogs and hmy_getLogs, always of shard 0.
RpcRoute == Queries2("ethGetLogs", Args("number", {"0"}), Filter)

Routes ==
    BlockRoutes \cup TransactionRoutes \cup StakingRoutes \cup InternalRoutes \cup LogsRoutes
        \cup AddressRoutes \cup ERC20Routes \cup ERC721Routes \cup ERC1155Routes \cup PriceRoutes
        \cup MetricsRoutes \cup SignatureRoutes \cup GasRoute \cup RpcRoute

-----------------------------------------------------------------------------
(* The cache *)

Accepted(q) ==
    LET params == Method(q.method).params
    IN  \A i \in 1..Len(q.args) : q.args[i].kind \in params[i]

\* The last argument forgotten where the key is put together.
KeyBare(q) == <<Method(q.method).key, SubSeq(q.args, 1, Len(q.args) - 1)>>

\* JSON.stringify([..., key, arguments]).
Key(q) ==
    LET c == Method(q.method)
    IN  IF c.byShard THEN <<q.args[1], c.key, q.args>> ELSE <<c.key, q.args>>

Age(q) == Method(q.method).age
Empty == [k \in {} |-> 0]

\* What warmUpCache has stored before the servers start, unless nothing was found; the
\* entries nobody asks for are left out.
WarmedUp(v) ==
    LET warm == {Query("getTransactionCountLast14Days", <<>>), Query("getWalletsCountLast14Days", <<>>),
                 Query("getBinancePairHistoricalPrice", <<Arg("word", "ONEUSDT")>>),
                 Query("getBinancePairPrice", <<Arg("word", "ONEUSDT")>>)}
    IN  IF v = 0 THEN Empty
        ELSE [k \in {Key(q) : q \in warm \cap queries} |->
                LET q == CHOOSE w \in warm : Key(w) = k
                IN  [query |-> q, version |-> v, at |-> 0, expires |-> Age(q)]]

Idle == [pc |-> "idle", query |-> Query("", <<>>), source |-> Query("", <<>>),
         version |-> 0, at |-> 0, read |-> 0, asked |-> 0, since |-> 0, there |-> FALSE]

Init ==
    /\ queries \in {Q \in Asked : Q \subseteq Routes}
    /\ now = 0
    /\ version \in 0..MaxVersion
    /\ storedAt = 0
    /\ cache = WarmedUp(version)
    /\ req = [r \in Requests |-> Idle]

\* ethGetLogs begins with the latest block.
First(q) == IF q.method = "ethGetLogs" THEN Query("latestOfLogs", q.args) ELSE q

\* A request comes in, when there is something to find or nothing yet; what no
\* validator accepts goes no further.
Ask(r, q) ==
    /\ req[r].pc \in {"idle", "answered", "rejected"}
    /\ req' = [req EXCEPT ![r] = [Idle EXCEPT !.pc = IF Accepted(q) THEN "lookup" ELSE "rejected",
                                             !.query = First(q), !.asked = now, !.at = MaxNow,
                                             !.there = version > 0]]
    /\ UNCHANGED <<queries, now, version, storedAt, cache>>

\* The handler goes on: with the logs to the latest block, whose number it keeps, with
\* the hash of the other kind when a transaction was not found by the first.
GoesOn(q, found) ==
    \/ q.method = "latestOfLogs"
    \/ q.method = "getTransactionByField" /\ q.args[2].name = "hash" /\ found = 0

Then(q) ==
    IF q.method = "latestOfLogs" THEN Query("ethGetLogs", q.args)
    ELSE Query(q.method, [q.args EXCEPT ![2] = Arg("word", "hash_harmony")])

\* Request r has data of this version, as old as this, found by this query.
Take(r, source, found, at) ==
    LET q == req[r].query
        got == [req[r] EXCEPT !.source = source, !.version = found, !.at = at]
    IN  req' = [req EXCEPT ![r] = IF GoesOn(q, found) THEN [got EXCEPT !.pc = "lookup", !.query = Then(q)]
                                  ELSE [got EXCEPT !.pc = "answered"]]

Earlier(s, t) == IF s < t THEN s ELSE t
Fresh(k) == k \in DOMAIN cache /\ now <= cache[k].expires

Hit(r) ==
    LET k == Key(req[r].query)
    IN  /\ req[r].pc = "lookup"
        /\ Method(req[r].query.method).cached
        /\ Fresh(k)
        /\ Take(r, cache[k].query, cache[k].version, Earlier(cache[k].at, req[r].at))
        /\ UNCHANGED <<queries, now, version, storedAt, cache>>

Miss(r) ==
    /\ req[r].pc = "lookup"
    /\ ~(Method(req[r].query.method).cached /\ Fresh(Key(req[r].query)))
    /\ req' = [req EXCEPT ![r].pc = "reading", ![r].since = now]
    /\ UNCHANGED <<queries, now, version, storedAt, cache>>

\* By the hash of one kind a transaction is not found in the column of the other.
OtherKind(q) ==
    /\ q.method = "getTransactionByField"
    /\ <<q.args[2].name, q.args[3].name>> \in {<<"hash", "g">>, <<"hash_harmony", "h">>}

\* The number of the latest block: the n-th thing is in block n + 1.
Latest == version + 1
UpTo(block) == IF block - 1 < version THEN block - 1 ELSE version

\* What the query of request r finds; the logs end at the latest block found before,
\* which may have come from the cache.
Found(r) ==
    LET q == req[r].query
    IN  CASE q.method = "latestOfLogs" -> Latest
          [] q.method = "ethGetLogs" -> UpTo(req[r].version)
          [] OtherKind(q) -> 0
          [] OTHER -> version

\* The database takes its snapshot; the answer is on its way.
Read(r) ==
    /\ req[r].pc = "reading"
    /\ req' = [req EXCEPT ![r].pc = "read", ![r].version = Found(r), ![r].read = now,
                          ![r].at = Earlier(@, now)]
    /\ UNCHANGED <<queries, now, version, storedAt, cache>>

\* The age of what a query found: the logs of "latest" are as old as the latest block
\* their range ends at; all else is as old as the query.
DataOf(r) == IF req[r].query.method = "ethGetLogs" THEN req[r].at ELSE req[r].read

\* The cache with the answer of request r.
With(r, age) ==
    LET q == req[r].query
    IN  [k \in DOMAIN cache \cup {Key(q)} |->
            IF k = Key(q)
            THEN [query |-> q, version |-> req[r].version, at |-> DataOf(r), expires |-> now + age]
            ELSE cache[k]]

\* The empty kept like the rest.
FillKeepingEmpty(r) ==
    LET q == req[r].query
    IN  /\ req[r].pc = "read"
        /\ cache' = IF Method(q.method).cached THEN With(r, Age(q)) ELSE cache
        /\ Take(r, q, req[r].version, req[r].at)
        /\ UNCHANGED <<queries, now, version, storedAt>>

\* The default for the maxAge that is given.
FillForAnHour(r) ==
    LET q == req[r].query
    IN  /\ req[r].pc = "read"
        /\ cache' = IF Method(q.method).cached /\ req[r].version > 0 THEN With(r, Hour) ELSE cache
        /\ Take(r, q, req[r].version, req[r].at)
        /\ UNCHANGED <<queries, now, version, storedAt>>

\* The answer arrives: stored unless it is empty, over whatever is there.
Fill(r) ==
    LET q == req[r].query
    IN  /\ req[r].pc = "read"
        /\ cache' = IF Method(q.method).cached /\ req[r].version > 0 THEN With(r, Age(q)) ELSE cache
        /\ Take(r, q, req[r].version, req[r].at)
        /\ UNCHANGED <<queries, now, version, storedAt>>

\* The LRU is full, or prunes.
Evict(k) ==
    /\ k \in DOMAIN cache
    /\ cache' = [j \in DOMAIN cache \ {k} |-> cache[j]]
    /\ UNCHANGED <<queries, now, version, storedAt, req>>

-----------------------------------------------------------------------------

\* The indexer writes.
Write ==
    /\ version < MaxVersion
    /\ version' = version + 1
    /\ storedAt' = IF version = 0 THEN now ELSE storedAt
    /\ UNCHANGED <<queries, now, cache, req>>

\* A handler that runs is not interrupted, and no query takes longer than MaxRead.
Tick ==
    /\ now < MaxNow
    /\ \A r \in Requests :
          /\ req[r].pc # "lookup"
          /\ req[r].pc \in {"reading", "read"} => now < req[r].since + MaxRead
    /\ now' = now + 1
    /\ UNCHANGED <<queries, version, storedAt, cache, req>>

Next ==
    \/ \E r \in Requests, q \in queries : Ask(r, q)
    \/ \E r \in Requests : Hit(r) \/ Miss(r) \/ Read(r) \/ Fill(r)
    \/ \E k \in DOMAIN cache : Evict(k)
    \/ Write
    \/ Tick

Spec == Init /\ [][Next]_vars

-----------------------------------------------------------------------------
(* Properties *)

\* Types.
TypeOK ==
    /\ now \in 0..MaxNow
    /\ version \in 0..MaxVersion /\ storedAt \in 0..now
    /\ \A k \in DOMAIN cache : cache[k].version \in 1..MaxVersion + 1 /\ cache[k].at \in 0..now
    /\ \A r \in Requests : req[r].pc \in {"idle", "lookup", "reading", "read", "answered", "rejected"}

\* No request is answered with what another question found: the routes' queries that
\* pass the validators and differ have different keys, although methods share names.
RightAnswer == \A r \in Requests : req[r].pc = "answered" => req[r].source = req[r].query

\* An answer is no older than its maxAge and the time its query took, counted twice for
\* the logs of "latest", whose range was cached before they were: also when requests
\* for one key overlap and the older answer is stored last.
BoundedStaleness ==
    \A r \in Requests : req[r].pc = "answered" =>
        req[r].asked <= req[r].at + (IF req[r].query.method = "ethGetLogs" THEN 2 ELSE 1)
                                        * (Age(req[r].query) + MaxRead)

\* "Not found" is never served from the cache: what was stored before the request came
\* in is found, so that a client that polls for its transaction sees it at once. The
\* exception is eth_getLogs: its range ends at a latest block that may come from the
\* cache, so that logs stored longer ago than the number of that block is kept, and the
\* time its query took, are found, and younger ones may not be.
NotFoundIsFresh ==
    \A r \in Requests : req[r].pc = "answered" /\ req[r].version = 0 =>
        \/ ~req[r].there
        \/ /\ req[r].query.method = "ethGetLogs"
           /\ req[r].asked <= storedAt + Age(First(req[r].query)) + MaxRead

-----------------------------------------------------------------------------
(* The inductive invariant behind the three *)

\* What is looked up: what a client asks for, and what a handler goes on with.
Asks == Routes \cup {First(q) : q \in Routes} \cup {Then(q) : q \in TransactionRoutes}

Active == {r \in Requests : req[r].pc \in {"lookup", "reading", "read"}}

\* The time from the reading of the data to the end of the entry.
Lifetime(q) == (IF q.method = "ethGetLogs" THEN 2 ELSE 1) * (Age(q) + MaxRead)

\* A latest block after which things were stored later was read before they were.
Behind(n, t) == n = 0 /\ version > 0 => t <= storedAt

\* An entry is what its own query found, not nothing, and is dropped in time.
EntryInv(k) ==
    LET e == cache[k]
    IN  /\ e.query \in Asks /\ Method(e.query.method).cached /\ k = Key(e.query)
        /\ e.version \in 1..(IF e.query.method = "latestOfLogs" THEN Latest ELSE version)
        /\ e.at \in 0..now
        /\ e.query.method = "latestOfLogs" => Behind(e.version - 1, e.at)
        /\ e.expires \in Nat /\ e.expires <= e.at + Lifetime(e.query)

CacheInv == \A k \in DOMAIN cache : EntryInv(k)

\* The query of a handler that goes on misses what the next one finds: if the second query
\* for a transaction is by the wrong kind of hash, the first one was not.
FirstMisses(q) == OtherKind(q) /\ q.args[2].name = "hash"
SecondFinds(r) ==
    OtherKind(req[r].query) /\ req[r].query.args[2].name = "hash_harmony" => ~req[r].there

\* A request rests on nothing older than itself, or on a latest block from the cache.
Rests(r) ==
    LET q == req[r].query
    IN  /\ q \in Asks /\ req[r].asked \in 0..now /\ req[r].at \in 0..MaxNow
        /\ IF q.method = "ethGetLogs"
           THEN /\ (IF req[r].pc = "lookup" THEN now ELSE req[r].since) <= req[r].at + Age(q) + MaxRead
                /\ req[r].at <= now
                /\ req[r].pc # "read" => req[r].version \in 1..Latest /\ Behind(req[r].version - 1, req[r].at)
           ELSE req[r].asked <= req[r].at /\ SecondFinds(r)
        /\ q.method = "latestOfLogs" => req[r].at = IF req[r].pc = "read" THEN req[r].read ELSE MaxNow
        /\ req[r].pc # "lookup" => req[r].since \in req[r].asked..now /\ now <= req[r].since + MaxRead
        /\ req[r].pc = "read" =>
              /\ req[r].at <= req[r].read /\ req[r].read \in req[r].since..now
              /\ CASE q.method = "latestOfLogs" -> req[r].version \in 1..Latest /\ Behind(req[r].version - 1, req[r].at)
                   [] q.method = "ethGetLogs" -> req[r].version \in 0..version /\ Behind(req[r].version, req[r].at)
                   [] OTHER -> /\ req[r].version \in 0..version
                               /\ req[r].version = 0 => ~req[r].there \/ FirstMisses(q)

RequestInv ==
    /\ \A r \in Requests : req[r].there => version > 0
    /\ \A r \in Active : Rests(r)

=============================================================================
