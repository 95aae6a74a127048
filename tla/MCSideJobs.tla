---------------------------- MODULE MCSideJobs ----------------------------
(* SideJobs on small instances: the queries asked for, the logs, the chain and the *)
(* metrics.                                                                      *)
EXTENDS SideJobs, TLC

\* Requests are alike; nothing else depends on them.
Symmetry == Permutations(Requests)

-----------------------------------------------------------------------------
(* ApiCache: methods whose keys have a name in common, two by two, and one query at *)
(* a time of the other kinds of handler.                                           *)

Queried(method, args) == [method |-> method, args |-> args]
Number(n) == [kind |-> "number", name |-> n]
Address(a) == [kind |-> "address", name |-> a]
Word(w) == [kind |-> "word", name |-> w]
Shard0 == Number("0")

Token == Address("a")
SharedNames ==
    {{Queried("getAllERC20", <<Shard0>>), Queried("getUserERC20Balances", <<Shard0, Token>>)},
     {Queried("getUserERC20Balances", <<Shard0, Token>>), Queried("getUserERC20Balances", <<Shard0, Address("b")>>)},
     {Queried("getERC20TokenHolders", <<Shard0, Token, Shard0, Number("1")>>),
      Queried("getERC20TokenHolders", <<Shard0, Token, Number("1"), Number("1")>>)},
     {Queried("getERC20TokenHolders", <<Shard0, Token, Shard0, Shard0>>),
      Queried("getERC20TransferInfo", <<Shard0, Token>>)},
     {Queried("getTokenERC1155Assets", <<Shard0, Token>>),
      Queried("getTokenERC1155AssetDetails", <<Shard0, Token, Word("w")>>)}}

Alone ==
    {{Queried("getTransactionByField", <<Shard0, Word("hash"), [kind |-> "hash", name |-> "h"]>>)},
     {Queried("getTransactionByField", <<Shard0, Word("hash"), [kind |-> "hash", name |-> "g"]>>)},
     {Queried("getLogsByField", <<Shard0, Word("block_number"), Number("1")>>)},
     {Queried("getBlockByHash", <<Shard0, Word("w")>>)},
     {Queried("ethGetLogs", <<Shard0, [kind |-> "filter", name |-> "all"]>>)},
     {Queried("getWalletsCountLast14Days", <<>>)}}

MCAsked == SharedNames \cup Alone

-----------------------------------------------------------------------------
(* EventMigration: blocks 1 to 3 in batches of two, a token of each type, one        *)
(* without a symbol, a log that does not decode.                                    *)

TokenOf(type, symbol) == [type |-> type, symbol |-> symbol]
LogOf(block, token, event, zero) ==
    [block |-> block, token |-> token, event |-> event, zero |-> zero, decodes |-> TRUE]
Undecodable(log) == [log EXCEPT !.decodes = FALSE]

MCTokens == {TokenOf("erc20", TRUE), TokenOf("erc20", FALSE), TokenOf("erc721", TRUE), TokenOf("erc1155", TRUE)}
MCLogs ==
    {LogOf(1, TokenOf("erc20", TRUE), "Transfer", FALSE),
     LogOf(3, TokenOf("erc20", TRUE), "Transfer", TRUE),
     LogOf(3, TokenOf("erc20", TRUE), "Approval", TRUE),
     LogOf(3, TokenOf("erc20", FALSE), "Transfer", FALSE),
     LogOf(4, TokenOf("erc721", TRUE), "ApprovalForAll", FALSE),
     Undecodable(LogOf(3, TokenOf("erc721", TRUE), "Transfer", FALSE)),
     LogOf(2, TokenOf("erc1155", TRUE), "TransferSingle", FALSE)}

-----------------------------------------------------------------------------
(* MissingInternal: blocks 1 to 4 in batches of two and beyond the height, a node    *)
(* that lags, blocks of every kind before one whose trace is to be found.            *)

MCInputs == [b \in 0..4 |-> CASE b = 1 -> "none" [] b = 3 -> "long" [] OTHER -> "short"]
MCTraced == [b \in 0..4 |-> CASE b = 2 -> 2 [] b = 1 -> 0 [] OTHER -> 1]

-----------------------------------------------------------------------------
(* DailyStats: four days, two metrics, a window of two days.                        *)

MCKinds == <<[name |-> "wallets_count", extra |-> 0], [name |-> "block_size", extra |-> 1]>>
=============================================================================
