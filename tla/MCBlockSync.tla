---------------------------- MODULE MCBlockSync ----------------------------
(* BlockSync on a short chain: the blocks that carry rows in each table. *)
EXTENDS BlockSync

MCContent ==
    [t \in Tables |-> CASE t = "blocks"       -> Block
                        [] t = "transactions" -> {1, 3} \cap Block
                        [] t = "staking"      -> {1} \cap Block
                        [] t = "internal"     -> {1, 3} \cap Block
                        [] t = "contracts"    -> {3} \cap Block]

\* Rows of each kind in one block each, for the runs with more than one loop.
MCSparse ==
    [t \in Tables |-> CASE t = "blocks"  -> Block
                        [] t = "staking" -> {1}
                        [] OTHER         -> {2}]

=============================================================================
