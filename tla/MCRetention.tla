---------------------------- MODULE MCRetention ----------------------------
(* Retention on a short chain on which every block but the first has internal *)
(* transactions.                                                              *)
EXTENDS Retention

MCContent ==
    [t \in Tables |-> CASE t = "blocks"                   -> Block
                        [] t \in {"staking", "contracts"} -> {}
                        [] OTHER                          -> Block \ {0}]
=============================================================================
