--------------------------- MODULE MCContractSync ---------------------------
(* ContractSync on a short chain: two tokens, the second deployed while the   *)
(* first is being traded, an owner that both know, and an event from nobody to *)
(* nobody.                                                                    *)
EXTENDS ContractSync

MCDeployed == [t \in Tokens |-> IF t = "t1" THEN 1 ELSE 2]

MCTransfer(b, t, from, to) == [block |-> b, token |-> t, id |-> "id", from |-> from, to |-> to]

MCTransfers == {MCTransfer(1, "t1", Zero, "a"),
                MCTransfer(3, "t1", "a", "b"),
                MCTransfer(2, "t2", Zero, "a"),
                MCTransfer(3, "t2", Zero, Zero)}
=============================================================================
