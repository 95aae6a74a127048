----------------------------- MODULE MCLogSync -----------------------------
(* LogSync on a short chain: the blocks that have logs. *)
EXTENDS LogSync

MCEveryBlock == Block

\* One block below the first gap, and the gap itself.
MCSparse == {b \in Block : b % 2 = 0 /\ b > 0}

\* A failure or crash and a second loop, but not the one during the other.
MCNext ==
    /\ Next
    /\ faults' = 0 \/ \A p \in Workers : pc'[p] = "idle"

MCSpec == Init /\ [][MCNext]_vars /\ Fairness
=============================================================================
