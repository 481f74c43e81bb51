------------------------------ MODULE MCDbPool ------------------------------
(* Small instances of DbPool for TLC.                                      *)
EXTENDS DbPool
CONSTANTS r1, r2

TwoRequests == {r1, r2}

\* Every mix of two kinds, up to the names of the requests.
Rank == [plain |-> 1, parallel |-> 2, opening |-> 3, patch |-> 4, pair |-> 5,
         notify |-> 6]
Mixes == {k \in [TwoRequests -> Kinds] : Rank[k[r1]] <= Rank[k[r2]]}
=============================================================================
