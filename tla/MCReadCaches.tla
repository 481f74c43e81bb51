---------------------------- MODULE MCReadCaches ----------------------------
(* A small instance of ReadCaches for TLC.                                 *)
EXTENDS ReadCaches
CONSTANTS r1, r2, w1, w2, k1, k2

TwoReaders == {r1, r2}
TwoWriters == {w1, w2}
TwoKeys == {k1, k2}
\* Balances, tenants and grades have the longer times in the code too.
Ttls == [c \in Caches |->
            IF c \in {"balances", "tenants", "grades"} THEN 2 ELSE 1]
=============================================================================
