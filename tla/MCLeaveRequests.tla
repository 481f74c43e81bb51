--------------------------- MODULE MCLeaveRequests ---------------------------
(* A small instance of LeaveRequests for TLC.                              *)
EXTENDS LeaveRequests, TLC
CONSTANTS s1, s2, l1, l2, e1, e2

TwoSessions == {s1, s2}
TwoRequests == {l1, l2}
TwoEmployees == {e1, e2}
TwoDays == {1, 2}
Symmetric == Permutations(TwoSessions) \union Permutations(TwoRequests)
                \union Permutations(TwoEmployees)

\* A contact only, a start date, a noon start, a status alone, one with times
\* without dates, and an employee alone or with an end date.
SomeBodies ==
    {NoBody, [NoBody EXCEPT !.from = 1], [NoBody EXCEPT !.pm = TRUE],
     [NoBody EXCEPT !.status = "APPROVED"],
     [NoBody EXCEPT !.status = "SUBMITTED", !.tsFrom = 2, !.total = 3]}
        \union {[NoBody EXCEPT !.emp = e, !.to = d] :
                   e \in TwoEmployees, d \in {0, 2}}
SomeStatuses == {"DRAFT", "APPROVED", "REJECTED"}
=============================================================================
