----------------------------- MODULE MCWorkPatterns ----------------------------
(* Small values for the constants of WorkPatterns. *)
EXTENDS WorkPatterns

CONSTANTS Work, Rest

TwoDays == {1, 2}
Types == {Work, Rest}
ColumnValues == {"40", "48", "ACTIVE", "INACTIVE"}

HeaderOf(hours, status) ==
    [c \in Columns |-> IF c = "hours" THEN hours ELSE status]

Body(fields, hasDays, d1, d2) ==
    [fields |-> fields, header |-> HeaderOf("48", "ACTIVE"), hasDays |-> hasDays,
     days |-> [d \in Week |-> IF d = 1 THEN d1 ELSE d2]]

NewPattern ==
    {[fields |-> Columns, header |-> HeaderOf("40", "ACTIVE"), hasDays |-> TRUE,
      days |-> [d \in Week |-> IF d = 1 THEN Work ELSE Rest]]}

\* The hours alone, the days alone, both with the status, and nothing.
SomeUpdates == {Body({"hours"}, FALSE, Work, Work), Body({}, TRUE, Rest, Rest),
                Body(Columns, TRUE, Rest, Work), Body({}, FALSE, Work, Work)}

\* Days with the hours.
OneUpdate == {Body({"hours"}, TRUE, Rest, Work)}
================================================================================
