------------------------------ MODULE PatternRows ------------------------------
(***************************************************************************)
(* Work patterns as rows: one header row (TM.TM_WORK_PATTERNS) and a row   *)
(* per day of the week (TM.TM_WORK_PATTERN_DAYS), and what each request    *)
(* makes of them.                                                          *)
(***************************************************************************)
EXTENDS Integers

CONSTANTS
    Patterns,   \* WORK_PATTERN_IDs
    NoPattern,
    Week,       \* DAY_OF_WEEK, 1..7
    DayTypes,   \* WORK, REST, OFF
    Values,     \* of the header's columns
    NoRow,
    Creations,  \* the bodies clients create patterns with
    Updates     \* the bodies they update them with

Columns == {"hours", "status"}

Header == 0
Rows == {Header} \cup Week

HeaderRows == [Columns -> Values]
Versions == HeaderRows \cup DayTypes \cup {NoRow}

\* All rows of a pattern; Absent when it does not exist.
Contents == [Rows -> Versions]
Absent == [r \in Rows |-> NoRow]
Exists(c) == c[Header] # NoRow

\* A validated request body: the header columns and the days it gives.
Bodies == [fields : SUBSET Columns, header : HeaderRows,
           hasDays : BOOLEAN, days : [Week -> DayTypes]]

NoBody == NoRow

ASSUME PatternAssumption == Patterns \subseteq Nat \ {0} /\ NoPattern \notin Patterns
ASSUME WeekAssumption == Week \subseteq 1..7
ASSUME RowAssumption ==
    /\ NoRow \notin HeaderRows \cup DayTypes
    /\ HeaderRows \cap DayTypes = {}
    /\ NoBody \notin Bodies
    /\ "INACTIVE" \in Values
ASSUME BodyAssumption ==
    /\ Creations \subseteq Bodies
    /\ Updates \subseteq Bodies
--------------------------------------------------------------------------------
Patched(h, b) == [c \in Columns |-> IF c \in b.fields THEN b.header[c] ELSE h[c]]

Created(b) == [r \in Rows |-> IF r = Header THEN b.header ELSE b.days[r]]

Updated(c, b) ==
    [r \in Rows |-> IF r = Header THEN Patched(c[r], b)
                    ELSE IF b.hasDays THEN b.days[r] ELSE c[r]]

\* Fault: a status the API does not know.
InactiveMisspelt(h) == [h EXCEPT !["status"] = "DELETED"]

Inactive(h) == [h EXCEPT !["status"] = "INACTIVE"]

Deactivated(c) == [c EXCEPT ![Header] = Inactive(@)]

\* The header of one read and the days of another.
Joined(c, d) == [r \in Rows |-> IF r = Header THEN c[r] ELSE d[r]]

\* Every day of the week has its row, or nothing is left of the pattern.
WholeDays(c) == \A d \in Week : c[d] \in DayTypes
NoDays(c) == \A d \in Week : c[d] = NoRow
Whole(c) ==
    \/ c[Header] \in HeaderRows /\ WholeDays(c)
    \/ c = Absent
================================================================================
