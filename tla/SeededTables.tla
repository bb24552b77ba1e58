---------------------------- MODULE SeededTables ----------------------------
(***************************************************************************)
(* What the start of the backend promises its users: each table is filled   *)
(* with its demonstration rows once, in one stroke and in order, and when   *)
(* all are filled the users have them to themselves.  There are no          *)
(* processes, retries, counts or outages here; Startup implements this with *)
(* any number of processes that start, race, fail and start again.          *)
(***************************************************************************)
EXTENDS Naturals

CONSTANTS
    Last,       \* the number of tables
    Codes,      \* the codes of the demonstration rows of a table
    Purgeable   \* the tables of which users delete even the last row

VARIABLE rows   \* per table, each code, and "own": absent, live or deleted

RowCodes  == Codes \cup {"own"}
Full(t)   == \A c \in Codes : rows[t][c] # "absent"
Open      == \A t \in 1 .. Last : Full(t)

Init == rows = [t \in 1 .. Last |-> [c \in RowCodes |-> "absent"]]

(* An untouched table is filled when those before it are. *)
Fill(t) ==
    /\ \A c \in RowCodes : rows[t][c] = "absent"
    /\ \A earlier \in 1 .. t - 1 : Full(earlier)
    /\ rows' = [rows EXCEPT ![t] = [c \in RowCodes |->
                                       IF c \in Codes THEN "live" ELSE "absent"]]

Add(t) ==
    /\ Open /\ rows[t]["own"] = "absent"
    /\ rows' = [rows EXCEPT ![t]["own"] = "live"]

Remove(t, c) ==
    /\ Open /\ rows[t][c] = "live"
    /\ t \in Purgeable \/ \E d \in RowCodes \ {c} : rows[t][d] = "live"
    /\ rows' = [rows EXCEPT ![t][c] = "deleted"]

Next ==
    \/ \E t \in 1 .. Last : Fill(t)
    \/ \E t \in 2 .. Last : Add(t) \/ \E c \in RowCodes : Remove(t, c)

Spec == Init /\ [][Next]_rows
=============================================================================
