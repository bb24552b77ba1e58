------------------------------- MODULE Startup -------------------------------
(***************************************************************************)
(* Starting the backend (cmd/server/main.go, database.Open): each process  *)
(* connects with retries, migrates, seeds the tables one after another     *)
(* when they look empty, pings Redis and serves.  A process that fails     *)
(* exits and is started again (docker-compose.yml).  While somebody        *)
(* serves, rows are created and soft-deleted.                              *)
(***************************************************************************)
EXTENDS Naturals

CONSTANTS
    Processes,  \* instances of the backend on one database
    Last,       \* the number of tables Seed fills (5 in the code)
    Codes,      \* the unique codes of the demonstration rows of a table
    Attempts,   \* connection attempts of Open (20 in the code)
    Outages,    \* bound on the failures and stops of a behaviour
    Purgeable   \* the tables of which users delete even the last row

Tables == 1 .. Last

(* The first table is users: nothing creates or deletes a user after Seed. *)
Users == 1

ASSUME LastAssumption     == Last \in Nat \ {0}
ASSUME CodesAssumption    == Codes # {} /\ "own" \notin Codes
ASSUME AttemptsAssumption == Attempts \in Nat \ {0}
ASSUME OutagesAssumption  == Outages \in Nat
ASSUME PurgeAssumption    == Purgeable \subseteq Tables \ {Users}

VARIABLES
    schema,   \* the tables exist
    rows,     \* per table, each code: absent, live or deleted; "own": a user's row
    pc,       \* what each process does
    table,    \* the table Seed is at
    tries,    \* the connection attempt Open is at
    db,       \* the database answers
    cache,    \* Redis answers
    outages   \* failures and stops so far

vars == <<schema, rows, pc, table, tries, db, cache, outages>>

RowCodes == Codes \cup {"own"}

Init ==
    /\ schema  = FALSE
    /\ rows    = [t \in Tables |-> [c \in RowCodes |-> "absent"]]
    /\ pc      = [p \in Processes |-> "down"]
    /\ table   = [p \in Processes |-> 1]
    /\ tries   = [p \in Processes |-> 0]
    /\ db      = FALSE
    /\ cache   = FALSE
    /\ outages = 0

Goto(p, label) == pc' = [pc EXCEPT ![p] = label]

world == <<db, cache, outages>>

----------------------------------------------------------------------------
(* Connecting *)

Start(p) ==
    /\ pc[p] = "down"
    /\ Goto(p, "connecting")
    /\ table' = [table EXCEPT ![p] = 1]
    /\ tries' = [tries EXCEPT ![p] = 1]
    /\ UNCHANGED <<schema, rows, world>>

Connect(p) ==
    /\ pc[p] = "connecting" /\ db
    /\ Goto(p, "migrating")
    /\ UNCHANGED <<schema, rows, table, tries, world>>

(* Mutant: the loop runs once too often. *)
RetryOnceMore(p) ==
    /\ pc[p] = "connecting" /\ ~db /\ tries[p] <= Attempts
    /\ tries' = [tries EXCEPT ![p] = @ + 1]
    /\ UNCHANGED <<schema, rows, pc, table, world>>

Retry(p) ==
    /\ pc[p] = "connecting" /\ ~db /\ tries[p] < Attempts
    /\ tries' = [tries EXCEPT ![p] = @ + 1]
    /\ UNCHANGED <<schema, rows, pc, table, world>>

(* The last attempt failed, or STARTUP_TIMEOUT has passed. *)
GiveUp(p) ==
    /\ pc[p] = "connecting" /\ ~db
    /\ Goto(p, "down")
    /\ UNCHANGED <<schema, rows, table, tries, world>>

----------------------------------------------------------------------------
(* AutoMigrate looks for the tables, then creates those it did not find. *)

FindSchema(p) ==
    /\ pc[p] = "migrating" /\ db
    /\ Goto(p, IF schema THEN "counting" ELSE "creating")
    /\ UNCHANGED <<schema, rows, table, tries, world>>

CreateSchema(p) ==
    /\ pc[p] = "creating" /\ db
    /\ schema' = TRUE
    /\ Goto(p, IF schema THEN "down" ELSE "counting")
    /\ UNCHANGED <<rows, table, tries, world>>

----------------------------------------------------------------------------
(* Seed: COUNT sees neither absent nor soft-deleted rows. *)

Live(t) == {c \in RowCodes : rows[t][c] = "live"}

(* Mutant: a table that lacks some of the demonstration rows gets them. *)
LooksEmptyIncomplete(t) == Codes \ Live(t) # {}

LooksEmpty(t) == Live(t) = {}

(* Mutant: the last table is forgotten. *)
NextTableEarly(p) ==
    IF table[p] + 1 >= Last THEN Goto(p, "pinging") /\ UNCHANGED table
    ELSE Goto(p, "counting") /\ table' = [table EXCEPT ![p] = @ + 1]

NextTable(p) ==
    IF table[p] = Last THEN Goto(p, "pinging") /\ UNCHANGED table
    ELSE Goto(p, "counting") /\ table' = [table EXCEPT ![p] = @ + 1]

Skip(p) ==
    /\ pc[p] = "counting" /\ db /\ ~LooksEmpty(table[p])
    /\ NextTable(p)
    /\ UNCHANGED <<schema, rows, tries, world>>

CountZero(p) ==
    /\ pc[p] = "counting" /\ db /\ LooksEmpty(table[p])
    /\ Goto(p, "inserting")
    /\ UNCHANGED <<schema, rows, table, tries, world>>

(* Mutant: rows that exist are written over. *)
ConflictsNever(t) == FALSE

(* The unique index on code also covers soft-deleted rows. *)
Conflicts(t) == \E c \in Codes : rows[t][c] # "absent"

(* Mutant: a row at a time, each in a transaction of its own. *)
BatchesByRow == SUBSET Codes

(* What of the demonstration rows a commit makes visible: all of them. *)
Batches == {Codes}

Inserted(t) ==
    \E batch \in Batches :
        rows' = [rows EXCEPT ![t] = [c \in RowCodes |->
                                        IF c \in batch THEN "live" ELSE @[c]]]

Insert(p) ==
    /\ pc[p] = "inserting" /\ db /\ ~Conflicts(table[p])
    /\ Inserted(table[p])
    /\ NextTable(p)
    /\ UNCHANGED <<schema, tries, world>>

(* The acknowledgement of the commit is lost. *)
InsertUnseen(p) ==
    /\ pc[p] = "inserting" /\ db /\ ~Conflicts(table[p])
    /\ Inserted(table[p])
    /\ outages < Outages
    /\ outages' = outages + 1
    /\ Goto(p, "down")
    /\ UNCHANGED <<schema, table, tries, db, cache>>

InsertConflicts(p) ==
    /\ pc[p] = "inserting" /\ db /\ Conflicts(table[p])
    /\ Goto(p, "down")
    /\ UNCHANGED <<schema, rows, table, tries, world>>

(* A statement of AutoMigrate or Seed fails: nothing is retried. *)
DatabaseLost(p) ==
    /\ pc[p] \in {"migrating", "creating", "counting", "inserting"} /\ ~db
    /\ Goto(p, "down")
    /\ UNCHANGED <<schema, rows, table, tries, world>>

----------------------------------------------------------------------------
(* Redis, then serving *)

Serve(p) ==
    /\ pc[p] = "pinging" /\ cache
    /\ Goto(p, "serving")
    /\ UNCHANGED <<schema, rows, table, tries, world>>

PingFails(p) ==
    /\ pc[p] = "pinging" /\ ~cache
    /\ Goto(p, "down")
    /\ UNCHANGED <<schema, rows, table, tries, world>>

----------------------------------------------------------------------------
(* What happens around the processes *)

(* A crash, a signal, a failing listener, or STARTUP_TIMEOUT in Seed. *)
Stop(p) ==
    /\ pc[p] # "down" /\ outages < Outages
    /\ outages' = outages + 1
    /\ Goto(p, "down")
    /\ UNCHANGED <<schema, rows, table, tries, db, cache>>

Fail ==
    /\ outages < Outages
    /\ outages' = outages + 1
    /\ \/ db /\ db' = FALSE /\ UNCHANGED cache
       \/ cache /\ cache' = FALSE /\ UNCHANGED db
    /\ UNCHANGED <<schema, rows, pc, table, tries>>

Recover ==
    /\ \/ ~db /\ db' = TRUE /\ UNCHANGED cache
       \/ ~cache /\ cache' = TRUE /\ UNCHANGED db
    /\ UNCHANGED <<schema, rows, pc, table, tries, outages>>

(* Mutant: the listener is opened before the database is. *)
ReachableEarly == db /\ \E p \in Processes : pc[p] # "down"

Reachable == db /\ \E p \in Processes : pc[p] = "serving"

CreateOwn(t) ==
    /\ Reachable /\ rows[t]["own"] = "absent"
    /\ rows' = [rows EXCEPT ![t]["own"] = "live"]
    /\ UNCHANGED <<schema, pc, table, tries, world>>

Delete(t, c) ==
    /\ Reachable /\ rows[t][c] = "live"
    /\ t \in Purgeable \/ Live(t) # {c}
    /\ rows' = [rows EXCEPT ![t][c] = "deleted"]
    /\ UNCHANGED <<schema, pc, table, tries, world>>

----------------------------------------------------------------------------
Boot(p) ==
    \/ Start(p) \/ Connect(p) \/ Retry(p) \/ GiveUp(p)
    \/ FindSchema(p) \/ CreateSchema(p)
    \/ Skip(p) \/ CountZero(p) \/ Insert(p) \/ InsertConflicts(p) \/ DatabaseLost(p)
    \/ Serve(p) \/ PingFails(p)

Use == \E t \in Tables \ {Users} : CreateOwn(t) \/ \E c \in RowCodes : Delete(t, c)

(* Everyone serves and waits for requests. *)
Idle == (\A p \in Processes : pc[p] = "serving") /\ UNCHANGED vars

Next ==
    \/ \E p \in Processes : Boot(p) \/ InsertUnseen(p) \/ Stop(p)
    \/ Fail \/ Recover
    \/ Use
    \/ Idle

Spec == Init /\ [][Next]_vars

(* Processes run and are started again; the database and Redis come back. *)
FairSpec == Spec /\ (\A p \in Processes : WF_vars(Boot(p))) /\ WF_vars(Recover)

----------------------------------------------------------------------------
(* Rows and processes are in known states; Open tries Attempts times at most. *)
TypeOK ==
    /\ schema \in BOOLEAN
    /\ rows \in [Tables -> [RowCodes -> {"absent", "live", "deleted"}]]
    /\ pc \in [Processes -> {"down", "connecting", "migrating", "creating",
                             "counting", "inserting", "pinging", "serving"}]
    /\ table \in [Processes -> Tables]
    /\ tries \in [Processes -> 0 .. Attempts]
    /\ db \in BOOLEAN /\ cache \in BOOLEAN
    /\ outages \in 0 .. Outages

Present(t) == {c \in Codes : rows[t][c] # "absent"}

(***************************************************************************)
(* The demonstration rows of a table are all there or none is, wherever a  *)
(* process stops and however many start at once: a table half filled would *)
(* never be completed, because it no longer looks empty (seedPrintRun      *)
(* inserts rows and revisions in one transaction).                         *)
(***************************************************************************)
SeedWhole == \A t \in Tables : Present(t) \in {{}, Codes}

(***************************************************************************)
(* A process serves only when every table has been filled: neither its own *)
(* retries, nor a rival that fills a table between its COUNT and its       *)
(* INSERT, nor a user's row in a table let it get past an unfilled one     *)
(* (database.Seed, which returns the first error).                         *)
(***************************************************************************)
ServingMeansSeeded ==
    \A p \in Processes :
        pc[p] = "serving" => schema /\ \A t \in Tables : Present(t) = Codes

(***************************************************************************)
(* What a user has deleted is not brought back by a later start or by a    *)
(* process that counted before the deletion and inserts after it.          *)
(***************************************************************************)
DeletedStaysDeleted ==
    [][\A t \in Tables : \A c \in RowCodes :
          rows[t][c] = "deleted" => rows'[t][c] = "deleted"]_rows

(***************************************************************************)
(* Seen from the tables, all starts of all processes are one: each table is *)
(* filled once, in the order of Seed, and no user's row or deletion comes   *)
(* before the last is full (main serves only after Open has returned).      *)
(***************************************************************************)
Filling == INSTANCE SeededTables

FilledOnce == Filling!Spec

(***************************************************************************)
(* Whatever fails, each process is brought to serve again by being started *)
(* again (docker-compose.yml, restart: unless-stopped): no state of the    *)
(* database makes every start fail.                                        *)
(***************************************************************************)
ServesAgain == \A p \in Processes : []<>(pc[p] = "serving")
=============================================================================
