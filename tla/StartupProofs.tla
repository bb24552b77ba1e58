---------------------------- MODULE StartupProofs ----------------------------
(***************************************************************************)
(* Theorems about Startup, for any number of processes, tables and rows.   *)
(***************************************************************************)
EXTENDS Startup, TLAPS

Seeded(t) == Present(t) = Codes

(* What the program counter of a process says of the tables it has passed. *)
Passed ==
    \A p \in Processes :
        /\ pc[p] \in {"connecting", "migrating", "creating"} => table[p] = 1
        /\ pc[p] \in {"counting", "inserting"} =>
              schema /\ \A t \in Tables : t < table[p] => Seeded(t)
        /\ pc[p] \in {"pinging", "serving"} =>
              schema /\ \A t \in Tables : Seeded(t)

(* A user's row is in a table that was filled before. *)
OwnAfterSeed == \A t \in Tables : rows[t]["own"] # "absent" => Seeded(t)

IInv == TypeOK /\ SeedWhole /\ Passed /\ OwnAfterSeed

----------------------------------------------------------------------------
(* The three ways in which the rows change. *)
Fill(t) ==
    /\ ~Conflicts(t)
    /\ rows' = [rows EXCEPT ![t] = [c \in RowCodes |->
                                       IF c \in Codes THEN "live" ELSE @[c]]]

Put(t) == Reachable /\ rows[t]["own"] = "absent"
                    /\ rows' = [rows EXCEPT ![t]["own"] = "live"]

Drop(t, c) == rows[t][c] = "live" /\ rows' = [rows EXCEPT ![t][c] = "deleted"]

(* Rows change by a batch of Seed, by a user's row, or by a deletion. *)
LEMMA WhoWrites ==
  ASSUME TypeOK, [Next]_vars
  PROVE  \/ UNCHANGED rows
         \/ \E t \in Tables : Fill(t)
         \/ \E t \in Tables : Put(t)
         \/ \E t \in Tables, c \in RowCodes : Drop(t, c)
<1>1. CASE UNCHANGED vars
  BY <1>1 DEF vars
<1>2. ASSUME NEW p \in Processes, Insert(p) \/ InsertUnseen(p)
      PROVE  \E t \in Tables : Fill(t)
  <2>1. table[p] \in Tables
    BY DEF TypeOK
  <2>2. Fill(table[p])
    BY <1>2 DEF Insert, InsertUnseen, Inserted, Batches, Fill
  <2> QED
    BY <2>1, <2>2
<1>3. ASSUME NEW p \in Processes, Boot(p) \/ Stop(p), ~Insert(p)
      PROVE  UNCHANGED rows
  BY <1>3 DEF Boot, Stop, Start, Connect, Retry, GiveUp, FindSchema, CreateSchema,
       Skip, CountZero, InsertConflicts, DatabaseLost, Serve, PingFails
<1>4. CASE Fail \/ Recover \/ Idle
  BY <1>4 DEF Fail, Recover, Idle, vars
<1>5. ASSUME NEW t \in Tables \ {Users}, CreateOwn(t)
      PROVE  Put(t)
  BY <1>5 DEF CreateOwn, Put
<1>6. ASSUME NEW t \in Tables \ {Users}, NEW c \in RowCodes, Delete(t, c)
      PROVE  Drop(t, c)
  BY <1>6 DEF Delete, Drop
<1> QED
  BY <1>1, <1>2, <1>3, <1>4, <1>5, <1>6 DEF Next, Use

(* What each of the three leaves of a table. *)
LEMMA RowsAfter ==
  ASSUME TypeOK, [Next]_vars, NEW t \in Tables
  PROVE  /\ rows' \in [Tables -> [RowCodes -> {"absent", "live", "deleted"}]]
         /\ Seeded(t) => Seeded(t)'
         /\ SeedWhole => Present(t)' \in {{}, Codes}
         /\ \A c \in RowCodes : rows[t][c] = "deleted" => rows'[t][c] = "deleted"
<1> USE CodesAssumption
<1>1. rows \in [Tables -> [RowCodes -> {"absent", "live", "deleted"}]]
  BY DEF TypeOK
<1>2. CASE UNCHANGED rows
  BY <1>1, <1>2 DEF Seeded, Present, SeedWhole
<1>3. ASSUME NEW q \in Tables, Fill(q)
      PROVE  /\ rows' \in [Tables -> [RowCodes -> {"absent", "live", "deleted"}]]
             /\ \A c \in RowCodes : rows[t][c] = "deleted" => rows'[t][c] = "deleted"
             /\ IF t = q THEN \A c \in Codes : rows'[t][c] = "live"
                ELSE rows'[t] = rows[t]
  BY <1>1, <1>3 DEF Fill, RowCodes, Conflicts
<1>4. ASSUME NEW q \in Tables, Put(q)
      PROVE  /\ rows' \in [Tables -> [RowCodes -> {"absent", "live", "deleted"}]]
             /\ \A c \in RowCodes : rows[t][c] = "deleted" => rows'[t][c] = "deleted"
             /\ \A c \in Codes : rows'[t][c] = rows[t][c]
  BY <1>1, <1>4 DEF Put, RowCodes
<1>5. ASSUME NEW q \in Tables, NEW d \in RowCodes, Drop(q, d)
      PROVE  /\ rows' \in [Tables -> [RowCodes -> {"absent", "live", "deleted"}]]
             /\ \A c \in RowCodes : rows[t][c] = "deleted" => rows'[t][c] = "deleted"
             /\ \A c \in RowCodes : rows'[t][c] # "absent" <=> rows[t][c] # "absent"
  BY <1>1, <1>5 DEF Drop
<1>6. ASSUME \A c \in Codes : rows'[t][c] # "absent" <=> rows[t][c] # "absent"
      PROVE  Present(t)' = Present(t)
  BY <1>6 DEF Present
<1>7. ASSUME \A c \in Codes : rows'[t][c] = "live"
      PROVE  Present(t)' = Codes
  BY <1>7 DEF Present
<1>8. \/ Present(t)' = Present(t)
      \/ Present(t)' = Codes
  BY <1>2, <1>3, <1>4, <1>5, <1>6, <1>7, WhoWrites DEF RowCodes
<1>9. /\ rows' \in [Tables -> [RowCodes -> {"absent", "live", "deleted"}]]
      /\ \A c \in RowCodes : rows[t][c] = "deleted" => rows'[t][c] = "deleted"
  BY <1>1, <1>2, <1>3, <1>4, <1>5, WhoWrites
<1> QED
  BY <1>8, <1>9 DEF Seeded, SeedWhole

----------------------------------------------------------------------------
(* Type correctness *)

LEMMA TypeInit == Init => TypeOK
<1> SUFFICES ASSUME Init
             PROVE  TypeOK
  OBVIOUS
<1> USE LastAssumption, AttemptsAssumption, OutagesAssumption DEF Init
<1>1. rows \in [Tables -> [RowCodes -> {"absent", "live", "deleted"}]]
  OBVIOUS
<1>2. 1 \in Tables /\ 0 \in 0 .. Attempts /\ 0 \in 0 .. Outages
  BY DEF Tables
<1>3. table \in [Processes -> Tables] /\ tries \in [Processes -> 0 .. Attempts]
  BY <1>2
<1> QED
  BY <1>1, <1>2, <1>3 DEF TypeOK

LEMMA TypeNext == TypeOK /\ [Next]_vars => TypeOK'
<1> SUFFICES ASSUME TypeOK, [Next]_vars
             PROVE  TypeOK'
  OBVIOUS
<1> USE LastAssumption, AttemptsAssumption, OutagesAssumption
<1> DEFINE Rest ==
      /\ schema \in BOOLEAN
      /\ pc \in [Processes -> {"down", "connecting", "migrating", "creating",
                               "counting", "inserting", "pinging", "serving"}]
      /\ table \in [Processes -> Tables]
      /\ tries \in [Processes -> 0 .. Attempts]
      /\ db \in BOOLEAN /\ cache \in BOOLEAN
      /\ outages \in 0 .. Outages
<1>1. Rest
  BY DEF TypeOK
<1>2. rows' \in [Tables -> [RowCodes -> {"absent", "live", "deleted"}]]
  BY RowsAfter, LastAssumption DEF Tables
<1>3. Rest'
  <2>1. ASSUME NEW p \in Processes, NextTable(p)
        PROVE  /\ pc' \in [Processes -> {"down", "connecting", "migrating", "creating",
                               "counting", "inserting", "pinging", "serving"}]
               /\ table' \in [Processes -> Tables]
    BY <1>1, <2>1 DEF NextTable, Goto, Tables
  <2>2. ASSUME NEW p \in Processes, Start(p) \/ Connect(p) \/ Retry(p) \/ GiveUp(p)
        PROVE  Rest'
    BY <1>1, <2>2 DEF Start, Connect, Retry, GiveUp, Goto, world, Tables
  <2>3. ASSUME NEW p \in Processes, FindSchema(p) \/ CreateSchema(p)
        PROVE  Rest'
    BY <1>1, <2>3 DEF FindSchema, CreateSchema, Goto, world
  <2>4. ASSUME NEW p \in Processes, Skip(p) \/ Insert(p)
        PROVE  Rest'
    BY <1>1, <2>1, <2>4 DEF Skip, Insert, world
  <2>5. ASSUME NEW p \in Processes,
               CountZero(p) \/ InsertConflicts(p) \/ DatabaseLost(p)
                 \/ Serve(p) \/ PingFails(p)
        PROVE  Rest'
    BY <1>1, <2>5 DEF CountZero, InsertConflicts, DatabaseLost, Serve, PingFails,
         Goto, world
  <2>6. ASSUME NEW p \in Processes, InsertUnseen(p) \/ Stop(p)
        PROVE  Rest'
    BY <1>1, <2>6 DEF InsertUnseen, Stop, Goto
  <2>7. CASE Fail \/ Recover
    <3>1. db' \in BOOLEAN /\ cache' \in BOOLEAN
      BY <1>1, <2>7 DEF Fail, Recover
    <3>2. outages' \in 0 .. Outages
      BY <1>1, <2>7 DEF Fail, Recover
    <3> QED
      BY <1>1, <2>7, <3>1, <3>2 DEF Fail, Recover
  <2>8. CASE Use \/ Idle \/ UNCHANGED vars
    BY <1>1, <2>8 DEF Use, CreateOwn, Delete, Idle, world, vars
  <2> QED
    BY <2>2, <2>3, <2>4, <2>5, <2>6, <2>7, <2>8 DEF Next, Boot
<1> QED
  BY <1>2, <1>3 DEF TypeOK

(* Rows, processes and attempts stay in their ranges (database.Open). *)
THEOREM TypeCorrect == Spec => []TypeOK
<1>1. Init => TypeOK
  BY TypeInit
<1>2. TypeOK /\ [Next]_vars => TypeOK'
  BY TypeNext
<1> QED
  BY <1>1, <1>2, PTL DEF Spec

----------------------------------------------------------------------------
(* The inductive invariant *)

LEMMA InvInit == Init => IInv
<1> SUFFICES ASSUME Init
             PROVE  IInv
  OBVIOUS
<1>1. TypeOK
  BY TypeInit
<1>2. SeedWhole
  <2> SUFFICES ASSUME NEW t \in Tables
               PROVE  Present(t) = {}
    BY DEF SeedWhole
  <2> QED
    BY DEF Init, Present, RowCodes
<1>3. Passed /\ OwnAfterSeed
  BY DEF Init, Passed, OwnAfterSeed, RowCodes
<1> QED
  BY <1>1, <1>2, <1>3 DEF IInv

(***************************************************************************)
(* A process that goes on to the next table leaves a filled one: it found  *)
(* a live row, and then all of Seed's, or it has inserted them.            *)
(***************************************************************************)
LEMMA StepFills ==
  ASSUME IInv, [Next]_vars, NEW p \in Processes, Skip(p) \/ Insert(p),
         NEW t \in Tables, t = table[p]
  PROVE  Seeded(t)'
<1>1. rows \in [Tables -> [RowCodes -> {"absent", "live", "deleted"}]]
  BY DEF IInv, TypeOK
<1>2. CASE Skip(p)
  <2>1. PICK c \in RowCodes : rows[t][c] = "live"
    BY <1>2 DEF Skip, LooksEmpty, Live
  <2>2. ASSUME c = "own"
        PROVE  Seeded(t)
    BY <2>1, <2>2 DEF IInv, OwnAfterSeed
  <2>3. ASSUME c \in Codes
        PROVE  Seeded(t)
    <3>1. c \in Present(t)
      BY <2>1, <2>3 DEF Present
    <3> QED
      BY <3>1 DEF IInv, SeedWhole, Seeded
  <2>4. Seeded(t)
    BY <2>1, <2>2, <2>3 DEF RowCodes
  <2> QED
    BY <2>4, RowsAfter DEF IInv
<1>3. CASE Insert(p)
  <2>1. \A c \in Codes : rows'[t][c] = "live"
    BY <1>1, <1>3 DEF Insert, Inserted, Batches, RowCodes
  <2> QED
    BY <2>1 DEF Seeded, Present
<1> QED
  BY <1>2, <1>3

(* A step is a step of p, or leaves p where it is. *)
LEMMA OneActs ==
  ASSUME TypeOK, [Next]_vars, NEW p \in Processes
  PROVE  \/ pc'[p] = pc[p] /\ table'[p] = table[p]
         \/ Boot(p) \/ InsertUnseen(p) \/ Stop(p)
<1>1. /\ pc \in [Processes -> {"down", "connecting", "migrating", "creating",
                               "counting", "inserting", "pinging", "serving"}]
      /\ table \in [Processes -> Tables]
  BY DEF TypeOK
<1>2. ASSUME NEW q \in Processes, q # p, Boot(q) \/ InsertUnseen(q) \/ Stop(q)
      PROVE  pc'[p] = pc[p] /\ table'[p] = table[p]
  BY <1>1, <1>2 DEF Boot, Start, Connect, Retry, GiveUp, FindSchema, CreateSchema, Skip,
     CountZero, Insert, InsertConflicts, DatabaseLost, Serve, PingFails, InsertUnseen,
     Stop, NextTable, Goto
<1>3. CASE Fail \/ Recover \/ Use \/ Idle \/ UNCHANGED vars
  BY <1>3 DEF Fail, Recover, Use, CreateOwn, Delete, Idle, vars
<1> QED
  BY <1>2, <1>3 DEF Next

LEMMA PassedNext ==
  ASSUME IInv, [Next]_vars
  PROVE  Passed'
<1> SUFFICES ASSUME NEW p \in Processes
             PROVE  (/\ pc[p] \in {"connecting", "migrating", "creating"} => table[p] = 1
                     /\ pc[p] \in {"counting", "inserting"} =>
                           schema /\ \A t \in Tables : t < table[p] => Seeded(t)
                     /\ pc[p] \in {"pinging", "serving"} =>
                           schema /\ \A t \in Tables : Seeded(t))'
  BY DEF Passed
<1>1. /\ pc \in [Processes -> {"down", "connecting", "migrating", "creating",
                               "counting", "inserting", "pinging", "serving"}]
      /\ table \in [Processes -> Tables]
  BY DEF IInv, TypeOK
<1>2. \A t \in Tables : Seeded(t) => Seeded(t)'
  BY RowsAfter DEF IInv
<1>3. schema => schema'
  BY DEF Next, Boot, Start, Connect, Retry, GiveUp, FindSchema, CreateSchema, Skip,
     CountZero, Insert, InsertConflicts, DatabaseLost, Serve, PingFails,
     InsertUnseen, Stop, Fail, Recover, Use, CreateOwn, Delete, Idle, vars
<1>4. /\ pc[p] \in {"connecting", "migrating", "creating"} => table[p] = 1
      /\ pc[p] \in {"counting", "inserting"} =>
            schema /\ \A t \in Tables : t < table[p] => Seeded(t)
      /\ pc[p] \in {"pinging", "serving"} =>
            schema /\ \A t \in Tables : Seeded(t)
  BY DEF IInv, Passed
<1>5. CASE pc'[p] = "down"
  BY <1>5
<1>6. CASE pc'[p] = pc[p] /\ table'[p] = table[p]
  BY <1>2, <1>3, <1>4, <1>6
<1>7. CASE GiveUp(p) \/ InsertConflicts(p) \/ DatabaseLost(p) \/ PingFails(p)
             \/ InsertUnseen(p) \/ Stop(p)
  BY <1>1, <1>5, <1>7 DEF GiveUp, InsertConflicts, DatabaseLost, PingFails,
     InsertUnseen, Stop, Goto
<1>8. CASE Start(p) \/ Connect(p) \/ FindSchema(p) \/ CreateSchema(p)
  <2>1. pc'[p] \in {"down", "connecting", "migrating", "creating", "counting"}
    BY <1>1, <1>8 DEF Start, Connect, FindSchema, CreateSchema, Goto
  <2>2. pc'[p] = "counting" => schema'
    BY <1>1, <1>8 DEF Start, Connect, FindSchema, CreateSchema, Goto
  <2>3. table'[p] = 1
    BY <1>1, <1>4, <1>8 DEF Start, Connect, FindSchema, CreateSchema
  <2> QED
    BY <2>1, <2>2, <2>3, LastAssumption DEF Tables
<1>9. CASE Skip(p) \/ Insert(p)
  <2>1. schema' /\ \A t \in Tables : t < table[p] => Seeded(t)'
    BY <1>2, <1>3, <1>4, <1>9 DEF Skip, Insert
  <2>2. table[p] \in Tables
    BY <1>1
  <2>3. \A t \in Tables : t = table[p] => Seeded(t)'
    BY <1>9, StepFills
  <2>4. CASE table[p] = Last /\ pc'[p] = "pinging"
    BY <2>1, <2>3, <2>4, LastAssumption DEF Tables
  <2>5. CASE table'[p] = table[p] + 1 /\ pc'[p] = "counting"
    <3>1. \A t \in Tables : t < table'[p] => t < table[p] \/ t = table[p]
      BY <2>2, <2>5, LastAssumption DEF Tables
    <3> QED
      BY <2>1, <2>3, <2>5, <3>1
  <2> QED
    BY <1>1, <1>9, <2>4, <2>5 DEF Skip, Insert, NextTable, Goto
<1>10. CASE Retry(p) \/ CountZero(p) \/ Serve(p)
  <2>1. /\ table'[p] = table[p] /\ schema' = schema
        /\ \/ pc'[p] = pc[p]
           \/ pc[p] = "counting" /\ pc'[p] = "inserting"
           \/ pc[p] = "pinging" /\ pc'[p] = "serving"
    BY <1>1, <1>10 DEF Retry, CountZero, Serve, Goto
  <2> QED
    BY <1>2, <1>4, <2>1
<1> QED
  BY <1>1, <1>6, <1>7, <1>8, <1>9, <1>10, OneActs DEF Boot, IInv

LEMMA OwnNext ==
  ASSUME IInv, [Next]_vars
  PROVE  OwnAfterSeed'
<1> SUFFICES ASSUME NEW t \in Tables, rows'[t]["own"] # "absent"
             PROVE  Seeded(t)'
  BY DEF OwnAfterSeed
<1> USE CodesAssumption
<1>1. rows \in [Tables -> [RowCodes -> {"absent", "live", "deleted"}]]
  BY DEF IInv, TypeOK
<1>2. Seeded(t) => Seeded(t)'
  BY RowsAfter DEF IInv
<1>3. CASE rows[t]["own"] # "absent"
  BY <1>2, <1>3 DEF IInv, OwnAfterSeed
<1>4. CASE rows[t]["own"] = "absent"
  <2>1. CASE UNCHANGED rows
    BY <1>4, <2>1
  <2>2. ASSUME NEW q \in Tables, Fill(q)
        PROVE  FALSE
    BY <1>1, <1>4, <2>2 DEF Fill, RowCodes
  <2>3. ASSUME NEW q \in Tables, Put(q)
        PROVE  Seeded(t)
    BY <1>1, <2>3 DEF Put, Reachable, IInv, Passed
  <2>4. ASSUME NEW q \in Tables, NEW c \in RowCodes, Drop(q, c)
        PROVE  FALSE
    BY <1>1, <1>4, <2>4 DEF Drop, RowCodes
  <2> QED
    BY <1>2, <2>1, <2>2, <2>3, <2>4, WhoWrites DEF IInv
<1> QED
  BY <1>3, <1>4

LEMMA InvNext == IInv /\ [Next]_vars => IInv'
<1> SUFFICES ASSUME IInv, [Next]_vars
             PROVE  IInv'
  OBVIOUS
<1>1. TypeOK'
  BY TypeNext DEF IInv
<1>2. SeedWhole'
  <2> SUFFICES ASSUME NEW t \in Tables
               PROVE  Present(t)' \in {{}, Codes}
    BY DEF SeedWhole
  <2> QED
    BY RowsAfter DEF IInv
<1> QED
  BY <1>1, <1>2, PassedNext, OwnNext DEF IInv

LEMMA Inductive == Spec => []IInv
BY InvInit, InvNext, PTL DEF Spec

----------------------------------------------------------------------------
(* The theorems *)

(***************************************************************************)
(* The demonstration rows of a table are all there or none is, for any     *)
(* number of processes that start, stop and race (database.Seed).          *)
(***************************************************************************)
THEOREM TablesAreFilledWhole == Spec => []SeedWhole
<1>1. IInv => SeedWhole
  BY DEF IInv
<1> QED
  BY <1>1, Inductive, PTL

(***************************************************************************)
(* A process that serves has every table behind it filled, also when a     *)
(* rival filled it or users have added and deleted rows (database.Open).   *)
(***************************************************************************)
THEOREM NobodyServesTooEarly == Spec => []ServingMeansSeeded
<1>1. IInv => ServingMeansSeeded
  BY DEF IInv, Passed, Seeded, ServingMeansSeeded
<1> QED
  BY <1>1, Inductive, PTL

(***************************************************************************)
(* No later start brings a deleted row back, also in tables of which users *)
(* delete everything (the unique index stops Seed).                        *)
(***************************************************************************)
THEOREM DeletionIsFinal == Spec => DeletedStaysDeleted
<1>1. IInv /\ [Next]_vars =>
         [\A t \in Tables : \A c \in RowCodes :
             rows[t][c] = "deleted" => rows'[t][c] = "deleted"]_rows
  <2> SUFFICES ASSUME IInv, [Next]_vars, NEW t \in Tables, NEW c \in RowCodes,
                      rows[t][c] = "deleted"
               PROVE  rows'[t][c] = "deleted"
    OBVIOUS
  <2> QED
    BY RowsAfter DEF IInv
<1> QED
  BY <1>1, Inductive, PTL DEF Spec, DeletedStaysDeleted
----------------------------------------------------------------------------
(* Refinement: the tables are filled once, as by one process *)

LEMMA SeededIsFull == \A t \in Tables : Seeded(t) <=> Filling!Full(t)
BY DEF Seeded, Present, Filling!Full

(* What a serving process has passed is open to the users. *)
LEMMA ServedIsOpen ==
  ASSUME IInv, Reachable
  PROVE  Filling!Open
<1>1. \A t \in Tables : Seeded(t)
  BY DEF Reachable, IInv, Passed
<1> QED
  BY <1>1, SeededIsFull DEF Filling!Open, Tables

(* Who inserts finds the table untouched: had a user put a row there, it    *)
(* would have been filled, and the unique index would stop the insertion.   *)
LEMMA InsertFills ==
  ASSUME IInv, NEW p \in Processes, Insert(p) \/ InsertUnseen(p)
  PROVE  Filling!Next
<1> USE CodesAssumption
<1>1. /\ rows \in [Tables -> [RowCodes -> {"absent", "live", "deleted"}]]
      /\ table[p] \in Tables
  BY DEF IInv, TypeOK
<1>2. PICK t \in Tables : t = table[p]
  BY <1>1
<1>3. /\ \A c \in Codes : rows[t][c] = "absent"
      /\ rows' = [rows EXCEPT ![t] = [c \in RowCodes |->
                                         IF c \in Codes THEN "live" ELSE @[c]]]
  BY <1>2 DEF Insert, InsertUnseen, Conflicts, Inserted, Batches
<1>4. rows[t]["own"] = "absent"
  <2>1. PICK c \in Codes : c \notin Present(t)
    BY <1>3 DEF Present
  <2>2. ~Seeded(t)
    BY <2>1 DEF Seeded
  <2> QED
    BY <2>2 DEF IInv, OwnAfterSeed
<1>5. \A earlier \in 1 .. t - 1 : Filling!Full(earlier)
  <2>1. pc[p] = "inserting"
    BY DEF Insert, InsertUnseen
  <2>2. \A earlier \in Tables : earlier < t => Seeded(earlier)
    BY <1>2, <2>1 DEF IInv, Passed
  <2>3. \A earlier \in 1 .. t - 1 : earlier \in Tables /\ earlier < t
    BY LastAssumption DEF Tables
  <2> QED
    BY <2>2, <2>3, SeededIsFull
<1>6. [c \in RowCodes |-> IF c \in Codes THEN "live" ELSE rows[t][c]]
         = [c \in RowCodes |-> IF c \in Codes THEN "live" ELSE "absent"]
  BY <1>4 DEF RowCodes
<1>7. Filling!RowCodes = RowCodes
  BY DEF RowCodes, Filling!RowCodes
<1>8. Filling!Fill(t)
  <2>1. \A c \in RowCodes : rows[t][c] = "absent"
    BY <1>3, <1>4 DEF RowCodes
  <2>2. rows' = [rows EXCEPT ![t] = [c \in RowCodes |->
                                       IF c \in Codes THEN "live" ELSE "absent"]]
    BY <1>3, <1>6
  <2> QED
    BY <1>5, <1>7, <2>1, <2>2 DEF Filling!Fill
<1> QED
  BY <1>8 DEF Filling!Next, Tables

LEMMA StepFilling ==
  ASSUME IInv, [Next]_vars
  PROVE  [Filling!Next]_rows
<1>1. \A t \in Tables \ {Users} : t \in 2 .. Last
  BY LastAssumption DEF Tables, Users
<1>2. Filling!RowCodes = RowCodes
  BY DEF RowCodes, Filling!RowCodes
<1>3. ASSUME NEW p \in Processes, Insert(p) \/ InsertUnseen(p)
      PROVE  Filling!Next
  BY <1>3, InsertFills
<1>4. ASSUME NEW p \in Processes, Boot(p) \/ Stop(p), ~Insert(p)
      PROVE  UNCHANGED rows
  BY <1>4 DEF Boot, Stop, Start, Connect, Retry, GiveUp, FindSchema, CreateSchema,
     Skip, CountZero, InsertConflicts, DatabaseLost, Serve, PingFails
<1>5. CASE Fail \/ Recover \/ Idle \/ UNCHANGED vars
  BY <1>5 DEF Fail, Recover, Idle, vars
<1>6. ASSUME NEW t \in Tables \ {Users}, CreateOwn(t)
      PROVE  Filling!Next
  <2>1. Filling!Add(t)
    BY <1>6, ServedIsOpen DEF CreateOwn, Filling!Add
  <2> QED
    BY <1>1, <2>1 DEF Filling!Next
<1>7. ASSUME NEW t \in Tables \ {Users}, NEW c \in RowCodes, Delete(t, c)
      PROVE  Filling!Next
  <2>1. t \in Purgeable \/ \E d \in RowCodes \ {c} : rows[t][d] = "live"
    BY <1>7 DEF Delete, Live
  <2>2. Filling!Remove(t, c)
    BY <1>2, <1>7, <2>1, ServedIsOpen DEF Delete, Filling!Remove
  <2> QED
    BY <1>1, <1>2, <2>2 DEF Filling!Next
<1> QED
  BY <1>3, <1>4, <1>5, <1>6, <1>7 DEF Next, Use

(***************************************************************************)
(* All starts of any number of processes, with their races, failures and    *)
(* restarts, are to the tables one start: each is filled once and in order, *)
(* and users come after that (database.Open, Seed, main).                   *)
(***************************************************************************)
THEOREM StartsAreOne == Spec => FilledOnce
<1>1. Init => Filling!Init
  BY DEF Init, Filling!Init, Tables, RowCodes, Filling!RowCodes
<1>2. IInv /\ [Next]_vars => [Filling!Next]_rows
  BY StepFilling
<1> QED
  BY <1>1, <1>2, Inductive, PTL DEF Spec, FilledOnce, Filling!Spec
=============================================================================
