---------------------------- MODULE RecordReaders ----------------------------
(***************************************************************************)
(* The requests that read one record while RecordService writes it: the     *)
(* record with its revisions (GET /:id, two statements) and the summary of  *)
(* the audit log (GET /audit-summary, five statements).  No transaction     *)
(* holds the statements of one answer together: writers act between them.   *)
(***************************************************************************)
EXTENDS RecordService, FiniteSets, Functions

CONSTANT Readers    \* the identities of the reading requests

VARIABLES
    at,         \* the statement each reader runs next, in the end its answer
    acked,      \* what had been answered with success when it began
    view,       \* the record it has read
    summary     \* the numbers it has read

readerVars == <<at, acked, view, summary>>
allVars    == <<vars, readerVars>>

NoView    == [row |-> NoRow, revisions |-> {}]
NoSummary == [total |-> 0, transitions |-> 0, uniqueActors |-> 0,
              actions |-> [op \in Ops |-> 0], entityTypes |-> 0]

InitReaders ==
    /\ Init
    /\ at      = [x \in Readers |-> "new"]
    /\ acked   = [x \in Readers |-> {}]
    /\ view    = [x \in Readers |-> NoView]
    /\ summary = [x \in Readers |-> NoSummary]

(* Reader x runs the statement "from" and goes on to "to". *)
Step(x, from, to) ==
    /\ at[x] = from
    /\ at' = [at EXCEPT ![x] = to]
    /\ acked' = IF from = "new"
                THEN [acked EXCEPT ![x] = {r \in Requests : pc[r] = "ok"}]
                ELSE acked
    /\ UNCHANGED vars

----------------------------------------------------------------------------
(* GET /:id *)

(* Mutant: the query is not scoped to rows that are not soft-deleted. *)
VisibleUnscoped == row.state # "none"

Visible == row.state = "live"

(* First: the row.  Of a resource without revisions it is the whole answer. *)
GetRow(x) ==
    /\ Step(x, "new", IF Policy.versioned THEN "preload" ELSE "shown")
    /\ Visible
    /\ view' = [view EXCEPT ![x].row = row]
    /\ UNCHANGED summary

GetMissing(x) ==
    /\ Step(x, "new", "not_found")
    /\ ~Visible
    /\ UNCHANGED <<view, summary>>

(* Preload: the revisions, by a statement of their own. *)
Preload(x) ==
    /\ Step(x, "preload", "shown")
    /\ view' = [view EXCEPT ![x].revisions = revisions]
    /\ UNCHANGED summary

----------------------------------------------------------------------------
(***************************************************************************)
(* GET /audit-summary.  "since" is fixed before the first statement, so the *)
(* rows appended meanwhile are in the window of every statement.            *)
(***************************************************************************)
Actions == [op \in Ops |-> Cardinality({a \in audits : a.action = op})]

(* Mutant: the condition on the action is left out. *)
TransitionsOfAnyAction == Cardinality(audits)

Transitions == Actions["transition"]

(* The actor of an audit row is the user, here the role, of its request. *)
UniqueActors == Cardinality({work[a.request].role : a \in audits})

CountTotal(x) ==
    /\ Step(x, "new", "transitions")
    /\ summary' = [summary EXCEPT ![x].total = Cardinality(audits)]
    /\ UNCHANGED view

CountTransitions(x) ==
    /\ Step(x, "transitions", "actors")
    /\ summary' = [summary EXCEPT ![x].transitions = Transitions]
    /\ UNCHANGED view

CountActors(x) ==
    /\ Step(x, "actors", "actions")
    /\ summary' = [summary EXCEPT ![x].uniqueActors = UniqueActors]
    /\ UNCHANGED view

GroupActions(x) ==
    /\ Step(x, "actions", "types")
    /\ summary' = [summary EXCEPT ![x].actions = Actions]
    /\ UNCHANGED view

(* All rows of the model are about one record, hence of one type. *)
GroupTypes(x) ==
    /\ Step(x, "types", "summed")
    /\ summary' = [summary EXCEPT ![x].entityTypes = Cardinality(audits)]
    /\ UNCHANGED view

----------------------------------------------------------------------------
(* A statement fails; the answer of what was read so far is dropped. *)
Reading  == {"new", "preload", "transitions", "actors", "actions", "types"}

ReadFails(x) ==
    /\ at[x] \in Reading
    /\ at'      = [at EXCEPT ![x] = "internal_error"]
    /\ acked'   = [acked EXCEPT ![x] = {}]
    /\ view'    = [view EXCEPT ![x] = NoView]
    /\ summary' = [summary EXCEPT ![x] = NoSummary]
    /\ UNCHANGED vars

ReadNext(x) ==
    \/ GetRow(x) \/ GetMissing(x) \/ Preload(x)
    \/ CountTotal(x) \/ CountTransitions(x) \/ CountActors(x)
    \/ GroupActions(x) \/ GroupTypes(x)
    \/ ReadFails(x)

NextReaders ==
    \/ Next /\ UNCHANGED readerVars
    \/ \E x \in Readers : ReadNext(x)

SpecReaders == InitReaders /\ [][NextReaders]_allVars

(* Goroutines that have begun run on, of writers and of readers. *)
FairReaders ==
    /\ SpecReaders
    /\ \A r \in Requests : WF_allVars(Serve(r) /\ UNCHANGED readerVars)

----------------------------------------------------------------------------
(***************************************************************************)
(* A record is shown with the revision of the version it is shown at, which *)
(* says the same as the row, and with every earlier one: although the two   *)
(* are read by two statements, the history is never older than the record   *)
(* (Get; EntityPage shows "current version" above the chain of versions).   *)
(***************************************************************************)
ShownWithItsRevision ==
    \A x \in Readers :
        at[x] = "shown" /\ Policy.versioned =>
            /\ 1 .. view[x].row.version \subseteq {y.version : y \in view[x].revisions}
            /\ \A y \in view[x].revisions : y.version = view[x].row.version =>
                  y.status = view[x].row.status /\ y.evidence = view[x].row.evidence

(***************************************************************************)
(* Whoever reads a record after a write of it was acknowledged sees it: the *)
(* version it made or a later one, or, once a deletion was acknowledged,    *)
(* no record at all (Get, and the answers of Update, Transition, Delete).   *)
(***************************************************************************)
AckedIsVisible ==
    \A x \in Readers : at[x] = "shown" =>
        \A r \in acked[x] :
            /\ work[r].op # "delete"
            /\ view[x].row.version > work[r].expected
            /\ Policy.versioned => \E y \in view[x].revisions : y.request = r

(***************************************************************************)
(* The numbers of a summary come from five moments; as the log only grows   *)
(* they are ordered as they were read: no later statement knows fewer rows  *)
(* than an earlier one (SummarizeAudits).                                   *)
(***************************************************************************)
SummaryOrdered ==
    \A x \in Readers : at[x] = "summed" =>
        /\ summary[x].total <= SumFunction(summary[x].actions)
        /\ SumFunction(summary[x].actions) <= summary[x].entityTypes
        /\ summary[x].transitions <= summary[x].actions["transition"]
        /\ summary[x].uniqueActors <= SumFunction(summary[x].actions)

(***************************************************************************)
(* A summary counts at least the transitions that had been answered with    *)
(* success when it was asked for (Transition audits before it answers).     *)
(***************************************************************************)
SummaryCountsAcked ==
    \A x \in Readers : at[x] = "summed" =>
        summary[x].transitions >=
            Cardinality({r \in acked[x] : work[r].op = "transition"})
=============================================================================
