---------------------------- MODULE RecordService ----------------------------
(***************************************************************************)
(* One row of one resource (a press unit, a print run, a colour proof or a  *)
(* release decision) and the requests that write it, each served by a       *)
(* goroutine of its own.  The services of internal/service read the row,    *)
(* judge the request by what they read, write the row in a second           *)
(* transaction, write the audit log in a third and read the row again; the  *)
(* steps of concurrent requests interleave, any database call may fail, and *)
(* the process may die between two of them.                                 *)
(***************************************************************************)
EXTENDS Lifecycle

CONSTANTS
    Kind,       \* the resource, which selects the policy of Lifecycle
    Requests,   \* the identities of the write requests (X-Request-ID)
    Callers,    \* the roles the requests are made with
    Lookahead,  \* how far beyond the current version a request may quote:
                \*   0: clients quote only versions some reply has shown them
                \*   1: a client may count on a write that has not committed
    Seeder      \* stands for the request id of rows made by database.Seed

ASSUME KindAssumption      == Kind \in Kinds
ASSUME SeederAssumption    == Seeder \notin Requests
ASSUME CallersAssumption   == Callers \subseteq Roles
ASSUME LookaheadAssumption == Lookahead \in Nat

Policy   == Policies[Kind]
Statuses == DOMAIN Policy.moves

VARIABLES
    row,        \* the row, its evidence named by the request that wrote it
    revisions,  \* the append-only revision rows of a versioned resource
    audits,     \* the rows of audit_logs about this row
    pc,         \* where each request stands, in the end the answer it got
    work        \* what each request decided to write, and on what grounds

vars == <<row, revisions, audits, pc, work>>

InFlight == {"loaded", "written", "audited"}
Refusals == {"forbidden", "business_rule", "record_locked", "version_conflict"}
Answers  == Refusals \cup {"ok", "not_found", "internal_error", "lost"}

NoRow  == [state |-> "none", status |-> "none", version |-> 0, evidence |-> Seeder]
NoWork == [op |-> "none", role |-> "viewer", expected |-> 0,
           before |-> "none", status |-> "none", evidence |-> Seeder]

----------------------------------------------------------------------------
(* Rows built by the repositories and by the audit service *)

Revision(item, request, actor) ==
    [version |-> item.version, status |-> item.status,
     evidence |-> item.evidence, request |-> request, actor |-> actor]

(* Mutant: the revision is taken from the row before it is written. *)
RevisionsWithOld(item, request, actor) ==
    IF Policy.versioned THEN revisions \cup {Revision(row, request, actor)}
                        ELSE revisions

(* The revisions once "item" is written: in the same transaction. *)
RevisionsWith(item, request, actor) ==
    IF Policy.versioned THEN revisions \cup {Revision(item, request, actor)}
                        ELSE revisions

(* Mutant: "before" is captured after the status was assigned. *)
AuditEntryAfterAssignment(r) ==
    [request |-> r, action |-> work[r].op, before |-> work[r].status,
     after |-> IF work[r].op = "delete" THEN "deleted" ELSE work[r].status]

AuditEntry(r) ==
    [request |-> r, action |-> work[r].op, before |-> work[r].before,
     after |-> IF work[r].op = "delete" THEN "deleted" ELSE work[r].status]

(* Mutants: the version is not compared; the new one is compared; rows that
   are soft-deleted match. *)
MatchesId(r)         == row.state = "live"
MatchesNewVersion(r) == row.state = "live" /\ row.version = work[r].expected + 1
MatchesDeleted(r)    == row.version = work[r].expected

(* WHERE id = ? AND version = ? AND deleted_at IS NULL *)
Matches(r) == row.state = "live" /\ row.version = work[r].expected

(* Mutant: the version is left as it was. *)
RewrittenSameVersion(r) ==
    [row EXCEPT !.status = work[r].status, !.evidence = work[r].evidence]

(* Every column of the row is written from the copy the request read. *)
Rewritten(r) ==
    [row EXCEPT !.status = work[r].status, !.evidence = work[r].evidence,
                !.version = work[r].expected + 1]

Goto(r, label) == pc' = [pc EXCEPT ![r] = label]

----------------------------------------------------------------------------
(* The start: no row yet, or one of the rows database.Seed inserts *)

SeededRow(status) ==
    [state |-> "live", status |-> status, version |-> 1, evidence |-> Seeder]

Init ==
    /\ \/ row = NoRow /\ revisions = {}
       \/ \E status \in Policy.seeded :
             /\ row = SeededRow(status)
             /\ revisions = IF Policy.versioned
                            THEN {Revision(SeededRow(status), Seeder, "seed")}
                            ELSE {}
    /\ audits = {}
    /\ pc     = [r \in Requests |-> "new"]
    /\ work   = [r \in Requests |-> NoWork]

----------------------------------------------------------------------------
(* A request is refused by its route, or finds no live row *)

Refuse(r) ==
    /\ pc[r] = "new"
    /\ \E op \in {"create", "update", "transition", "delete"}, role \in Callers :
          ~RouteAllows(op, role)
    /\ Goto(r, "forbidden")
    /\ UNCHANGED <<row, revisions, audits, work>>

LoadMissing(r) ==
    /\ pc[r] = "new"
    /\ row.state # "live"
    /\ Goto(r, "not_found")
    /\ UNCHANGED <<row, revisions, audits, work>>

----------------------------------------------------------------------------
(***************************************************************************)
(* Create.  The code of the row is under a unique index that also covers    *)
(* soft-deleted rows, so a second insertion fails.  The insertion may       *)
(* commit and its acknowledgement still be lost.                            *)
(***************************************************************************)
Created(r) ==
    [state |-> "live", status |-> Policy.initial, version |-> 1, evidence |-> r]

CreateInvalid(r) ==
    /\ pc[r] = "new"
    /\ \E role \in Callers : RouteAllows("create", role)
    /\ Goto(r, "business_rule")
    /\ UNCHANGED <<row, revisions, audits, work>>

CreateDuplicate(r) ==
    /\ pc[r] = "new"
    /\ \E role \in Callers : RouteAllows("create", role)
    /\ row.state # "none"
    /\ Goto(r, "internal_error")
    /\ UNCHANGED <<row, revisions, audits, work>>

Create(r) ==
    /\ pc[r] = "new"
    /\ row.state = "none"
    /\ \E role \in Callers, outcome \in {"written", "internal_error"} :
          /\ RouteAllows("create", role)
          /\ row'  = Created(r)
          /\ revisions' = RevisionsWith(Created(r), r, role)
          /\ work' = [work EXCEPT ![r] =
                        [op |-> "create", role |-> role, expected |-> 0,
                         before |-> "none", status |-> Policy.initial,
                         evidence |-> r]]
          /\ Goto(r, outcome)
    /\ UNCHANGED audits

----------------------------------------------------------------------------
(***************************************************************************)
(* Update, Transition and Delete up to the point where the request goes on  *)
(* to write: it has read the row and judged itself by what it read.  The    *)
(* version a client quotes was current when the request was made or         *)
(* earlier; versions only grow, so it may as well be chosen here.           *)
(***************************************************************************)
Quotable == 1 .. row.version + Lookahead

Proceed(r, verdict, plan) ==
    /\ Goto(r, verdict)
    /\ work' = IF verdict = "loaded" THEN [work EXCEPT ![r] = plan] ELSE work
    /\ UNCHANGED <<row, revisions, audits>>

BeginUpdate(r) ==
    /\ pc[r] = "new"
    /\ row.state = "live"
    /\ \E role \in Callers, expected \in Quotable, valid \in BOOLEAN :
          /\ RouteAllows("update", role)
          /\ Proceed(r, UpdateVerdict(Policy, row.status, valid),
                     [op |-> "update", role |-> role, expected |-> expected,
                      before |-> row.status, status |-> row.status,
                      evidence |-> r])

BeginTransition(r) ==
    /\ pc[r] = "new"
    /\ row.state = "live"
    /\ \E role \in Callers, expected \in Quotable,
          target \in Statuses \cup {"unknown"} :
          /\ RouteAllows("transition", role)
          /\ Proceed(r, TransitionVerdict(Policy, row.status, target, role),
                     [op |-> "transition", role |-> role, expected |-> expected,
                      before |-> row.status, status |-> target,
                      evidence |-> row.evidence])

BeginDelete(r) ==
    /\ pc[r] = "new"
    /\ row.state = "live"
    /\ \E role \in Callers :
          /\ RouteAllows("delete", role)
          /\ Proceed(r, DeleteVerdict(Policy, row.status),
                     [op |-> "delete", role |-> role, expected |-> 0,
                      before |-> row.status, status |-> row.status,
                      evidence |-> row.evidence])

----------------------------------------------------------------------------
(***************************************************************************)
(* The write.  Save is one transaction: the conditional UPDATE and, for a   *)
(* versioned resource, the INSERT of the revision (its unique index never   *)
(* trips: RevisionChain).  Remove quotes the id alone.                      *)
(***************************************************************************)
Save(r) ==
    /\ pc[r] = "loaded" /\ work[r].op \in {"update", "transition"}
    /\ Matches(r)
    /\ row' = Rewritten(r)
    /\ revisions' = RevisionsWith(Rewritten(r), r, work[r].role)
    /\ \E outcome \in {"written", "internal_error"} : Goto(r, outcome)
    /\ UNCHANGED <<audits, work>>

(* Mutant: the revision is inserted before the row count is looked at, and
   not rolled back. *)
SaveConflictCommitted(r) ==
    /\ pc[r] = "loaded" /\ work[r].op \in {"update", "transition"}
    /\ ~Matches(r)
    /\ revisions' = RevisionsWith(Rewritten(r), r, work[r].role)
    /\ Goto(r, "version_conflict")
    /\ UNCHANGED <<row, audits, work>>

SaveConflict(r) ==
    /\ pc[r] = "loaded" /\ work[r].op \in {"update", "transition"}
    /\ ~Matches(r)
    /\ Goto(r, "version_conflict")
    /\ UNCHANGED <<row, revisions, audits, work>>

Remove(r) ==
    /\ pc[r] = "loaded" /\ work[r].op = "delete"
    /\ row.state = "live"
    /\ row' = [row EXCEPT !.state = "deleted"]
    /\ \E outcome \in {"written", "internal_error"} : Goto(r, outcome)
    /\ UNCHANGED <<revisions, audits, work>>

RemoveMissing(r) ==
    /\ pc[r] = "loaded" /\ work[r].op = "delete"
    /\ row.state # "live"
    /\ Goto(r, "not_found")
    /\ UNCHANGED <<row, revisions, audits, work>>

----------------------------------------------------------------------------
(***************************************************************************)
(* After the commit: the audit log, then, for an update or a transition,    *)
(* the row is read again for the reply.  Create and Update drop the error   *)
(* of the audit log, Transition and Delete return it.                       *)
(***************************************************************************)
AfterAudit(op) == IF op \in {"create", "delete"} THEN "ok" ELSE "audited"

(* Mutant: the error of the audit log is dropped everywhere. *)
AfterAuditErrorDropped(op) == AfterAudit(op)

AfterAuditError(op) ==
    IF op \in {"create", "update"} THEN AfterAudit(op) ELSE "internal_error"

Audit(r) ==
    /\ pc[r] = "written"
    /\ audits' = audits \cup {AuditEntry(r)}
    /\ Goto(r, AfterAudit(work[r].op))
    /\ UNCHANGED <<row, revisions, work>>

AuditFails(r) ==
    /\ pc[r] = "written"
    /\ audits' \in {audits, audits \cup {AuditEntry(r)}}
    /\ Goto(r, AfterAuditError(work[r].op))
    /\ UNCHANGED <<row, revisions, work>>

(* Mutant: a row deleted in the meantime leaves the request hanging. *)
ReloadLive(r) ==
    /\ pc[r] = "audited"
    /\ row.state = "live"
    /\ Goto(r, "ok")
    /\ UNCHANGED <<row, revisions, audits, work>>

Reload(r) ==
    /\ pc[r] = "audited"
    /\ Goto(r, IF row.state = "live" THEN "ok" ELSE "not_found")
    /\ UNCHANGED <<row, revisions, audits, work>>

----------------------------------------------------------------------------
(***************************************************************************)
(* Failures.  A database call fails with nothing written (an error, a       *)
(* timeout, a cancelled request context), or the process stops: what is     *)
(* committed stays, every open request is lost.                             *)
(***************************************************************************)
Abort(r) ==
    /\ pc[r] \in {"new", "loaded", "audited"}
    /\ Goto(r, "internal_error")
    /\ UNCHANGED <<row, revisions, audits, work>>

Crash ==
    /\ \E r \in Requests : pc[r] \in InFlight
    /\ pc' = [r \in Requests |-> IF pc[r] \in InFlight THEN "lost" ELSE pc[r]]
    /\ UNCHANGED <<row, revisions, audits, work>>

(* Every request has its answer: the server waits for more. *)
Idle ==
    /\ \A r \in Requests : pc[r] \in Answers
    /\ UNCHANGED vars

----------------------------------------------------------------------------
Receive(r) ==
    \/ Refuse(r)      \/ LoadMissing(r)
    \/ CreateInvalid(r) \/ CreateDuplicate(r) \/ Create(r)
    \/ BeginUpdate(r) \/ BeginTransition(r)   \/ BeginDelete(r)

Serve(r) ==
    \/ Save(r)   \/ SaveConflict(r)
    \/ Remove(r) \/ RemoveMissing(r)
    \/ Audit(r)  \/ AuditFails(r)
    \/ Reload(r)

Next ==
    \/ \E r \in Requests : Receive(r) \/ Serve(r) \/ Abort(r)
    \/ Crash
    \/ Idle

Spec == Init /\ [][Next]_vars

(* A goroutine that has read its row runs on; nobody is obliged to call. *)
FairSpec == Spec /\ \A r \in Requests : WF_vars(Serve(r))

----------------------------------------------------------------------------
(* Types *)

(* The variables hold rows, revisions, audit rows and request states. *)
Labels == {"new"} \cup InFlight \cup Answers
Ops    == {"none", "create", "update", "transition", "delete"}
Marks  == Statuses \cup {"none"}
Authors == Requests \cup {Seeder}

TypeOK ==
    /\ row \in [state : {"none", "live", "deleted"}, status : Marks,
                version : Nat, evidence : Authors]
    /\ revisions \subseteq [version : Nat, status : Statuses, evidence : Authors,
                            request : Authors, actor : Roles \cup {"seed"}]
    /\ audits \subseteq [request : Requests, action : Ops, before : Marks,
                         after : Marks \cup {"deleted"}]
    /\ pc \in [Requests -> Labels]
    /\ work \in [Requests -> [op : Ops, role : Roles, expected : Nat,
                              before : Marks, status : Marks, evidence : Authors]]

----------------------------------------------------------------------------
(* Safety *)

(***************************************************************************)
(* The revisions of a versioned row are numbered 1, 2, ... up to its        *)
(* version, each number once, and the last one says what the row says, even *)
(* when clients quote versions not committed yet (CreateVersioned,          *)
(* UpdateVersioned; README: each version keeps its evidence).               *)
(***************************************************************************)
RevisionChain ==
    Policy.versioned =>
        /\ {x.version : x \in revisions} = 1 .. row.version
        /\ \A x, y \in revisions : x.version = y.version => x = y
        /\ \A x \in revisions : x.version = row.version =>
              x.status = row.status /\ x.evidence = row.evidence

(***************************************************************************)
(* A request that is about to save, quoting the version the row now has,    *)
(* judged itself by the row as it now is: the gates and the status graph it *)
(* passed, and the columns it will write back, are not stale.  Holds while  *)
(* clients quote committed versions only (Update, Transition, Store.Update).*)
(***************************************************************************)
ReadStillCurrent ==
    \A r \in Requests :
        (/\ pc[r] = "loaded" /\ work[r].op \in {"update", "transition"}
         /\ Matches(r))
        => /\ work[r].before = row.status
           /\ work[r].op = "transition" => work[r].evidence = row.evidence

(***************************************************************************)
(* Of the requests that quoted the same version at most one was accepted:   *)
(* optimistic locking never lets two clients both win (Store.Update).       *)
(***************************************************************************)
Accepted(r) ==
    work[r].op \in {"update", "transition"} /\ pc[r] \in {"written", "audited", "ok"}

OneWinner ==
    \A r, q \in Requests :
        Accepted(r) /\ Accepted(q) /\ work[r].expected = work[q].expected => r = q

(***************************************************************************)
(* "record changed; refresh and retry" (handler/errors.go) is the truth:    *)
(* whoever hears it quoted a version the row has left behind, or a row that *)
(* is gone.                                                                 *)
(***************************************************************************)
ConflictMeansMoved ==
    \A r \in Requests :
        pc[r] = "version_conflict" =>
            row.state = "deleted" \/ row.version > work[r].expected

(***************************************************************************)
(* A transition or a deletion that was answered with success is in the      *)
(* audit log, with the status the request read and the one it left (the     *)
(* services return the error of Audit for these two).                       *)
(***************************************************************************)
AckedIsAudited ==
    \A r \in Requests :
        pc[r] = "ok" /\ work[r].op \in {"transition", "delete"} =>
            AuditEntry(r) \in audits

(***************************************************************************)
(* A request that was told it is forbidden, invalid, locked out or in       *)
(* conflict has left no trace: not in the row, nor in its revisions, nor in *)
(* the audit log (the guards come first, and a conflict rolls the           *)
(* transaction of UpdateVersioned back).                                    *)
(***************************************************************************)
RefusedLeavesNoTrace ==
    \A r \in Requests :
        pc[r] \in Refusals =>
            /\ row.evidence # r
            /\ \A x \in revisions : x.request # r /\ x.evidence # r
            /\ \A a \in audits : a.request # r

(***************************************************************************)
(* What the audit log says of an edit or a move is what the revisions say:  *)
(* its before and after are the statuses of two consecutive revisions, the  *)
(* second by the same request.  Holds while clients quote committed         *)
(* versions only.                                                           *)
(***************************************************************************)
AuditMatchesHistory ==
    Policy.versioned =>
        \A a \in audits : a.action \in {"update", "transition"} =>
            \E x, y \in revisions :
                /\ y.version = x.version + 1 /\ y.request = a.request
                /\ x.status = a.before /\ y.status = a.after

----------------------------------------------------------------------------
(* What a step may never do *)

(***************************************************************************)
(* A row enters or leaves a status reserved to reviewers only by the save   *)
(* of a reviewer or an admin (README: colour proofs are accepted and        *)
(* rejected, and batches released, by reviewer/admin alone).                *)
(***************************************************************************)
Saves(r) == pc[r] = "loaded" /\ pc'[r] # "loaded"

ReviewedIfGated ==
    /\ row.state = "live" /\ row'.status # row.status
    /\ {row.status, row'.status} \cap Policy.reviewOnly # {}
    => \E r \in Requests : Saves(r) /\ work[r].role \in {"reviewer", "admin"}

ReviewGate == [][ReviewedIfGated]_vars

(***************************************************************************)
(* The content of a released or quarantined decision is never written over: *)
(* not while it is in that status, nor by the step that leaves it (README:  *)
(* overwriting edits of such a decision are forbidden).                     *)
(***************************************************************************)
ResolvedContentKept ==
    row.state = "live" /\ row.status \in Policy.editLocked
        => row'.evidence = row.evidence

ResolvedDecisionImmutable == [][ResolvedContentKept]_vars

(***************************************************************************)
(* A record that Delete would answer with ErrLocked ("resolved record is    *)
(* immutable", service/errors.go) is never deleted.                         *)
(***************************************************************************)
LockedNeverDeleted ==
    [][row.state = "live" /\ row'.state = "deleted"
         => row.status \in Policy.deletable]_vars

(***************************************************************************)
(* Every status change is in the audit log by the time the request that     *)
(* made it has its answer (README: every status change writes an audit      *)
(* log that cannot be overwritten).                                         *)
(***************************************************************************)
EveryChangeAudited ==
    \A x, y \in revisions :
        y.version = x.version + 1 /\ x.status # y.status /\ pc[y.request] \in Answers
            => \E a \in audits : a.request = y.request

(* The row changes as if each request read, judged and wrote it at once. *)
Atomic == INSTANCE AtomicRecord
              WITH record <- row, Rules <- Policy, Writers <- Requests, Origin <- Seeder

AtomicRow == Atomic!Spec

----------------------------------------------------------------------------
(* A request that got past its guards gets an answer, however it ends. *)
EveryRequestAnswered ==
    \A r \in Requests : pc[r] \in InFlight ~> pc[r] \in Answers
=============================================================================
