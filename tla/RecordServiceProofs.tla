------------------------- MODULE RecordServiceProofs -------------------------
(***************************************************************************)
(* Theorems about RecordService for every resource, every set of requests   *)
(* and callers, and every number of versions.                               *)
(***************************************************************************)
EXTENDS RecordService, TLAPS

----------------------------------------------------------------------------
(* The four policies *)

(* The policy of a service is one of the four. *)
LEMMA PolicyCases ==
    \/ Policy = PressUnitPolicy
    \/ Policy = PrintRunPolicy
    \/ Policy = ColorProofPolicy
    \/ Policy = ReleaseDecisionPolicy
BY KindAssumption DEF Kinds, Policy, Policies

(* The initial and seeded statuses are statuses of the graph. *)
LEMMA PolicyStarts ==
    /\ Policy.versioned \in BOOLEAN
    /\ Policy.initial \in Statuses
    /\ Policy.seeded \subseteq Statuses
<1>1. CASE Policy = PressUnitPolicy
  BY <1>1 DEF Statuses, PressUnitPolicy, PressUnitTransitions
<1>2. CASE Policy = PrintRunPolicy
  BY <1>2 DEF Statuses, PrintRunPolicy, PrintRunTransitions
<1>3. CASE Policy = ColorProofPolicy
  BY <1>3 DEF Statuses, ColorProofPolicy, ColorProofTransitions
<1>4. CASE Policy = ReleaseDecisionPolicy
  BY <1>4 DEF Statuses, ReleaseDecisionPolicy, ReleaseDecisionTransitions
<1> QED BY <1>1, <1>2, <1>3, <1>4, PolicyCases

(* A permitted transition ends in a status of the graph. *)
LEMMA PolicyClosed ==
    \A from, to : CanTransition(Policy.moves, from, to) => to \in Statuses
<1>1. CASE Policy = PressUnitPolicy
  BY <1>1 DEF Statuses, PressUnitPolicy, PressUnitTransitions, CanTransition
<1>2. CASE Policy = PrintRunPolicy
  BY <1>2 DEF Statuses, PrintRunPolicy, PrintRunTransitions, CanTransition
<1>3. CASE Policy = ColorProofPolicy
  BY <1>3 DEF Statuses, ColorProofPolicy, ColorProofTransitions, CanTransition
<1>4. CASE Policy = ReleaseDecisionPolicy
  BY <1>4 DEF Statuses, ReleaseDecisionPolicy, ReleaseDecisionTransitions, CanTransition
<1> QED BY <1>1, <1>2, <1>3, <1>4, PolicyCases

----------------------------------------------------------------------------
(***************************************************************************)
(* The inductive invariant.  TypeOK alone is not inductive: that a saved    *)
(* row has a status of the graph follows from the verdict the request       *)
(* passed when it read the row, so the invariant remembers the verdicts.    *)
(***************************************************************************)
RowShape ==
    /\ row.state = "none" => row = NoRow /\ revisions = {}
    /\ row.state # "none" => row.status \in Statuses /\ row.version >= 1

PassedUpdate(r) ==
    /\ work[r].op = "update"
    /\ work[r].before \notin Policy.editLocked
    /\ work[r].status = work[r].before
    /\ work[r].evidence = r

PassedTransition(r) ==
    /\ work[r].op = "transition"
    /\ TransitionVerdict(Policy, work[r].before, work[r].status, work[r].role) = "loaded"
    /\ work[r].role \in Callers /\ RequireMinimumRole("operator", work[r].role)

PassedDelete(r) ==
    /\ work[r].op = "delete"
    /\ work[r].before \in Policy.deletable

Judged(r) ==
    /\ row.state # "none"
    /\ work[r].before \in Statuses
    /\ PassedUpdate(r) \/ PassedTransition(r) \/ PassedDelete(r)
    /\ work[r].op # "delete" => work[r].expected \in Quotable

AllJudged == \A r \in Requests : pc[r] = "loaded" => Judged(r)

IInv == TypeOK /\ RowShape /\ AllJudged

----------------------------------------------------------------------------
(* Steps that only answer requests *)

(* A step that moves no request to "loaded" and writes nothing keeps IInv. *)
LEMMA AnswersKeepIInv ==
    ASSUME IInv,
           UNCHANGED <<row, revisions, audits, work>>,
           pc' \in [Requests -> Labels],
           \A r \in Requests : pc'[r] = "loaded" => pc[r] = "loaded"
    PROVE  IInv'
<1>1. TypeOK'
  BY DEF IInv, TypeOK
<1>2. RowShape'
  BY DEF IInv, RowShape
<1>3. AllJudged'
  BY DEF IInv, AllJudged, Judged, PassedUpdate, PassedTransition, PassedDelete, Quotable
<1> QED BY <1>1, <1>2, <1>3 DEF IInv

(* A status the verdict lets a row move to is in the graph. *)
LEMMA VerdictInGraph ==
    ASSUME NEW from, NEW to, NEW role,
           TransitionVerdict(Policy, from, to, role) = "loaded"
    PROVE  CanTransition(Policy.moves, from, to) /\ to \in Statuses
<1>1. CanTransition(Policy.moves, from, to)
  BY DEF TransitionVerdict
<1> QED BY <1>1, PolicyClosed

(* What a request has read and judged has a status of the graph to write. *)
LEMMA JudgedStatus ==
    ASSUME NEW r \in Requests, Judged(r), work[r].op # "delete"
    PROVE  work[r].status \in Statuses
BY VerdictInGraph DEF Judged, PassedUpdate, PassedTransition, PassedDelete

----------------------------------------------------------------------------
(* Steps that read and judge *)

(* A request that proceeds on a plan it may carry out keeps IInv. *)
LEMMA ProceedKeepsIInv ==
    ASSUME IInv,
           NEW r \in Requests, NEW verdict \in Labels, NEW plan,
           Proceed(r, verdict, plan),
           plan \in [op : Ops, role : Roles, expected : Nat,
                     before : Marks, status : Marks, evidence : Authors],
           verdict = "loaded" =>
              /\ row.state # "none" /\ plan.before \in Statuses
              /\ \/ /\ plan.op = "update" /\ plan.before \notin Policy.editLocked
                    /\ plan.status = plan.before /\ plan.evidence = r
                 \/ /\ plan.op = "transition"
                    /\ TransitionVerdict(Policy, plan.before, plan.status, plan.role) = "loaded"
                    /\ plan.role \in Callers /\ RequireMinimumRole("operator", plan.role)
                 \/ plan.op = "delete" /\ plan.before \in Policy.deletable
              /\ plan.op # "delete" => plan.expected \in Quotable
    PROVE  IInv'
<1>1. TypeOK'
  BY DEF IInv, TypeOK, Proceed, Goto
<1>2. RowShape'
  BY DEF IInv, RowShape, Proceed
<1>3. AllJudged'
  <2> SUFFICES ASSUME NEW q \in Requests, pc'[q] = "loaded"
               PROVE  Judged(q)'
    BY DEF AllJudged
  <2>1. CASE q = r
    <3>1. verdict = "loaded" /\ work'[r] = plan
      BY <2>1 DEF Proceed, Goto, IInv, TypeOK
    <3> QED
      BY <2>1, <3>1 DEF Judged, PassedUpdate, PassedTransition, PassedDelete, Quotable, Proceed
  <2>2. CASE q # r
    <3>1. pc[q] = "loaded" /\ work'[q] = work[q]
      BY <2>2 DEF Proceed, Goto, IInv, TypeOK
    <3>2. Judged(q)
      BY <3>1 DEF IInv, AllJudged
    <3> QED
      BY <3>1, <3>2 DEF Judged, PassedUpdate, PassedTransition, PassedDelete, Quotable, Proceed
  <2> QED BY <2>1, <2>2
<1> QED BY <1>1, <1>2, <1>3 DEF IInv

(* What a request reads of a live row is well typed. *)
LEMMA LiveRow ==
    ASSUME IInv, row.state = "live"
    PROVE  /\ row.status \in Statuses /\ row.status \in Marks
           /\ row.version \in Nat /\ row.evidence \in Authors
           /\ \A expected \in Quotable : expected \in Nat
<1>1. row.version \in Nat /\ row.evidence \in Authors
  BY DEF IInv, TypeOK
<1>2. row.status \in Statuses
  BY DEF IInv, RowShape
<1>3. \A expected \in Quotable : expected \in Nat
  BY <1>1, LookaheadAssumption DEF Quotable
<1> QED BY <1>1, <1>2, <1>3 DEF Marks

LEMMA BeginUpdateKeepsIInv ==
    ASSUME IInv, NEW r \in Requests, BeginUpdate(r)
    PROVE  IInv'
<1>1. PICK role \in Callers, expected \in Quotable, valid \in BOOLEAN :
         Proceed(r, UpdateVerdict(Policy, row.status, valid),
                 [op |-> "update", role |-> role, expected |-> expected,
                  before |-> row.status, status |-> row.status, evidence |-> r])
  BY DEF BeginUpdate
<1> DEFINE verdict == UpdateVerdict(Policy, row.status, valid)
           plan == [op |-> "update", role |-> role, expected |-> expected,
                    before |-> row.status, status |-> row.status, evidence |-> r]
<1>2. row.state = "live"
  BY DEF BeginUpdate
<1>3. verdict \in Labels
  BY DEF UpdateVerdict, Labels, InFlight, Answers, Refusals
<1>4. verdict = "loaded" => row.status \notin Policy.editLocked
  BY DEF UpdateVerdict
<1>5. plan \in [op : Ops, role : Roles, expected : Nat,
                before : Marks, status : Marks, evidence : Authors]
  BY <1>2, LiveRow, CallersAssumption DEF Ops, Authors
<1> HIDE DEF verdict
<1> QED
  BY <1>1, <1>2, <1>3, <1>4, <1>5, LiveRow, ProceedKeepsIInv DEF verdict

LEMMA BeginTransitionKeepsIInv ==
    ASSUME IInv, NEW r \in Requests, BeginTransition(r)
    PROVE  IInv'
<1>1. PICK role \in Callers, expected \in Quotable, target \in Statuses \cup {"unknown"} :
         /\ RouteAllows("transition", role)
         /\ Proceed(r, TransitionVerdict(Policy, row.status, target, role),
                    [op |-> "transition", role |-> role, expected |-> expected,
                     before |-> row.status, status |-> target,
                     evidence |-> row.evidence])
  BY DEF BeginTransition
<1> DEFINE verdict == TransitionVerdict(Policy, row.status, target, role)
           plan == [op |-> "transition", role |-> role, expected |-> expected,
                    before |-> row.status, status |-> target,
                    evidence |-> row.evidence]
<1>2. row.state = "live"
  BY DEF BeginTransition
<1>3. verdict \in Labels
  BY DEF TransitionVerdict, Labels, InFlight, Answers, Refusals
<1>4. RequireMinimumRole("operator", role)
  BY <1>1 DEF RouteAllows
<1>5. CASE verdict = "loaded"
  <2>1. target \in Statuses
    BY <1>5, VerdictInGraph
  <2>2. plan \in [op : Ops, role : Roles, expected : Nat,
                  before : Marks, status : Marks, evidence : Authors]
    BY <1>2, <2>1, LiveRow, CallersAssumption DEF Ops, Marks
  <2> QED
    BY <1>1, <1>2, <1>3, <1>4, <1>5, <2>2, LiveRow, ProceedKeepsIInv
<1>6. CASE verdict # "loaded"
  <2>1. UNCHANGED <<row, revisions, audits, work>> /\ pc' = [pc EXCEPT ![r] = verdict]
    BY <1>1, <1>6 DEF Proceed, Goto
  <2> HIDE DEF verdict
  <2> QED
    BY <1>3, <1>6, <2>1, AnswersKeepIInv DEF IInv, TypeOK
<1> QED BY <1>5, <1>6

LEMMA BeginDeleteKeepsIInv ==
    ASSUME IInv, NEW r \in Requests, BeginDelete(r)
    PROVE  IInv'
<1>1. PICK role \in Callers :
         Proceed(r, DeleteVerdict(Policy, row.status),
                 [op |-> "delete", role |-> role, expected |-> 0,
                  before |-> row.status, status |-> row.status,
                  evidence |-> row.evidence])
  BY DEF BeginDelete
<1> DEFINE verdict == DeleteVerdict(Policy, row.status)
           plan == [op |-> "delete", role |-> role, expected |-> 0,
                    before |-> row.status, status |-> row.status,
                    evidence |-> row.evidence]
<1>2. row.state = "live"
  BY DEF BeginDelete
<1>3. verdict \in Labels
  BY DEF DeleteVerdict, Labels, InFlight, Answers, Refusals
<1>4. verdict = "loaded" => row.status \in Policy.deletable
  BY DEF DeleteVerdict
<1>5. plan \in [op : Ops, role : Roles, expected : Nat,
                before : Marks, status : Marks, evidence : Authors]
  BY <1>2, LiveRow, CallersAssumption DEF Ops
<1> HIDE DEF verdict
<1> QED
  BY <1>1, <1>2, <1>3, <1>4, <1>5, LiveRow, ProceedKeepsIInv DEF verdict

----------------------------------------------------------------------------
(* Steps that write *)

(* The revisions of a well-typed item are well typed. *)
LEMMA RevisionsTyped ==
    ASSUME IInv, NEW item, NEW request \in Authors, NEW actor \in Roles,
           item.version \in Nat, item.status \in Statuses, item.evidence \in Authors
    PROVE  RevisionsWith(item, request, actor) \subseteq
              [version : Nat, status : Statuses, evidence : Authors,
               request : Authors, actor : Roles \cup {"seed"}]
BY DEF RevisionsWith, Revision, IInv, TypeOK

LEMMA CreateKeepsIInv ==
    ASSUME IInv, NEW r \in Requests, Create(r)
    PROVE  IInv'
<1>1. PICK role \in Callers, outcome \in {"written", "internal_error"} :
         /\ row' = Created(r)
         /\ revisions' = RevisionsWith(Created(r), r, role)
         /\ work' = [work EXCEPT ![r] =
                       [op |-> "create", role |-> role, expected |-> 0,
                        before |-> "none", status |-> Policy.initial, evidence |-> r]]
         /\ pc' = [pc EXCEPT ![r] = outcome]
  BY DEF Create, Goto
<1>2. row.state = "none" /\ audits' = audits
  BY DEF Create
<1>3. row' \in [state : {"none", "live", "deleted"}, status : Marks,
                version : Nat, evidence : Authors]
  BY <1>1, PolicyStarts DEF Created, Marks, Authors
<1>4. revisions' \subseteq [version : Nat, status : Statuses, evidence : Authors,
                            request : Authors, actor : Roles \cup {"seed"}]
  BY <1>1, RevisionsTyped, PolicyStarts, CallersAssumption DEF Created, Authors
<1>5. pc' \in [Requests -> Labels]
  BY <1>1 DEF IInv, TypeOK, Labels, InFlight, Answers
<1>6. work' \in [Requests -> [op : Ops, role : Roles, expected : Nat,
                              before : Marks, status : Marks, evidence : Authors]]
  BY <1>1, PolicyStarts, CallersAssumption DEF IInv, TypeOK, Ops, Marks, Authors
<1>7. TypeOK'
  BY <1>2, <1>3, <1>4, <1>5, <1>6 DEF IInv, TypeOK
<1>8. RowShape'
  BY <1>1, PolicyStarts DEF RowShape, Created
<1>9. AllJudged'
  <2> SUFFICES ASSUME NEW q \in Requests, pc'[q] = "loaded"
               PROVE  FALSE
    BY DEF AllJudged
  <2>1. pc[q] = "loaded"
    BY <1>1 DEF IInv, TypeOK
  <2> QED
    BY <1>2, <2>1 DEF IInv, AllJudged, Judged
<1> QED BY <1>7, <1>8, <1>9 DEF IInv

LEMMA SaveKeepsIInv ==
    ASSUME IInv, NEW r \in Requests, Save(r)
    PROVE  IInv'
<1>1. PICK outcome \in {"written", "internal_error"} : pc' = [pc EXCEPT ![r] = outcome]
  BY DEF Save, Goto
<1>2. /\ row' = Rewritten(r)
      /\ revisions' = RevisionsWith(Rewritten(r), r, work[r].role)
      /\ audits' = audits /\ work' = work
  BY DEF Save
<1>3. pc[r] = "loaded" /\ Judged(r) /\ work[r].op # "delete"
  BY DEF Save, IInv, AllJudged
<1>4. /\ row.state = "live" /\ row.version = work[r].expected
      /\ row.version \in Nat /\ row.evidence \in Authors
  BY DEF Save, Matches, IInv, TypeOK
<1>5. work[r].status \in Statuses /\ work[r].evidence \in Authors /\ work[r].role \in Roles
  BY <1>3, JudgedStatus DEF IInv, TypeOK
<1>6. /\ row'.state = "live" /\ row'.status = work[r].status
      /\ row'.evidence = work[r].evidence /\ row'.version = row.version + 1
      /\ row' \in [state : {"none", "live", "deleted"}, status : Marks,
                   version : Nat, evidence : Authors]
  <2>1. row \in [state : {"none", "live", "deleted"}, status : Marks,
                 version : Nat, evidence : Authors]
    BY DEF IInv, TypeOK
  <2>2. row' = [row EXCEPT !.status = work[r].status, !.evidence = work[r].evidence,
                           !.version = work[r].expected + 1]
    BY <1>2 DEF Rewritten
  <2>3. work[r].status \in Marks /\ work[r].expected + 1 \in Nat
    BY <1>4, <1>5 DEF Marks
  <2> QED
    BY <1>4, <1>5, <2>1, <2>2, <2>3
<1>7. revisions' \subseteq [version : Nat, status : Statuses, evidence : Authors,
                            request : Authors, actor : Roles \cup {"seed"}]
  BY <1>2, <1>5, <1>6, RevisionsTyped DEF Authors
<1>8. TypeOK'
  BY <1>1, <1>2, <1>6, <1>7 DEF IInv, TypeOK, Labels, InFlight, Answers
<1>9. RowShape'
  BY <1>4, <1>5, <1>6 DEF RowShape
<1>10. AllJudged'
  <2> SUFFICES ASSUME NEW q \in Requests, pc'[q] = "loaded"
               PROVE  Judged(q)'
    BY DEF AllJudged
  <2>1. Judged(q)
    BY <1>1 DEF IInv, TypeOK, AllJudged
  <2>2. Quotable \subseteq Quotable'
    BY <1>4, <1>6, LookaheadAssumption DEF Quotable
  <2> QED
    BY <1>2, <1>6, <2>1, <2>2 DEF Judged, PassedUpdate, PassedTransition, PassedDelete
<1> QED BY <1>8, <1>9, <1>10 DEF IInv

LEMMA RemoveKeepsIInv ==
    ASSUME IInv, NEW r \in Requests, Remove(r)
    PROVE  IInv'
<1>1. PICK outcome \in {"written", "internal_error"} : pc' = [pc EXCEPT ![r] = outcome]
  BY DEF Remove, Goto
<1>2. row.state = "live" /\ row' = [row EXCEPT !.state = "deleted"]
  BY DEF Remove
<1>3. UNCHANGED <<revisions, audits, work>>
  BY DEF Remove
<1>4. TypeOK'
  BY <1>1, <1>2, <1>3 DEF IInv, TypeOK, Labels, InFlight, Answers
<1>5. /\ row'.state = "deleted" /\ row'.status = row.status
      /\ row'.version = row.version /\ row'.evidence = row.evidence
  BY <1>2 DEF IInv, TypeOK
<1>6. RowShape'
  BY <1>2, <1>5 DEF IInv, RowShape
<1>7. AllJudged'
  BY <1>1, <1>3, <1>5
  DEF IInv, TypeOK, AllJudged, Judged, PassedUpdate, PassedTransition, PassedDelete, Quotable
<1> QED BY <1>4, <1>6, <1>7 DEF IInv

(* The audit row of a request that has judged the row is well typed. *)
LEMMA AuditKeepsIInv ==
    ASSUME IInv, NEW r \in Requests, Audit(r) \/ AuditFails(r)
    PROVE  IInv'
<1>1. PICK answer \in {"ok", "audited", "internal_error"} : pc' = [pc EXCEPT ![r] = answer]
  BY DEF Audit, AuditFails, Goto, AfterAudit, AfterAuditError
<1>2. /\ audits' \in {audits, audits \cup {AuditEntry(r)}}
      /\ UNCHANGED <<row, revisions, work>>
  BY DEF Audit, AuditFails
<1>3. AuditEntry(r) \in [request : Requests, action : Ops, before : Marks,
                         after : Marks \cup {"deleted"}]
  BY DEF AuditEntry, IInv, TypeOK
<1>4. TypeOK'
  BY <1>1, <1>2, <1>3 DEF IInv, TypeOK, Labels, InFlight, Answers
<1>5. RowShape'
  BY <1>2 DEF IInv, RowShape
<1>6. AllJudged'
  BY <1>1, <1>2
  DEF IInv, TypeOK, AllJudged, Judged, PassedUpdate, PassedTransition, PassedDelete, Quotable
<1> QED BY <1>4, <1>5, <1>6 DEF IInv

----------------------------------------------------------------------------
(* Every step, and every behaviour *)

LEMMA InitIInv == Init => IInv
<1> SUFFICES ASSUME Init PROVE IInv
  OBVIOUS
<1>1. pc \in [Requests -> Labels] /\ \A r \in Requests : pc[r] # "loaded"
  BY DEF Init, Labels
<1>2. work \in [Requests -> [op : Ops, role : Roles, expected : Nat,
                             before : Marks, status : Marks, evidence : Authors]]
  BY DEF Init, NoWork, Ops, Roles, roleRank, Marks, Authors
<1>3. CASE row = NoRow /\ revisions = {}
  BY <1>1, <1>2, <1>3 DEF Init, IInv, TypeOK, RowShape, AllJudged, NoRow, Marks, Authors
<1>4. ASSUME NEW status \in Policy.seeded,
             row = SeededRow(status),
             revisions = IF Policy.versioned
                         THEN {Revision(SeededRow(status), Seeder, "seed")} ELSE {}
      PROVE  IInv
  <2>1. status \in Statuses
    BY PolicyStarts
  <2>2. row \in [state : {"none", "live", "deleted"}, status : Marks,
                 version : Nat, evidence : Authors]
    BY <1>4, <2>1 DEF SeededRow, Marks, Authors
  <2>3. revisions \subseteq [version : Nat, status : Statuses, evidence : Authors,
                             request : Authors, actor : Roles \cup {"seed"}]
    BY <1>4, <2>1 DEF Revision, SeededRow, Authors
  <2>4. TypeOK
    BY <1>1, <1>2, <2>2, <2>3 DEF Init, TypeOK
  <2>5. RowShape
    BY <1>4, <2>1 DEF RowShape, SeededRow
  <2> QED BY <1>1, <2>4, <2>5 DEF IInv, AllJudged
<1> QED BY <1>3, <1>4 DEF Init

LEMMA NextIInv == IInv /\ [Next]_vars => IInv'
<1> SUFFICES ASSUME IInv, [Next]_vars PROVE IInv'
  OBVIOUS
<1> USE DEF Goto
<1>1. ASSUME NEW r \in Requests, Refuse(r) PROVE IInv'
  BY <1>1, AnswersKeepIInv DEF Refuse, IInv, TypeOK, Labels, Answers, Refusals
<1>2. ASSUME NEW r \in Requests, LoadMissing(r) PROVE IInv'
  BY <1>2, AnswersKeepIInv DEF LoadMissing, IInv, TypeOK, Labels, Answers
<1>3. ASSUME NEW r \in Requests, CreateInvalid(r) PROVE IInv'
  BY <1>3, AnswersKeepIInv DEF CreateInvalid, IInv, TypeOK, Labels, Answers, Refusals
<1>4. ASSUME NEW r \in Requests, CreateDuplicate(r) PROVE IInv'
  BY <1>4, AnswersKeepIInv DEF CreateDuplicate, IInv, TypeOK, Labels, Answers
<1>5. ASSUME NEW r \in Requests, SaveConflict(r) PROVE IInv'
  BY <1>5, AnswersKeepIInv DEF SaveConflict, IInv, TypeOK, Labels, Answers, Refusals
<1>6. ASSUME NEW r \in Requests, RemoveMissing(r) PROVE IInv'
  BY <1>6, AnswersKeepIInv DEF RemoveMissing, IInv, TypeOK, Labels, Answers
<1>7. ASSUME NEW r \in Requests, Reload(r) PROVE IInv'
  BY <1>7, AnswersKeepIInv DEF Reload, IInv, TypeOK, Labels, Answers
<1>8. ASSUME NEW r \in Requests, Abort(r) PROVE IInv'
  BY <1>8, AnswersKeepIInv DEF Abort, IInv, TypeOK, Labels, Answers
<1>9. ASSUME Crash PROVE IInv'
  BY <1>9, AnswersKeepIInv DEF Crash, IInv, TypeOK, Labels, Answers
<1>10. CASE UNCHANGED vars
  BY <1>10, AnswersKeepIInv DEF vars, IInv, TypeOK
<1> QED
  BY <1>1, <1>2, <1>3, <1>4, <1>5, <1>6, <1>7, <1>8, <1>9, <1>10,
     CreateKeepsIInv, BeginUpdateKeepsIInv, BeginTransitionKeepsIInv,
     BeginDeleteKeepsIInv, SaveKeepsIInv, RemoveKeepsIInv, AuditKeepsIInv
  DEF Next, Receive, Serve, Idle

THEOREM Invariance == Spec => []IInv
BY InitIInv, NextIInv, PTL DEF Spec

(***************************************************************************)
(* The rows, revisions, audit rows and requests stay what their types say:  *)
(* in particular no row ever gets a status outside its graph, however       *)
(* requests interleave and whatever version they quote.                     *)
(***************************************************************************)
THEOREM TypeCorrect == Spec => []TypeOK
<1>1. IInv => TypeOK
  BY DEF IInv
<1> QED BY <1>1, Invariance, PTL

----------------------------------------------------------------------------
(* The revision chain *)

(* What writes the row: a creation, a save or a removal; nothing else does. *)
LEMMA WhoWrites ==
    ASSUME [Next]_vars
    PROVE  \/ \E r \in Requests : Create(r) \/ Save(r) \/ Remove(r)
           \/ UNCHANGED <<row, revisions>>
BY DEF Next, Receive, Serve, Refuse, LoadMissing, CreateInvalid, CreateDuplicate,
       BeginUpdate, BeginTransition, BeginDelete, Proceed, SaveConflict,
       RemoveMissing, Audit, AuditFails, Reload, Abort, Crash, Idle, vars

(* What a save makes of the row and of its revisions. *)
LEMMA SavedRow ==
    ASSUME IInv, NEW r \in Requests, Save(r)
    PROVE  /\ pc[r] = "loaded" /\ Judged(r) /\ work[r].op \in {"update", "transition"}
           /\ row.state = "live" /\ row.version \in Nat /\ row.version = work[r].expected
           /\ row'.state = "live" /\ row'.version = row.version + 1
           /\ row'.status = work[r].status /\ row'.evidence = work[r].evidence
           /\ row' = [row EXCEPT !.status = work[r].status, !.evidence = work[r].evidence,
                                 !.version = row.version + 1]
           /\ revisions' = RevisionsWith(row', r, work[r].role)
<1>1. /\ pc[r] = "loaded" /\ Judged(r) /\ work[r].op \in {"update", "transition"}
      /\ row.state = "live" /\ row.version \in Nat /\ row.version = work[r].expected
  BY DEF Save, Matches, IInv, TypeOK, AllJudged
<1>2. row' = [row EXCEPT !.status = work[r].status, !.evidence = work[r].evidence,
                         !.version = row.version + 1]
  BY <1>1 DEF Save, Rewritten
<1>3. row \in [state : {"none", "live", "deleted"}, status : Marks,
               version : Nat, evidence : Authors]
  BY DEF IInv, TypeOK
<1>4. revisions' = RevisionsWith(row', r, work[r].role)
  BY DEF Save
<1> QED BY <1>1, <1>2, <1>3, <1>4

(* A revision numbered one beyond the chain, saying what the row says, extends it. *)
LEMMA ChainGrows ==
    ASSUME RevisionChain, Policy.versioned,
           row.version \in Nat, row'.version = row.version + 1,
           NEW request, NEW actor,
           revisions' = revisions \cup {Revision(row', request, actor)}
    PROVE  RevisionChain'
<1> DEFINE latest == Revision(row', request, actor)
<1>1. /\ latest.version = row.version + 1
      /\ latest.status = row'.status /\ latest.evidence = row'.evidence
  BY DEF Revision
<1>2. \A x \in revisions : x.version \in 1 .. row.version
  BY DEF RevisionChain
<1> HIDE DEF latest
<1>3. {x.version : x \in revisions'} = 1 .. row'.version
  <2>1. {x.version : x \in revisions'} = {x.version : x \in revisions} \cup {latest.version}
    BY DEF latest
  <2>2. {x.version : x \in revisions} = 1 .. row.version
    BY DEF RevisionChain
  <2> QED BY <1>1, <2>1, <2>2
<1>4. \A x, y \in revisions' : x.version = y.version => x = y
  BY <1>1, <1>2 DEF RevisionChain, latest
<1>5. \A x \in revisions' : x.version = row'.version =>
         x.status = row'.status /\ x.evidence = row'.evidence
  BY <1>1, <1>2 DEF latest
<1> QED BY <1>3, <1>4, <1>5 DEF RevisionChain

LEMMA InitChain == Init => RevisionChain
<1> SUFFICES ASSUME Init, Policy.versioned PROVE RevisionChain
  BY DEF RevisionChain
<1>1. CASE row = NoRow /\ revisions = {}
  BY <1>1 DEF RevisionChain, NoRow
<1>2. ASSUME NEW status \in Policy.seeded, row = SeededRow(status),
             revisions = {Revision(SeededRow(status), Seeder, "seed")}
      PROVE  RevisionChain
  <2>1. /\ \A x \in revisions : x = Revision(row, Seeder, "seed")
        /\ row.version = 1
    BY <1>2 DEF SeededRow
  <2>2. {x.version : x \in revisions} = {1}
    BY <1>2 DEF Revision, SeededRow
  <2> QED BY <2>1, <2>2 DEF RevisionChain, Revision
<1> QED BY <1>1, <1>2 DEF Init

LEMMA NextChain == IInv /\ RevisionChain /\ [Next]_vars => RevisionChain'
<1> SUFFICES ASSUME IInv, RevisionChain, [Next]_vars, Policy.versioned
             PROVE  RevisionChain'
  BY DEF RevisionChain
<1>1. ASSUME NEW r \in Requests, Create(r) PROVE RevisionChain'
  <2>1. row.version = 0
    BY <1>1 DEF Create, IInv, RowShape, NoRow
  <2>2. row'.version = 1
    BY <1>1 DEF Create, Created
  <2>3. PICK role \in Callers : revisions' = revisions \cup {Revision(row', r, role)}
    BY <1>1 DEF Create, RevisionsWith
  <2> QED BY <2>1, <2>2, <2>3, ChainGrows
<1>2. ASSUME NEW r \in Requests, Save(r) PROVE RevisionChain'
  <2>1. /\ row.version \in Nat /\ row'.version = row.version + 1
        /\ revisions' = revisions \cup {Revision(row', r, work[r].role)}
    BY <1>2, SavedRow DEF RevisionsWith
  <2> QED BY <2>1, ChainGrows
<1>3. ASSUME NEW r \in Requests, Remove(r) PROVE RevisionChain'
  <2>1. /\ revisions' = revisions /\ row'.version = row.version
        /\ row'.status = row.status /\ row'.evidence = row.evidence
    BY <1>3 DEF Remove, IInv, TypeOK
  <2> QED BY <2>1 DEF RevisionChain
<1>4. CASE UNCHANGED <<row, revisions>>
  BY <1>4 DEF RevisionChain
<1> QED BY <1>1, <1>2, <1>3, <1>4, WhoWrites

(***************************************************************************)
(* The revisions of a versioned row are 1 to its version, one of each, and  *)
(* the last agrees with the row: also when a client quotes a version that   *)
(* is not there yet, so UpdateVersioned never meets its unique index.       *)
(***************************************************************************)
THEOREM RevisionsAreAChain == Spec => []RevisionChain
<1>1. Init => RevisionChain
  BY InitChain
<1>2. IInv /\ RevisionChain /\ [Next]_vars => RevisionChain'
  BY NextChain
<1> QED BY <1>1, <1>2, Invariance, PTL DEF Spec

----------------------------------------------------------------------------
(***************************************************************************)
(* Clients that quote committed versions only.  Then a request whose save   *)
(* matches has judged the row as it still is, and every guarantee that      *)
(* depends on what was read follows from this one.                          *)
(***************************************************************************)

LEMMA InitCurrent == Init => ReadStillCurrent
BY DEF Init, ReadStillCurrent

(* With Lookahead = 0 what is quoted has been committed. *)
LEMMA QuotedIsCommitted ==
    ASSUME Lookahead = 0, IInv, NEW r \in Requests,
           pc[r] = "loaded", work[r].op \in {"update", "transition"}
    PROVE  work[r].expected \in Nat /\ work[r].expected <= row.version
<1>1. work[r].expected \in Quotable /\ row.version \in Nat
  BY DEF IInv, AllJudged, Judged, TypeOK
<1> QED BY <1>1 DEF Quotable

LEMMA NextCurrent ==
    ASSUME Lookahead = 0, IInv, ReadStillCurrent, [Next]_vars
    PROVE  ReadStillCurrent'
<1> SUFFICES ASSUME NEW q \in Requests,
                    pc'[q] = "loaded", work'[q].op \in {"update", "transition"},
                    Matches(q)'
             PROVE  /\ work'[q].before = row'.status
                    /\ work'[q].op = "transition" => work'[q].evidence = row'.evidence
  BY DEF ReadStillCurrent
<1> DEFINE Held    == pc[q] = "loaded" /\ work'[q] = work[q] /\ row' = row
           Current == /\ work'[q].before = row'.status
                      /\ work'[q].op = "transition" => work'[q].evidence = row'.evidence
<1>1. ASSUME NEW r \in Requests, NEW verdict, NEW plan, Proceed(r, verdict, plan),
             plan.before = row.status,
             plan.op = "transition" => plan.evidence = row.evidence
      PROVE  Held \/ Current
  <2>1. /\ row' = row /\ pc' = [pc EXCEPT ![r] = verdict]
        /\ work' = IF verdict = "loaded" THEN [work EXCEPT ![r] = plan] ELSE work
    BY <1>1 DEF Proceed, Goto
  <2>2. CASE q = r
    <3>1. verdict = "loaded" /\ work'[q] = plan
      BY <2>1, <2>2 DEF IInv, TypeOK
    <3> QED BY <1>1, <2>1, <3>1
  <2>3. CASE q # r
    BY <2>1, <2>3 DEF IInv, TypeOK
  <2> QED BY <2>2, <2>3
<1>2. ASSUME NEW r \in Requests, BeginUpdate(r) PROVE Held \/ Current
  <2>1. PICK role, expected, verdict :
           Proceed(r, verdict,
                   [op |-> "update", role |-> role, expected |-> expected,
                    before |-> row.status, status |-> row.status, evidence |-> r])
    BY <1>2 DEF BeginUpdate
  <2> QED BY <1>1, <2>1
<1>3. ASSUME NEW r \in Requests, BeginTransition(r) PROVE Held \/ Current
  <2>1. PICK role, expected, target, verdict :
           Proceed(r, verdict,
                   [op |-> "transition", role |-> role, expected |-> expected,
                    before |-> row.status, status |-> target,
                    evidence |-> row.evidence])
    BY <1>3 DEF BeginTransition
  <2> QED BY <1>1, <2>1
<1>4. ASSUME NEW r \in Requests, BeginDelete(r) PROVE Held \/ Current
  <2>1. PICK role, verdict :
           Proceed(r, verdict,
                   [op |-> "delete", role |-> role, expected |-> 0,
                    before |-> row.status, status |-> row.status,
                    evidence |-> row.evidence])
    BY <1>4 DEF BeginDelete
  <2> QED BY <1>1, <2>1
<1>5. ASSUME NEW r \in Requests, Create(r) PROVE FALSE
  <2>1. pc[q] = "loaded"
    BY <1>5 DEF Create, Goto, IInv, TypeOK
  <2> QED BY <1>5, <2>1 DEF Create, IInv, AllJudged, Judged
<1>6. ASSUME NEW r \in Requests, Save(r) PROVE FALSE
  <2>1. pc[q] = "loaded" /\ work'[q] = work[q]
    BY <1>6 DEF Save, Goto, IInv, TypeOK
  <2>2. work[q].expected <= row.version /\ work[q].expected \in Nat
    BY <2>1, QuotedIsCommitted
  <2>3. row.version \in Nat /\ row'.version = row.version + 1
    BY <1>6, SavedRow
  <2> QED BY <2>1, <2>2, <2>3 DEF Matches
<1>7. ASSUME NEW r \in Requests, Remove(r) PROVE FALSE
  BY <1>7 DEF Remove, Matches, IInv, TypeOK
<1>8. ASSUME NEW r \in Requests,
             \/ Refuse(r) \/ LoadMissing(r) \/ CreateInvalid(r) \/ CreateDuplicate(r)
             \/ SaveConflict(r) \/ RemoveMissing(r) \/ Audit(r) \/ AuditFails(r)
             \/ Reload(r) \/ Abort(r)
      PROVE  Held
  <2>1. PICK answer \in Labels \ {"loaded"} : pc' = [pc EXCEPT ![r] = answer]
    BY <1>8 DEF Refuse, LoadMissing, CreateInvalid, CreateDuplicate, SaveConflict,
       RemoveMissing, Audit, AuditFails, Reload, Abort, Goto, AfterAudit,
       AfterAuditError, Labels, InFlight, Answers, Refusals
  <2>2. UNCHANGED <<row, work>>
    BY <1>8 DEF Refuse, LoadMissing, CreateInvalid, CreateDuplicate, SaveConflict,
       RemoveMissing, Audit, AuditFails, Reload, Abort
  <2> QED BY <2>1, <2>2 DEF IInv, TypeOK
<1>9. ASSUME Crash PROVE Held
  BY <1>9 DEF Crash, IInv, TypeOK, InFlight
<1>10. ASSUME UNCHANGED vars PROVE Held
  BY <1>10 DEF vars
<1>11. Held => Current
  BY DEF ReadStillCurrent, Matches
<1> HIDE DEF Held, Current
<1>12. Held \/ Current
  BY <1>2, <1>3, <1>4, <1>5, <1>6, <1>7, <1>8, <1>9, <1>10
  DEF Next, Receive, Serve, Idle
<1> QED BY <1>11, <1>12 DEF Current

(***************************************************************************)
(* A save that quotes the version of the row writes what it read: no gate,  *)
(* no step of the status graph and no column is decided on stale data.      *)
(***************************************************************************)
THEOREM SavesAreCurrent ==
    ASSUME Lookahead = 0
    PROVE  Spec => []ReadStillCurrent
<1>1. Init => ReadStillCurrent
  BY InitCurrent
<1>2. IInv /\ ReadStillCurrent /\ [Next]_vars => ReadStillCurrent'
  BY NextCurrent
<1> QED BY <1>1, <1>2, Invariance, PTL DEF Spec

----------------------------------------------------------------------------
(* What a save does, given that it is current *)

(* A save edits a row that is not locked, or moves it as its verdict allowed. *)
LEMMA SaveIsLegal ==
    ASSUME IInv, ReadStillCurrent, NEW r \in Requests, Save(r)
    PROVE  \/ /\ row.status \notin Policy.editLocked
              /\ row' = [row EXCEPT !.evidence = r, !.version = row.version + 1]
              /\ row'.status = row.status
           \/ /\ TransitionVerdict(Policy, row.status, row'.status, work[r].role) = "loaded"
              /\ work[r].role \in Callers /\ RequireMinimumRole("operator", work[r].role)
              /\ row' = [row EXCEPT !.status = row'.status, !.version = row.version + 1]
              /\ row'.evidence = row.evidence
<1>1. /\ Judged(r) /\ work[r].op \in {"update", "transition"}
      /\ row'.status = work[r].status /\ row'.evidence = work[r].evidence
      /\ row' = [row EXCEPT !.status = work[r].status, !.evidence = work[r].evidence,
                            !.version = row.version + 1]
  BY SavedRow
<1>2. /\ work[r].before = row.status
      /\ work[r].op = "transition" => work[r].evidence = row.evidence
  BY DEF ReadStillCurrent, Save
<1>3. row \in [state : {"none", "live", "deleted"}, status : Marks,
               version : Nat, evidence : Authors]
  BY DEF IInv, TypeOK
<1>4. CASE PassedUpdate(r)
  <2>1. row.status \notin Policy.editLocked /\ row'.status = row.status /\ row'.evidence = r
    BY <1>1, <1>2, <1>4 DEF PassedUpdate
  <2>2. row' = [row EXCEPT !.evidence = r, !.version = row.version + 1]
    BY <1>1, <1>2, <1>3, <1>4 DEF PassedUpdate
  <2> QED BY <2>1, <2>2
<1>5. CASE PassedTransition(r)
  <2>1. /\ TransitionVerdict(Policy, row.status, row'.status, work[r].role) = "loaded"
        /\ work[r].role \in Callers /\ RequireMinimumRole("operator", work[r].role)
        /\ row'.evidence = row.evidence
    BY <1>1, <1>2, <1>5 DEF PassedTransition
  <2>2. row' = [row EXCEPT !.status = row'.status, !.version = row.version + 1]
    BY <1>1, <1>2, <1>3, <1>5 DEF PassedTransition
  <2> QED BY <2>1, <2>2
<1> QED BY <1>1, <1>4, <1>5 DEF Judged, PassedDelete

LEMMA RemovedRow ==
    ASSUME IInv, NEW r \in Requests, Remove(r)
    PROVE  /\ row.state = "live" /\ row' = [row EXCEPT !.state = "deleted"]
           /\ row'.status = row.status /\ row'.evidence = row.evidence
BY DEF Remove, IInv, TypeOK

LEMMA StepReviewed ==
    ASSUME IInv, ReadStillCurrent, [Next]_vars
    PROVE  ReviewedIfGated
<1>1. ASSUME NEW r \in Requests, Save(r) PROVE ReviewedIfGated
  <2>1. Saves(r)
    BY <1>1 DEF Save, Saves, Goto, IInv, TypeOK
  <2>2. ASSUME TransitionVerdict(Policy, row.status, row'.status, work[r].role) = "loaded",
               {row.status, row'.status} \cap Policy.reviewOnly # {}
        PROVE  work[r].role \in {"reviewer", "admin"}
    BY <2>2 DEF TransitionVerdict, Gated, canReview
  <2> QED
    BY <1>1, <2>1, <2>2, SaveIsLegal DEF ReviewedIfGated
<1>2. ASSUME NEW r \in Requests, Create(r) PROVE ReviewedIfGated
  BY <1>2 DEF Create, ReviewedIfGated
<1>3. ASSUME NEW r \in Requests, Remove(r) PROVE ReviewedIfGated
  BY <1>3, RemovedRow DEF ReviewedIfGated
<1> QED
  BY <1>1, <1>2, <1>3, WhoWrites DEF ReviewedIfGated

(***************************************************************************)
(* Colour proofs are accepted or rejected, batches released and decisions   *)
(* taken or withdrawn by a reviewer or an admin alone, whatever runs beside *)
(* their requests.                                                          *)
(***************************************************************************)
THEOREM OnlyReviewersRelease ==
    ASSUME Lookahead = 0
    PROVE  Spec => ReviewGate
<1>1. IInv /\ ReadStillCurrent /\ [Next]_vars => [ReviewedIfGated]_vars
  BY StepReviewed
<1> QED BY <1>1, Invariance, SavesAreCurrent, PTL DEF Spec, ReviewGate

LEMMA StepKeepsResolved ==
    ASSUME IInv, ReadStillCurrent, [Next]_vars
    PROVE  ResolvedContentKept
<1>1. ASSUME NEW r \in Requests, Save(r) PROVE ResolvedContentKept
  BY <1>1, SaveIsLegal DEF ResolvedContentKept
<1>2. ASSUME NEW r \in Requests, Create(r) PROVE ResolvedContentKept
  BY <1>2 DEF Create, ResolvedContentKept
<1>3. ASSUME NEW r \in Requests, Remove(r) PROVE ResolvedContentKept
  BY <1>3, RemovedRow DEF ResolvedContentKept
<1> QED
  BY <1>1, <1>2, <1>3, WhoWrites DEF ResolvedContentKept

(***************************************************************************)
(* The content of a released or quarantined decision is never overwritten   *)
(* while clients quote committed versions: the check on the status that     *)
(* Update read and the version it compares later agree.                     *)
(***************************************************************************)
THEOREM ResolvedDecisionsKeepContent ==
    ASSUME Lookahead = 0
    PROVE  Spec => ResolvedDecisionImmutable
<1>1. IInv /\ ReadStillCurrent /\ [Next]_vars => [ResolvedContentKept]_vars
  BY StepKeepsResolved
<1> QED BY <1>1, Invariance, SavesAreCurrent, PTL DEF Spec, ResolvedDecisionImmutable

----------------------------------------------------------------------------
(* Refinement: the row is an atomic record *)

LEMMA InitAtomic == Init => Atomic!Init
BY DEF Init, Atomic!Init, NoRow, SeededRow

(* Every step of the row is a step of the atomic record, or leaves it alone. *)
LEMMA StepAtomic ==
    ASSUME IInv, ReadStillCurrent, [Next]_vars
    PROVE  [Atomic!Next]_row
<1>1. ASSUME NEW r \in Requests, Create(r) PROVE Atomic!Next
  <2>1. Atomic!Appear(r)
    BY <1>1 DEF Create, Created, Atomic!Appear
  <2> QED BY <2>1 DEF Atomic!Next
<1>2. ASSUME NEW r \in Requests, Save(r) PROVE Atomic!Next
  <2>1. row.state = "live"
    BY <1>2, SavedRow
  <2>2. CASE /\ row.status \notin Policy.editLocked
             /\ row' = [row EXCEPT !.evidence = r, !.version = row.version + 1]
    <3>1. Atomic!Edit(r)
      BY <2>1, <2>2 DEF Atomic!Edit
    <3> QED BY <3>1 DEF Atomic!Next
  <2>3. CASE /\ TransitionVerdict(Policy, row.status, row'.status, work[r].role) = "loaded"
             /\ work[r].role \in Callers /\ RequireMinimumRole("operator", work[r].role)
             /\ row' = [row EXCEPT !.status = row'.status, !.version = row.version + 1]
    <3>1. CanTransition(Policy.moves, row.status, row'.status) /\ row'.status \in Statuses
      BY <2>3, VerdictInGraph
    <3>2. work[r].role \in {"operator", "reviewer", "admin"}
      BY <2>3, CallersAssumption DEF RequireMinimumRole, Roles, roleRank
    <3>3. {row.status, row'.status} \cap Policy.reviewOnly # {} => work[r].role # "operator"
      BY <2>3 DEF TransitionVerdict, Gated, canReview
    <3>4. Atomic!Move(work[r].role, row'.status)
      BY <2>1, <2>3, <3>1, <3>2, <3>3 DEF Atomic!Move, CanTransition
    <3> QED BY <2>3, <3>1, <3>4 DEF Atomic!Next, Statuses
  <2> QED BY <1>2, <2>2, <2>3, SaveIsLegal
<1>3. ASSUME NEW r \in Requests, Remove(r) PROVE Atomic!Next
  BY <1>3, RemovedRow DEF Atomic!Next, Atomic!Vanish
<1> QED BY <1>1, <1>2, <1>3, WhoWrites

(***************************************************************************)
(* A resource served by interleaved read-judge-write requests behaves, for  *)
(* clients that quote committed versions, as the record of AtomicRecord.    *)
(***************************************************************************)
THEOREM Refinement ==
    ASSUME Lookahead = 0
    PROVE  Spec => AtomicRow
<1>1. Init => Atomic!Init
  BY InitAtomic
<1>2. IInv /\ ReadStillCurrent /\ [Next]_vars => [Atomic!Next]_row
  BY StepAtomic
<1> QED BY <1>1, <1>2, Invariance, SavesAreCurrent, PTL DEF Spec, AtomicRow, Atomic!Spec
=============================================================================
