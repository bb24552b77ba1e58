-------------------------- MODULE RecordTraceProofs --------------------------
(***************************************************************************)
(* Theorems about the traces that the requests of RecordService leave: who  *)
(* wins a version, what a conflict says, what the audit log holds of those  *)
(* that were answered with success, and nothing of those that were refused. *)
(***************************************************************************)
EXTENDS RecordServiceProofs

----------------------------------------------------------------------------
(* The steps of a request, by what they do to it *)

(* Request r is answered and writes nothing. *)
AnsweredWith(r, answers) ==
    /\ \E answer \in answers : pc' = [pc EXCEPT ![r] = answer]
    /\ UNCHANGED <<row, revisions, audits, work>>

(* Request r has judged the row and goes on to write. *)
Planned(r) ==
    /\ pc' = [pc EXCEPT ![r] = "loaded"]
    /\ \E plan :
          /\ work' = [work EXCEPT ![r] = plan]
          /\ plan.op \in {"update", "transition", "delete"}
          /\ plan.evidence \in {r, row.evidence}
    /\ UNCHANGED <<row, revisions, audits>>

EarlyAnswers == {"forbidden", "business_rule", "record_locked", "not_found", "internal_error"}

(* A verdict that is not "loaded" is an answer; the plan is then dropped. *)
LEMMA ProceedAnswersOrPlans ==
    ASSUME NEW r \in Requests, NEW verdict \in {"loaded"} \cup EarlyAnswers, NEW plan,
           Proceed(r, verdict, plan),
           plan.op \in {"update", "transition", "delete"},
           plan.evidence \in {r, row.evidence}
    PROVE  AnsweredWith(r, EarlyAnswers) \/ Planned(r)
<1>1. CASE verdict = "loaded"
  BY <1>1 DEF Proceed, Goto, Planned
<1>2. CASE verdict # "loaded"
  BY <1>2 DEF Proceed, Goto, AnsweredWith
<1> QED BY <1>1, <1>2

(* A new request is answered at once, goes on to write, or creates the row. *)
LEMMA Received ==
    ASSUME NEW r \in Requests, Receive(r)
    PROVE  /\ pc[r] = "new"
           /\ AnsweredWith(r, EarlyAnswers) \/ Planned(r) \/ Create(r)
<1>1. CASE Refuse(r) \/ LoadMissing(r) \/ CreateInvalid(r) \/ CreateDuplicate(r)
  BY <1>1 DEF Refuse, LoadMissing, CreateInvalid, CreateDuplicate, Goto,
     AnsweredWith, EarlyAnswers
<1>2. CASE Create(r)
  BY <1>2 DEF Create
<1>3. CASE BeginUpdate(r)
  <2>1. PICK role \in Callers, expected \in Quotable, valid \in BOOLEAN :
           Proceed(r, UpdateVerdict(Policy, row.status, valid),
                   [op |-> "update", role |-> role, expected |-> expected,
                    before |-> row.status, status |-> row.status, evidence |-> r])
    BY <1>3 DEF BeginUpdate
  <2>2. UpdateVerdict(Policy, row.status, valid) \in {"loaded"} \cup EarlyAnswers
    BY DEF UpdateVerdict, EarlyAnswers
  <2>3. AnsweredWith(r, EarlyAnswers) \/ Planned(r)
    BY <2>1, <2>2, ProceedAnswersOrPlans
  <2> QED BY <1>3, <2>3 DEF BeginUpdate
<1>4. CASE BeginTransition(r)
  <2>1. PICK role \in Callers, expected \in Quotable, target \in Statuses \cup {"unknown"} :
           Proceed(r, TransitionVerdict(Policy, row.status, target, role),
                   [op |-> "transition", role |-> role, expected |-> expected,
                    before |-> row.status, status |-> target,
                    evidence |-> row.evidence])
    BY <1>4 DEF BeginTransition
  <2> DEFINE verdict == TransitionVerdict(Policy, row.status, target, role)
             plan == [op |-> "transition", role |-> role, expected |-> expected,
                      before |-> row.status, status |-> target,
                      evidence |-> row.evidence]
  <2>2. verdict \in {"loaded"} \cup EarlyAnswers
    BY DEF TransitionVerdict, EarlyAnswers
  <2>3. plan.op = "transition" /\ plan.evidence = row.evidence
    OBVIOUS
  <2>4. Proceed(r, verdict, plan)
    BY <2>1
  <2> HIDE DEF verdict, plan
  <2>5. AnsweredWith(r, EarlyAnswers) \/ Planned(r)
    BY <2>2, <2>3, <2>4, ProceedAnswersOrPlans
  <2> QED BY <1>4, <2>5 DEF BeginTransition
<1>5. CASE BeginDelete(r)
  <2>1. PICK role \in Callers :
           Proceed(r, DeleteVerdict(Policy, row.status),
                   [op |-> "delete", role |-> role, expected |-> 0,
                    before |-> row.status, status |-> row.status,
                    evidence |-> row.evidence])
    BY <1>5 DEF BeginDelete
  <2>2. DeleteVerdict(Policy, row.status) \in {"loaded"} \cup EarlyAnswers
    BY DEF DeleteVerdict, EarlyAnswers
  <2>3. AnsweredWith(r, EarlyAnswers) \/ Planned(r)
    BY <2>1, <2>2, ProceedAnswersOrPlans
  <2> QED BY <1>5, <2>3 DEF BeginDelete
<1> QED BY <1>1, <1>2, <1>3, <1>4, <1>5 DEF Receive

(* Every step, by what it does to requests. *)
LEMMA StepCases ==
    ASSUME [Next]_vars
    PROVE  \/ \E r \in Requests :
                 \/ pc[r] = "new" /\ AnsweredWith(r, EarlyAnswers)
                 \/ pc[r] = "new" /\ Planned(r)
                 \/ Create(r) \/ Save(r) \/ Remove(r) \/ SaveConflict(r)
                 \/ Audit(r) \/ AuditFails(r)
                 \/ pc[r] \in {"new", "loaded", "audited"}
                      /\ AnsweredWith(r, {"not_found", "internal_error"})
                 \/ pc[r] = "audited" /\ AnsweredWith(r, {"ok"})
           \/ Crash
           \/ UNCHANGED vars
<1>1. ASSUME NEW r \in Requests, RemoveMissing(r) \/ Abort(r) \/ Reload(r)
      PROVE  \/ /\ pc[r] \in {"new", "loaded", "audited"}
                /\ AnsweredWith(r, {"not_found", "internal_error"})
             \/ pc[r] = "audited" /\ AnsweredWith(r, {"ok"})
  BY <1>1 DEF RemoveMissing, Abort, Reload, Goto, AnsweredWith
<1>2. ASSUME NEW r \in Requests, Receive(r) \/ Serve(r) \/ Abort(r)
      PROVE  \/ pc[r] = "new" /\ AnsweredWith(r, EarlyAnswers)
             \/ pc[r] = "new" /\ Planned(r)
             \/ Create(r) \/ Save(r) \/ Remove(r) \/ SaveConflict(r)
             \/ Audit(r) \/ AuditFails(r)
             \/ pc[r] \in {"new", "loaded", "audited"}
                  /\ AnsweredWith(r, {"not_found", "internal_error"})
             \/ pc[r] = "audited" /\ AnsweredWith(r, {"ok"})
  BY <1>1, <1>2, Received DEF Serve
<1> QED BY <1>2 DEF Next, Idle

(* Versions, revisions and audit rows only grow; what is deleted stays so. *)
LEMMA HistoryGrows ==
    ASSUME IInv, [Next]_vars
    PROVE  /\ row.version \in Nat /\ row'.version \in Nat
           /\ row.version <= row'.version
           /\ row.state = "deleted" => row'.state = "deleted"
           /\ revisions \subseteq revisions' /\ audits \subseteq audits'
<1>1. row.version \in Nat /\ row'.version \in Nat
  BY NextIInv DEF IInv, TypeOK
<1>2. ASSUME NEW r \in Requests, Create(r)
      PROVE  row.version <= row'.version /\ row.state # "deleted"
  BY <1>1, <1>2 DEF Create, Created, IInv, RowShape, NoRow
<1>3. ASSUME NEW r \in Requests, Save(r)
      PROVE  row.version <= row'.version /\ row.state # "deleted"
  <2>1. row.state = "live" /\ row'.version = row.version + 1
    BY <1>3, SavedRow
  <2> QED BY <1>1, <2>1
<1>4. ASSUME NEW r \in Requests, Remove(r)
      PROVE  row.version <= row'.version /\ row.state # "deleted"
  BY <1>1, <1>4 DEF Remove, IInv, TypeOK
<1>5. /\ row.version <= row'.version
      /\ row.state = "deleted" => row'.state = "deleted"
  BY <1>1, <1>2, <1>3, <1>4, WhoWrites
<1>6. revisions \subseteq revisions'
  BY WhoWrites DEF Create, Save, Remove, RevisionsWith
<1>7. audits \subseteq audits'
  BY StepCases DEF AnsweredWith, Planned, Create, Save, Remove, SaveConflict,
     Audit, AuditFails, Crash, vars
<1> QED BY <1>1, <1>5, <1>6, <1>7

----------------------------------------------------------------------------
(* One winner for each version *)

(* Whoever was accepted quoted a version that the row has left. *)
Winning == \A r \in Requests : Accepted(r) => work[r].expected < row.version

(* Only a save makes an accepted request. *)
LEMMA AcceptedBySave ==
    ASSUME IInv, [Next]_vars, NEW q \in Requests, Accepted(q)', ~Save(q)
    PROVE  Accepted(q) /\ work'[q] = work[q]
<1> DEFINE Same == Accepted(q) /\ work'[q] = work[q]
<1>1. /\ work'[q].op \in {"update", "transition"}
      /\ pc'[q] \in {"written", "audited", "ok"}
  BY DEF Accepted
<1>2. ASSUME NEW r \in Requests, AnsweredWith(r, EarlyAnswers) PROVE Same
  BY <1>1, <1>2 DEF AnsweredWith, EarlyAnswers, Accepted, IInv, TypeOK
<1>3. ASSUME NEW r \in Requests, Planned(r) PROVE Same
  BY <1>1, <1>3 DEF Planned, Accepted, IInv, TypeOK
<1>4. ASSUME NEW r \in Requests, Create(r) PROVE Same
  BY <1>1, <1>4 DEF Create, Goto, Accepted, IInv, TypeOK
<1>5. ASSUME NEW r \in Requests, Save(r) PROVE Same
  BY <1>1, <1>5 DEF Save, Goto, Accepted, IInv, TypeOK
<1>6. ASSUME NEW r \in Requests, Remove(r) PROVE Same
  BY <1>1, <1>6 DEF Remove, Goto, Accepted, IInv, TypeOK
<1>7. ASSUME NEW r \in Requests, SaveConflict(r) PROVE Same
  BY <1>1, <1>7 DEF SaveConflict, Goto, Accepted, IInv, TypeOK
<1>8. ASSUME NEW r \in Requests, Audit(r) \/ AuditFails(r) PROVE Same
  BY <1>1, <1>8 DEF Audit, AuditFails, Goto, Accepted, IInv, TypeOK
<1>9. ASSUME NEW r \in Requests, AnsweredWith(r, {"not_found", "internal_error"}) PROVE Same
  BY <1>1, <1>9 DEF AnsweredWith, Accepted, IInv, TypeOK
<1>10. ASSUME NEW r \in Requests, pc[r] = "audited", AnsweredWith(r, {"ok"}) PROVE Same
  BY <1>1, <1>10 DEF AnsweredWith, Accepted, IInv, TypeOK
<1>11. ASSUME Crash PROVE Same
  BY <1>1, <1>11 DEF Crash, Accepted, IInv, TypeOK
<1>12. ASSUME UNCHANGED vars PROVE Same
  BY <1>1, <1>12 DEF vars, Accepted
<1> HIDE DEF Same
<1>13. Same
  BY <1>2, <1>3, <1>4, <1>5, <1>6, <1>7, <1>8, <1>9, <1>10, <1>11, <1>12, StepCases
<1> QED BY <1>13 DEF Same

LEMMA NextWinner ==
    ASSUME IInv, Winning, OneWinner, [Next]_vars
    PROVE  Winning' /\ OneWinner'
<1>1. ASSUME NEW q \in Requests, Accepted(q)'
      PROVE  /\ work'[q].expected \in Nat
             /\ work'[q].expected < row'.version
             /\ \/ Accepted(q) /\ work'[q].expected < row.version
                \/ Save(q) /\ work'[q].expected = row.version
  <2>1. CASE Save(q)
    <3>1. /\ row.version \in Nat /\ row.version = work[q].expected
          /\ row'.version = row.version + 1
      BY <2>1, SavedRow
    <3>2. work'[q].expected = work[q].expected
      BY <2>1 DEF Save
    <3> QED BY <2>1, <3>1, <3>2
  <2>2. CASE ~Save(q)
    <3>1. Accepted(q) /\ work'[q] = work[q]
      BY <1>1, <2>2, AcceptedBySave
    <3>2. work[q].expected \in Nat
      BY DEF IInv, TypeOK
    <3> QED BY <3>1, <3>2, HistoryGrows DEF Winning
  <2> QED BY <2>1, <2>2
<1>2. Winning'
  BY <1>1 DEF Winning
<1>3. ASSUME NEW r \in Requests, NEW q \in Requests, Accepted(r)', Accepted(q)',
             work'[r].expected = work'[q].expected
      PROVE  r = q
  <2>1. CASE Save(r) /\ Save(q)
    BY <2>1 DEF Save, Goto, IInv, TypeOK
  <2>2. CASE ~Save(r) /\ ~Save(q)
    <3>1. /\ Accepted(r) /\ work'[r] = work[r]
          /\ Accepted(q) /\ work'[q] = work[q]
      BY <1>3, <2>2, AcceptedBySave
    <3> QED BY <1>3, <3>1 DEF OneWinner
  <2>3. ASSUME NEW winner \in Requests, NEW other \in Requests,
               Save(winner), ~Save(other), Accepted(winner)', Accepted(other)',
               work'[winner].expected = work'[other].expected
        PROVE  FALSE
    <3>1. row.version = work[winner].expected /\ work'[winner] = work[winner]
      BY <2>3, SavedRow DEF Save
    <3>2. Accepted(other) /\ work'[other] = work[other]
      BY <2>3, AcceptedBySave
    <3>3. work[other].expected < row.version /\ row.version \in Nat
      BY <3>2 DEF Winning, IInv, TypeOK
    <3> QED BY <2>3, <3>1, <3>2, <3>3
  <2> QED BY <1>3, <2>1, <2>2, <2>3
<1>4. OneWinner'
  BY <1>3 DEF OneWinner
<1> QED BY <1>2, <1>4

LEMMA AlwaysWinning == Spec => [](Winning /\ OneWinner)
<1>1. Init => Winning /\ OneWinner
  BY DEF Init, Winning, OneWinner, Accepted, NoWork
<1>2. IInv /\ Winning /\ OneWinner /\ [Next]_vars => Winning' /\ OneWinner'
  BY NextWinner
<1> QED BY <1>1, <1>2, Invariance, PTL DEF Spec

(***************************************************************************)
(* Optimistic locking: of all requests that ever quote one version of a row *)
(* at most one is accepted, also when some quote a version not made yet.    *)
(***************************************************************************)
THEOREM OneWinnerPerVersion == Spec => []OneWinner
BY AlwaysWinning, PTL

----------------------------------------------------------------------------
(* What a conflict says *)

(* Whom SaveConflict refuses, the row has left behind. *)
LEMMA ConflictIsTrue ==
    ASSUME Lookahead = 0, IInv, NEW r \in Requests, SaveConflict(r)
    PROVE  row.state = "deleted" \/ row.version > work[r].expected
<1>1. /\ pc[r] = "loaded" /\ work[r].op \in {"update", "transition"}
      /\ row.state # "live" \/ row.version # work[r].expected
  BY DEF SaveConflict, Matches
<1>2. row.state \in {"live", "deleted"}
  BY <1>1 DEF IInv, TypeOK, AllJudged, Judged
<1>3. work[r].expected <= row.version /\ work[r].expected \in Nat
  BY <1>1, QuotedIsCommitted
<1>4. row.version \in Nat
  BY DEF IInv, TypeOK
<1> QED BY <1>1, <1>2, <1>3, <1>4

(* Nobody but SaveConflict answers with a conflict. *)
LEMMA ConflictBySave ==
    ASSUME IInv, [Next]_vars, NEW q \in Requests, pc'[q] = "version_conflict"
    PROVE  /\ pc[q] = "version_conflict" \/ SaveConflict(q)
           /\ work'[q] = work[q]
<1> DEFINE Same    == pc[q] = "version_conflict" /\ work'[q] = work[q]
           Refused == SaveConflict(q) /\ work'[q] = work[q]
<1>1. ASSUME NEW r \in Requests, AnsweredWith(r, EarlyAnswers) PROVE Same
  BY <1>1 DEF AnsweredWith, EarlyAnswers, IInv, TypeOK
<1>2. ASSUME NEW r \in Requests, Planned(r), pc[r] = "new" PROVE Same
  BY <1>2 DEF Planned, IInv, TypeOK
<1>3. ASSUME NEW r \in Requests, Create(r) PROVE Same
  BY <1>3 DEF Create, Goto, IInv, TypeOK
<1>4. ASSUME NEW r \in Requests, Save(r) PROVE Same
  BY <1>4 DEF Save, Goto, IInv, TypeOK
<1>5. ASSUME NEW r \in Requests, Remove(r) PROVE Same
  BY <1>5 DEF Remove, Goto, IInv, TypeOK
<1>6. ASSUME NEW r \in Requests, SaveConflict(r) PROVE Same \/ Refused
  BY <1>6 DEF SaveConflict, Goto, IInv, TypeOK
<1>7. ASSUME NEW r \in Requests, Audit(r) \/ AuditFails(r) PROVE Same
  BY <1>7 DEF Audit, AuditFails, Goto, AfterAudit, AfterAuditError, IInv, TypeOK
<1>8. ASSUME NEW r \in Requests, AnsweredWith(r, {"not_found", "internal_error"}) PROVE Same
  BY <1>8 DEF AnsweredWith, IInv, TypeOK
<1>9. ASSUME NEW r \in Requests, AnsweredWith(r, {"ok"}) PROVE Same
  BY <1>9 DEF AnsweredWith, IInv, TypeOK
<1>10. ASSUME Crash PROVE Same
  BY <1>10 DEF Crash, IInv, TypeOK
<1>11. ASSUME UNCHANGED vars PROVE Same
  BY <1>11 DEF vars
<1> HIDE DEF Same, Refused
<1>12. Same \/ Refused
  BY <1>1, <1>2, <1>3, <1>4, <1>5, <1>6, <1>7, <1>8, <1>9, <1>10, <1>11, StepCases
<1> QED BY <1>12 DEF Same, Refused

LEMMA NextConflict ==
    ASSUME Lookahead = 0, IInv, ConflictMeansMoved, [Next]_vars
    PROVE  ConflictMeansMoved'
<1> SUFFICES ASSUME NEW q \in Requests, pc'[q] = "version_conflict"
             PROVE  row'.state = "deleted" \/ row'.version > work'[q].expected
  BY DEF ConflictMeansMoved
<1>1. row.state = "deleted" \/ row.version > work[q].expected
  BY ConflictBySave, ConflictIsTrue DEF ConflictMeansMoved
<1>2. work'[q] = work[q] /\ work[q].expected \in Nat
  BY ConflictBySave DEF IInv, TypeOK
<1> QED BY <1>1, <1>2, HistoryGrows

(***************************************************************************)
(* "record changed; refresh and retry": for clients that quote committed    *)
(* versions a conflict is never answered while the version they quoted is   *)
(* still the one of a live row, so that refreshing always helps.            *)
(***************************************************************************)
THEOREM ConflictsAreReal ==
    ASSUME Lookahead = 0
    PROVE  Spec => []ConflictMeansMoved
<1>1. Init => ConflictMeansMoved
  BY DEF Init, ConflictMeansMoved
<1>2. IInv /\ ConflictMeansMoved /\ [Next]_vars => ConflictMeansMoved'
  BY NextConflict
<1> QED BY <1>1, <1>2, Invariance, PTL DEF Spec

----------------------------------------------------------------------------
(* The audit log of those answered with success *)

(* From the moment the audit row is written: AckedIsAudited is not inductive *)
(* because the answer comes later, after the row has been read again.       *)
Logged(r) ==
    pc[r] \in {"audited", "ok"} /\ work[r].op \in {"transition", "delete"} =>
        AuditEntry(r) \in audits

AllLogged == \A r \in Requests : Logged(r)

LEMMA NextLogged ==
    ASSUME IInv, AllLogged, [Next]_vars
    PROVE  AllLogged'
<1> SUFFICES ASSUME NEW q \in Requests,
                    pc'[q] \in {"audited", "ok"}, work'[q].op \in {"transition", "delete"}
             PROVE  AuditEntry(q)' \in audits'
  BY DEF AllLogged, Logged
<1> DEFINE Before == pc[q] \in {"audited", "ok"} /\ work'[q] = work[q]
           Now    == work'[q] = work[q] /\ AuditEntry(q) \in audits'
<1>1. ASSUME NEW r \in Requests, AnsweredWith(r, EarlyAnswers) PROVE Before
  BY <1>1 DEF AnsweredWith, EarlyAnswers, IInv, TypeOK
<1>2. ASSUME NEW r \in Requests, Planned(r) PROVE Before
  BY <1>2 DEF Planned, IInv, TypeOK
<1>3. ASSUME NEW r \in Requests, Create(r) PROVE Before
  BY <1>3 DEF Create, Goto, IInv, TypeOK
<1>4. ASSUME NEW r \in Requests, Save(r) PROVE Before
  BY <1>4 DEF Save, Goto, IInv, TypeOK
<1>5. ASSUME NEW r \in Requests, Remove(r) PROVE Before
  BY <1>5 DEF Remove, Goto, IInv, TypeOK
<1>6. ASSUME NEW r \in Requests, SaveConflict(r) PROVE Before
  BY <1>6 DEF SaveConflict, Goto, IInv, TypeOK
<1>7. ASSUME NEW r \in Requests, Audit(r) PROVE Before \/ Now
  BY <1>7 DEF Audit, Goto, IInv, TypeOK
<1>8. ASSUME NEW r \in Requests, AuditFails(r) PROVE Before
  BY <1>8 DEF AuditFails, Goto, AfterAuditError, IInv, TypeOK
<1>9. ASSUME NEW r \in Requests, AnsweredWith(r, {"not_found", "internal_error"}) PROVE Before
  BY <1>9 DEF AnsweredWith, IInv, TypeOK
<1>10. ASSUME NEW r \in Requests, pc[r] = "audited", AnsweredWith(r, {"ok"}) PROVE Before
  BY <1>10 DEF AnsweredWith, IInv, TypeOK
<1>11. ASSUME Crash PROVE Before
  BY <1>11 DEF Crash, IInv, TypeOK
<1>12. ASSUME UNCHANGED vars PROVE Before
  BY <1>12 DEF vars
<1>13. Before => Now
  BY HistoryGrows DEF AllLogged, Logged
<1>14. Now => AuditEntry(q)' \in audits'
  BY DEF AuditEntry
<1> HIDE DEF Before, Now
<1> QED
  BY <1>1, <1>2, <1>3, <1>4, <1>5, <1>6, <1>7, <1>8, <1>9, <1>10, <1>11, <1>12,
     <1>13, <1>14, StepCases

LEMMA AlwaysLogged == Spec => []AllLogged
<1>1. Init => AllLogged
  BY DEF Init, AllLogged, Logged
<1>2. IInv /\ AllLogged /\ [Next]_vars => AllLogged'
  BY NextLogged
<1> QED BY <1>1, <1>2, Invariance, PTL DEF Spec

(***************************************************************************)
(* A transition or deletion answered with success is in the audit log with  *)
(* the statuses it read and left, whatever fails or is written meanwhile.   *)
(***************************************************************************)
THEOREM SuccessIsAudited == Spec => []AckedIsAudited
<1>1. AllLogged => AckedIsAudited
  BY DEF AllLogged, Logged, AckedIsAudited
<1> QED BY <1>1, AlwaysLogged, PTL

----------------------------------------------------------------------------
(* Those refused *)

(***************************************************************************)
(* A request that has not written, or was refused, is nowhere to be found,  *)
(* nor in what the others are about to write.  The last conjunct makes it   *)
(* inductive: a transition writes back the content it has read.             *)
(***************************************************************************)
Quiet == {"new", "loaded"} \cup Refusals

Untraced(r) ==
    /\ row.evidence # r
    /\ \A x \in revisions : x.request # r /\ x.evidence # r
    /\ \A a \in audits : a.request # r
    /\ \A q \in Requests \ {r} : work[q].evidence # r

QuietUntraced == \A r \in Requests : pc[r] \in Quiet => Untraced(r)

(* What is written by others leaves an untraced request untraced. *)
LEMMA OthersWrite ==
    ASSUME IInv, NEW q \in Requests, Untraced(q), NEW r \in Requests, r # q,
           NEW item, NEW actor,
           revisions' \in {revisions, RevisionsWith(item, r, actor)},
           row' = item \/ row'.evidence = item.evidence,
           item.evidence # q,
           UNCHANGED audits,
           \A s \in Requests \ {r} : work'[s] = work[s],
           work'[r].evidence # q
    PROVE  Untraced(q)'
<1>1. \A x \in revisions' : x.request # q /\ x.evidence # q
  BY DEF Untraced, RevisionsWith, Revision
<1>2. row'.evidence # q
  OBVIOUS
<1>3. \A s \in Requests \ {q} : work'[s].evidence # q
  BY DEF Untraced
<1> QED BY <1>1, <1>2, <1>3 DEF Untraced

LEMMA NextUntraced ==
    ASSUME IInv, QuietUntraced, [Next]_vars
    PROVE  QuietUntraced'
<1> SUFFICES ASSUME NEW q \in Requests, pc'[q] \in Quiet PROVE Untraced(q)'
  BY DEF QuietUntraced
<1>1. ASSUME UNCHANGED <<row, revisions, audits, work>>, pc[q] \in Quiet
      PROVE  Untraced(q)'
  BY <1>1 DEF QuietUntraced, Untraced
<1>2. ASSUME NEW r \in Requests, pc[r] = "new", AnsweredWith(r, EarlyAnswers)
      PROVE  Untraced(q)'
  <2>1. pc[q] \in Quiet
    BY <1>2 DEF AnsweredWith, Quiet, IInv, TypeOK
  <2> QED BY <1>1, <1>2, <2>1 DEF AnsweredWith
<1>3. ASSUME NEW r \in Requests, pc[r] = "new", Planned(r) PROVE Untraced(q)'
  <2>1. pc[q] \in Quiet /\ Untraced(q)
    BY <1>3 DEF Planned, Quiet, IInv, TypeOK, QuietUntraced
  <2>2. /\ UNCHANGED <<row, revisions, audits>>
        /\ \A s \in Requests \ {r} : work'[s] = work[s]
        /\ work'[r].evidence \in {r, row.evidence}
    BY <1>3 DEF Planned, IInv, TypeOK
  <2> QED BY <2>1, <2>2 DEF Untraced
<1>4. ASSUME NEW r \in Requests, Create(r) PROVE Untraced(q)'
  <2>1. r # q /\ pc[q] \in Quiet /\ Untraced(q)
    BY <1>4 DEF Create, Goto, Quiet, Refusals, IInv, TypeOK, QuietUntraced
  <2>2. PICK role \in Callers : revisions' = RevisionsWith(Created(r), r, role)
    BY <1>4 DEF Create
  <2>3. row' = Created(r) /\ Created(r).evidence = r /\ UNCHANGED audits
    BY <1>4 DEF Create, Created
  <2>4. /\ \A s \in Requests \ {r} : work'[s] = work[s]
        /\ work'[r].evidence = r
    BY <1>4 DEF Create, IInv, TypeOK
  <2> QED BY <2>1, <2>2, <2>3, <2>4, OthersWrite
<1>5. ASSUME NEW r \in Requests, Save(r) PROVE Untraced(q)'
  <2>1. r # q /\ pc[q] \in Quiet /\ Untraced(q)
    BY <1>5 DEF Save, Goto, Quiet, Refusals, IInv, TypeOK, QuietUntraced
  <2>2. /\ row' = Rewritten(r) /\ revisions' = RevisionsWith(Rewritten(r), r, work[r].role)
        /\ UNCHANGED <<audits, work>>
    BY <1>5 DEF Save
  <2>3. work[r].evidence # q
    BY <2>1 DEF Untraced
  <2>4. row'.evidence = work[r].evidence
    BY <1>5, SavedRow
  <2> QED BY <2>1, <2>2, <2>3, <2>4, OthersWrite
<1>6. ASSUME NEW r \in Requests, Remove(r) PROVE Untraced(q)'
  <2>1. pc[q] \in Quiet /\ Untraced(q)
    BY <1>6 DEF Remove, Goto, Quiet, Refusals, IInv, TypeOK, QuietUntraced
  <2>2. row'.evidence = row.evidence /\ UNCHANGED <<revisions, audits, work>>
    BY <1>6, RemovedRow DEF Remove
  <2> QED BY <2>1, <2>2 DEF Untraced
<1>7. ASSUME NEW r \in Requests, SaveConflict(r) PROVE Untraced(q)'
  <2>1. pc[q] \in Quiet
    BY <1>7 DEF SaveConflict, Goto, Quiet, IInv, TypeOK
  <2> QED BY <1>1, <1>7, <2>1 DEF SaveConflict
<1>8. ASSUME NEW r \in Requests, Audit(r) \/ AuditFails(r) PROVE Untraced(q)'
  <2>1. r # q /\ pc[q] \in Quiet /\ Untraced(q)
    BY <1>8 DEF Audit, AuditFails, Goto, AfterAudit, AfterAuditError, Quiet, Refusals,
       IInv, TypeOK, QuietUntraced
  <2>2. /\ audits' \in {audits, audits \cup {AuditEntry(r)}}
        /\ UNCHANGED <<row, revisions, work>>
    BY <1>8 DEF Audit, AuditFails
  <2>3. AuditEntry(r).request = r
    BY DEF AuditEntry
  <2> QED BY <2>1, <2>2, <2>3 DEF Untraced
<1>9. ASSUME NEW r \in Requests,
             AnsweredWith(r, {"not_found", "internal_error"}) \/ AnsweredWith(r, {"ok"})
      PROVE  Untraced(q)'
  <2>1. pc[q] \in Quiet
    BY <1>9 DEF AnsweredWith, Quiet, Refusals, IInv, TypeOK
  <2> QED BY <1>1, <1>9, <2>1 DEF AnsweredWith
<1>10. ASSUME Crash PROVE Untraced(q)'
  <2>1. pc[q] \in Quiet
    BY <1>10 DEF Crash, Quiet, Refusals, IInv, TypeOK
  <2> QED BY <1>1, <1>10, <2>1 DEF Crash
<1>11. ASSUME UNCHANGED vars PROVE Untraced(q)'
  BY <1>1, <1>11 DEF vars
<1> QED
  BY <1>2, <1>3, <1>4, <1>5, <1>6, <1>7, <1>8, <1>9, <1>10, <1>11, StepCases

(***************************************************************************)
(* A request that was told it is forbidden, invalid, locked out or in       *)
(* conflict has written nothing, and nobody has written anything for it.    *)
(***************************************************************************)
THEOREM RefusalsLeaveNoTrace == Spec => []RefusedLeavesNoTrace
<1>1. Init => QuietUntraced
  BY SeederAssumption
  DEF Init, QuietUntraced, Untraced, NoRow, NoWork, SeededRow, Revision
<1>2. IInv /\ QuietUntraced /\ [Next]_vars => QuietUntraced'
  BY NextUntraced
<1>3. QuietUntraced => RefusedLeavesNoTrace
  BY DEF QuietUntraced, Untraced, Quiet, RefusedLeavesNoTrace
<1> QED BY <1>1, <1>2, <1>3, Invariance, PTL DEF Spec

----------------------------------------------------------------------------
(* What the audit log says of an edit or a move *)

(* Two consecutive revisions, the second by the request itself, say the same. *)
Explained(entry) ==
    \E x, y \in revisions :
        /\ y.version = x.version + 1 /\ y.request = entry.request
        /\ x.status = entry.before /\ y.status = entry.after

(***************************************************************************)
(* The revisions are written with the row, the audit row afterwards: in     *)
(* between, what the request is about to log is explained already.  Others  *)
(* may save meanwhile; revisions are never taken back.                      *)
(***************************************************************************)
Explicable ==
    Policy.versioned =>
        \A r \in Requests :
            pc[r] = "written" /\ work[r].op \in {"update", "transition"} =>
                Explained(AuditEntry(r))

(* A save leaves the revision it found and its own behind it. *)
LEMMA SaveExplains ==
    ASSUME IInv, RevisionChain, ReadStillCurrent, Policy.versioned,
           NEW r \in Requests, Save(r)
    PROVE  Explained(AuditEntry(r))'
<1>1. /\ row.state = "live" /\ row.version \in Nat /\ row'.version = row.version + 1
      /\ row'.status = work[r].status /\ work[r].op \in {"update", "transition"}
      /\ revisions' = RevisionsWith(row', r, work[r].role)
  BY SavedRow
<1>2. work[r].before = row.status /\ work' = work
  BY DEF ReadStillCurrent, Save
<1>3. PICK x \in revisions : x.version = row.version
  <2>1. row.version \in 1 .. row.version
    BY <1>1 DEF IInv, RowShape
  <2> QED BY <2>1 DEF RevisionChain
<1>4. x.status = row.status
  BY <1>3 DEF RevisionChain
<1> DEFINE y == Revision(row', r, work[r].role)
<1>5. x \in revisions' /\ y \in revisions'
  BY <1>1 DEF RevisionsWith
<1>6. y.version = row'.version /\ y.request = r /\ y.status = row'.status
  BY DEF Revision
<1>7. /\ AuditEntry(r)'.request = r /\ AuditEntry(r)'.before = row.status
      /\ AuditEntry(r)'.after = row'.status
  BY <1>1, <1>2 DEF AuditEntry
<1> HIDE DEF y
<1>8. y.version = x.version + 1
  BY <1>1, <1>3, <1>6
<1> QED BY <1>4, <1>5, <1>6, <1>7, <1>8 DEF Explained

(* A request gets to "written" with an edit or a move by its save alone. *)
LEMMA WrittenBySave ==
    ASSUME IInv, [Next]_vars, NEW q \in Requests,
           pc'[q] = "written", work'[q].op \in {"update", "transition"}, ~Save(q)
    PROVE  pc[q] = "written" /\ work'[q] = work[q]
<1> DEFINE Same == pc[q] = "written" /\ work'[q] = work[q]
<1>1. ASSUME NEW r \in Requests, AnsweredWith(r, EarlyAnswers) PROVE Same
  BY <1>1 DEF AnsweredWith, EarlyAnswers, IInv, TypeOK
<1>2. ASSUME NEW r \in Requests, Planned(r) PROVE Same
  BY <1>2 DEF Planned, IInv, TypeOK
<1>3. ASSUME NEW r \in Requests, Create(r) PROVE Same
  BY <1>3 DEF Create, Goto, IInv, TypeOK
<1>4. ASSUME NEW r \in Requests, Save(r) PROVE Same
  BY <1>4 DEF Save, Goto, IInv, TypeOK
<1>5. ASSUME NEW r \in Requests, Remove(r) PROVE Same
  BY <1>5 DEF Remove, Goto, IInv, TypeOK
<1>6. ASSUME NEW r \in Requests, SaveConflict(r) PROVE Same
  BY <1>6 DEF SaveConflict, Goto, IInv, TypeOK
<1>7. ASSUME NEW r \in Requests, Audit(r) \/ AuditFails(r) PROVE Same
  BY <1>7 DEF Audit, AuditFails, Goto, AfterAudit, AfterAuditError, IInv, TypeOK
<1>8. ASSUME NEW r \in Requests,
             AnsweredWith(r, {"not_found", "internal_error"}) \/ AnsweredWith(r, {"ok"})
      PROVE  Same
  BY <1>8 DEF AnsweredWith, IInv, TypeOK
<1>9. ASSUME Crash PROVE Same
  BY <1>9 DEF Crash, IInv, TypeOK
<1>10. ASSUME UNCHANGED vars PROVE Same
  BY <1>10 DEF vars
<1> HIDE DEF Same
<1>11. Same
  BY <1>1, <1>2, <1>3, <1>4, <1>5, <1>6, <1>7, <1>8, <1>9, <1>10, StepCases
<1> QED BY <1>11 DEF Same

(* The audit rows of a step are the old ones and that of a request that has *)
(* written.                                                                 *)
LEMMA WhoAudits ==
    ASSUME [Next]_vars, NEW entry \in audits'
    PROVE  \/ entry \in audits
           \/ \E r \in Requests : pc[r] = "written" /\ entry = AuditEntry(r)
BY StepCases DEF AnsweredWith, Planned, Create, Save, Remove, SaveConflict,
   Audit, AuditFails, Crash, vars

LEMMA NextExplicable ==
    ASSUME IInv, RevisionChain, ReadStillCurrent, Explicable, AuditMatchesHistory,
           [Next]_vars
    PROVE  Explicable' /\ AuditMatchesHistory'
<1> SUFFICES ASSUME Policy.versioned PROVE Explicable' /\ AuditMatchesHistory'
  BY DEF Explicable, AuditMatchesHistory
<1>1. revisions \subseteq revisions'
  BY HistoryGrows
<1>2. ASSUME NEW q \in Requests, pc'[q] = "written",
             work'[q].op \in {"update", "transition"}
      PROVE  Explained(AuditEntry(q))'
  <2>1. CASE Save(q)
    BY <2>1, SaveExplains
  <2>2. CASE ~Save(q)
    <3>1. pc[q] = "written" /\ work'[q] = work[q]
      BY <1>2, <2>2, WrittenBySave
    <3>2. Explained(AuditEntry(q))
      BY <1>2, <3>1 DEF Explicable
    <3> QED BY <1>1, <3>1, <3>2 DEF Explained, AuditEntry
  <2> QED BY <2>1, <2>2
<1>3. Explicable'
  BY <1>2 DEF Explicable
<1>4. ASSUME NEW entry \in audits', entry.action \in {"update", "transition"}
      PROVE  Explained(entry)
  <2>1. CASE entry \in audits
    BY <1>4, <2>1 DEF AuditMatchesHistory, Explained
  <2>2. ASSUME NEW r \in Requests, pc[r] = "written", entry = AuditEntry(r)
        PROVE  Explained(entry)
    <3>1. work[r].op \in {"update", "transition"}
      BY <1>4, <2>2 DEF AuditEntry
    <3> QED BY <2>2, <3>1 DEF Explicable
  <2> QED BY <2>1, <2>2, WhoAudits
<1>5. AuditMatchesHistory'
  BY <1>1, <1>4 DEF AuditMatchesHistory, Explained
<1> QED BY <1>3, <1>5

(***************************************************************************)
(* For clients that quote committed versions, every audit row of an edit or *)
(* a move of a versioned record tells what two consecutive revisions tell,  *)
(* although it is written after the commit and others may save in between.  *)
(***************************************************************************)
THEOREM AuditTellsTheHistory ==
    ASSUME Lookahead = 0
    PROVE  Spec => []AuditMatchesHistory
<1>1. Init => Explicable /\ AuditMatchesHistory
  BY DEF Init, Explicable, AuditMatchesHistory
<1>2. /\ IInv /\ RevisionChain /\ ReadStillCurrent /\ [Next]_vars
      /\ Explicable /\ AuditMatchesHistory
      => Explicable' /\ AuditMatchesHistory'
  BY NextExplicable
<1>3. Spec => []ReadStillCurrent
  BY SavesAreCurrent
<1> QED BY <1>1, <1>2, <1>3, Invariance, RevisionsAreAChain, PTL DEF Spec
=============================================================================
