------------------------- MODULE RecordReadersProofs -------------------------
(***************************************************************************)
(* Theorems about RecordReaders: what a reader is shown that reads by       *)
(* several statements while the requests of RecordService write, for every  *)
(* resource, any number of readers and writers, and any Lookahead.          *)
(***************************************************************************)
EXTENDS RecordReaders, RecordTraceProofs, FiniteSetTheorems, NaturalsInduction,
        WellFoundedInduction

----------------------------------------------------------------------------
(***************************************************************************)
(* The writers do not notice the readers, so all that is proved of them     *)
(* holds here.                                                              *)
(***************************************************************************)
LEMMA ReadersOnlyRead == [NextReaders]_allVars => [Next]_vars
BY DEF NextReaders, ReadNext, GetRow, GetMissing, Preload, CountTotal,
   CountTransitions, CountActors, GroupActions, GroupTypes, ReadFails, Step, allVars

LEMMA WritersAreServed == SpecReaders => Spec
<1>1. InitReaders => Init
  BY DEF InitReaders
<1> QED BY <1>1, ReadersOnlyRead, PTL DEF SpecReaders, Spec

----------------------------------------------------------------------------
(* What the writers keep true, beyond what RecordTraceProofs says of them *)

Written == {"written", "audited", "ok"}

(* Whoever has written has left its version behind, and its revision, or has *)
(* deleted the row.                                                         *)
Effective(r) ==
    pc[r] \in Written =>
        \/ work[r].op = "delete" /\ row.state = "deleted"
        \/ /\ work[r].op \in {"create", "update", "transition"}
           /\ work[r].expected < row.version
           /\ Policy.versioned => \E y \in revisions : y.request = r

AllEffective == \A r \in Requests : Effective(r)

(* Only a write makes a request that has written. *)
LEMMA WrittenByWrite ==
    ASSUME IInv, [Next]_vars, NEW q \in Requests, pc'[q] \in Written,
           ~Create(q), ~Save(q), ~Remove(q)
    PROVE  pc[q] \in Written /\ work'[q] = work[q]
<1> DEFINE Same == pc[q] \in Written /\ work'[q] = work[q]
<1>1. ASSUME NEW r \in Requests, AnsweredWith(r, EarlyAnswers) PROVE Same
  BY <1>1 DEF AnsweredWith, EarlyAnswers, Written, IInv, TypeOK
<1>2. ASSUME NEW r \in Requests, Planned(r) PROVE Same
  BY <1>2 DEF Planned, Written, IInv, TypeOK
<1>3. ASSUME NEW r \in Requests, Create(r) PROVE Same
  BY <1>3 DEF Create, Goto, Written, IInv, TypeOK
<1>4. ASSUME NEW r \in Requests, Save(r) PROVE Same
  BY <1>4 DEF Save, Goto, Written, IInv, TypeOK
<1>5. ASSUME NEW r \in Requests, Remove(r) PROVE Same
  BY <1>5 DEF Remove, Goto, Written, IInv, TypeOK
<1>6. ASSUME NEW r \in Requests, SaveConflict(r) PROVE Same
  BY <1>6 DEF SaveConflict, Goto, Written, IInv, TypeOK
<1>7. ASSUME NEW r \in Requests, Audit(r) \/ AuditFails(r) PROVE Same
  BY <1>7 DEF Audit, AuditFails, Goto, Written, IInv, TypeOK
<1>8. ASSUME NEW r \in Requests, AnsweredWith(r, {"not_found", "internal_error"}) PROVE Same
  BY <1>8 DEF AnsweredWith, Written, IInv, TypeOK
<1>9. ASSUME NEW r \in Requests, pc[r] = "audited", AnsweredWith(r, {"ok"}) PROVE Same
  BY <1>9 DEF AnsweredWith, Written, IInv, TypeOK
<1>10. ASSUME Crash PROVE Same
  BY <1>10 DEF Crash, Written, IInv, TypeOK
<1>11. ASSUME UNCHANGED vars PROVE Same
  BY <1>11 DEF vars
<1> HIDE DEF Same
<1>12. Same
  BY <1>1, <1>2, <1>3, <1>4, <1>5, <1>6, <1>7, <1>8, <1>9, <1>10, <1>11, StepCases
<1> QED BY <1>12 DEF Same

(* Who writes a versioned row leaves a revision. *)
LEMMA OwnRevision ==
    ASSUME NEW r, NEW item, NEW actor, Policy.versioned,
           revisions' = RevisionsWith(item, r, actor)
    PROVE  \E y \in revisions' : y.request = r
<1> DEFINE own == Revision(item, r, actor)
<1>1. own.request = r
  BY DEF Revision
<1>2. own \in revisions'
  BY DEF RevisionsWith
<1> HIDE DEF own
<1> QED BY <1>1, <1>2

LEMMA NextEffective ==
    ASSUME IInv, AllEffective, [Next]_vars
    PROVE  AllEffective'
<1> SUFFICES ASSUME NEW q \in Requests, pc'[q] \in Written
             PROVE  \/ work'[q].op = "delete" /\ row'.state = "deleted"
                    \/ /\ work'[q].op \in {"create", "update", "transition"}
                       /\ work'[q].expected < row'.version
                       /\ Policy.versioned => \E y \in revisions' : y.request = q
  BY DEF AllEffective, Effective
<1>1. CASE Create(q)
  <2>1. /\ work'[q].op = "create" /\ work'[q].expected = 0
        /\ row' = Created(q)
    BY <1>1 DEF Create, IInv, TypeOK
  <2>2. PICK role \in Callers : revisions' = RevisionsWith(Created(q), q, role)
    BY <1>1 DEF Create
  <2>3. Policy.versioned => \E y \in revisions' : y.request = q
    BY <2>2, OwnRevision
  <2> QED BY <2>1, <2>3 DEF Created
<1>2. CASE Save(q)
  <2>1. /\ work[q].op \in {"update", "transition"} /\ row.version \in Nat
        /\ row.version = work[q].expected /\ row'.version = row.version + 1
        /\ revisions' = RevisionsWith(row', q, work[q].role)
    BY <1>2, SavedRow
  <2>2. work' = work
    BY <1>2 DEF Save
  <2>3. Policy.versioned => \E y \in revisions' : y.request = q
    BY <2>1, OwnRevision
  <2>4. work[q].expected < row'.version
    BY <2>1
  <2> QED BY <2>1, <2>2, <2>3, <2>4
<1>3. CASE Remove(q)
  BY <1>3 DEF Remove, IInv, TypeOK
<1>4. CASE ~Create(q) /\ ~Save(q) /\ ~Remove(q)
  <2>1. pc[q] \in Written /\ work'[q] = work[q]
    BY <1>4, WrittenByWrite
  <2>2. Effective(q) /\ work[q].expected \in Nat
    BY DEF AllEffective, IInv, TypeOK
  <2> QED BY <2>1, <2>2, HistoryGrows DEF Effective
<1> QED BY <1>1, <1>2, <1>3, <1>4

(* An answer of success is final. *)
LEMMA OkIsFinal ==
    ASSUME IInv, [Next]_vars, NEW q \in Requests, pc[q] = "ok"
    PROVE  pc'[q] = "ok" /\ work'[q] = work[q]
<1> DEFINE Same == pc'[q] = "ok" /\ work'[q] = work[q]
<1>1. ASSUME NEW r \in Requests, pc[r] = "new",
             AnsweredWith(r, EarlyAnswers) \/ Planned(r)
      PROVE  Same
  BY <1>1 DEF AnsweredWith, Planned, IInv, TypeOK
<1>2. ASSUME NEW r \in Requests, Create(r) \/ Save(r) \/ Remove(r) PROVE Same
  BY <1>2 DEF Create, Save, Remove, Goto, IInv, TypeOK
<1>3. ASSUME NEW r \in Requests, SaveConflict(r) \/ Audit(r) \/ AuditFails(r) PROVE Same
  BY <1>3 DEF SaveConflict, Audit, AuditFails, Goto, IInv, TypeOK
<1>4. ASSUME NEW r \in Requests, pc[r] \in {"new", "loaded", "audited"},
             AnsweredWith(r, {"not_found", "internal_error"}) \/ AnsweredWith(r, {"ok"})
      PROVE  Same
  BY <1>4 DEF AnsweredWith, IInv, TypeOK
<1>5. ASSUME Crash PROVE Same
  BY <1>5 DEF Crash, InFlight, IInv, TypeOK
<1>6. ASSUME UNCHANGED vars PROVE Same
  BY <1>6 DEF vars
<1> HIDE DEF Same
<1>7. Same
  BY <1>1, <1>2, <1>3, <1>4, <1>5, <1>6, StepCases
<1> QED BY <1>7 DEF Same

(* The log is finite at any time, whatever the number of requests. *)
LEMMA NextFinite ==
    ASSUME IsFiniteSet(audits), [Next]_vars
    PROVE  IsFiniteSet(audits)'
<1>1. audits' = audits \/ \E r \in Requests : audits' = audits \cup {AuditEntry(r)}
  BY StepCases DEF AnsweredWith, Planned, Create, Save, Remove, SaveConflict,
     Audit, AuditFails, Crash, vars
<1>2. \A entry : IsFiniteSet(audits \cup {entry})
  BY FS_AddElement
<1> QED BY <1>1, <1>2

(* All of it together *)
WritersInv ==
    IInv /\ RevisionChain /\ AllLogged /\ AllEffective /\ IsFiniteSet(audits)

LEMMA AlwaysWritersInv == SpecReaders => []WritersInv
<1>1. Init => AllEffective /\ IsFiniteSet(audits)
  BY FS_EmptySet DEF Init, AllEffective, Effective, Written
<1>2. IInv /\ AllEffective /\ [Next]_vars => AllEffective'
  BY NextEffective
<1>3. IsFiniteSet(audits) /\ [Next]_vars => IsFiniteSet(audits)'
  BY NextFinite
<1>4. IInv /\ RevisionChain /\ AllLogged /\ AllEffective /\ IsFiniteSet(audits) => WritersInv
  BY DEF WritersInv
<1> QED
  BY <1>1, <1>2, <1>3, <1>4, Invariance, RevisionsAreAChain, AlwaysLogged,
     WritersAreServed, PTL DEF Spec

----------------------------------------------------------------------------
(***************************************************************************)
(* What a reader keeps true between its statements.                         *)
(***************************************************************************)
Shaped ==
    /\ DOMAIN at = Readers /\ DOMAIN acked = Readers
    /\ DOMAIN view = Readers /\ DOMAIN summary = Readers
    /\ \A x \in Readers :
          {"row", "revisions"} \subseteq DOMAIN view[x] /\ "transitions" \in DOMAIN summary[x]

(* Those it knew to have succeeded stay as they were. *)
Knows(x) == acked[x] \subseteq {r \in Requests : pc[r] = "ok"}

(* The row it has read has its version in the chain, saying the same. *)
HoldsRow(x) ==
    LET shown == view[x].row IN
    at[x] = "preload" =>
        /\ Policy.versioned
        /\ shown.version \in 1 .. row.version
        /\ \A y \in revisions : y.version = shown.version =>
              y.status = shown.status /\ y.evidence = shown.evidence

HoldsHistory(x) ==
    LET shown == view[x].row IN
    at[x] = "shown" /\ Policy.versioned =>
        /\ 1 .. shown.version \subseteq {y.version : y \in view[x].revisions}
        /\ \A y \in view[x].revisions : y.version = shown.version =>
              y.status = shown.status /\ y.evidence = shown.evidence

(* The row it has read shows the writes it knew of. *)
SeesWrites(x) ==
    at[x] \in {"preload", "shown"} =>
        \A r \in acked[x] :
            /\ work[r].op # "delete"
            /\ view[x].row.version > work[r].expected
            /\ Policy.versioned =>
                  \E y \in IF at[x] = "shown" THEN view[x].revisions ELSE revisions :
                      y.request = r

KnownTransitions(x) == {r \in acked[x] : work[r].op = "transition"}

CountsWrites(x) ==
    at[x] \in {"actors", "actions", "types", "summed"} =>
        summary[x].transitions >= Cardinality(KnownTransitions(x))

Sound(x) == Knows(x) /\ HoldsRow(x) /\ HoldsHistory(x) /\ SeesWrites(x) /\ CountsWrites(x)

ReadersInv == Shaped /\ \A x \in Readers : Sound(x)

LEMMA InitReadersInv == InitReaders => ReadersInv
BY DEF InitReaders, ReadersInv, Shaped, Sound, Knows, HoldsRow, HoldsHistory,
   SeesWrites, CountsWrites, NoView, NoSummary

----------------------------------------------------------------------------
(* Writers act while readers read *)

(***************************************************************************)
(* A row that was read stays in agreement with the chain: the revision of   *)
(* its version is there already, and there is only one.                     *)
(***************************************************************************)
LEMMA ReadRowAgrees ==
    ASSUME IInv, RevisionChain, RevisionChain', Policy.versioned, [Next]_vars,
           NEW shown, shown.version \in 1 .. row.version,
           \A y \in revisions : y.version = shown.version =>
              y.status = shown.status /\ y.evidence = shown.evidence
    PROVE  /\ shown.version \in 1 .. row'.version
           /\ \A y \in revisions' : y.version = shown.version =>
                 y.status = shown.status /\ y.evidence = shown.evidence
<1>1. PICK z \in revisions : z.version = shown.version
  BY DEF RevisionChain
<1>2. z \in revisions'
  BY HistoryGrows
<1>3. \A y \in revisions' : y.version = shown.version => y = z
  BY <1>1, <1>2 DEF RevisionChain
<1>4. shown.version \in 1 .. row'.version
  BY HistoryGrows
<1> QED BY <1>1, <1>3, <1>4

LEMMA WritersKeepSound ==
    ASSUME WritersInv, WritersInv', [Next]_vars, UNCHANGED readerVars,
           NEW x \in Readers, Sound(x)
    PROVE  Sound(x)'
<1> USE DEF readerVars
<1>1. \A r \in acked[x] : r \in Requests /\ pc'[r] = "ok" /\ work'[r] = work[r]
  BY OkIsFinal DEF Sound, Knows, WritersInv
<1>2. revisions \subseteq revisions'
  BY HistoryGrows DEF WritersInv
<1>3. Knows(x)'
  BY <1>1 DEF Knows
<1>4. HoldsRow(x)'
  BY ReadRowAgrees DEF HoldsRow, Sound, WritersInv
<1>5. HoldsHistory(x)'
  BY DEF HoldsHistory, Sound
<1>6. SeesWrites(x)'
  BY <1>1, <1>2 DEF SeesWrites, Sound
<1>7. CountsWrites(x)'
  <2>1. KnownTransitions(x)' = KnownTransitions(x)
    BY <1>1 DEF KnownTransitions
  <2> QED BY <2>1 DEF CountsWrites, Sound
<1> QED BY <1>3, <1>4, <1>5, <1>6, <1>7 DEF Sound

----------------------------------------------------------------------------
(* Readers read *)

(* The others are where they were. *)
LEMMA OthersStay ==
    ASSUME NEW x \in Readers, NEW z \in Readers, Sound(z),
           UNCHANGED vars, at'[z] = at[z], acked'[z] = acked[z],
           view'[z] = view[z], summary'[z] = summary[z]
    PROVE  Sound(z)'
<1>1. Knows(z)' /\ HoldsRow(z)' /\ HoldsHistory(z)' /\ SeesWrites(z)'
  BY DEF Sound, vars, Knows, HoldsRow, HoldsHistory, SeesWrites
<1>2. KnownTransitions(z)' = KnownTransitions(z)
  BY DEF KnownTransitions, vars
<1> QED BY <1>1, <1>2 DEF Sound, CountsWrites

(* A statement of one reader. *)
LEMMA StepOf ==
    ASSUME ReadersInv, NEW x \in Readers, NEW from, NEW to, Step(x, from, to)
    PROVE  /\ UNCHANGED vars /\ at[x] = from /\ at'[x] = to
           /\ DOMAIN at' = Readers /\ DOMAIN acked' = Readers
           /\ \A z \in Readers \ {x} : at'[z] = at[z] /\ acked'[z] = acked[z]
           /\ from = "new" => acked'[x] = {r \in Requests : pc[r] = "ok"}
           /\ from # "new" => acked'[x] = acked[x]
           /\ Knows(x)'
<1>1. /\ UNCHANGED vars /\ at[x] = from /\ at'[x] = to
      /\ DOMAIN at' = Readers /\ DOMAIN acked' = Readers
      /\ \A z \in Readers \ {x} : at'[z] = at[z] /\ acked'[z] = acked[z]
      /\ from = "new" => acked'[x] = {r \in Requests : pc[r] = "ok"}
      /\ from # "new" => acked'[x] = acked[x]
  BY DEF Step, ReadersInv, Shaped
<1>2. Knows(x)'
  BY <1>1 DEF vars, Knows, ReadersInv, Sound
<1> QED BY <1>1, <1>2

(* The live row at any moment shows all writes answered with success. *)
LEMMA LiveRowShowsWrites ==
    ASSUME WritersInv, Visible, NEW r \in Requests, pc[r] = "ok"
    PROVE  /\ work[r].op # "delete" /\ row.version > work[r].expected
           /\ Policy.versioned => \E y \in revisions : y.request = r
<1>1. Effective(r) /\ row.state = "live"
  BY DEF WritersInv, AllEffective, Visible
<1>2. work[r].expected \in Nat /\ row.version \in Nat
  BY DEF WritersInv, IInv, TypeOK
<1> QED BY <1>1, <1>2 DEF Effective, Written

(* The log at any moment holds all transitions answered with success. *)
LEMMA LogCountsWrites ==
    ASSUME WritersInv, NEW known, known \subseteq {r \in Requests : pc[r] = "ok"},
           \A r \in known : work[r].op = "transition"
    PROVE  Transitions >= Cardinality(known)
<1> DEFINE moves == {a \in audits : a.action = "transition"}
           f     == [r \in known |-> AuditEntry(r)]
<1>1. Transitions = Cardinality(moves)
  BY DEF Transitions, Actions, Ops
<1>2. IsFiniteSet(moves) /\ Cardinality(moves) \in Nat
  BY FS_Subset, FS_CardinalityType DEF WritersInv
<1>3. \A r \in known : AuditEntry(r) \in moves
  <2>1. \A r \in known : AuditEntry(r) \in audits
    BY DEF WritersInv, AllLogged, Logged
  <2> QED BY <2>1 DEF AuditEntry
<1>4. \A r, q \in known : AuditEntry(r) = AuditEntry(q) => r = q
  BY DEF AuditEntry
<1>5. f \in Injection(known, moves)
  <2>1. f \in [known -> moves]
    BY <1>3
  <2>2. \A r, q \in known : f[r] = f[q] => r = q
    BY <1>4
  <2> HIDE DEF f
  <2> QED BY <2>1, <2>2 DEF Injection, IsInjective
<1> HIDE DEF f, moves
<1>6. Cardinality(known) <= Cardinality(moves) /\ IsFiniteSet(known)
  BY <1>2, <1>5, FS_Injection
<1> QED BY <1>1, <1>2, <1>6, FS_CardinalityType

(* Only the record of x is read. *)
ViewOnly(x, field, value) ==
    /\ DOMAIN view' = Readers
    /\ {"row", "revisions"} \subseteq DOMAIN view'[x]
    /\ view'[x][field] = value
    /\ \A other \in {"row", "revisions"} \ {field} : view'[x][other] = view[x][other]
    /\ \A z \in Readers \ {x} : view'[z] = view[z]

LEMMA ViewSet ==
    ASSUME Shaped, NEW x \in Readers, NEW field \in {"row", "revisions"}, NEW value,
           view' = [view EXCEPT ![x] = [@ EXCEPT ![field] = value]]
    PROVE  ViewOnly(x, field, value)
<1>1. DOMAIN view = Readers /\ {"row", "revisions"} \subseteq DOMAIN view[x]
  BY DEF Shaped
<1>2. view'[x] = [view[x] EXCEPT ![field] = value]
  BY <1>1
<1> QED BY <1>1, <1>2 DEF ViewOnly

(* A statement that leaves the numbers alone keeps the readers' shapes. *)
LEMMA ShapesKept ==
    ASSUME Shaped, NEW x \in Readers, DOMAIN at' = Readers, DOMAIN acked' = Readers,
           UNCHANGED summary,
           UNCHANGED view \/ \E field, value : ViewOnly(x, field, value)
    PROVE  Shaped'
<1>1. DOMAIN view' = Readers
  BY DEF Shaped, ViewOnly
<1>2. \A z \in Readers : {"row", "revisions"} \subseteq DOMAIN view'[z]
  BY DEF Shaped, ViewOnly
<1> QED BY <1>1, <1>2 DEF Shaped

LEMMA GetRowSound ==
    ASSUME WritersInv, ReadersInv, NEW x \in Readers, GetRow(x)
    PROVE  ReadersInv'
<1> DEFINE to == IF Policy.versioned THEN "preload" ELSE "shown"
<1>1. Step(x, "new", to) /\ Visible /\ UNCHANGED summary
  BY DEF GetRow
<1>2. ViewOnly(x, "row", row)
  BY ViewSet DEF GetRow, ReadersInv
<1> HIDE DEF to
<1>3. /\ UNCHANGED vars /\ at'[x] = to
      /\ DOMAIN at' = Readers /\ DOMAIN acked' = Readers
      /\ \A z \in Readers \ {x} : at'[z] = at[z] /\ acked'[z] = acked[z]
      /\ acked'[x] = {r \in Requests : pc[r] = "ok"}
      /\ Knows(x)'
  BY <1>1, StepOf
<1>4. view'[x].row = row
  BY <1>2 DEF ViewOnly
<1>5. HoldsRow(x)'
  <2>1. row.version \in 1 .. row.version
    BY <1>1 DEF Visible, WritersInv, IInv, RowShape, TypeOK
  <2>2. Policy.versioned => \A y \in revisions : y.version = row.version =>
           y.status = row.status /\ y.evidence = row.evidence
    BY DEF WritersInv, RevisionChain
  <2> QED BY <1>3, <1>4, <2>1, <2>2 DEF HoldsRow, to, vars
<1>6. HoldsHistory(x)'
  BY <1>3 DEF HoldsHistory, to
<1>7. SeesWrites(x)'
  <2>1. ASSUME NEW r \in acked'[x]
        PROVE  /\ work[r].op # "delete" /\ row.version > work[r].expected
               /\ Policy.versioned => at'[x] = "preload" /\ \E y \in revisions : y.request = r
    BY <1>1, <1>3, LiveRowShowsWrites DEF to
  <2> QED BY <1>3, <1>4, <2>1 DEF SeesWrites, vars
<1>8. CountsWrites(x)'
  BY <1>3 DEF CountsWrites, to
<1>9. \A z \in Readers \ {x} : Sound(z)'
  BY <1>1, <1>2, <1>3, OthersStay DEF ReadersInv, ViewOnly
<1>10. Shaped'
  BY <1>1, <1>2, <1>3, ShapesKept DEF ReadersInv
<1> QED BY <1>3, <1>5, <1>6, <1>7, <1>8, <1>9, <1>10 DEF ReadersInv, Sound

LEMMA PreloadSound ==
    ASSUME WritersInv, ReadersInv, NEW x \in Readers, Preload(x)
    PROVE  ReadersInv'
<1>1. Step(x, "preload", "shown") /\ UNCHANGED summary
  BY DEF Preload
<1>2. ViewOnly(x, "revisions", revisions)
  BY ViewSet DEF Preload, ReadersInv
<1>3. /\ UNCHANGED vars /\ at[x] = "preload" /\ at'[x] = "shown"
      /\ DOMAIN at' = Readers /\ DOMAIN acked' = Readers
      /\ \A z \in Readers \ {x} : at'[z] = at[z] /\ acked'[z] = acked[z]
      /\ acked'[x] = acked[x]
      /\ Knows(x)'
  BY <1>1, StepOf
<1>4. view'[x].row = view[x].row /\ view'[x].revisions = revisions
  BY <1>2 DEF ViewOnly
<1>5. HoldsRow(x)'
  BY <1>3 DEF HoldsRow
<1>6. HoldsHistory(x)'
  <2>1. /\ Policy.versioned /\ view[x].row.version \in 1 .. row.version
        /\ \A y \in revisions : y.version = view[x].row.version =>
              y.status = view[x].row.status /\ y.evidence = view[x].row.evidence
    BY <1>3 DEF ReadersInv, Sound, HoldsRow
  <2>2. {y.version : y \in revisions} = 1 .. row.version /\ row.version \in Nat
    BY <2>1 DEF WritersInv, RevisionChain, IInv, TypeOK
  <2>3. 1 .. view[x].row.version \subseteq {y.version : y \in revisions}
    BY <2>1, <2>2
  <2> QED BY <1>4, <2>1, <2>3 DEF HoldsHistory
<1>7. SeesWrites(x)'
  BY <1>3, <1>4 DEF SeesWrites, ReadersInv, Sound, vars
<1>8. CountsWrites(x)'
  BY <1>3 DEF CountsWrites
<1>9. \A z \in Readers \ {x} : Sound(z)'
  BY <1>1, <1>2, <1>3, OthersStay DEF ReadersInv, ViewOnly
<1>10. Shaped'
  BY <1>1, <1>2, <1>3, ShapesKept DEF ReadersInv
<1> QED BY <1>3, <1>5, <1>6, <1>7, <1>8, <1>9, <1>10 DEF ReadersInv, Sound

(* A reader that is told nothing has nothing to be sound about. *)
LEMMA GetMissingSound ==
    ASSUME WritersInv, ReadersInv, NEW x \in Readers, GetMissing(x)
    PROVE  ReadersInv'
<1>1. Step(x, "new", "not_found") /\ UNCHANGED <<view, summary>>
  BY DEF GetMissing
<1>2. /\ UNCHANGED vars /\ at'[x] = "not_found"
      /\ DOMAIN at' = Readers /\ DOMAIN acked' = Readers
      /\ \A z \in Readers \ {x} : at'[z] = at[z] /\ acked'[z] = acked[z]
      /\ Knows(x)'
  BY <1>1, StepOf
<1>3. Sound(x)'
  BY <1>2 DEF Sound, HoldsRow, HoldsHistory, SeesWrites, CountsWrites
<1>4. \A z \in Readers \ {x} : Sound(z)'
  BY <1>1, <1>2, OthersStay DEF ReadersInv
<1>5. Shaped'
  BY <1>1, <1>2, ShapesKept DEF ReadersInv
<1> QED BY <1>3, <1>4, <1>5 DEF ReadersInv

----------------------------------------------------------------------------
(* The summary *)

(* A statement of the summary, whose number is of the field. *)
LEMMA SummaryStep ==
    ASSUME WritersInv, ReadersInv, NEW x \in Readers, NEW from, NEW to, NEW value,
           NEW field \in {"total", "transitions", "uniqueActors", "actions", "entityTypes"},
           Step(x, from, to), UNCHANGED view,
           summary' = [summary EXCEPT ![x] = [@ EXCEPT ![field] = value]],
           to \notin {"preload", "shown"},
           to \in {"actors", "actions", "types", "summed"} =>
              /\ from # "new"
              /\ \/ field = "transitions" /\ value = Transitions
                 \/ field # "transitions" /\ from \in {"actors", "actions", "types"}
    PROVE  ReadersInv'
<1>1. /\ UNCHANGED vars /\ at[x] = from /\ at'[x] = to
      /\ DOMAIN at' = Readers /\ DOMAIN acked' = Readers
      /\ \A z \in Readers \ {x} : at'[z] = at[z] /\ acked'[z] = acked[z]
      /\ from # "new" => acked'[x] = acked[x]
      /\ Knows(x)'
  BY StepOf
<1>2. /\ DOMAIN summary' = Readers
      /\ \A z \in Readers : "transitions" \in DOMAIN summary'[z]
      /\ \A z \in Readers \ {x} : summary'[z] = summary[z]
      /\ summary'[x] = [summary[x] EXCEPT ![field] = value]
      /\ "transitions" \in DOMAIN summary[x]
  BY DEF ReadersInv, Shaped
<1>3. Shaped'
  BY <1>1, <1>2 DEF ReadersInv, Shaped
<1>4. CountsWrites(x)'
  <2> SUFFICES ASSUME to \in {"actors", "actions", "types", "summed"}
               PROVE  summary'[x].transitions >= Cardinality(KnownTransitions(x)')
    BY <1>1 DEF CountsWrites
  <2>1. KnownTransitions(x)' = KnownTransitions(x)
    BY <1>1 DEF KnownTransitions, vars
  <2>2. CASE field = "transitions" /\ value = Transitions
    <3>1. Transitions >= Cardinality(KnownTransitions(x))
      BY LogCountsWrites DEF KnownTransitions, ReadersInv, Sound, Knows
    <3>2. summary'[x].transitions = Transitions
      BY <1>2, <2>2
    <3> QED BY <2>1, <3>1, <3>2
  <2>3. CASE field # "transitions" /\ from \in {"actors", "actions", "types"}
    <3>1. summary[x].transitions >= Cardinality(KnownTransitions(x))
      BY <1>1, <2>3 DEF ReadersInv, Sound, CountsWrites
    <3>2. summary'[x].transitions = summary[x].transitions
      BY <1>2, <2>3
    <3> QED BY <2>1, <3>1, <3>2
  <2> QED BY <2>2, <2>3
<1>5. Sound(x)'
  BY <1>1, <1>4 DEF Sound, HoldsRow, HoldsHistory, SeesWrites
<1>6. \A z \in Readers \ {x} : Sound(z)'
  BY <1>1, <1>2, OthersStay DEF ReadersInv
<1> QED BY <1>3, <1>5, <1>6 DEF ReadersInv

LEMMA SummarySound ==
    ASSUME WritersInv, ReadersInv, NEW x \in Readers,
           \/ CountTotal(x) \/ CountTransitions(x) \/ CountActors(x)
           \/ GroupActions(x) \/ GroupTypes(x)
    PROVE  ReadersInv'
<1>1. CASE CountTotal(x)
  BY <1>1, SummaryStep DEF CountTotal
<1>2. CASE CountTransitions(x)
  BY <1>2, SummaryStep DEF CountTransitions
<1>3. CASE CountActors(x)
  BY <1>3, SummaryStep DEF CountActors
<1>4. CASE GroupActions(x)
  BY <1>4, SummaryStep DEF GroupActions
<1>5. CASE GroupTypes(x)
  BY <1>5, SummaryStep DEF GroupTypes
<1> QED BY <1>1, <1>2, <1>3, <1>4, <1>5

LEMMA ReadFailsSound ==
    ASSUME ReadersInv, NEW x \in Readers, ReadFails(x)
    PROVE  ReadersInv'
<1>1. /\ UNCHANGED vars /\ at'[x] = "internal_error" /\ acked'[x] = {}
      /\ DOMAIN at' = Readers /\ DOMAIN acked' = Readers
      /\ DOMAIN view' = Readers /\ DOMAIN summary' = Readers
      /\ view'[x] = NoView /\ summary'[x] = NoSummary
      /\ \A z \in Readers \ {x} : /\ at'[z] = at[z] /\ acked'[z] = acked[z]
                                  /\ view'[z] = view[z] /\ summary'[z] = summary[z]
  BY DEF ReadFails, ReadersInv, Shaped
<1>2. Sound(x)'
  BY <1>1 DEF Sound, Knows, HoldsRow, HoldsHistory, SeesWrites, CountsWrites
<1>3. \A z \in Readers \ {x} : Sound(z)'
  BY <1>1, OthersStay DEF ReadersInv
<1>4. Shaped'
  BY <1>1 DEF ReadersInv, Shaped, NoView, NoSummary
<1> QED BY <1>2, <1>3, <1>4 DEF ReadersInv

----------------------------------------------------------------------------
(* Every step, and every behaviour *)

LEMMA NextReadersInv ==
    ASSUME WritersInv, WritersInv', ReadersInv, [NextReaders]_allVars
    PROVE  ReadersInv'
<1>1. ASSUME [Next]_vars, UNCHANGED readerVars PROVE ReadersInv'
  <2>1. \A x \in Readers : Sound(x)'
    BY <1>1, WritersKeepSound DEF ReadersInv
  <2>2. Shaped'
    BY <1>1 DEF readerVars, Shaped, ReadersInv
  <2> QED BY <2>1, <2>2 DEF ReadersInv
<1>2. ASSUME NEW x \in Readers, ReadNext(x) PROVE ReadersInv'
  BY <1>2, GetRowSound, GetMissingSound, PreloadSound, SummarySound, ReadFailsSound
  DEF ReadNext
<1> QED BY <1>1, <1>2 DEF NextReaders, allVars

LEMMA AlwaysReadersInv == SpecReaders => []ReadersInv
<1>1. WritersInv /\ WritersInv' /\ ReadersInv /\ [NextReaders]_allVars => ReadersInv'
  BY NextReadersInv
<1> QED BY <1>1, InitReadersInv, AlwaysWritersInv, PTL DEF SpecReaders

(***************************************************************************)
(* A record is never shown with a history older than itself, although Get   *)
(* reads the two by two statements and writers act in between.              *)
(***************************************************************************)
THEOREM HistoryIsNotOlder == SpecReaders => []ShownWithItsRevision
<1>1. ReadersInv => ShownWithItsRevision
  BY DEF ReadersInv, Sound, HoldsHistory, ShownWithItsRevision
<1> QED BY <1>1, AlwaysReadersInv, PTL

(***************************************************************************)
(* Whoever asks for a record after a write of it was acknowledged is shown  *)
(* that write, in the row and in its revisions, or a later one.             *)
(***************************************************************************)
THEOREM ReadersSeeWhatWasAcked == SpecReaders => []AckedIsVisible
<1>1. ReadersInv => AckedIsVisible
  BY DEF ReadersInv, Sound, SeesWrites, AckedIsVisible
<1> QED BY <1>1, AlwaysReadersInv, PTL

(***************************************************************************)
(* A summary of the audit log counts every transition that was answered     *)
(* with success before the summary was asked for.                           *)
(***************************************************************************)
THEOREM SummariesCountWhatWasAcked == SpecReaders => []SummaryCountsAcked
<1>1. ReadersInv => SummaryCountsAcked
  BY DEF ReadersInv, Sound, CountsWrites, KnownTransitions, SummaryCountsAcked
<1> QED BY <1>1, AlwaysReadersInv, PTL
----------------------------------------------------------------------------
(***************************************************************************)
(* SumFunction adds up a function's values by a fold, whose equation has    *)
(* one solution on a finite domain.                                         *)
(***************************************************************************)
SumsUp(fun, iter) ==
    iter = [s \in SUBSET (DOMAIN fun) |->
               IF s = {} THEN 0
               ELSE fun[CHOOSE i \in s : TRUE] + iter[s \ {CHOOSE i \in s : TRUE}]]

LEMMA SumIsFold ==
    ASSUME NEW fun
    PROVE  SumFunction(fun) = (CHOOSE iter : SumsUp(fun, iter))[DOMAIN fun]
BY Zenon DEF SumFunction, SumFunctionOnSet, FoldFunctionOnSet, MapThenFoldSet, SumsUp

(* Two solutions agree *)

(* A smallest set the solutions differ on would have a smaller one. *)
LEMMA SumIsUnique ==
    ASSUME NEW fun, IsFiniteSet(DOMAIN fun), NEW f, NEW g, SumsUp(fun, f), SumsUp(fun, g)
    PROVE  f[DOMAIN fun] = g[DOMAIN fun]
<1> DEFINE D == DOMAIN fun
           Differ == {s \in SUBSET D : f[s] # g[s]}
           Sizes  == {Cardinality(s) : s \in Differ}
<1>1. \A s \in SUBSET D : IsFiniteSet(s) /\ Cardinality(s) \in Nat
  BY FS_Subset, FS_CardinalityType
<1>2. SUFFICES ASSUME f[D] # g[D] PROVE FALSE
  OBVIOUS
<1>3. Sizes \in SUBSET Nat /\ Sizes # {}
  BY <1>1, <1>2
<1>4. PICK n \in Sizes : \A i \in Sizes : <<i, n>> \notin OpToRel(<, Nat)
  BY <1>3, NatLessThanWellFounded, WFMin
<1>5. PICK s \in Differ : n = Cardinality(s)
  BY <1>4
<1> DEFINE x == CHOOSE i \in s : TRUE
           rest == s \ {x}
<1>6. /\ f[s] = IF s = {} THEN 0 ELSE fun[x] + f[rest]
      /\ g[s] = IF s = {} THEN 0 ELSE fun[x] + g[rest]
  BY <1>5 DEF SumsUp
<1>7. s # {} /\ f[rest] # g[rest]
  BY <1>5, <1>6
<1>8. x \in s
  BY <1>7
<1>9. rest \in Differ
  BY <1>5, <1>7
<1>10. Cardinality(rest) = Cardinality(s) - 1
  BY <1>1, <1>5, <1>8, FS_RemoveElement
<1>11. Cardinality(rest) \in Nat /\ n \in Nat /\ Cardinality(rest) < n
  BY <1>1, <1>5, <1>9, <1>10
<1>12. <<Cardinality(rest), n>> \in OpToRel(<, Nat)
  <2>1. \A i, m \in Nat : i < m => <<i, m>> \in OpToRel(<, Nat)
    BY DEF OpToRel
  <2> QED BY <1>11, <2>1
<1> QED BY <1>4, <1>9, <1>12

(* The rows of a finite log, counted per action, add up to all of them. *)
LEMMA SumOfCounts ==
    ASSUME NEW log, IsFiniteSet(log), NEW Groups, IsFiniteSet(Groups),
           \A a \in log : a.action \in Groups
    PROVE  SumFunction([k \in Groups |-> Cardinality({a \in log : a.action = k})])
              = Cardinality(log)
<1> DEFINE fun == [k \in Groups |-> Cardinality({a \in log : a.action = k})]
           g   == [s \in SUBSET Groups |-> Cardinality({a \in log : a.action \in s})]
<1>1. DOMAIN fun = Groups
  OBVIOUS
<1>2. \A s \in SUBSET Groups : s # {} =>
         LET x == CHOOSE i \in s : TRUE IN g[s] = fun[x] + g[s \ {x}]
  <2> SUFFICES ASSUME NEW s \in SUBSET Groups, s # {}, NEW x \in s
               PROVE  g[s] = fun[x] + g[s \ {x}]
    OBVIOUS
  <2> DEFINE Of == {a \in log : a.action = x}
             Others == {a \in log : a.action \in s \ {x}}
             All    == {a \in log : a.action \in s}
  <2>1. All = Of \cup Others /\ Of \cap Others = {}
    OBVIOUS
  <2>2. IsFiniteSet(Of) /\ IsFiniteSet(Others)
    BY FS_Subset
  <2>3. g[s] = Cardinality(All) /\ fun[x] = Cardinality(Of)
        /\ g[s \ {x}] = Cardinality(Others)
    OBVIOUS
  <2> HIDE DEF Of, Others, All, fun, g
  <2>4. Cardinality(All) = Cardinality(Of) + Cardinality(Others)
    <3>1. Cardinality(Of \cap Others) = 0
      BY <2>1, FS_EmptySet
    <3>2. Cardinality(Of \cup Others) = Cardinality(Of) + Cardinality(Others) - Cardinality(Of \cap Others)
      BY <2>2, FS_Union
    <3> QED BY <2>1, <2>2, <3>1, <3>2, FS_CardinalityType
  <2> QED BY <2>3, <2>4
<1>3. g[{}] = 0
  <2>1. {a \in log : a.action \in {}} = {}
    OBVIOUS
  <2> QED BY <2>1, FS_EmptySet
<1>4. g[Groups] = Cardinality(log)
  <2>1. {a \in log : a.action \in Groups} = log
    OBVIOUS
  <2> QED BY <2>1
<1>5. DOMAIN g = SUBSET Groups /\ g = [s \in SUBSET Groups |-> g[s]]
  OBVIOUS
<1> HIDE DEF fun, g
<1>6. SumsUp(fun, g)
  <2> DEFINE e(s) == IF s = {} THEN 0
               ELSE fun[CHOOSE i \in s : TRUE] + g[s \ {CHOOSE i \in s : TRUE}]
  <2>1. \A s \in SUBSET Groups : g[s] = e(s)
    BY <1>2, <1>3
  <2> HIDE DEF e
  <2>2. g = [s \in SUBSET Groups |-> e(s)]
    BY <1>5, <2>1
  <2> QED BY <1>1, <2>2 DEF SumsUp, e
<1>7. SumsUp(fun, CHOOSE iter : SumsUp(fun, iter))
  BY <1>6
<1>8. SumFunction(fun) = g[Groups]
  BY <1>1, <1>6, <1>7, SumIsFold, SumIsUnique
<1> QED BY <1>4, <1>8 DEF fun

----------------------------------------------------------------------------
(***************************************************************************)
(* The numbers of a summary, as far as they have been read, are in order,   *)
(* and none exceeds what the log holds by now.                              *)
(***************************************************************************)
Fields == {"total", "transitions", "uniqueActors", "actions", "entityTypes"}

Ordered(x) ==
    LET read == summary[x]
        sum  == SumFunction(read.actions)
    IN
    /\ at[x] \in {"transitions", "actors", "actions"} =>
          read.total \in Nat /\ read.total <= Cardinality(audits)
    /\ at[x] \in {"actors", "actions"} =>
          read.transitions \in Nat /\ read.transitions <= Transitions
    /\ at[x] = "actions" =>
          read.uniqueActors \in Nat /\ read.uniqueActors <= Cardinality(audits)
    /\ at[x] \in {"types", "summed"} =>
          /\ read.total <= sum /\ read.uniqueActors <= sum
          /\ read.transitions <= read.actions["transition"]
    /\ at[x] = "types" => sum \in Nat /\ sum <= Cardinality(audits)
    /\ at[x] = "summed" => sum <= read.entityTypes

OrderedInv ==
    /\ DOMAIN at = Readers /\ DOMAIN summary = Readers
    /\ \A x \in Readers : DOMAIN summary[x] = Fields /\ Ordered(x)

(* What the statements count, at one moment *)
LEMMA Counts ==
    ASSUME WritersInv
    PROVE  /\ Cardinality(audits) \in Nat
           /\ Transitions \in Nat
           /\ Transitions = Actions["transition"]
           /\ UniqueActors \in Nat /\ UniqueActors <= Cardinality(audits)
           /\ SumFunction(Actions) = Cardinality(audits)
<1>1. IsFiniteSet(audits) /\ Cardinality(audits) \in Nat
  BY FS_CardinalityType DEF WritersInv
<1>2. Transitions \in Nat
  <2>1. Transitions = Cardinality({a \in audits : a.action = "transition"})
    BY DEF Transitions, Actions, Ops
  <2>2. IsFiniteSet({a \in audits : a.action = "transition"})
    BY <1>1, FS_Subset
  <2> QED BY <2>1, <2>2, FS_CardinalityType
<1>3. UniqueActors \in Nat /\ UniqueActors <= Cardinality(audits)
  <2> DEFINE actors == {work[a.request].role : a \in audits}
             f      == [a \in audits |-> work[a.request].role]
  <2>1. f \in [audits -> actors] /\ \A t \in actors : \E a \in audits : f[a] = t
    OBVIOUS
  <2> HIDE DEF f
  <2>2. f \in Surjection(audits, actors)
    BY <2>1 DEF Surjection
  <2>3. IsFiniteSet(actors) /\ Cardinality(actors) <= Cardinality(audits)
    <3> HIDE DEF actors
    <3> QED BY <1>1, <2>2, FS_Surjection
  <2> QED BY <2>3, FS_CardinalityType DEF UniqueActors
<1>4. SumFunction(Actions) = Cardinality(audits)
  <2>1. \A a \in audits : a.action \in Ops
    BY DEF WritersInv, IInv, TypeOK
  <2>2. IsFiniteSet(Ops)
    <3>1. Ops = ((({"none"} \cup {"create"}) \cup {"update"}) \cup {"transition"}) \cup {"delete"}
      BY DEF Ops
    <3>2. IsFiniteSet({"none"})
      BY FS_Singleton
    <3> QED BY <3>1, <3>2, FS_AddElement
  <2> QED BY <1>1, <2>1, <2>2, SumOfCounts DEF Actions
<1> QED BY <1>1, <1>2, <1>3, <1>4 DEF Transitions

(* What they count only grows. *)
LEMMA CountsGrow ==
    ASSUME WritersInv, WritersInv', [Next]_vars
    PROVE  /\ Cardinality(audits)' \in Nat /\ Cardinality(audits) <= Cardinality(audits)'
           /\ Transitions' \in Nat /\ Transitions <= Transitions'
<1>1. audits \subseteq audits' /\ IsFiniteSet(audits')
  BY HistoryGrows DEF WritersInv
<1>2. Cardinality(audits') \in Nat /\ Cardinality(audits) <= Cardinality(audits')
  BY <1>1, FS_Subset, FS_CardinalityType
<1>3. Transitions' \in Nat /\ Transitions <= Transitions'
  <2> DEFINE old == {a \in audits : a.action = "transition"}
             new == {a \in audits' : a.action = "transition"}
  <2>1. IsFiniteSet(new) /\ old \subseteq new
    BY <1>1, FS_Subset
  <2>2. Transitions = Cardinality(old) /\ Transitions' = Cardinality(new)
    BY DEF Transitions, Actions, Ops
  <2> HIDE DEF old, new
  <2> QED BY <2>1, <2>2, FS_Subset, FS_CardinalityType
<1> QED BY <1>2, <1>3

LEMMA WritersKeepOrdered ==
    ASSUME WritersInv, WritersInv', OrderedInv, [Next]_vars, UNCHANGED readerVars
    PROVE  OrderedInv'
<1> USE DEF readerVars
<1>1. /\ Cardinality(audits) \in Nat /\ Cardinality(audits)' \in Nat
      /\ Transitions \in Nat /\ Transitions' \in Nat
      /\ Cardinality(audits) <= Cardinality(audits)' /\ Transitions <= Transitions'
  BY Counts, CountsGrow
<1>2. ASSUME NEW x \in Readers PROVE Ordered(x)'
  <2>1. Ordered(x)
    BY DEF OrderedInv
  <2>2. SumFunction(summary[x].actions)' = SumFunction(summary[x].actions)
    OBVIOUS
  <2> QED BY <1>1, <2>1, <2>2 DEF Ordered
<1> QED BY <1>2 DEF OrderedInv

(* A reader that is not at a statement of the summary *)
LEMMA OtherStepOrdered ==
    ASSUME OrderedInv, NEW x \in Readers, NEW to,
           to \notin {"transitions", "actors", "actions", "types", "summed"},
           at' = [at EXCEPT ![x] = to], UNCHANGED vars,
           \/ UNCHANGED summary
           \/ summary' = [summary EXCEPT ![x] = NoSummary]
    PROVE  OrderedInv'
<1>1. /\ DOMAIN at' = Readers /\ DOMAIN summary' = Readers /\ at'[x] = to
      /\ \A z \in Readers : DOMAIN summary'[z] = Fields
      /\ \A z \in Readers \ {x} : at'[z] = at[z] /\ summary'[z] = summary[z]
  BY DEF OrderedInv, NoSummary, Fields
<1>2. Ordered(x)'
  BY <1>1 DEF Ordered
<1>3. \A z \in Readers \ {x} : Ordered(z)'
  BY <1>1 DEF Ordered, OrderedInv, vars, Transitions, Actions
<1> QED BY <1>1, <1>2, <1>3 DEF OrderedInv

(* A statement of the summary, and what remains to be shown of its number *)
NumberRead(x, from, to, field, value) ==
    /\ at[x] = from /\ at'[x] = to
    /\ summary'[x][field] = value
    /\ \A other \in Fields \ {field} : summary'[x][other] = summary[x][other]
    /\ UNCHANGED audits /\ Transitions' = Transitions
    /\ Ordered(x)' => OrderedInv'

LEMMA NumberIsRead ==
    ASSUME OrderedInv, NEW x \in Readers, NEW from, NEW to, Step(x, from, to),
           NEW field \in Fields, NEW value,
           summary' = [summary EXCEPT ![x] = [@ EXCEPT ![field] = value]]
    PROVE  NumberRead(x, from, to, field, value)
<1>1. /\ UNCHANGED vars /\ at[x] = from /\ at'[x] = to
      /\ DOMAIN at' = Readers /\ DOMAIN summary' = Readers
      /\ \A z \in Readers \ {x} : at'[z] = at[z] /\ summary'[z] = summary[z]
      /\ summary'[x] = [summary[x] EXCEPT ![field] = value]
      /\ DOMAIN summary[x] = Fields
  BY DEF Step, OrderedInv
<1>2. \A z \in Readers \ {x} : DOMAIN summary'[z] = Fields /\ Ordered(z)'
  BY <1>1 DEF Ordered, OrderedInv, vars, Transitions, Actions
<1>3. /\ DOMAIN summary'[x] = Fields /\ summary'[x][field] = value
      /\ \A other \in Fields \ {field} : summary'[x][other] = summary[x][other]
  BY <1>1
<1>4. UNCHANGED audits /\ Transitions' = Transitions
  BY <1>1 DEF vars, Transitions, Actions
<1>5. Ordered(x)' => OrderedInv'
  BY <1>1, <1>2, <1>3 DEF OrderedInv
<1> QED BY <1>1, <1>3, <1>4, <1>5 DEF NumberRead

LEMMA SummaryKeepsOrdered ==
    ASSUME WritersInv, OrderedInv, NEW x \in Readers,
           \/ CountTotal(x) \/ CountTransitions(x) \/ CountActors(x)
           \/ GroupActions(x) \/ GroupTypes(x)
    PROVE  OrderedInv'
<1>0. Ordered(x)
  BY DEF OrderedInv
<1>1. CASE CountTotal(x)
  <2>0. NumberRead(x, "new", "transitions", "total", Cardinality(audits))
    BY <1>1, NumberIsRead DEF CountTotal, Fields
  <2>1. /\ at'[x] = "transitions" /\ UNCHANGED audits
        /\ summary'[x].total = Cardinality(audits)
        /\ Ordered(x)' => OrderedInv'
    BY <2>0 DEF NumberRead, Fields
  <2> QED BY <2>1, Counts DEF Ordered
<1>2. CASE CountTransitions(x)
  <2>0. NumberRead(x, "transitions", "actors", "transitions", Transitions)
    BY <1>2, NumberIsRead DEF CountTransitions, Fields
  <2>1. /\ at[x] = "transitions" /\ at'[x] = "actors" /\ UNCHANGED audits
        /\ summary'[x].transitions = Transitions /\ Transitions' = Transitions
        /\ summary'[x].total = summary[x].total
        /\ Ordered(x)' => OrderedInv'
    BY <2>0 DEF NumberRead, Fields
  <2> QED BY <1>0, <2>1, Counts DEF Ordered
<1>3. CASE CountActors(x)
  <2>0. NumberRead(x, "actors", "actions", "uniqueActors", UniqueActors)
    BY <1>3, NumberIsRead DEF CountActors, Fields
  <2>1. /\ at[x] = "actors" /\ at'[x] = "actions" /\ UNCHANGED audits
        /\ summary'[x].uniqueActors = UniqueActors /\ Transitions' = Transitions
        /\ summary'[x].total = summary[x].total
        /\ summary'[x].transitions = summary[x].transitions
        /\ Ordered(x)' => OrderedInv'
    BY <2>0 DEF NumberRead, Fields
  <2> QED BY <1>0, <2>1, Counts DEF Ordered
<1>4. CASE GroupActions(x)
  <2>0. NumberRead(x, "actions", "types", "actions", Actions)
    BY <1>4, NumberIsRead DEF GroupActions, Fields
  <2>1. /\ at[x] = "actions" /\ at'[x] = "types" /\ UNCHANGED audits
        /\ summary'[x].actions = Actions
        /\ summary'[x].total = summary[x].total
        /\ summary'[x].transitions = summary[x].transitions
        /\ summary'[x].uniqueActors = summary[x].uniqueActors
        /\ Ordered(x)' => OrderedInv'
    BY <2>0 DEF NumberRead, Fields
  <2>2. SumFunction(summary'[x].actions) = Cardinality(audits)
    BY <2>1, Counts
  <2> QED BY <1>0, <2>1, <2>2, Counts DEF Ordered
<1>5. CASE GroupTypes(x)
  <2>0. NumberRead(x, "types", "summed", "entityTypes", Cardinality(audits))
    BY <1>5, NumberIsRead DEF GroupTypes, Fields
  <2>1. /\ at[x] = "types" /\ at'[x] = "summed" /\ UNCHANGED audits
        /\ summary'[x].entityTypes = Cardinality(audits)
        /\ summary'[x].actions = summary[x].actions
        /\ summary'[x].total = summary[x].total
        /\ summary'[x].transitions = summary[x].transitions
        /\ summary'[x].uniqueActors = summary[x].uniqueActors
        /\ Ordered(x)' => OrderedInv'
    BY <2>0 DEF NumberRead, Fields
  <2> QED BY <1>0, <2>1 DEF Ordered
<1> QED BY <1>1, <1>2, <1>3, <1>4, <1>5

LEMMA NextOrderedInv ==
    ASSUME WritersInv, WritersInv', OrderedInv, [NextReaders]_allVars
    PROVE  OrderedInv'
<1>1. ASSUME [Next]_vars, UNCHANGED readerVars PROVE OrderedInv'
  BY <1>1, WritersKeepOrdered
<1>2. ASSUME NEW x \in Readers, GetRow(x) \/ GetMissing(x) \/ Preload(x)
      PROVE  OrderedInv'
  <2>1. PICK to \in {"preload", "shown", "not_found"} :
           /\ at' = [at EXCEPT ![x] = to] /\ UNCHANGED vars /\ UNCHANGED summary
    BY <1>2 DEF GetRow, GetMissing, Preload, Step
  <2> QED BY <2>1, OtherStepOrdered
<1>3. ASSUME NEW x \in Readers, ReadFails(x) PROVE OrderedInv'
  BY <1>3, OtherStepOrdered DEF ReadFails
<1>4. ASSUME NEW x \in Readers, ReadNext(x) PROVE OrderedInv'
  BY <1>2, <1>3, <1>4, SummaryKeepsOrdered DEF ReadNext
<1> QED BY <1>1, <1>4 DEF NextReaders, allVars

(***************************************************************************)
(* The five numbers of a summary are ordered as they were read, however     *)
(* many rows writers append between the statements (SummarizeAudits).       *)
(***************************************************************************)
THEOREM SummariesAreOrdered == SpecReaders => []SummaryOrdered
<1>1. InitReaders => OrderedInv
  BY DEF InitReaders, OrderedInv, Ordered, NoSummary, Fields
<1>2. WritersInv /\ WritersInv' /\ OrderedInv /\ [NextReaders]_allVars => OrderedInv'
  BY NextOrderedInv
<1>3. OrderedInv => SummaryOrdered
  BY DEF OrderedInv, Ordered, SummaryOrdered
<1> QED BY <1>1, <1>2, <1>3, AlwaysWritersInv, PTL DEF SpecReaders
=============================================================================
