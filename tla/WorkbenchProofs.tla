--------------------------- MODULE WorkbenchProofs ---------------------------
(***************************************************************************)
(* Theorems about Workbench for every resource, all records, and any number *)
(* of calls that overlap.                                                   *)
(***************************************************************************)
EXTENDS Workbench, FiniteSetTheorems, SequenceTheorems, WellFoundedInduction, TLAPS

----------------------------------------------------------------------------
(* Two status graphs and two sets of gates: the frontend's, the backend's *)

LEMMA LoadedIf ==
    ASSUME NEW policy, NEW from, NEW to, NEW user,
           from \in DOMAIN policy.moves, to \in policy.moves[from],
           Gated(policy, from, to) => canReview(user)
    PROVE  TransitionVerdict(policy, from, to, user) = "loaded"
BY DEF TransitionVerdict, CanTransition

(***************************************************************************)
(* Whatever move the page offers for a record, by its own ranks and minima   *)
(* and its own graph, the route admits and the service of that resource      *)
(* would make for the same role, if the record still had the status shown.   *)
(***************************************************************************)
THEOREM OffersAreAllowed ==
    ASSUME NEW kind \in Kinds, NEW current \in DOMAIN Policies[kind].moves,
           NEW user \in Roles, NEW target,
           roleAtLeast(user, "operator"),
           target = nextPermittedStatus(kind, current, roleAtLeast(user, "reviewer")),
           target # "null"
    PROVE  /\ RouteAllows("transition", user)
           /\ TransitionVerdict(Policies[kind], current, target, user) = "loaded"
<1> DEFINE reviewer == roleAtLeast(user, "reviewer")
<1>1. reviewer => canReview(user)
  BY DEF roleAtLeast, rankShown, canReview, Roles, roleRank
<1>2. reviewer \in BOOLEAN
  BY DEF roleAtLeast
<1>0. RouteAllows("transition", user)
  BY DEF roleAtLeast, rankShown, RouteAllows, RequireMinimumRole, Roles, roleRank
<1> HIDE DEF reviewer
<1>3. target = nextPermittedStatus(kind, current, reviewer)
  BY DEF reviewer
<1> USE DEF nextPermittedStatus
<1>4. CASE kind = "PressUnit"
  <2>1. Policies[kind] = PressUnitPolicy
    BY <1>4 DEF Policies
  <2>2. current \in {"ready", "setup", "printing", "maintenance"}
    BY <2>1 DEF PressUnitPolicy, PressUnitTransitions
  <2>3. target \in Policies[kind].moves[current]
    BY <1>3, <1>4, <2>1, <2>2 DEF PressUnitPolicy, PressUnitTransitions
  <2>4. ~Gated(Policies[kind], current, target)
    BY <2>1 DEF Gated, PressUnitPolicy
  <2> QED BY <1>0, <2>3, <2>4, LoadedIf
<1>5. CASE kind = "PrintRun"
  <2>1. Policies[kind] = PrintRunPolicy
    BY <1>5 DEF Policies
  <2>2. current \in {"setup", "printing", "proofing", "hold", "released"}
    BY <2>1 DEF PrintRunPolicy, PrintRunTransitions
  <2>3. target \in Policies[kind].moves[current]
    BY <1>3, <1>5, <2>1, <2>2 DEF PrintRunPolicy, PrintRunTransitions
  <2>4. target = "released" \/ current = "released" => reviewer
    BY <1>3, <1>5, <2>2
  <2>5. Gated(Policies[kind], current, target) => canReview(user)
    BY <1>1, <2>1, <2>4 DEF Gated, PrintRunPolicy
  <2> QED BY <1>0, <2>3, <2>5, LoadedIf
<1>6. CASE kind = "ColorProof"
  <2>1. Policies[kind] = ColorProofPolicy
    BY <1>6 DEF Policies
  <2>2. current \in {"captured", "review", "accepted", "rejected"}
    BY <2>1 DEF ColorProofPolicy, ColorProofTransitions
  <2>3. target \in Policies[kind].moves[current]
    BY <1>3, <1>6, <2>1, <2>2 DEF ColorProofPolicy, ColorProofTransitions
  <2>4. {current, target} \cap {"accepted", "rejected"} # {} => reviewer
    BY <1>3, <1>6, <2>2
  <2>5. Gated(Policies[kind], current, target) => canReview(user)
    BY <1>1, <2>1, <2>4 DEF Gated, ColorProofPolicy
  <2> QED BY <1>0, <2>3, <2>5, LoadedIf
<1>7. CASE kind = "ReleaseDecision"
  <2>1. Policies[kind] = ReleaseDecisionPolicy
    BY <1>7 DEF Policies
  <2>2. current \in {"draft", "release", "rework", "quarantine"}
    BY <2>1 DEF ReleaseDecisionPolicy, ReleaseDecisionTransitions
  <2>3. target \in Policies[kind].moves[current]
    BY <1>3, <1>7, <2>1, <2>2 DEF ReleaseDecisionPolicy, ReleaseDecisionTransitions
  <2>4. {current, target} \cap {"release", "quarantine"} # {} => reviewer
    BY <1>3, <1>7, <2>2
  <2>5. Gated(Policies[kind], current, target) => canReview(user)
    BY <1>1, <2>1, <2>4 DEF Gated, ReleaseDecisionPolicy
  <2> QED BY <1>0, <2>3, <2>5, LoadedIf
<1> QED BY <1>4, <1>5, <1>6, <1>7 DEF Kinds, Policies

----------------------------------------------------------------------------
(* The spinner *)

CallsTyped == DOMAIN call = Calls

Idle == \A c \in Calls : call[c] = None

(* A step that leaves a call with a state of its own does not leave the page *)
(* idle.                                                                    *)
LEMMA Busy ==
    ASSUME CallsTyped, NEW c \in Calls, NEW state,
           call' = [call EXCEPT ![c] = state], state # None
    PROVE  CallsTyped' /\ ~Idle'
BY DEF CallsTyped, Idle

LEMMA InitSpinner == Init => CallsTyped /\ SpinnerStops
<1> SUFFICES ASSUME Init PROVE CallsTyped /\ SpinnerStops
  OBVIOUS
<1>1. PICK c \in Calls :
         call = [d \in Calls |-> IF d = c THEN Load(1, "", FALSE) ELSE None]
  BY DEF Init
<1>2. Load(1, "", FALSE) # None
  BY DEF Load, None
<1> QED BY <1>1, <1>2 DEF CallsTyped, SpinnerStops

(* The user: what is sent is under way. *)
LEMMA UserKeepsSpinner ==
    ASSUME CallsTyped, SpinnerStops, NEW c \in Calls,
           \/ NextPage(c) \/ PreviousPage(c) \/ Submit(c)
           \/ Remount(c) \/ Confirm(c) \/ CreateDemo(c)
    PROVE  CallsTyped' /\ SpinnerStops'
<1>1. ASSUME NEW request, Send(c, request), request # None
      PROVE  CallsTyped' /\ SpinnerStops'
  BY <1>1, Busy DEF Send, SpinnerStops, Idle
<1>2. ASSUME NEW p, NEW term, Turn(c, p, term)
      PROVE  CallsTyped' /\ SpinnerStops'
  <2>1. Load(p, term, FALSE) # None
    BY DEF Load, None
  <2>2. Send(c, Load(p, term, FALSE)) \/ UNCHANGED <<loading, call>>
    BY <1>2 DEF Turn, storeVars
  <2>3. CASE UNCHANGED <<loading, call>>
    BY <2>3 DEF CallsTyped, SpinnerStops
  <2> QED BY <1>1, <2>1, <2>2, <2>3
<1>3. CASE NextPage(c) \/ PreviousPage(c) \/ Submit(c)
  BY <1>2, <1>3 DEF NextPage, PreviousPage, Submit
<1>4. CASE Remount(c)
  <2>1. DOMAIN call' = Calls /\ call'[c] = Load(1, "", FALSE)
    BY <1>4 DEF Remount
  <2>2. Load(1, "", FALSE) # None
    BY DEF Load, None
  <2> QED BY <2>1, <2>2 DEF CallsTyped, SpinnerStops
<1>5. CASE Confirm(c)
  <2>1. PICK request : Send(c, request) /\ request.kind = "transition"
    BY <1>5 DEF Confirm
  <2>2. request # None
    BY <2>1 DEF None
  <2> QED BY <1>1, <2>1, <2>2
<1>6. CASE CreateDemo(c)
  <2>1. [kind |-> "create", dialog |-> FALSE] # None
    BY DEF None
  <2> QED BY <1>1, <1>6, <2>1 DEF CreateDemo
<1> QED BY <1>3, <1>4, <1>5, <1>6

(* The backend: an answer under way is under way. *)
LEMMA BackendKeepsSpinner ==
    ASSUME CallsTyped, SpinnerStops, NEW c \in Calls, Serve(c) \/ Lose(c)
    PROVE  CallsTyped' /\ SpinnerStops'
<1>1. PICK answer : Reply(c, answer) /\ answer.kind # "none"
  <2>1. CASE ServeLoad(c)
    <3>1. \E rows, count, term, dialog :
             Reply(c, [kind |-> "page", items |-> rows, total |-> count,
                       asked |-> term, dialog |-> dialog])
      BY <2>1, Zenon DEF ServeLoad
    <3> QED BY <3>1
  <2>2. CASE ServeMove(c)
    BY <2>2 DEF ServeMove
  <2>3. CASE ServeCreate(c)
    BY <2>3 DEF ServeCreate
  <2>4. CASE Lose(c)
    BY <2>4 DEF Lose
  <2> QED BY <2>1, <2>2, <2>3, <2>4 DEF Serve
<1>2. answer # None
  BY <1>1 DEF None
<1> QED BY <1>1, <1>2, Busy DEF Reply, SpinnerStops, Idle

(* The last answer, whichever it is, stops the spinner, or sends a call. *)
LEMMA TakeKeepsSpinner ==
    ASSUME CallsTyped, SpinnerStops, NEW c \in Calls, Take(c)
    PROVE  CallsTyped' /\ SpinnerStops'
<1>1. CASE TakeWritten(c)
  <2>1. Load(1, "", call[c].dialog) # None
    BY DEF Load, None
  <2> QED BY <1>1, <2>1, Busy DEF TakeWritten, SpinnerStops, Idle
<1>2. CASE TakePage(c) \/ TakeNoPage(c) \/ TakeRefusal(c)
  BY <1>2 DEF TakePage, TakeNoPage, TakeRefusal, Fail, Done, CallsTyped, SpinnerStops
<1> QED BY <1>1, <1>2 DEF Take

LEMMA NextSpinner ==
    ASSUME CallsTyped, SpinnerStops, [Next]_vars
    PROVE  CallsTyped' /\ SpinnerStops'
<1>1. CASE OpenDialog \/ Cancel \/ Others \/ UNCHANGED vars
  BY <1>1 DEF OpenDialog, Cancel, Others, vars, storeVars, CallsTyped, SpinnerStops
<1> QED
  BY <1>1, UserKeepsSpinner, BackendKeepsSpinner, TakeKeepsSpinner DEF Next

(***************************************************************************)
(* One flag serves all calls, and each call resets it when it ends; still   *)
(* it never stays set after the last call has ended, in whatever order the  *)
(* calls end and whichever of them fail.                                    *)
(***************************************************************************)
THEOREM SpinnerComesToRest == Spec => []SpinnerStops
<1>1. CallsTyped /\ SpinnerStops /\ [Next]_vars => CallsTyped' /\ SpinnerStops'
  BY NextSpinner
<1> QED BY <1>1, InitSpinner, PTL DEF Spec

----------------------------------------------------------------------------
(* Status graphs are closed: a move leads to a status that has moves *)

LEMMA GraphsClosed ==
    ASSUME NEW kind \in Kinds
    PROVE  /\ Policies[kind].initial \in DOMAIN Policies[kind].moves
           /\ \A s \in DOMAIN Policies[kind].moves :
                 Policies[kind].moves[s] \subseteq DOMAIN Policies[kind].moves
<1>1. CASE kind = "PressUnit"
  BY <1>1 DEF Policies, PressUnitPolicy, PressUnitTransitions
<1>2. CASE kind = "PrintRun"
  BY <1>2 DEF Policies, PrintRunPolicy, PrintRunTransitions
<1>3. CASE kind = "ColorProof"
  BY <1>3 DEF Policies, ColorProofPolicy, ColorProofTransitions
<1>4. CASE kind = "ReleaseDecision"
  BY <1>4 DEF Policies, ReleaseDecisionPolicy, ReleaseDecisionTransitions
<1> QED BY <1>1, <1>2, <1>3, <1>4 DEF Kinds

----------------------------------------------------------------------------
(* The list of the backend: writing a record moves it to the front *)

(* The first place where a record stands in the list exists. *)
LEMMA Least ==
    ASSUME NEW I \in SUBSET Nat, I # {}
    PROVE  \E m \in I : \A i \in I : m <= i
<1>1. \A i, m \in Nat : i < m => <<i, m>> \in OpToRel(<, Nat)
  BY DEF OpToRel
<1>2. PICK m \in I : \A i \in I : <<i, m>> \notin OpToRel(<, Nat)
  BY NatLessThanWellFounded, WFMin
<1>3. \A i \in I : ~ (i < m)
  BY <1>1, <1>2
<1> QED BY <1>3

(* Taking a record out of the list takes it out, and adds nothing. *)
LEMMA RemoveFirstShape ==
    ASSUME NEW S, NEW s \in Seq(S), NEW e
    PROVE  /\ RemoveFirst(s, e) \in Seq(S)
           /\ ToSet(RemoveFirst(s, e)) \subseteq ToSet(s)
<1> DEFINE t == RemoveFirst(s, e)
<1>1. Len(s) \in Nat /\ DOMAIN s = 1 .. Len(s) /\ \A i \in 1 .. Len(s) : s[i] \in ToSet(s)
  BY LenProperties DEF ToSet
<1>2. s \in Seq(S \cap ToSet(s))
  <2>1. s \in [1 .. Len(s) -> S \cap ToSet(s)]
    BY <1>1, LenProperties
  <2> QED BY <1>1, <2>1, SeqDef
<1>3. t \in Seq(S \cap ToSet(s))
  <2>1. CASE ~ \E i \in 1 .. Len(s) : s[i] = e
    BY <1>2, <2>1 DEF RemoveFirst
  <2>2. CASE \E i \in 1 .. Len(s) : s[i] = e
    <3> DEFINE I == {i \in 1 .. Len(s) : s[i] = e}
               k == SelectInSeq(s, LAMBDA v : v = e)
    <3>1. I # {} /\ I \in SUBSET Nat
      BY <1>1, <2>2
    <3>2. k \in I
      <4>1. PICK m \in I : \A i \in I : m <= i
        BY <1>1, <3>1, Least
      <4> QED BY <3>1, <4>1 DEF SelectInSeq, Min
    <3>3. t = RemoveAt(s, k)
      BY <2>2 DEF RemoveFirst
    <3>4. k \in 1 .. Len(s)
      BY <3>2
    <3> HIDE DEF k, t
    <3>5. SubSeq(s, 1, k - 1) \in Seq(S \cap ToSet(s))
      BY <1>1, <1>2, <3>4, ElementOfSeq, SubSeqProperties
    <3>6. SubSeq(s, k + 1, Len(s)) \in Seq(S \cap ToSet(s))
      BY <1>1, <1>2, <3>4, ElementOfSeq, SubSeqProperties
    <3> QED BY <3>3, <3>5, <3>6, ConcatProperties DEF RemoveAt
  <2> QED BY <2>1, <2>2
<1>4. DOMAIN t = 1 .. Len(t) /\ \A i \in 1 .. Len(t) : t[i] \in S \cap ToSet(s)
  BY <1>3, LenProperties, ElementOfSeq
<1>5. ToSet(t) \subseteq ToSet(s)
  BY <1>4 DEF ToSet
<1>6. t \in Seq(S)
  BY <1>3, SeqMonotonic
<1> QED BY <1>5, <1>6

LEMMA ConsShape ==
    ASSUME NEW S, NEW s \in Seq(S), NEW e \in S
    PROVE  Cons(e, s) \in Seq(S) /\ ToSet(Cons(e, s)) = ToSet(s) \cup {e}
<1> DEFINE t == Cons(e, s)
<1>1. /\ <<e>> \in Seq(S) /\ Len(<<e>>) = 1 /\ <<e>>[1] = e
  OBVIOUS
<1>2. /\ t \in Seq(S) /\ Len(t) = Len(<<e>>) + Len(s)
      /\ \A i \in 1 .. Len(<<e>>) + Len(s) :
            t[i] = IF i <= Len(<<e>>) THEN <<e>>[i] ELSE s[i - Len(<<e>>)]
  BY <1>1, ConcatProperties DEF Cons
<1>3. /\ DOMAIN t = 1 .. Len(t) /\ DOMAIN s = 1 .. Len(s) /\ Len(s) \in Nat
  BY <1>2, LenProperties
<1> HIDE DEF t
<1>4. /\ Len(t) = 1 + Len(s) /\ t[1] = e
      /\ \A i \in 2 .. Len(t) : t[i] = s[i - 1] /\ i - 1 \in 1 .. Len(s)
      /\ \A i \in 1 .. Len(s) : t[i + 1] = s[i] /\ i + 1 \in 1 .. Len(t)
  BY <1>1, <1>2, <1>3
<1>5. ToSet(t) \subseteq ToSet(s) \cup {e}
  <2>1. ASSUME NEW i \in 1 .. Len(t) PROVE t[i] \in ToSet(s) \cup {e}
    <3>1. i = 1 \/ i \in 2 .. Len(t)
      BY <1>3, <1>4
    <3> QED BY <1>3, <1>4, <3>1 DEF ToSet
  <2> QED BY <1>3, <2>1 DEF ToSet
<1>6. ToSet(s) \cup {e} \subseteq ToSet(t)
  BY <1>3, <1>4 DEF ToSet
<1> QED BY <1>2, <1>5, <1>6 DEF t

----------------------------------------------------------------------------
(* What the page knows.  An item is a record as it was at some moment: its   *)
(* version is at most the record's, and where the versions agree, so do the  *)
(* statuses.                                                                 *)

Items == [id : Records, status : Statuses, version : Nat]

Known(item) ==
    /\ item \in Items
    /\ item.version <= version[item.id]
    /\ item.version = version[item.id] => item.status = status[item.id]

MovedOn(item) == item.id \notin Live \/ version[item.id] > item.version

Allowed(item, target, user) ==
    /\ RouteAllows("transition", user)
    /\ TransitionVerdict(Policy, item.status, target, user) = "loaded"

ServerTyped ==
    /\ config \in Configs
    /\ status \in [Records -> Statuses]
    /\ version \in [Records -> Nat]
    /\ listing \in Seq(Records)

PageKnows ==
    /\ role \in Users
    /\ \A item \in items : Known(item)
    /\ \/ pending = None
       \/ Known(pending.item) /\ Allowed(pending.item, pending.target, role)

(* A call carries a known item and an allowed move; a refusal is about an    *)
(* item that has moved on.                                                   *)
CallKnows(m) ==
    /\ m = None \/ {"kind", "dialog"} \subseteq DOMAIN m
    /\ m.kind = "transition" =>
          /\ {"item", "target", "role"} \subseteq DOMAIN m
          /\ Known(m.item) /\ Allowed(m.item, m.target, m.role)
    /\ m.kind = "page" => "items" \in DOMAIN m /\ \A item \in m.items : Known(item)
    /\ m.kind = "refused" => "item" \in DOMAIN m /\ Known(m.item) /\ MovedOn(m.item)

Knowledge == CallsTyped /\ ServerTyped /\ PageKnows /\ \A c \in Calls : CallKnows(call[c])

LEMMA NoneKind == None.kind = "none" /\ DOMAIN None = {"kind"}
BY DEF None

(* A load needs to know nothing. *)
LEMMA LoadKnows ==
    ASSUME NEW p, NEW term, NEW dialog
    PROVE  CallKnows(Load(p, term, dialog)) /\ CallKnows(Load(p, term, dialog))'
BY DEF CallKnows, Load

----------------------------------------------------------------------------
(* The records only move on *)

(* Knowledge of an item, and that it has moved on, outlast a step. *)
Outlasts ==
    /\ config' = config
    /\ \A item : Known(item) => Known(item)'
    /\ \A item : Known(item) /\ MovedOn(item) => MovedOn(item)'

LEMMA WrittenOutlasts ==
    ASSUME ServerTyped, config' = config,
           NEW r \in Records, NEW s \in Statuses, Written(r, s)
    PROVE  ServerTyped' /\ Outlasts
<1>1. Policy' = Policy /\ Statuses' = Statuses
  BY DEF Policy, Statuses
<1>2. status' \in [Records -> Statuses] /\ version' \in [Records -> Nat]
  BY DEF ServerTyped, Written
<1>3. listing' \in Seq(Records) /\ Live' \subseteq Live \cup {r}
  BY RemoveFirstShape, ConsShape DEF ServerTyped, Written, Live
<1>4. /\ version'[r] = version[r] + 1
      /\ \A q \in Records : q # r => version'[q] = version[q] /\ status'[q] = status[q]
      /\ \A q \in Records : version[q] \in Nat /\ version'[q] \in Nat
  BY <1>2 DEF ServerTyped, Written
<1>5. ASSUME NEW item, Known(item)
      PROVE  Known(item)' /\ (MovedOn(item) => MovedOn(item)')
  <2>1. /\ item \in Items /\ item.id \in Records /\ item.version \in Nat
        /\ item.version <= version[item.id]
        /\ item.version = version[item.id] => item.status = status[item.id]
    BY <1>5 DEF Known, Items
  <2>2. item \in Items'
    BY <1>1, <2>1 DEF Items
  <2>3. CASE item.id = r
    <3>1. item.version < version'[item.id]
      BY <1>4, <2>1, <2>3
    <3> QED BY <1>4, <2>1, <2>2, <3>1 DEF Known, MovedOn
  <2>4. CASE item.id # r
    BY <1>3, <1>4, <2>1, <2>2, <2>4 DEF Known, MovedOn
  <2> QED BY <2>3, <2>4
<1> QED BY <1>1, <1>2, <1>3, <1>5 DEF ServerTyped, Outlasts

LEMMA RemovedOutlasts ==
    ASSUME ServerTyped, config' = config, UNCHANGED <<status, version>>,
           NEW r, listing' = RemoveFirst(listing, r)
    PROVE  ServerTyped' /\ Outlasts
<1>1. Policy' = Policy /\ Statuses' = Statuses /\ Items' = Items
  BY DEF Policy, Statuses, Items
<1>2. listing' \in Seq(Records) /\ Live' \subseteq Live
  BY RemoveFirstShape DEF ServerTyped, Live
<1> QED BY <1>1, <1>2 DEF ServerTyped, Outlasts, Known, MovedOn

LEMMA SameOutlasts ==
    ASSUME ServerTyped, UNCHANGED <<config, serverVars>>
    PROVE  ServerTyped' /\ Outlasts
<1>1. Policy' = Policy /\ Statuses' = Statuses /\ Items' = Items /\ Live' = Live
  BY DEF Policy, Statuses, Items, Live, serverVars
<1> QED BY <1>1 DEF ServerTyped, Outlasts, Known, MovedOn, serverVars

LEMMA CallOutlasts ==
    ASSUME Outlasts, NEW m, CallKnows(m)
    PROVE  CallKnows(m)'
<1>1. \A item, target, user : Allowed(item, target, user)' <=> Allowed(item, target, user)
  BY DEF Outlasts, Allowed, Policy
<1> QED BY <1>1 DEF Outlasts, CallKnows

(* One call changes, the others keep what they know. *)
LEMMA OneCallKnows ==
    ASSUME CallsTyped, Outlasts, \A d \in Calls : CallKnows(call[d]),
           NEW c \in Calls, NEW m, call' = [call EXCEPT ![c] = m], CallKnows(m)'
    PROVE  CallsTyped' /\ \A d \in Calls : CallKnows(call[d])'
<1>1. \A d \in Calls : call'[d] = IF d = c THEN m ELSE call[d]
  BY DEF CallsTyped
<1>2. ASSUME NEW d \in Calls
      PROVE  CallKnows(call[d])'
  <2>1. CASE d = c
    BY <1>1, <2>1
  <2>2. CASE d # c
    <3>1. PICK old : old = call[d]
      OBVIOUS
    <3>2. call'[d] = old
      BY <1>1, <2>2, <3>1
    <3>3. CallKnows(old)'
      BY <3>1, CallOutlasts
    <3> QED BY <3>2, <3>3
  <2> QED BY <2>1, <2>2
<1>3. CallsTyped'
  BY DEF CallsTyped
<1> QED BY <1>2, <1>3

LEMMA PageOutlasts ==
    ASSUME Outlasts, PageKnows, UNCHANGED <<role, items, pending>>
    PROVE  PageKnows'
<1>1. \A item, target, user : Allowed(item, target, user)' <=> Allowed(item, target, user)
  BY DEF Outlasts, Allowed, Policy
<1>2. \A item \in items : Known(item)'
  BY DEF Outlasts, PageKnows
<1>3. PICK old : old = pending
  OBVIOUS
<1>4. ASSUME old # None
      PROVE  Known(old.item)' /\ Allowed(old.item, old.target, role)'
  <2>1. Known(old.item) /\ Allowed(old.item, old.target, role)
    BY <1>3, <1>4 DEF PageKnows
  <2>2. Known(old.item)'
    BY <2>1 DEF Outlasts
  <2>3. role' = role
    OBVIOUS
  <2> QED BY <1>1, <2>1, <2>2, <2>3
<1>5. \/ pending' = None
      \/ Known(pending.item)' /\ Allowed(pending.item, pending.target, role)'
  <2>1. pending' = old
    BY <1>3
  <2> QED BY <1>4, <2>1
<1> QED BY <1>2, <1>5 DEF PageKnows

LEMMA InitKnows == Init => Knowledge
<1> SUFFICES ASSUME Init PROVE Knowledge
  OBVIOUS
<1>1. CallsTyped
  BY InitSpinner
<1>2. status \in [Records -> Statuses] /\ version \in [Records -> Nat] /\ config \in Configs
  BY DEF Init
<1>3. listing \in Seq(Records)
  <2> DEFINE S == Records \ Fresh
  <2>1. IsFiniteSet(S)
    BY RecordsAssumption, FS_Subset
  <2>2. Cardinality(S) \in Nat /\ ExistsBijection(1 .. Cardinality(S), S)
    BY <2>1, FS_CardinalityType
  <2>3. \E f \in [1 .. Cardinality(S) -> S] : IsInjective(f)
    BY <2>2 DEF ExistsBijection, Bijection, Injection
  <2>4. SetToSeq(S) \in [1 .. Cardinality(S) -> S]
    BY <2>3 DEF SetToSeq
  <2>5. SetToSeq(S) \in Seq(S)
    BY <2>2, <2>4, SeqDef
  <2>6. S \subseteq Records
    OBVIOUS
  <2>7. SetToSeq(S) \in Seq(Records)
    <3> HIDE DEF S
    <3> QED BY <2>5, <2>6, SeqMonotonic
  <2> QED BY <2>7 DEF Init
<1>4. PageKnows
  BY DEF Init, PageKnows
<1>5. ASSUME NEW c \in Calls
      PROVE  CallKnows(call[c])
  <2>1. call[c] = None \/ call[c] = Load(1, "", FALSE)
    BY DEF Init
  <2>2. CallKnows(None)
    BY NoneKind DEF CallKnows
  <2> QED BY <2>1, <2>2, LoadKnows
<1> QED BY <1>1, <1>2, <1>3, <1>4, <1>5 DEF Knowledge, ServerTyped

----------------------------------------------------------------------------
(* The user acts on what the page knows *)

LEMMA SentKnows ==
    ASSUME Knowledge, UNCHANGED <<config, serverVars, role, pending>>,
           NEW c \in Calls, NEW m, Send(c, m), CallKnows(m)
    PROVE  Knowledge'
<1>1. ServerTyped' /\ Outlasts
  BY SameOutlasts DEF Knowledge
<1>2. PageKnows'
  BY <1>1, PageOutlasts DEF Send, Knowledge
<1>3. CallKnows(m)'
  BY <1>1, CallOutlasts
<1>4. CallsTyped' /\ \A d \in Calls : CallKnows(call[d])'
  BY <1>1, <1>3, OneCallKnows DEF Send, Knowledge
<1> QED BY <1>1, <1>2, <1>4 DEF Knowledge

LEMMA UserKnows ==
    ASSUME Knowledge, NEW c \in Calls,
           NextPage(c) \/ PreviousPage(c) \/ Submit(c) \/ Confirm(c) \/ CreateDemo(c)
    PROVE  Knowledge'
<1>1. \A p, term, dialog : CallKnows(Load(p, term, dialog))
  BY LoadKnows
<1>2. ASSUME NEW p, NEW term, Turn(c, p, term)
      PROVE  Knowledge'
  <2>1. CASE Send(c, Load(p, term, FALSE))
    BY <1>1, <1>2, <2>1, SentKnows DEF Turn
  <2>2. CASE UNCHANGED <<storeVars, call>>
    <3>1. ServerTyped' /\ Outlasts
      BY <1>2, SameOutlasts DEF Knowledge, Turn
    <3>2. PageKnows'
      BY <1>2, <2>2, <3>1, PageOutlasts DEF Knowledge, Turn, storeVars
    <3>3. call' = call
      BY <2>2
    <3>4. \A d \in Calls : CallKnows(call[d])'
      BY <3>1, <3>3, CallOutlasts DEF Knowledge
    <3> QED BY <3>1, <3>2, <3>3, <3>4 DEF Knowledge, CallsTyped
  <2> QED BY <1>2, <2>1, <2>2 DEF Turn
<1>3. CASE NextPage(c) \/ PreviousPage(c) \/ Submit(c)
  BY <1>2, <1>3 DEF NextPage, PreviousPage, Submit
<1>4. CASE Confirm(c)
  <2> DEFINE m == [kind |-> "transition", item |-> pending.item,
                   target |-> pending.target, role |-> role, dialog |-> TRUE]
  <2>1. Send(c, m) /\ UNCHANGED <<config, serverVars, role, pending>>
    BY <1>4 DEF Confirm, pageVars
  <2>2. Known(pending.item) /\ Allowed(pending.item, pending.target, role)
    BY <1>4 DEF Confirm, Knowledge, PageKnows
  <2>3. CallKnows(m)
    BY <2>2 DEF CallKnows
  <2> QED BY <2>1, <2>3, SentKnows
<1>5. CASE CreateDemo(c)
  <2> DEFINE m == [kind |-> "create", dialog |-> FALSE]
  <2>1. Send(c, m) /\ UNCHANGED <<config, serverVars, role, pending>>
    BY <1>5 DEF CreateDemo, pageVars
  <2>2. CallKnows(m)
    BY DEF CallKnows
  <2> QED BY <2>1, <2>2, SentKnows
<1> QED BY <1>3, <1>4, <1>5

LEMMA RemountKnows ==
    ASSUME Knowledge, NEW c \in Calls, Remount(c)
    PROVE  Knowledge'
<1>1. ServerTyped' /\ Outlasts
  BY SameOutlasts DEF Knowledge, Remount
<1>2. PageKnows'
  BY <1>1 DEF Remount, Knowledge, PageKnows, Outlasts
<1>3. CallsTyped'
  BY DEF Remount, CallsTyped
<1>4. ASSUME NEW d \in Calls
      PROVE  CallKnows(call[d])'
  <2>1. PICK old : old = call[d]
    OBVIOUS
  <2>2. CallKnows(old) /\ CallKnows(old)'
    BY <1>1, <2>1, CallOutlasts DEF Knowledge
  <2>3. CASE d = c
    <3>1. call'[d] = Load(1, "", FALSE)
      BY <2>3 DEF Remount
    <3>2. CallKnows(Load(1, "", FALSE))'
      BY LoadKnows
    <3>3. PICK new : new = Load(1, "", FALSE)
      OBVIOUS
    <3>4. CallKnows(new)' /\ call'[d] = new
      BY <3>1, <3>2, <3>3 DEF Load
    <3> QED BY <3>4
  <2>4. CASE d # c /\ old = None
    <3>1. call'[d] = old
      BY <2>1, <2>4 DEF Remount
    <3> QED BY <2>2, <3>1
  <2>5. CASE d # c /\ old # None
    <3>1. call'[d] = [old EXCEPT !.dialog = FALSE]
      BY <2>1, <2>5 DEF Remount
    <3> DEFINE new == [old EXCEPT !.dialog = FALSE]
    <3>2. /\ DOMAIN new = DOMAIN old
          /\ {"kind", "dialog"} \subseteq DOMAIN old
      BY <2>2, <2>5 DEF CallKnows
    <3>3. /\ new.kind = old.kind
          /\ "item" \in DOMAIN old => new.item = old.item
          /\ "items" \in DOMAIN old => new.items = old.items
          /\ "target" \in DOMAIN old => new.target = old.target
          /\ "role" \in DOMAIN old => new.role = old.role
      BY <3>2
    <3> HIDE DEF new
    <3>4. CallKnows(new)'
      BY <2>2, <3>2, <3>3 DEF CallKnows
    <3>5. call'[d] = new
      BY <3>1 DEF new
    <3> QED BY <3>4, <3>5
  <2> QED BY <2>3, <2>4, <2>5
<1> QED BY <1>1, <1>2, <1>3, <1>4 DEF Knowledge

(* What the dialog offers is allowed for the item as it was shown. *)
LEMMA DialogKnows ==
    ASSUME Knowledge, OpenDialog \/ Cancel
    PROVE  Knowledge'
<1>1. ServerTyped' /\ Outlasts /\ call' = call
  BY SameOutlasts DEF Knowledge, OpenDialog, Cancel
<1>2. CallsTyped' /\ \A d \in Calls : CallKnows(call[d])'
  BY <1>1, CallOutlasts DEF Knowledge, CallsTyped
<1>3. role' = role /\ items' = items /\ config' = config
  BY DEF OpenDialog, Cancel, storeVars
<1>4. \A item \in items : Known(item)'
  BY <1>1 DEF Outlasts, Knowledge, PageKnows
<1>5. CASE Cancel
  BY <1>1, <1>2, <1>3, <1>4, <1>5 DEF Cancel, Knowledge, PageKnows
<1>6. CASE OpenDialog
  <2>1. PICK item \in items : /\ Target(item) # "null" /\ canWrite
                             /\ pending' = [kind |-> "move", item |-> item,
                                             target |-> Target(item)]
    BY <1>6 DEF OpenDialog
  <2>0. PICK target : target = Target(item)
    OBVIOUS
  <2>2. Known(item) /\ Known(item)'
    BY <1>4 DEF Knowledge, PageKnows
  <2>3. /\ config \in Kinds /\ role \in Roles
        /\ item.status \in DOMAIN Policies[config].moves
    BY <2>2, ConfigsAssumption, UsersAssumption
       DEF Knowledge, ServerTyped, PageKnows, Known, Items, Statuses, Policy
  <2>4. target = nextPermittedStatus(config, item.status, roleAtLeast(role, "reviewer"))
    BY <2>0 DEF Target
  <2>5. /\ RouteAllows("transition", role)
        /\ TransitionVerdict(Policies[config], item.status, target, role) = "loaded"
    BY <2>1, <2>3, <2>4, <2>0, OffersAreAllowed DEF canWrite
  <2>6. pending' = [kind |-> "move", item |-> item, target |-> target]
    BY <2>0, <2>1
  <2>7. Allowed(item, target, role)'
    BY <1>3, <2>5 DEF Allowed, Policy
  <2>8. pending'.item = item /\ pending'.target = target
    BY <2>6
  <2>9. Known(pending.item)' /\ Allowed(pending.item, pending.target, role)'
    BY <2>2, <2>7, <2>8
  <2>10. PageKnows'
    BY <1>3, <1>4, <2>9 DEF Knowledge, PageKnows
  <2> QED BY <1>1, <1>2, <2>10 DEF Knowledge
<1> QED BY <1>5, <1>6

----------------------------------------------------------------------------
(* The backend and the other users *)

(* An answer that is sent while the records only move on. *)
LEMMA AnswerKnows ==
    ASSUME Knowledge, ServerTyped', Outlasts,
           NEW c \in Calls, NEW answer, Reply(c, answer), CallKnows(answer)'
    PROVE  Knowledge'
<1>1. PageKnows'
  BY PageOutlasts DEF Reply, Knowledge, pageVars, storeVars
<1>2. CallsTyped' /\ \A d \in Calls : CallKnows(call[d])'
  BY OneCallKnows DEF Reply, Knowledge
<1> QED BY <1>1, <1>2 DEF Knowledge

LEMMA ServeLoadKnows ==
    ASSUME Knowledge, NEW c \in Calls, ServeLoad(c)
    PROVE  Knowledge'
<1>1. PICK rows, count, term, dialog :
         /\ rows \subseteq DOMAIN listing
         /\ Reply(c, [kind |-> "page", items |-> {Shown(listing[i]) : i \in rows},
                      total |-> count, asked |-> term, dialog |-> dialog])
  <2> DEFINE matches == {i \in DOMAIN listing : call[c].search = "" \/ listing[i] \in Found}
             before(i) == Cardinality({j \in matches : j < i})
             rows == {i \in matches : before(i) \div PageSize = call[c].page - 1}
  <2>1. Reply(c, [kind |-> "page", items |-> {Shown(listing[i]) : i \in rows},
                  total |-> Cardinality(matches),
                  asked |-> <<call[c].page, call[c].search>>, dialog |-> call[c].dialog])
    BY Zenon DEF ServeLoad
  <2>2. rows \subseteq DOMAIN listing
    BY Zenon
  <2> HIDE DEF rows, matches
  <2> QED BY <2>1, <2>2
<1>2. ServerTyped' /\ Outlasts
  BY SameOutlasts DEF Knowledge, ServeLoad, Reply
<1>3. ASSUME NEW i \in rows
      PROVE  Known(Shown(listing[i]))
  <2>1. i \in DOMAIN listing /\ listing \in Seq(Records)
    BY <1>1 DEF Knowledge, ServerTyped
  <2>2. listing[i] \in Records
    BY <2>1, LenProperties, ElementOfSeq
  <2> QED BY <2>2 DEF Known, Shown, Items, Knowledge, ServerTyped
<1>4. PICK shown : shown = {Shown(listing[i]) : i \in rows}
  OBVIOUS
<1>5. \A item \in shown : Known(item)'
  BY <1>2, <1>3, <1>4 DEF Outlasts
<1> DEFINE answer == [kind |-> "page", items |-> shown,
                      total |-> count, asked |-> term, dialog |-> dialog]
<1>6. CallKnows(answer)'
  BY <1>5 DEF CallKnows
<1>7. Reply(c, answer)
  BY <1>1, <1>4
<1> HIDE DEF answer
<1>8. \E a : a = answer /\ Reply(c, a) /\ CallKnows(a)'
  BY <1>6, <1>7 DEF answer
<1> QED BY <1>2, <1>8, AnswerKnows

(* The services allow the move, or the item has moved on. *)
LEMMA VerdictKnows ==
    ASSUME Knowledge, NEW m, m.kind = "transition", CallKnows(m)
    PROVE  /\ MoveVerdict(m) = "loaded" =>
                 /\ m.item.id \in Live /\ version[m.item.id] = m.item.version
                 /\ status[m.item.id] = m.item.status
                 /\ m.item.id \in Records /\ m.target \in Statuses
           /\ MoveVerdict(m) # "loaded" => MovedOn(m.item)
<1>1. /\ Known(m.item) /\ Allowed(m.item, m.target, m.role)
      /\ m.item.id \in Records /\ m.item.version \in Nat /\ m.item.status \in Statuses
      /\ version[m.item.id] \in Nat /\ m.item.version <= version[m.item.id]
      /\ m.item.version = version[m.item.id] => m.item.status = status[m.item.id]
  BY DEF CallKnows, Known, Items, Knowledge, ServerTyped
<1>2. /\ RouteAllows("transition", m.role)
      /\ TransitionVerdict(Policy, m.item.status, m.target, m.role) = "loaded"
  BY <1>1 DEF Allowed
<1>3. m.target \in Statuses
  <2>1. m.target \in Policy.moves[m.item.status]
    BY <1>2 DEF TransitionVerdict, CanTransition
  <2>2. config \in Kinds
    BY ConfigsAssumption DEF Knowledge, ServerTyped
  <2> QED BY <1>1, <2>1, <2>2, GraphsClosed DEF Policy, Statuses
<1>4. ASSUME MoveVerdict(m) = "loaded"
      PROVE  m.item.id \in Live /\ version[m.item.id] = m.item.version
  BY <1>4 DEF MoveVerdict
<1>5. ASSUME MoveVerdict(m) # "loaded", m.item.id \in Live,
             version[m.item.id] = m.item.version
      PROVE  FALSE
  <2>1. status[m.item.id] = m.item.status
    BY <1>1, <1>5
  <2> QED BY <1>2, <1>5, <2>1 DEF MoveVerdict
<1>6. MoveVerdict(m) # "loaded" => MovedOn(m.item)
  BY <1>1, <1>5 DEF MovedOn
<1> QED BY <1>1, <1>3, <1>4, <1>6

LEMMA ServeMoveKnows ==
    ASSUME Knowledge, NEW c \in Calls, ServeMove(c)
    PROVE  Knowledge'
<1>1. PICK m : m = call[c]
  OBVIOUS
<1>2. m.kind = "transition" /\ CallKnows(m) /\ config' = config
  BY <1>1 DEF ServeMove, Knowledge, Reply
<1>3. CASE MoveVerdict(m) = "loaded"
  <2>1. Written(m.item.id, m.target) /\ m.item.id \in Records /\ m.target \in Statuses
    BY <1>1, <1>2, <1>3, VerdictKnows DEF ServeMove
  <2>2. ServerTyped' /\ Outlasts
    BY <1>2, <2>1, WrittenOutlasts DEF Knowledge
  <2>3. PICK answer : /\ answer = [kind |-> "written", dialog |-> m.dialog]
                      /\ Reply(c, answer)
    BY <1>1, <1>3 DEF ServeMove
  <2>4. CallKnows(answer)'
    BY <2>3 DEF CallKnows
  <2> QED BY <2>2, <2>3, <2>4, AnswerKnows
<1>4. CASE MoveVerdict(m) # "loaded"
  <2>1. UNCHANGED <<config, serverVars>>
    BY <1>1, <1>2, <1>4 DEF ServeMove
  <2>2. ServerTyped' /\ Outlasts
    BY <2>1, SameOutlasts DEF Knowledge
  <2>3. PICK answer : /\ answer = [kind |-> "refused", item |-> m.item, dialog |-> m.dialog]
                      /\ Reply(c, answer)
    BY <1>1, <1>4 DEF ServeMove
  <2>4. Known(m.item) /\ MovedOn(m.item)
    BY <1>2, <1>4, VerdictKnows DEF CallKnows
  <2>5. PICK item : item = m.item
    OBVIOUS
  <2>6. Known(item)' /\ MovedOn(item)'
    BY <2>2, <2>4, <2>5 DEF Outlasts
  <2>7. answer = [kind |-> "refused", item |-> item, dialog |-> m.dialog]
    BY <2>3, <2>5
  <2>8. CallKnows(answer)'
    BY <2>6, <2>7 DEF CallKnows
  <2> QED BY <2>2, <2>3, <2>8, AnswerKnows
<1> QED BY <1>3, <1>4

LEMMA ServeCreateKnows ==
    ASSUME Knowledge, NEW c \in Calls, ServeCreate(c)
    PROVE  Knowledge'
<1>1. config' = config /\ config \in Kinds
  BY ConfigsAssumption DEF ServeCreate, Reply, Knowledge, ServerTyped
<1>2. PICK answer : /\ Reply(c, answer) /\ answer.kind \in {"written", "failed"}
                    /\ {"kind", "dialog"} \subseteq DOMAIN answer
  <2> DEFINE done == [kind |-> "written", dialog |-> FALSE]
             not  == [kind |-> "failed", dialog |-> FALSE]
  <2>1. Reply(c, done) \/ Reply(c, not)
    BY DEF ServeCreate
  <2>2. /\ done.kind = "written" /\ not.kind = "failed"
        /\ DOMAIN done = {"kind", "dialog"} /\ DOMAIN not = {"kind", "dialog"}
    OBVIOUS
  <2> HIDE DEF done, not
  <2> QED BY <2>1, <2>2
<1>3. ServerTyped' /\ Outlasts
  <2>1. ASSUME NEW r \in Fresh, Written(r, Policy.initial)
        PROVE  ServerTyped' /\ Outlasts
    <3>1. r \in Records /\ Policy.initial \in Statuses
      BY <1>1, RecordsAssumption, GraphsClosed DEF Policy, Statuses
    <3> QED BY <1>1, <2>1, <3>1, WrittenOutlasts DEF Knowledge
  <2>2. CASE UNCHANGED serverVars
    BY <1>1, <2>2, SameOutlasts DEF Knowledge
  <2> QED BY <2>1, <2>2 DEF ServeCreate
<1>4. CallKnows(answer)'
  BY <1>2 DEF CallKnows
<1> QED BY <1>2, <1>3, <1>4, AnswerKnows

LEMMA LoseKnows ==
    ASSUME Knowledge, NEW c \in Calls, Lose(c)
    PROVE  Knowledge'
<1>1. PICK answer : /\ Reply(c, answer) /\ answer.kind \in {"notLoaded", "failed"}
                    /\ {"kind", "dialog"} \subseteq DOMAIN answer
  BY DEF Lose
<1>2. ServerTyped' /\ Outlasts
  BY SameOutlasts DEF Knowledge, Lose, Reply
<1>3. CallKnows(answer)'
  BY <1>1 DEF CallKnows
<1> QED BY <1>1, <1>2, <1>3, AnswerKnows

LEMMA OthersKnows ==
    ASSUME Knowledge, Others
    PROVE  Knowledge'
<1>1. config' = config /\ call' = call /\ UNCHANGED <<role, items, pending>>
  BY DEF Others, pageVars, storeVars
<1>2. ServerTyped' /\ Outlasts
  <2>1. PICK r \in Live :
           \/ \E s \in Policy.moves[status[r]] \cup {status[r]} : Written(r, s)
           \/ listing' = RemoveFirst(listing, r) /\ UNCHANGED <<status, version>>
    BY DEF Others
  <2>2. r \in Records
    BY LenProperties, ElementOfSeq DEF Live, ToSet, Knowledge, ServerTyped
  <2>3. ASSUME NEW s \in Policy.moves[status[r]] \cup {status[r]}, Written(r, s)
        PROVE  ServerTyped' /\ Outlasts
    <3>1. status[r] \in Statuses /\ config \in Kinds
      BY <2>2, ConfigsAssumption DEF Knowledge, ServerTyped
    <3>2. s \in Statuses
      BY <2>3, <3>1, GraphsClosed DEF Statuses, Policy
    <3> QED BY <1>1, <2>2, <2>3, <3>2, WrittenOutlasts DEF Knowledge
  <2>4. CASE listing' = RemoveFirst(listing, r) /\ UNCHANGED <<status, version>>
    BY <1>1, <2>4, RemovedOutlasts DEF Knowledge
  <2> QED BY <2>1, <2>3, <2>4
<1>3. PageKnows'
  BY <1>1, <1>2, PageOutlasts DEF Knowledge
<1>4. CallsTyped' /\ \A d \in Calls : CallKnows(call[d])'
  BY <1>1, <1>2, CallOutlasts DEF Knowledge, CallsTyped
<1> QED BY <1>2, <1>3, <1>4 DEF Knowledge

(* The answers only pass on what the calls know. *)
LEMMA TakeKnows ==
    ASSUME Knowledge, NEW c \in Calls, Take(c)
    PROVE  Knowledge'
<1>1. /\ UNCHANGED <<config, serverVars>> /\ role' = role
      /\ pending' = pending \/ pending' = None
  <2>1. CASE TakePage(c)
    BY <2>1 DEF TakePage, Close
  <2>2. CASE TakeNoPage(c)
    BY <2>2 DEF TakeNoPage, Fail, Close
  <2>3. CASE TakeWritten(c)
    BY <2>3 DEF TakeWritten, pageVars
  <2>4. CASE TakeRefusal(c)
    BY <2>4 DEF TakeRefusal, Fail
  <2> QED BY <2>1, <2>2, <2>3, <2>4 DEF Take
<1>2. ServerTyped' /\ Outlasts
  BY <1>1, SameOutlasts DEF Knowledge
<1>3. items' = items \/ (call[c].kind = "page" /\ items' = call[c].items)
  BY DEF Take, TakePage, TakeNoPage, TakeWritten, TakeRefusal, Fail
<1>4. \A item \in items' : Known(item)
  BY <1>3 DEF Knowledge, PageKnows, CallKnows
<1>5. PageKnows'
  <2>1. \A item \in items' : Known(item)'
    BY <1>2, <1>4 DEF Outlasts
  <2>2. CASE pending' = None
    BY <1>1, <2>1, <2>2 DEF PageKnows, Knowledge
  <2>3. CASE pending' = pending
    <3>1. PICK old : old = pending
      OBVIOUS
    <3>2. old = None \/ (Known(old.item) /\ Allowed(old.item, old.target, role))
      BY <3>1 DEF Knowledge, PageKnows
    <3>3. pending' = old /\ role' = role /\ config' = config
      BY <1>1, <2>3, <3>1
    <3>4. Known(old.item) => Known(old.item)'
      BY <1>2 DEF Outlasts
    <3>5. Allowed(old.item, old.target, role) => Allowed(old.item, old.target, role)'
      BY <3>3 DEF Allowed, Policy
    <3> QED BY <1>1, <2>1, <3>2, <3>3, <3>4, <3>5 DEF PageKnows, Knowledge
  <2> QED BY <1>1, <2>2, <2>3
<1>6. PICK m : call' = [call EXCEPT ![c] = m] /\ CallKnows(m)'
  <2>1. CASE TakeWritten(c)
    <3>1. CallKnows(Load(1, "", call[c].dialog))
      BY LoadKnows
    <3>2. PICK m : m = Load(1, "", call[c].dialog)
      OBVIOUS
    <3>3. CallKnows(m)'
      BY <1>2, <3>1, <3>2, CallOutlasts
    <3> QED BY <2>1, <3>2, <3>3 DEF TakeWritten
  <2>2. CASE TakePage(c) \/ TakeNoPage(c) \/ TakeRefusal(c)
    <3>1. CallKnows(None)
      BY NoneKind DEF CallKnows
    <3>2. PICK m : m = None
      OBVIOUS
    <3>3. CallKnows(m)'
      BY <1>2, <3>1, <3>2, CallOutlasts
    <3> QED BY <2>2, <3>2, <3>3 DEF TakePage, TakeNoPage, TakeRefusal, Fail, Done
  <2> QED BY <2>1, <2>2 DEF Take
<1>7. CallsTyped' /\ \A d \in Calls : CallKnows(call[d])'
  BY <1>2, <1>6, OneCallKnows DEF Knowledge
<1> QED BY <1>2, <1>5, <1>7 DEF Knowledge

LEMMA NextKnows ==
    ASSUME Knowledge, [Next]_vars
    PROVE  Knowledge'
<1>1. CASE UNCHANGED vars
  <2>1. UNCHANGED <<config, serverVars>> /\ call' = call /\ UNCHANGED <<role, items, pending>>
    BY <1>1 DEF vars, pageVars, storeVars
  <2>2. ServerTyped' /\ Outlasts
    BY <2>1, SameOutlasts DEF Knowledge
  <2>3. PageKnows' /\ CallsTyped' /\ \A d \in Calls : CallKnows(call[d])'
    BY <2>1, <2>2, PageOutlasts, CallOutlasts DEF Knowledge, CallsTyped
  <2> QED BY <2>2, <2>3 DEF Knowledge
<1>2. ASSUME NEW c \in Calls, Serve(c)
      PROVE  Knowledge'
  BY <1>2, ServeLoadKnows, ServeMoveKnows, ServeCreateKnows DEF Serve
<1> QED
  BY <1>1, <1>2, UserKnows, RemountKnows, DialogKnows, LoseKnows, TakeKnows, OthersKnows
     DEF Next

(***************************************************************************)
(* Only what moved on is refused: for every resource and role, however old  *)
(* the list, and whatever the other users did in the meantime (transition,   *)
(* nextPermittedStatus, the Transition of the services).                     *)
(***************************************************************************)
THEOREM RefusalsAreStale == Spec => []RefusedMeansMoved
<1>1. Knowledge => RefusedMeansMoved
  BY DEF Knowledge, CallKnows, MovedOn, RefusedMeansMoved
<1>2. Knowledge /\ [Next]_vars => Knowledge'
  BY NextKnows
<1> QED BY <1>1, <1>2, InitKnows, PTL DEF Spec

----------------------------------------------------------------------------
(* The move that is made *)

(* A transition under way stays one until it is lost or the backend judges.  *)
LEMMA TransitionStep ==
    ASSUME Knowledge, [Next]_vars, NEW c \in Calls, call[c].kind = "transition"
    PROVE  call'[c].kind \in {"transition", "failed"} \/ ServeMove(c)
<1>1. c \in DOMAIN call /\ call[c] # None /\ {"kind", "dialog"} \subseteq DOMAIN call[c]
  BY NoneKind DEF Knowledge, CallsTyped, CallKnows
<1>2. ASSUME NEW d \in Calls, NEW m, call' = [call EXCEPT ![d] = m], d # c
      PROVE  call'[c].kind = "transition"
  BY <1>2
<1>3. CASE OpenDialog \/ Cancel \/ Others \/ UNCHANGED vars
  BY <1>3 DEF OpenDialog, Cancel, Others, vars
<1>4. ASSUME NEW d \in Calls, NEW m, Send(d, m)
      PROVE  call'[c].kind = "transition"
  BY <1>1, <1>2, <1>4 DEF Send
<1>5. ASSUME NEW d \in Calls, NextPage(d) \/ PreviousPage(d) \/ Submit(d)
      PROVE  call'[c].kind = "transition"
  <2>1. PICK p, term : Turn(d, p, term)
    BY <1>5 DEF NextPage, PreviousPage, Submit
  <2>2. Send(d, Load(p, term, FALSE)) \/ call' = call
    BY <2>1 DEF Turn
  <2> QED BY <1>4, <2>2
<1>6. ASSUME NEW d \in Calls, Confirm(d) \/ CreateDemo(d)
      PROVE  call'[c].kind = "transition"
  <2>1. PICK m : Send(d, m)
    BY <1>6 DEF Confirm, CreateDemo
  <2> QED BY <1>4, <2>1
<1>7. ASSUME NEW d \in Calls, Remount(d)
      PROVE  call'[c].kind = "transition"
  <2>1. c # d /\ call'[c] = [call[c] EXCEPT !.dialog = FALSE]
    BY <1>1, <1>7 DEF Remount
  <2> QED BY <1>1, <2>1
<1>8. ASSUME NEW d \in Calls, Serve(d)
      PROVE  call'[c].kind = "transition" \/ ServeMove(c)
  <2>1. PICK m : call' = [call EXCEPT ![d] = m]
    <3>1. CASE ServeLoad(d)
      <4>1. \E answer : Reply(d, answer)
        BY <3>1, Zenon DEF ServeLoad
      <4> QED BY <4>1 DEF Reply
    <3>2. CASE ServeMove(d)
      BY <3>2 DEF ServeMove, Reply
    <3>3. CASE ServeCreate(d)
      BY <3>3 DEF ServeCreate, Reply
    <3> QED BY <1>8, <3>1, <3>2, <3>3 DEF Serve
  <2>2. d = c => ServeMove(c)
    <3>1. ServeLoad(c) => call[c].kind = "load"
      BY Zenon DEF ServeLoad
    <3>2. ServeCreate(c) => call[c].kind = "create"
      BY DEF ServeCreate
    <3> QED BY <1>8, <3>1, <3>2 DEF Serve
  <2> QED BY <1>2, <2>1, <2>2
<1>9. ASSUME NEW d \in Calls, Lose(d)
      PROVE  call'[c].kind \in {"transition", "failed"}
  <2>1. PICK m : call' = [call EXCEPT ![d] = m] /\ (call[d].kind # "load" => m.kind = "failed")
    <3> DEFINE m == [kind   |-> IF call[d].kind = "load" THEN "notLoaded" ELSE "failed",
                     dialog |-> call[d].dialog]
    <3>1. call' = [call EXCEPT ![d] = m]
      BY <1>9 DEF Lose, Reply
    <3>2. call[d].kind # "load" => m.kind = "failed"
      OBVIOUS
    <3> HIDE DEF m
    <3> QED BY <3>1, <3>2
  <2>2. CASE d = c
    BY <1>1, <2>1, <2>2
  <2> QED BY <1>2, <2>1, <2>2
<1>10. ASSUME NEW d \in Calls, Take(d)
       PROVE  call'[c].kind = "transition"
  <2>1. PICK m : call' = [call EXCEPT ![d] = m]
    BY <1>10 DEF Take, TakePage, TakeNoPage, TakeWritten, TakeRefusal, Fail, Done
  <2>2. d # c
    BY <1>10 DEF Take, TakePage, TakeNoPage, TakeWritten, TakeRefusal
  <2> QED BY <1>2, <2>1, <2>2
<1> QED BY <1>3, <1>5, <1>6, <1>7, <1>8, <1>9, <1>10 DEF Next

(***************************************************************************)
(* What the dialog asked is what is done: the move that the backend makes    *)
(* starts from the status that the dialog showed, for any number of calls    *)
(* that overlap and any other users (transition, Store.Update).              *)
(***************************************************************************)
THEOREM MovesAsConfirmed == Spec => ConfirmedMoveIsMade
<1> DEFINE AsShown == \A c \in Calls :
             call[c].kind = "transition" /\ call'[c].kind = "written"
             => status[call[c].item.id] = call[c].item.status
<1>1. ASSUME Knowledge, [Next]_vars
      PROVE  AsShown
  <2>1. ASSUME NEW c \in Calls, call[c].kind = "transition", call'[c].kind = "written"
        PROVE  status[call[c].item.id] = call[c].item.status
    <3>1. ServeMove(c)
      BY <1>1, <2>1, TransitionStep
    <3>2. MoveVerdict(call[c]) = "loaded"
      <4>1. CASE MoveVerdict(call[c]) # "loaded"
        <5>1. PICK m : call' = [call EXCEPT ![c] = m] /\ m.kind = "refused"
          <6> DEFINE m == [kind |-> "refused", item |-> call[c].item,
                           dialog |-> call[c].dialog]
          <6>1. call' = [call EXCEPT ![c] = m]
            BY <3>1, <4>1 DEF ServeMove, Reply
          <6>2. m.kind = "refused"
            OBVIOUS
          <6> HIDE DEF m
          <6> QED BY <6>1, <6>2
        <5>2. call'[c].kind = "refused"
          BY <1>1, <5>1 DEF Knowledge, CallsTyped
        <5> QED BY <2>1, <5>2
      <4> QED BY <4>1
    <3>3. CallKnows(call[c])
      BY <1>1 DEF Knowledge
    <3> QED BY <1>1, <2>1, <3>2, <3>3, VerdictKnows
  <2> QED BY <2>1
<1>2. Knowledge /\ [Next]_vars => Knowledge'
  BY NextKnows
<1>3. Knowledge /\ [Next]_vars => [AsShown]_vars
  BY <1>1
<1> QED BY <1>2, <1>3, InitKnows, PTL DEF Spec, ConfirmedMoveIsMade
=============================================================================
