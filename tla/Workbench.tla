------------------------------ MODULE Workbench ------------------------------
(***************************************************************************)
(* One page of the workbench (components/EntityPage.tsx) with its store      *)
(* (stores/factory.ts), the backend it calls, and the other users of that    *)
(* backend.  Calls overlap: a user does not wait for an answer, nothing is   *)
(* aborted, and answers are applied in the order in which they arrive.  The  *)
(* backend is what RecordService implements: each write is atomic            *)
(* (AtomicRecord), guarded by the version that the client quotes.            *)
(***************************************************************************)
EXTENDS Lifecycle, PageGuards, Sequences, FiniteSets, SequencesExt

CONSTANTS
    Configs,    \* the resources the page may be about
    Records,    \* the records of that resource
    Fresh,      \* those that do not exist yet
    Terms,      \* the terms the user searches for besides none
    Found,      \* the records whose code or name contains any of them
    PageSize,   \* 20 in the code
    Calls,      \* bound on the calls that overlap
    Users,      \* the roles the user takes on
    MaxVersion  \* bound on the version of each record

ASSUME ConfigsAssumption == Configs \subseteq Kinds
ASSUME UsersAssumption   == Users \subseteq Roles
ASSUME RecordsAssumption == IsFiniteSet(Records) /\ Fresh \subseteq Records

VARIABLES
    config,     \* the resource the page is about
    status, version, listing,       \* the records, and the order of the live ones
    role, page, search, pending,    \* the page: session role, page, term, dialog
    items, total, asked, loading, error,    \* the store
    call        \* the calls under way

serverVars == <<status, version, listing>>
pageVars   == <<role, page, search, pending>>
storeVars  == <<items, total, asked, loading, error>>
vars       == <<config, serverVars, pageVars, storeVars, call>>

Policy   == Policies[config]
Statuses == DOMAIN Policy.moves
Live     == ToSet(listing)
None     == [kind |-> "none"]

----------------------------------------------------------------------------
(* What the page offers: the next status of a record, by kind and role *)

(* Mutant: releasing is offered to everybody. *)
nextPermittedStatusUngated(kind, current, reviewer) ==
    CASE kind = "ReleaseDecision" ->
            [draft |-> "release", release |-> "rework",
             rework |-> "release", quarantine |-> "rework"][current]
      [] OTHER -> "null"

nextPermittedStatus(kind, current, reviewer) ==
    LET reviewed(target) == IF reviewer THEN target ELSE "null" IN
    CASE kind = "PressUnit" ->
            [ready |-> "setup", setup |-> "printing",
             printing |-> "maintenance", maintenance |-> "printing"][current]
      [] kind = "PrintRun" ->
            [setup |-> "printing", printing |-> "proofing",
             proofing |-> IF reviewer THEN "released" ELSE "hold",
             hold |-> "proofing", released |-> reviewed("hold")][current]
      [] kind = "ColorProof" ->
            [captured |-> "review", review |-> reviewed("accepted"),
             accepted |-> reviewed("review"), rejected |-> reviewed("review")][current]
      [] kind = "ReleaseDecision" ->
            [draft |-> IF reviewer THEN "release" ELSE "rework",
             release |-> reviewed("rework"), rework |-> reviewed("release"),
             quarantine |-> reviewed("rework")][current]

canWrite == roleAtLeast(role, "operator")

Target(item) ==
    nextPermittedStatus(config, item.status, roleAtLeast(role, "reviewer"))

----------------------------------------------------------------------------
(* Calls: sent, then carrying an answer.  "dialog" says that the dialog that *)
(* made the call is still there to be closed by its success.                 *)

Load(p, term, dialog) ==
    [kind |-> "load", page |-> p, search |-> term, dialog |-> dialog]

(* "set({ loading: true, error: '' })" and the request. *)
Send(c, request) ==
    /\ call[c] = None
    /\ call'    = [call EXCEPT ![c] = request]
    /\ loading' = TRUE
    /\ error'   = "none"
    /\ UNCHANGED <<items, total, asked>>

Init ==
    /\ config \in Configs
    /\ \E s \in Statuses : status = [r \in Records |-> s]
    /\ version = [r \in Records |-> IF r \in Fresh THEN 0 ELSE 1]
    /\ listing = SetToSeq(Records \ Fresh)
    /\ role \in Users /\ page = 1 /\ search = "" /\ pending = None
    /\ items = {} /\ total = 0 /\ asked = <<1, "">> /\ loading = TRUE /\ error = "none"
    /\ \E c \in Calls :
          call = [d \in Calls |-> IF d = c THEN Load(1, "", FALSE) ELSE None]

----------------------------------------------------------------------------
(* The user.  An open dialog covers the page; leaving it remains possible.  *)

Pages == IF total = 0 THEN 1 ELSE (total + PageSize - 1) \div PageSize

(* The effect that loads runs when the page or the term has changed. *)
Turn(c, p, term) ==
    /\ pending = None
    /\ page' = p /\ search' = term
    /\ IF <<p, term>> # <<page, search>> THEN Send(c, Load(p, term, FALSE))
                                         ELSE UNCHANGED <<storeVars, call>>
    /\ UNCHANGED <<config, serverVars, role, pending>>

NextPage(c)     == page < Pages /\ Turn(c, page + 1, search)
PreviousPage(c) == page > 1 /\ Turn(c, page - 1, search)
Submit(c)       == \E term \in Terms \cup {""} : Turn(c, 1, term)

(* Leave and come back, perhaps in another role: the state of the page is    *)
(* new, the store is the old one, and the calls under way go on.             *)
Remount(c) ==
    /\ call[c] = None
    /\ role' \in Users
    /\ page' = 1 /\ search' = "" /\ pending' = None
    /\ call' = [d \in Calls |->
                  IF d = c THEN Load(1, "", FALSE)
                  ELSE IF call[d] = None THEN None
                  ELSE [call[d] EXCEPT !.dialog = FALSE]]
    /\ loading' = TRUE /\ error' = "none"
    /\ UNCHANGED <<config, serverVars, items, total, asked>>

(* The dialog keeps the record as the list showed it. *)
OpenDialog ==
    /\ pending = None
    /\ canWrite
    /\ \E item \in items :
          /\ Target(item) # "null"
          /\ item.version < MaxVersion[item.id]
          /\ pending' = [kind |-> "move", item |-> item, target |-> Target(item)]
    /\ UNCHANGED <<config, serverVars, role, page, search, storeVars, call>>

Cancel ==
    /\ pending # None
    /\ pending' = None
    /\ UNCHANGED <<config, serverVars, role, page, search, storeVars, call>>

(* Nothing keeps the user from confirming again while the call is under way. *)
Confirm(c) ==
    /\ pending # None
    /\ Send(c, [kind |-> "transition", item |-> pending.item,
                target |-> pending.target, role |-> role, dialog |-> TRUE])
    /\ UNCHANGED <<config, serverVars, pageVars>>

CreateDemo(c) ==
    /\ pending = None
    /\ canWrite
    /\ Send(c, [kind |-> "create", dialog |-> FALSE])
    /\ UNCHANGED <<config, serverVars, pageVars>>

----------------------------------------------------------------------------
(* The backend *)

Written(r, s) ==
    /\ status'  = [status EXCEPT ![r] = s]
    /\ version' = [version EXCEPT ![r] = @ + 1]
    /\ listing' = Cons(r, RemoveFirst(listing, r))   \* updated_at DESC

Reply(c, answer) ==
    /\ call' = [call EXCEPT ![c] = answer]
    /\ UNCHANGED <<config, pageVars, storeVars>>

Shown(r) == [id |-> r, status |-> status[r], version |-> version[r]]

(* A page of the list as of one moment; Paging has the two statements. *)
ServeLoad(c) ==
    /\ call[c].kind = "load"
    /\ LET matches == {i \in DOMAIN listing : call[c].search = "" \/ listing[i] \in Found}
           before(i) == Cardinality({j \in matches : j < i})
           rows    == {i \in matches : before(i) \div PageSize = call[c].page - 1}
       IN  Reply(c, [kind |-> "page", items |-> {Shown(listing[i]) : i \in rows},
                     total |-> Cardinality(matches),
                     asked |-> <<call[c].page, call[c].search>>,
                     dialog |-> call[c].dialog])
    /\ UNCHANGED serverVars

(* Mutant: the version is not compared. *)
MoveVerdictBlind(m) ==
    IF ~RouteAllows("transition", m.role) THEN "forbidden"
    ELSE IF m.item.id \notin Live THEN "not_found"
    ELSE TransitionVerdict(Policy, status[m.item.id], m.target, m.role)

MoveVerdict(m) ==
    IF ~RouteAllows("transition", m.role) THEN "forbidden"
    ELSE IF m.item.id \notin Live THEN "not_found"
    ELSE LET verdict == TransitionVerdict(Policy, status[m.item.id], m.target, m.role)
         IN  IF verdict = "loaded" /\ version[m.item.id] # m.item.version
             THEN "version_conflict" ELSE verdict

ServeMove(c) ==
    /\ call[c].kind = "transition"
    /\ IF MoveVerdict(call[c]) = "loaded"
       THEN /\ Written(call[c].item.id, call[c].target)
            /\ Reply(c, [kind |-> "written", dialog |-> call[c].dialog])
       ELSE /\ Reply(c, [kind |-> "refused", item |-> call[c].item,
                         dialog |-> call[c].dialog])
            /\ UNCHANGED serverVars

(* The code of a new record is taken from the clock and may be in use. *)
ServeCreate(c) ==
    /\ call[c].kind = "create"
    /\ \/ \E r \in Fresh :
             /\ version[r] = 0
             /\ Written(r, Policy.initial)
             /\ Reply(c, [kind |-> "written", dialog |-> FALSE])
       \/ /\ Reply(c, [kind |-> "failed", dialog |-> FALSE])
          /\ UNCHANGED serverVars

(* A call fails on its way there, or its answer on the way back. *)
Lose(c) ==
    /\ call[c].kind \in {"load", "transition", "create", "written"}
    /\ Reply(c, [kind   |-> IF call[c].kind = "load" THEN "notLoaded" ELSE "failed",
                 dialog |-> call[c].dialog])
    /\ UNCHANGED serverVars

Serve(c) == ServeLoad(c) \/ ServeMove(c) \/ ServeCreate(c)

(* Other users *)
Others ==
    /\ \E r \in Live :
          /\ version[r] < MaxVersion[r]
          /\ \/ \E s \in Policy.moves[status[r]] \cup {status[r]} : Written(r, s)
             \/ /\ listing' = RemoveFirst(listing, r)
                /\ UNCHANGED <<status, version>>
    /\ UNCHANGED <<config, pageVars, storeVars, call>>

----------------------------------------------------------------------------
(* The answers *)

Done(c) == call' = [call EXCEPT ![c] = None]

(* Mutant: the dialog stays. *)
CloseNever(c) == UNCHANGED pending

(* Closing is blind: it closes whatever dialog the page shows by now. *)
Close(c) == pending' = IF call[c].dialog THEN None ELSE pending

(* Mutant: the failure is shown, the spinner goes on. *)
FailSpinning(c) ==
    /\ error' = "shown"
    /\ Done(c)
    /\ UNCHANGED <<config, serverVars, role, page, search, items, total, asked, loading>>

Fail(c) ==
    /\ error' = "shown"
    /\ loading' = FALSE
    /\ Done(c)
    /\ UNCHANGED <<config, serverVars, role, page, search, items, total, asked>>

TakePage(c) ==
    /\ call[c].kind = "page"
    /\ items' = call[c].items /\ total' = call[c].total /\ asked' = call[c].asked
    /\ loading' = FALSE
    /\ Done(c) /\ Close(c)
    /\ UNCHANGED <<config, serverVars, role, page, search, error>>

(* load keeps its failure to itself, so the dialog is closed all the same. *)
TakeNoPage(c) ==
    /\ call[c].kind = "notLoaded"
    /\ Fail(c)
    /\ Close(c)

(* After a write: "await get().load(path)", the first page without a term. *)
TakeWritten(c) ==
    /\ call[c].kind = "written"
    /\ call'    = [call EXCEPT ![c] = Load(1, "", call[c].dialog)]
    /\ loading' = TRUE /\ error' = "none"
    /\ UNCHANGED <<config, serverVars, pageVars, items, total, asked>>

TakeRefusal(c) ==
    /\ call[c].kind \in {"refused", "failed"}
    /\ Fail(c)
    /\ UNCHANGED pending

Take(c) == TakePage(c) \/ TakeNoPage(c) \/ TakeWritten(c) \/ TakeRefusal(c)

Next ==
    \/ \E c \in Calls :
          \/ NextPage(c) \/ PreviousPage(c) \/ Submit(c) \/ Remount(c)
          \/ Confirm(c) \/ CreateDemo(c)
          \/ Serve(c) \/ Lose(c) \/ Take(c)
    \/ OpenDialog \/ Cancel \/ Others

Spec == Init /\ [][Next]_vars

(* The backend answers, and the browser runs the callbacks. *)
FairSpec == Spec /\ \A c \in Calls : WF_vars(Serve(c)) /\ WF_vars(Take(c))

----------------------------------------------------------------------------
(***************************************************************************)
(* What the dialog asked is what is done: when the backend makes a move for  *)
(* the workbench, the record has the status the dialog showed, although the  *)
(* list may be old, the dialog was opened long ago, and the user confirmed   *)
(* twice (transition quotes item.version; Store.Update compares it).         *)
(***************************************************************************)
ConfirmedMoveIsMade ==
    [][\A c \in Calls :
         call[c].kind = "transition" /\ call'[c].kind = "written"
         => status[call[c].item.id] = call[c].item.status]_vars

(***************************************************************************)
(* Only what moved on is refused: everything the page offers, for every      *)
(* kind, status and role, the services allow, so that a refusal means that   *)
(* the record is not any more what the list showed (nextPermittedStatus      *)
(* against CanTransition and the gates of Transition).                       *)
(***************************************************************************)
RefusedMeansMoved ==
    \A c \in Calls : call[c].kind = "refused" =>
        \/ call[c].item.id \notin Live
        \/ version[call[c].item.id] > call[c].item.version

(***************************************************************************)
(* The spinner stops: when no call is under way the page is not loading,     *)
(* however calls overlapped and failed (load, createRecord, transition).     *)
(***************************************************************************)
SpinnerStops == (\A c \in Calls : call[c] = None) => ~loading

(***************************************************************************)
(* A confirmed move comes to an end the user sees: the dialog closes or the  *)
(* alert is shown (EntityPage, ".then(() => setPending(null))").             *)
(***************************************************************************)
ConfirmAnswered ==
    \A c \in Calls :
        call[c].kind = "transition" /\ call[c].dialog
            ~> pending = None \/ error # "none"

(***************************************************************************)
(* When nothing is under way and nothing failed, the list is the page and    *)
(* the search result that the page says it shows (README: the workbench      *)
(* supports search and paging).                                              *)
(***************************************************************************)
ListIsWhatWasAsked ==
    (\A c \in Calls : call[c] = None) /\ error = "none" => asked = <<page, search>>
=============================================================================
