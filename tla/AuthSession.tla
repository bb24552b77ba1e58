----------------------------- MODULE AuthSession -----------------------------
(***************************************************************************)
(* The session of the frontend: the store of hooks/useAuth.ts in one tab,    *)
(* the local storage that all tabs share (api/client.ts), the calls of the   *)
(* tab, and the authentication and role guards of the backend that answers   *)
(* them (middleware/auth.go, router.go).  A call carries the token that was  *)
(* stored when it was sent; its answer may come after the session has        *)
(* changed, and a 401 empties the storage whoever is logged in by then.      *)
(***************************************************************************)
EXTENDS Lifecycle, PageGuards

CONSTANTS
    Users,      \* the roles the user switches to
    Asked,      \* what the user asks for, of Requests
    Calls,      \* bound on the dialogs that are open and the calls under way
    Mounts      \* how often React runs the effects of a new component: once,
                \* or twice in the strict mode of a development build

ASSUME UsersAssumption   == Users \subseteq Roles
ASSUME AskedAssumption   == Asked \subseteq Requests
ASSUME MountsAssumption  == Mounts \in Nat \ {0}

VARIABLES
    storage,        \* the stored session: a role and whether its token expired
    shown,          \* the role of the session the tab displays
    loading, initialized,
    adopted,        \* whether initialize found the session of another tab
    parted,         \* history: another tab has stored the session of another role
    effects,        \* the calls of initialize that React has still to make
    call            \* the dialogs that are open, and the calls under way

tabVars == <<shown, loading, initialized, adopted, parted>>
vars    == <<storage, tabVars, effects, call>>

NoSession     == [role |-> "none", expired |-> FALSE]
Session(role) == [role |-> role, expired |-> FALSE]
None          == [kind |-> "none"]

----------------------------------------------------------------------------
(* The backend: Authenticate, the guards of the routes, and for a move that  *)
(* is reserved to reviewers the gate of the service.                         *)

Admits(asked, role) ==
    /\ asked = "audits" => RequireMinimumRole("reviewer", role)
    /\ asked \in Writes => RouteAllows(asked, role)
    /\ asked = "review" => canReview(role)

Verdict(token, asked) ==
    IF token = NoSession \/ token.expired THEN "unauthorized"
    ELSE IF ~Admits(asked, token.role) THEN "forbidden"
    ELSE "done"

(* The frontend goes by a table of ranks and by minima of its own. *)
Offered == {asked \in Asked : MayAsk(shown, asked)}

(* The tab shows the role of the stored session, if one is stored. *)
Agrees == storage # NoSession => storage.role = shown

----------------------------------------------------------------------------
(* A page is opened: the module reads the storage, effects are still to run *)

Init ==
    /\ storage \in {NoSession} \cup {Session(role) : role \in Users}
    /\ shown       = storage.role
    /\ loading     = (storage = NoSession)
    /\ initialized = (storage # NoSession)
    /\ adopted     = FALSE
    /\ parted      = FALSE
    /\ effects     = Mounts
    /\ call        = [c \in Calls |-> None]

(* The answers to calls of the page that is left are not applied any more. *)
Reload ==
    /\ shown'       = storage.role
    /\ loading'     = (storage = NoSession)
    /\ initialized' = (storage # NoSession)
    /\ adopted'     = FALSE
    /\ parted'      = FALSE
    /\ effects'     = Mounts
    /\ call'        = [c \in Calls |-> None]
    /\ UNCHANGED storage

(* While the tab is loading, App shows nothing else: dialogs are gone. *)
Login(c, role) ==
    /\ call[c] = None
    /\ loading' = TRUE
    /\ call'    = [d \in Calls |->
                      IF d = c THEN [kind |-> "login", role |-> role]
                      ELSE IF call[d].kind = "dialog" THEN None ELSE call[d]]
    /\ UNCHANGED <<storage, shown, initialized, adopted, parted>>

(* The effect of useAuth *)
Effect ==
    /\ effects > 0
    /\ effects' = effects - 1

InitializeAgain ==
    /\ Effect
    /\ initialized
    /\ UNCHANGED <<storage, tabVars, call>>

(* Another tab has logged in since the module read the storage: its session  *)
(* is taken over, and loading stays as it is.                                *)
InitializeCached ==
    /\ Effect
    /\ ~initialized /\ storage # NoSession
    /\ shown'       = storage.role
    /\ initialized' = TRUE
    /\ adopted'     = TRUE
    /\ parted'      = FALSE
    /\ UNCHANGED <<storage, loading, call>>

InitializeLogin(c) ==
    /\ Effect
    /\ ~initialized /\ storage = NoSession
    /\ Login(c, "admin")

initialize ==
    InitializeAgain \/ InitializeCached \/ \E c \in Calls : InitializeLogin(c)

(* The user *)
switchRole(c) ==
    /\ ~loading
    /\ \E role \in Users \ {IF shown = "none" THEN "admin" ELSE shown} : Login(c, role)
    /\ UNCHANGED effects

(* "excused" is history: the request is not made as who it was offered to. *)
request(c, asked, excused) ==
    /\ call' = [call EXCEPT ![c] = [kind |-> "api", token |-> storage, asked |-> asked,
                                    excused |-> excused \/ parted]]
    /\ UNCHANGED <<storage, tabVars, effects>>

(* What a page asks for as soon as it appears. *)
OpenPage(c) ==
    /\ ~loading
    /\ call[c] = None
    /\ \E asked \in Offered \ Writes : request(c, asked, FALSE)

(* What writes is asked for in a dialog: offered now, confirmed later.  A    *)
(* second confirmation of one dialog is that of two opened together.         *)
OpenDialog(c) ==
    /\ ~loading
    /\ call[c] = None
    /\ \E asked \in Offered \cap Writes :
          call' = [call EXCEPT ![c] = [kind |-> "dialog", asked |-> asked, excused |-> FALSE]]
    /\ UNCHANGED <<storage, tabVars, effects>>

Confirm(c) ==
    /\ call[c].kind = "dialog"
    /\ request(c, call[c].asked, call[c].excused)

Cancel(c) ==
    /\ call[c].kind = "dialog"
    /\ call' = [call EXCEPT ![c] = None]
    /\ UNCHANGED <<storage, tabVars, effects>>

Use(c) == OpenPage(c) \/ OpenDialog(c) \/ Confirm(c) \/ Cancel(c)

----------------------------------------------------------------------------
(* The answers of the backend *)

Answer(c, answer) ==
    /\ call' = [call EXCEPT ![c] = answer]
    /\ UNCHANGED <<storage, tabVars, effects>>

Grant(c) ==
    /\ call[c].kind = "login"
    /\ Answer(c, [kind |-> "granted", role |-> call[c].role])

(* A wrong password, a user who is not active, and any error of the database. *)
Refuse(c) == call[c].kind = "login" /\ Answer(c, [kind |-> "refused"])

Judge(c) ==
    /\ call[c].kind = "api"
    /\ LET verdict == Verdict(call[c].token, call[c].asked) IN
       Answer(c, IF verdict = "forbidden" THEN [kind |-> verdict, excused |-> call[c].excused]
                                          ELSE [kind |-> verdict])

(* A lost connection, or an answer (429, 5xx) that changes no session. *)
Lose(c) ==
    \/ call[c].kind = "login" /\ Answer(c, [kind |-> "failed"])
    \/ call[c].kind = "api"   /\ Answer(c, [kind |-> "done"])

Serve(c) == Grant(c) \/ Refuse(c) \/ Judge(c) \/ Lose(c)

(* The tokens issued so far expire (exp, JWT_TTL). *)
Expire ==
    /\ storage # NoSession
    /\ storage' = [storage EXCEPT !.expired = TRUE]
    /\ call' = [c \in Calls |-> IF call[c].kind = "api" /\ call[c].token # NoSession
                                THEN [call[c] EXCEPT !.token.expired = TRUE] ELSE call[c]]
    /\ UNCHANGED <<tabVars, effects>>

(* Other tabs of the browser log in, and meet 401s of their own. *)
OtherTabs ==
    /\ storage' \in {NoSession} \cup {Session(role) : role \in Users}
    /\ UNCHANGED <<shown, loading, initialized, adopted, effects, call>>
    /\ parted' = ~Agrees'

----------------------------------------------------------------------------
(***************************************************************************)
(* The answers are taken.  When the tab stops loading, the page appears and  *)
(* its effects run: a login that failed is tried again by them.              *)
(***************************************************************************)
Done(c) == call' = [call EXCEPT ![c] = None]

(* Mutant: loading is reset on success only. *)
StopLoadingGranted(c) ==
    /\ loading' = (loading /\ call[c].kind # "granted")
    /\ effects' = IF loading THEN Mounts ELSE effects

StopLoading(c) ==
    /\ loading' = FALSE
    /\ effects' = IF loading THEN Mounts ELSE effects

(* Mutant: the first session stored is kept. *)
saveSessionOnce(role) ==
    storage' = IF storage = NoSession THEN Session(role) ELSE storage

saveSession(role) == storage' = Session(role)

(***************************************************************************)
(* When logins overlap, the page is back once the first has ended, and the   *)
(* session of a later one is put under it: a dialog that is open by then     *)
(* stays open, though it was offered to another role.                        *)
(***************************************************************************)
TakeSession(c) ==
    /\ call[c].kind = "granted"
    /\ saveSession(call[c].role)
    /\ shown' = call[c].role
    /\ initialized' = TRUE
    /\ parted' = FALSE
    /\ StopLoading(c)
    /\ call' = [d \in Calls |->
                   IF d = c THEN None
                   ELSE IF call[d].kind = "dialog" /\ call[c].role # shown
                        THEN [call[d] EXCEPT !.excused = TRUE] ELSE call[d]]
    /\ UNCHANGED adopted

TakeFailure(c) ==
    /\ call[c].kind \in {"refused", "failed"}
    /\ storage' = IF call[c].kind = "refused" THEN NoSession ELSE storage
    /\ StopLoading(c)
    /\ Done(c)
    /\ UNCHANGED <<shown, initialized, adopted, parted>>

TakeAnswer(c) ==
    /\ call[c].kind \in {"unauthorized", "forbidden", "done"}
    /\ storage' = IF call[c].kind = "unauthorized" THEN NoSession ELSE storage
    /\ Done(c)
    /\ UNCHANGED <<tabVars, effects>>

Take(c) == TakeSession(c) \/ TakeFailure(c) \/ TakeAnswer(c)

Next ==
    \/ Reload \/ initialize \/ Expire \/ OtherTabs
    \/ \E c \in Calls : switchRole(c) \/ Use(c) \/ Serve(c) \/ Take(c)

Spec == Init /\ [][Next]_vars

(***************************************************************************)
(* Effects run, also when requests have taken all of Calls meanwhile, and    *)
(* the backend answers.  A login that is tried again and again succeeds in   *)
(* the end, and the user does not for ever reload the page just before an    *)
(* answer is taken.                                                          *)
(***************************************************************************)
FairSpec ==
    /\ Spec
    /\ SF_vars(initialize)
    /\ \A c \in Calls : WF_vars(Serve(c)) /\ WF_vars(Take(c))
    /\ \A c \in Calls : SF_vars(Grant(c)) /\ SF_vars(TakeSession(c))

----------------------------------------------------------------------------
(***************************************************************************)
(* Requests are made as who is displayed: the tab shows the role of the      *)
(* stored session, although logins overlap, fail, are undone by a late 401,  *)
(* and the page is reloaded in between.  Only another tab, with which it     *)
(* shares the storage and not the display, can end that (saveSession).       *)
(***************************************************************************)
StoredIsShown == [][Agrees => Agrees' \/ OtherTabs]_vars

(***************************************************************************)
(* What the frontend offers (EntityPage, RoleGuard, roleAtLeast) the backend *)
(* grants (router.go, RequireMinimumRole, the gates of the services): 403 is *)
(* never answered, however switchRole and initialize overlap and whatever is *)
(* under way meanwhile, unless another tab had stored another role, or a     *)
(* login had ended under the open dialog.                                    *)
(***************************************************************************)
OfferedIsGranted ==
    \A c \in Calls : call[c].kind = "forbidden" => call[c].excused

(***************************************************************************)
(* A tab that is loading gets its session and the workbench appears, however *)
(* many logins fail before (initialize, switchRole: "finally"); only a tab   *)
(* that adopted the session of another one may load until it is reloaded.    *)
(***************************************************************************)
WorkbenchAppears == loading ~> shown # "none" /\ (~loading \/ adopted)
=============================================================================
