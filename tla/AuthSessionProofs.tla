-------------------------- MODULE AuthSessionProofs --------------------------
(***************************************************************************)
(* Theorems about AuthSession for every set of users, of requests and of    *)
(* dialogs and calls: whose session requests are made with, and what the    *)
(* backend says to what the frontend offers.                                *)
(***************************************************************************)
EXTENDS AuthSession, TLAPS

----------------------------------------------------------------------------
(* What the variables hold *)

Sessions == [role : Roles \cup {"none"}, expired : BOOLEAN]

Logins   == [kind : {"login", "granted"}, role : Roles]
Dialogs  == [kind : {"dialog"}, asked : Writes, excused : BOOLEAN]
ApiCalls == [kind : {"api"}, token : Sessions, asked : Requests, excused : BOOLEAN]
Denials  == [kind : {"forbidden"}, excused : BOOLEAN]
Others   == [kind : {"none", "refused", "failed", "unauthorized", "done"}]

CallStates == Logins \cup Dialogs \cup ApiCalls \cup Denials \cup Others

(* Only the empty session has no role. *)
Stored ==
    /\ storage \in Sessions
    /\ storage.role = "none" => storage = NoSession

(***************************************************************************)
(* OfferedIsGranted speaks of answers.  It holds because what has no excuse *)
(* is still offered to the role on display as long as its dialog is open,   *)
(* was granted to the role of its token when it was sent, and stays so      *)
(* while the token expires.                                                 *)
(***************************************************************************)
StillOffered(state, role) ==
    state.kind = "dialog" /\ ~state.excused => MayAsk(role, state.asked)

Entitled(state) ==
    /\ state.kind = "api" /\ ~state.excused /\ state.token # NoSession =>
          Admits(state.asked, state.token.role)
    /\ state.kind = "forbidden" => state.excused

TabInv ==
    /\ Stored
    /\ shown \in Roles \cup {"none"}
    /\ ~initialized => shown = "none"
    /\ parted \in BOOLEAN
    /\ ~parted => Agrees

IInv ==
    /\ TabInv
    /\ call \in [Calls -> CallStates]
    /\ \A c \in Calls : StillOffered(call[c], shown) /\ Entitled(call[c])

----------------------------------------------------------------------------
(* Sessions *)

LEMMA SessionTyped ==
    ASSUME NEW role \in Roles
    PROVE  /\ Session(role) \in Sessions /\ Session(role).role = role
           /\ role # "none" /\ Session(role) # NoSession
BY DEF Session, Sessions, NoSession, Roles, roleRank

LEMMA NoSessionTyped == NoSession \in Sessions /\ NoSession.role = "none"
BY DEF NoSession, Sessions

(***************************************************************************)
(* Two tables of ranks and two sets of minima: what a page lets a role ask   *)
(* for, the routes and services admit it to.                                 *)
(***************************************************************************)
LEMMA OfferedIsAdmitted ==
    ASSUME NEW role \in Roles, NEW asked \in Requests, MayAsk(role, asked)
    PROVE  Admits(asked, role)
<1> USE DEF Roles, roleRank, RequireMinimumRole
<1>1. asked = "audits" => RequireMinimumRole("reviewer", role)
  BY DEF MayAsk, pageMinimum, roleAtLeast, rankShown
<1>2. asked \in Writes => RouteAllows(asked, role)
  BY DEF MayAsk, pageMinimum, roleAtLeast, rankShown, RouteAllows, Writes
<1>3. asked = "review" => canReview(role)
  BY DEF MayAsk, pageMinimum, roleAtLeast, rankShown, canReview
<1> QED BY <1>1, <1>2, <1>3 DEF Admits

(* Nothing that writes is offered to nobody. *)
LEMMA NobodyWrites ==
    ASSUME NEW asked \in Writes
    PROVE  ~MayAsk("none", asked)
BY DEF Writes, MayAsk, pageMinimum, roleAtLeast

----------------------------------------------------------------------------
(* The calls under way *)

(* A call in a good state keeps IInv, if nobody else's display changes. *)
LEMMA CallKeepsIInv ==
    ASSUME IInv, NEW c \in Calls, NEW state \in CallStates,
           StillOffered(state, shown), Entitled(state),
           call' = [call EXCEPT ![c] = state], TabInv', shown' = shown
    PROVE  IInv'
<1>1. call' \in [Calls -> CallStates]
  BY DEF IInv
<1>2. ASSUME NEW b \in Calls PROVE StillOffered(call'[b], shown') /\ Entitled(call'[b])
  <2>1. CASE b = c
    BY <2>1 DEF IInv
  <2>2. CASE b # c
    BY <2>2 DEF IInv
  <2> QED BY <2>1, <2>2
<1>3. \A b \in Calls : StillOffered(call[b], shown)' /\ Entitled(call[b])'
  BY <1>2 DEF StillOffered, Entitled
<1> QED BY <1>1, <1>3 DEF IInv

(* The same where the other calls change too. *)
LEMMA CallsKeepIInv ==
    ASSUME TabInv', DOMAIN call' = Calls, call' = [c \in Calls |-> call'[c]],
           \A c \in Calls : /\ call'[c] \in CallStates
                             /\ StillOffered(call'[c], shown') /\ Entitled(call'[c])
    PROVE  IInv'
<1>1. call' \in [Calls -> CallStates]
  OBVIOUS
<1>2. \A c \in Calls : StillOffered(call[c], shown)' /\ Entitled(call[c])'
  BY DEF StillOffered, Entitled
<1> QED BY <1>1, <1>2 DEF IInv

(* States that are no dialog, no request and no denial are good. *)
LEMMA HarmlessStates ==
    ASSUME NEW state \in Logins \cup Others, NEW role
    PROVE  state \in CallStates /\ StillOffered(state, role) /\ Entitled(state)
BY DEF Logins, Others, CallStates, StillOffered, Entitled

LEMMA NoneIsHarmless ==
    ASSUME NEW role
    PROVE  /\ None \in Others /\ None \in CallStates
           /\ StillOffered(None, role) /\ Entitled(None)
BY HarmlessStates DEF None, Others

(* Every call is dropped: the page is left. *)
LEMMA DroppedKeepIInv ==
    ASSUME call' = [c \in Calls |-> None], TabInv'
    PROVE  IInv'
<1>1. \A c \in Calls : /\ call'[c] \in CallStates
                        /\ StillOffered(call'[c], shown') /\ Entitled(call'[c])
  BY NoneIsHarmless
<1> QED BY <1>1, CallsKeepIInv

(* What has no excuse is granted to the token it is sent with. *)
LEMMA RequestKeepsIInv ==
    ASSUME IInv, NEW c \in Calls, NEW asked \in Requests, NEW excused \in BOOLEAN,
           ~excused => MayAsk(shown, asked), request(c, asked, excused)
    PROVE  IInv'
<1> DEFINE state == [kind |-> "api", token |-> storage, asked |-> asked,
                     excused |-> excused \/ parted]
<1>1. call' = [call EXCEPT ![c] = state]
  BY DEF request
<1>2. storage \in Sessions /\ (excused \/ parted) \in BOOLEAN
  BY DEF IInv, TabInv, Stored
<1>3. state \in CallStates
  BY <1>2 DEF CallStates, ApiCalls
<1>4. ASSUME ~(excused \/ parted), storage # NoSession
      PROVE  Admits(asked, storage.role)
  <2>1. storage.role = shown /\ storage.role \in Roles
    BY <1>4 DEF IInv, TabInv, Agrees, Stored, Sessions
  <2>2. MayAsk(storage.role, asked)
    BY <1>4, <2>1
  <2> QED BY <2>1, <2>2, OfferedIsAdmitted
<1>5. StillOffered(state, shown) /\ Entitled(state)
  BY <1>4 DEF StillOffered, Entitled
<1>6. TabInv' /\ shown' = shown
  BY DEF request, tabVars, TabInv, IInv, Stored, Agrees
<1> HIDE DEF state
<1> QED BY <1>1, <1>3, <1>5, <1>6, CallKeepsIInv

LEMMA UseKeepsIInv ==
    ASSUME IInv, NEW c \in Calls, Use(c)
    PROVE  IInv'
<1>1. CASE OpenPage(c)
  <2>1. PICK asked \in Offered \ Writes : request(c, asked, FALSE)
    BY <1>1 DEF OpenPage
  <2>2. asked \in Requests /\ MayAsk(shown, asked)
    BY AskedAssumption DEF Offered
  <2> QED BY <2>1, <2>2, RequestKeepsIInv
<1>2. CASE OpenDialog(c)
  <2>1. PICK asked \in Offered \cap Writes :
           call' = [call EXCEPT ![c] = [kind |-> "dialog", asked |-> asked, excused |-> FALSE]]
    BY <1>2 DEF OpenDialog
  <2> DEFINE state == [kind |-> "dialog", asked |-> asked, excused |-> FALSE]
  <2>2. state \in CallStates
    BY DEF CallStates, Dialogs
  <2>3. StillOffered(state, shown) /\ Entitled(state)
    BY DEF Offered, StillOffered, Entitled
  <2>4. TabInv' /\ shown' = shown
    BY <1>2 DEF OpenDialog, tabVars, TabInv, IInv, Stored, Agrees
  <2> HIDE DEF state
  <2> QED BY <2>1, <2>2, <2>3, <2>4, CallKeepsIInv DEF state
<1>3. CASE Confirm(c)
  <2>1. call[c] \in Dialogs /\ StillOffered(call[c], shown) /\ call[c].kind = "dialog"
    BY <1>3 DEF Confirm, IInv, CallStates, Dialogs, ApiCalls, Logins, Denials, Others
  <2>2. /\ call[c].asked \in Requests /\ call[c].excused \in BOOLEAN
        /\ ~call[c].excused => MayAsk(shown, call[c].asked)
    BY <2>1 DEF Dialogs, Requests, StillOffered
  <2> QED BY <1>3, <2>2, RequestKeepsIInv DEF Confirm
<1>4. CASE Cancel(c)
  <2>1. TabInv' /\ shown' = shown
    BY <1>4 DEF Cancel, tabVars, TabInv, IInv, Stored, Agrees
  <2> QED BY <1>4, <2>1, NoneIsHarmless, CallKeepsIInv DEF Cancel
<1> QED BY <1>1, <1>2, <1>3, <1>4 DEF Use

LEMMA JudgeKeepsIInv ==
    ASSUME IInv, NEW c \in Calls, Judge(c)
    PROVE  IInv'
<1>1. /\ call[c].kind = "api" /\ call[c] \in ApiCalls /\ Entitled(call[c])
  BY DEF Judge, IInv, CallStates, Dialogs, ApiCalls, Logins, Denials, Others
<1> DEFINE verdict == Verdict(call[c].token, call[c].asked)
           state == IF verdict = "forbidden"
                    THEN [kind |-> verdict, excused |-> call[c].excused]
                    ELSE [kind |-> verdict]
<1>2. call' = [call EXCEPT ![c] = state]
  BY DEF Judge, Answer
<1>3. verdict \in {"unauthorized", "forbidden", "done"}
  BY DEF Verdict
<1>4. verdict = "forbidden" =>
         call[c].token # NoSession /\ ~Admits(call[c].asked, call[c].token.role)
  BY DEF Verdict
<1> HIDE DEF verdict
<1>5. state \in CallStates /\ StillOffered(state, shown) /\ Entitled(state)
  <2>1. CASE verdict = "forbidden"
    <3>1. call[c].excused \in BOOLEAN
      BY <1>1 DEF ApiCalls
    <3>2. call[c].excused
      BY <1>1, <1>4, <2>1, <3>1 DEF Entitled
    <3>3. state = [kind |-> "forbidden", excused |-> call[c].excused]
      BY <2>1
    <3>4. state \in CallStates
      BY <3>1, <3>3 DEF CallStates, Denials
    <3> QED BY <3>2, <3>3, <3>4 DEF StillOffered, Entitled
  <2>2. CASE verdict # "forbidden"
    <3>1. state \in Others
      BY <1>3, <2>2 DEF Others
    <3> QED BY <3>1, HarmlessStates
  <2> QED BY <2>1, <2>2
<1>6. TabInv' /\ shown' = shown
  BY DEF Judge, Answer, tabVars, TabInv, IInv, Stored, Agrees
<1> HIDE DEF state
<1> QED BY <1>2, <1>5, <1>6, CallKeepsIInv

(* A token that expires is of the role it was of. *)
LEMMA ExpireKeepsIInv ==
    ASSUME IInv, Expire
    PROVE  IInv' /\ storage'.role = storage.role
<1>1. /\ storage' \in Sessions /\ storage'.role = storage.role
      /\ storage.role # "none" /\ storage # NoSession
  BY DEF Expire, IInv, TabInv, Stored, Sessions, NoSession
<1>2. TabInv' /\ shown' = shown
  BY <1>1 DEF TabInv, Stored, IInv, Expire, tabVars, Agrees
<1>3. ASSUME NEW c \in Calls
      PROVE  call'[c] \in CallStates /\ StillOffered(call'[c], shown') /\ Entitled(call'[c])
  <2>1. call[c] \in CallStates /\ StillOffered(call[c], shown) /\ Entitled(call[c])
    BY DEF IInv
  <2>2. CASE call[c].kind = "api" /\ call[c].token # NoSession
    <3>1. call[c] \in ApiCalls
      BY <2>1, <2>2 DEF CallStates, Dialogs, ApiCalls, Logins, Denials, Others
    <3>2. call'[c] = [call[c] EXCEPT !.token.expired = TRUE]
      BY <2>2 DEF Expire
    <3>3. /\ call'[c] \in ApiCalls
          /\ call'[c].asked = call[c].asked /\ call'[c].excused = call[c].excused
          /\ call'[c].token.role = call[c].token.role
      BY <3>1, <3>2 DEF ApiCalls, Sessions
    <3>4. call'[c].kind = "api" /\ call'[c] \in CallStates
      BY <3>3 DEF ApiCalls, CallStates
    <3> QED BY <2>1, <2>2, <3>3, <3>4 DEF Entitled, StillOffered
  <2>3. CASE ~(call[c].kind = "api" /\ call[c].token # NoSession)
    BY <1>2, <2>1, <2>3 DEF Expire
  <2> QED BY <2>2, <2>3
<1>4. DOMAIN call' = Calls /\ call' = [c \in Calls |-> call'[c]]
  BY DEF Expire
<1> QED BY <1>1, <1>2, <1>3, <1>4, CallsKeepIInv

----------------------------------------------------------------------------
(* Logins, effects and answers *)

(* A login sends the page away, and its dialogs with it. *)
LEMMA LoginKeepsIInv ==
    ASSUME IInv, NEW c \in Calls, NEW role \in Roles, Login(c, role)
    PROVE  IInv'
<1>1. [kind |-> "login", role |-> role] \in Logins
  BY DEF Logins
<1>2. TabInv' /\ shown' = shown
  BY DEF Login, TabInv, IInv, Stored, Agrees
<1>3. ASSUME NEW d \in Calls
      PROVE  call'[d] \in CallStates /\ StillOffered(call'[d], shown') /\ Entitled(call'[d])
  <2>1. CASE d = c
    BY <1>1, <2>1, HarmlessStates DEF Login
  <2>2. CASE d # c /\ call[d].kind = "dialog"
    BY <2>2, NoneIsHarmless DEF Login
  <2>3. CASE d # c /\ call[d].kind # "dialog"
    BY <1>2, <2>3 DEF Login, IInv
  <2> QED BY <2>1, <2>2, <2>3
<1>4. DOMAIN call' = Calls /\ call' = [d \in Calls |-> call'[d]]
  BY DEF Login
<1> QED BY <1>2, <1>3, <1>4, CallsKeepIInv

(* A session that is put under the page excuses the dialogs it changes. *)
LEMMA TakeSessionKeepsIInv ==
    ASSUME IInv, NEW c \in Calls, TakeSession(c)
    PROVE  IInv'
<1>1. call[c].role \in Roles
  BY DEF TakeSession, IInv, CallStates, Dialogs, ApiCalls, Logins, Denials, Others
<1>2. TabInv' /\ shown' = call[c].role
  BY <1>1, SessionTyped DEF TakeSession, saveSession, TabInv, Stored, Agrees
<1>3. ASSUME NEW d \in Calls
      PROVE  call'[d] \in CallStates /\ StillOffered(call'[d], shown') /\ Entitled(call'[d])
  <2>1. call[d] \in CallStates /\ StillOffered(call[d], shown) /\ Entitled(call[d])
    BY DEF IInv
  <2>2. CASE d = c
    BY <2>2, NoneIsHarmless DEF TakeSession
  <2>3. CASE d # c /\ call[d].kind = "dialog" /\ shown' # shown
    <3>1. call[d] \in Dialogs
      BY <2>1, <2>3 DEF CallStates, Dialogs, ApiCalls, Logins, Denials, Others
    <3>2. call'[d] = [call[d] EXCEPT !.excused = TRUE]
      BY <1>2, <2>3 DEF TakeSession
    <3>3. call'[d] \in Dialogs /\ call'[d].kind = "dialog" /\ call'[d].excused
      BY <3>1, <3>2 DEF Dialogs
    <3> QED BY <3>3 DEF CallStates, StillOffered, Entitled
  <2>4. CASE d # c /\ ~(call[d].kind = "dialog" /\ shown' # shown)
    <3>1. call'[d] = call[d]
      BY <1>2, <2>4 DEF TakeSession
    <3> QED BY <2>1, <2>4, <3>1 DEF StillOffered
  <2> QED BY <2>2, <2>3, <2>4
<1>4. DOMAIN call' = Calls /\ call' = [d \in Calls |-> call'[d]]
  BY DEF TakeSession
<1> QED BY <1>2, <1>3, <1>4, CallsKeepIInv

LEMMA TakeKeepsIInv ==
    ASSUME IInv, NEW c \in Calls, Take(c)
    PROVE  IInv'
<1>1. CASE TakeFailure(c) \/ TakeAnswer(c)
  <2>1. call' = [call EXCEPT ![c] = None] /\ shown' = shown
    BY <1>1 DEF TakeFailure, TakeAnswer, Done, tabVars
  <2>2. /\ storage' \in {storage, NoSession}
        /\ parted' = parted /\ initialized' = initialized
    BY <1>1 DEF TakeFailure, TakeAnswer, tabVars
  <2>3. TabInv'
    BY <2>1, <2>2, NoSessionTyped DEF TabInv, IInv, Stored, Agrees
  <2> QED BY <2>1, <2>3, NoneIsHarmless, CallKeepsIInv
<1> QED BY <1>1, TakeSessionKeepsIInv DEF Take

LEMMA AnswerKeepsIInv ==
    ASSUME IInv, NEW c \in Calls, Grant(c) \/ Refuse(c) \/ Lose(c)
    PROVE  IInv'
<1>1. PICK state \in Logins \cup Others : Answer(c, state)
  <2>1. CASE Grant(c)
    <3>1. call[c].role \in Roles
      BY <2>1 DEF Grant, IInv, CallStates, Dialogs, ApiCalls, Logins, Denials, Others
    <3> QED BY <2>1, <3>1 DEF Grant, Logins
  <2>2. CASE Refuse(c) \/ Lose(c)
    BY <2>2 DEF Refuse, Lose, Others
  <2> QED BY <2>1, <2>2
<1>2. TabInv' /\ shown' = shown
  BY <1>1 DEF Answer, tabVars, TabInv, IInv, Stored, Agrees
<1> QED BY <1>1, <1>2, HarmlessStates, CallKeepsIInv DEF Answer

----------------------------------------------------------------------------
(* Every step, and every behaviour *)

LEMMA InitIInv == Init => IInv
<1> SUFFICES ASSUME Init PROVE IInv
  OBVIOUS
<1>1. Stored
  BY UsersAssumption, SessionTyped, NoSessionTyped DEF Init, Stored
<1>2. storage.role \in Roles \cup {"none"}
  BY <1>1 DEF Stored, Sessions
<1>3. ~initialized => shown = "none"
  BY NoSessionTyped DEF Init
<1>4. shown \in Roles \cup {"none"} /\ parted = FALSE /\ Agrees
  BY <1>2 DEF Init, Agrees
<1> QED BY <1>1, <1>3, <1>4, NoneIsHarmless DEF Init, IInv, TabInv

(* Who is not initialized has nothing on display, hence no dialog open. *)
LEMMA AdoptedKeepsIInv ==
    ASSUME IInv, InitializeCached
    PROVE  IInv'
<1>1. storage \in Sessions /\ storage.role \in Roles /\ shown = "none"
  BY DEF InitializeCached, IInv, TabInv, Stored, Sessions
<1>2. TabInv'
  BY <1>1 DEF InitializeCached, TabInv, IInv, Stored, Agrees
<1>3. ASSUME NEW c \in Calls
      PROVE  call[c] \in CallStates /\ StillOffered(call[c], shown') /\ Entitled(call[c])
  <2>1. call[c] \in CallStates /\ StillOffered(call[c], "none") /\ Entitled(call[c])
    BY <1>1 DEF IInv
  <2>2. CASE call[c].kind = "dialog"
    <3>1. call[c].asked \in Writes /\ call[c].excused \in BOOLEAN
      BY <2>1, <2>2 DEF CallStates, Dialogs, ApiCalls, Logins, Denials, Others
    <3>2. call[c].excused
      BY <2>1, <2>2, <3>1, NobodyWrites DEF StillOffered
    <3> QED BY <2>1, <3>2 DEF StillOffered
  <2>3. CASE call[c].kind # "dialog"
    BY <2>1, <2>3 DEF StillOffered
  <2> QED BY <2>2, <2>3
<1>4. call' = call /\ DOMAIN call = Calls /\ call = [c \in Calls |-> call[c]]
  BY DEF InitializeCached, IInv
<1> QED BY <1>2, <1>3, <1>4, CallsKeepIInv

LEMMA NextIInv == IInv /\ [Next]_vars => IInv'
<1> SUFFICES ASSUME IInv, [Next]_vars PROVE IInv'
  OBVIOUS
<1>1. CASE Reload
  <2>1. storage.role \in Roles \cup {"none"}
    BY DEF IInv, TabInv, Stored, Sessions
  <2>2. ~initialized' => shown' = "none"
    BY <1>1, NoSessionTyped DEF Reload
  <2>3. Stored' /\ parted' = FALSE /\ Agrees'
    BY <1>1 DEF Reload, IInv, TabInv, Stored, Agrees
  <2>4. TabInv'
    BY <1>1, <2>1, <2>2, <2>3 DEF Reload, TabInv
  <2> QED BY <1>1, <2>4, DroppedKeepIInv DEF Reload
<1>2. CASE initialize
  <2>1. CASE InitializeAgain
    BY <2>1 DEF InitializeAgain, tabVars, IInv, TabInv, Stored, Agrees, StillOffered, Entitled
  <2>2. ASSUME NEW c \in Calls, InitializeLogin(c) PROVE IInv'
    <3>1. "admin" \in Roles
      BY DEF Roles, roleRank
    <3> QED BY <2>2, <3>1, LoginKeepsIInv DEF InitializeLogin
  <2> QED BY <1>2, <2>1, <2>2, AdoptedKeepsIInv DEF initialize
<1>3. CASE OtherTabs
  <2>1. Stored'
    BY <1>3, UsersAssumption, SessionTyped, NoSessionTyped DEF OtherTabs, Stored
  <2>2. parted' \in BOOLEAN /\ (~parted' => Agrees')
    BY <1>3 DEF OtherTabs, Agrees
  <2> QED BY <1>3, <2>1, <2>2 DEF OtherTabs, IInv, TabInv, StillOffered, Entitled
<1>4. ASSUME NEW c \in Calls, switchRole(c) PROVE IInv'
  BY <1>4, UsersAssumption, LoginKeepsIInv DEF switchRole
<1>5. CASE UNCHANGED vars
  BY <1>5 DEF vars, tabVars, IInv, TabInv, Stored, Agrees, StillOffered, Entitled
<1> QED
  BY <1>1, <1>2, <1>3, <1>4, <1>5, UseKeepsIInv, JudgeKeepsIInv, ExpireKeepsIInv,
     TakeKeepsIInv, AnswerKeepsIInv
  DEF Next, Serve

LEMMA Invariance == Spec => []IInv
BY InitIInv, NextIInv, PTL DEF Spec

(***************************************************************************)
(* What a page offers is not answered with 403, by any route, for any roles  *)
(* and any overlap of logins: the ranks and minima of the frontend are no    *)
(* weaker than those of the backend, and token and display are of one role.  *)
(* Only another tab, or a login that ends under an open dialog, undoes that. *)
(***************************************************************************)
THEOREM NoOfferIsDenied == Spec => []OfferedIsGranted
<1>1. IInv => OfferedIsGranted
  BY DEF IInv, Entitled, OfferedIsGranted
<1> QED BY <1>1, Invariance, PTL

----------------------------------------------------------------------------
(* Once the tab shows the role of the stored session, it goes on doing so *)

LEMMA StepAgrees ==
    ASSUME IInv, [Next]_vars
    PROVE  Agrees => Agrees' \/ OtherTabs
<1> SUFFICES ASSUME Agrees, ~OtherTabs PROVE Agrees'
  OBVIOUS
<1>1. CASE Expire
  BY <1>1, ExpireKeepsIInv DEF Agrees, Expire, tabVars
<1>2. ASSUME NEW c \in Calls, TakeSession(c) PROVE Agrees'
  BY <1>2 DEF TakeSession, saveSession, Session, Agrees
<1>3. CASE Reload \/ InitializeCached
  BY <1>3 DEF Reload, InitializeCached, Agrees
<1>4. \/ Expire \/ Reload \/ InitializeCached
      \/ \E c \in Calls : TakeSession(c)
      \/ storage' \in {storage, NoSession} /\ shown' = shown
  BY DEF Next, initialize, InitializeAgain, InitializeLogin, switchRole, Login,
     Use, OpenPage, OpenDialog, Confirm, Cancel, request, Serve, Grant, Refuse,
     Judge, Lose, Answer, Take, TakeFailure, TakeAnswer, tabVars, vars
<1>5. CASE storage' \in {storage, NoSession} /\ shown' = shown
  BY <1>5 DEF Agrees
<1> QED BY <1>1, <1>2, <1>3, <1>4, <1>5

(***************************************************************************)
(* No order of logins, failures, late 401s, expiries and reloads makes the  *)
(* tab act as another user than it shows; only another tab can.             *)
(***************************************************************************)
THEOREM DisplayKeepsUp == Spec => StoredIsShown
<1>1. IInv /\ [Next]_vars => [Agrees => Agrees' \/ OtherTabs]_vars
  BY StepAgrees
<1> QED BY <1>1, Invariance, PTL DEF Spec, StoredIsShown
=============================================================================
