------------------------------ MODULE PageGuards ------------------------------
(***************************************************************************)
(* What the pages of the frontend let a role ask for.  The frontend has a    *)
(* table of ranks and minima of its own (hooks/useAuth.ts, EntityPage.tsx,   *)
(* router/index.tsx); nothing in the program ties them to those of the       *)
(* backend, which are in Lifecycle.                                          *)
(***************************************************************************)
EXTENDS Naturals

(* The request for records, and for one record, is guarded by no page. *)
Writes   == {"create", "move", "review"}
Requests == {"records", "audits"} \cup Writes

rankShown == [viewer |-> 1, operator |-> 2, reviewer |-> 3, admin |-> 4]

(* "none" when no session is on display *)
roleAtLeast(role, minimum) ==
    role # "none" /\ rankShown[role] >= rankShown[minimum]

(* Mutant: the audit page is shown to operators. *)
pageMinimumLow ==
    [audits |-> "operator", create |-> "operator", move |-> "operator", review |-> "reviewer"]

(* RoleGuard, canWrite and canReview; "review" is a move that the page       *)
(* offers to reviewers only.                                                 *)
pageMinimum ==
    [audits |-> "reviewer", create |-> "operator", move |-> "operator", review |-> "reviewer"]

MayAsk(role, asked) ==
    asked \in DOMAIN pageMinimum => roleAtLeast(role, pageMinimum[asked])
=============================================================================
