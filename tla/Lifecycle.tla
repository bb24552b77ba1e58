------------------------------ MODULE Lifecycle ------------------------------
(***************************************************************************)
(* The rules every request is judged by: the status graphs of              *)
(* constants/status.go, the roles of middleware/auth.go, and, per kind of   *)
(* record, the guards by which the four services of internal/service        *)
(* differ.  Everything here is a constant or a pure function; the services  *)
(* themselves are in RecordService.                                         *)
(***************************************************************************)
EXTENDS Naturals

Kinds == {"PressUnit", "PrintRun", "ColorProof", "ReleaseDecision"}

----------------------------------------------------------------------------
(* Roles *)

roleRank == [viewer |-> 1, operator |-> 2, reviewer |-> 3, admin |-> 4]

Roles == DOMAIN roleRank

RequireMinimumRole(minimum, role) == roleRank[role] >= roleRank[minimum]

RequireRoles(allowed, role) == role \in allowed

(* Mutant: the gate compares ranks, and with the wrong one. *)
canReviewByRank(role) == RequireMinimumRole("operator", role)

canReview(role) == role \in {"reviewer", "admin"}

(* What the routes of a resource demand before its service is reached. *)
RouteAllows(op, role) ==
    IF op = "delete" THEN RequireRoles({"admin"}, role)
                     ELSE RequireMinimumRole("operator", role)

----------------------------------------------------------------------------
(* Status graphs: each status with the statuses it may change to *)

PressUnitTransitions ==
    [ready       |-> {"setup", "printing"},
     setup       |-> {"printing", "maintenance", "ready"},
     printing    |-> {"maintenance", "setup"},
     maintenance |-> {"printing"}]

PrintRunTransitions ==
    [setup    |-> {"printing"},
     printing |-> {"proofing", "hold", "setup"},
     proofing |-> {"hold", "released", "printing"},
     hold     |-> {"proofing"},
     released |-> {"hold"}]

ColorProofTransitions ==
    [captured |-> {"review"},
     review   |-> {"accepted", "rejected", "captured"},
     accepted |-> {"review"},
     rejected |-> {"review"}]

ReleaseDecisionTransitions ==
    [draft      |-> {"release", "rework"},
     release    |-> {"rework", "quarantine", "draft"},
     rework     |-> {"quarantine", "release"},
     quarantine |-> {"rework"}]

(* Mutant: every known status is accepted. *)
CanTransitionAnywhere(graph, from, to) == {from, to} \subseteq DOMAIN graph

CanTransition(graph, from, to) == from \in DOMAIN graph /\ to \in graph[from]

----------------------------------------------------------------------------
(***************************************************************************)
(* A policy is all that distinguishes one service from another:            *)
(*   moves       its status graph                                           *)
(*   initial     the status Create gives a record                           *)
(*   seeded      the statuses database.Seed may have given it               *)
(*   reviewOnly  the statuses Transition enters or leaves only for a        *)
(*               reviewer or an admin                                       *)
(*   editLocked  the statuses in which Update answers ErrLocked             *)
(*   deletable   the statuses in which Delete does not answer ErrLocked     *)
(*   versioned   whether each write also appends a revision row             *)
(***************************************************************************)
PressUnitPolicy ==
    [moves      |-> PressUnitTransitions,
     initial    |-> "ready",
     seeded     |-> {"ready", "setup", "printing"},
     reviewOnly |-> {},
     editLocked |-> {},
     deletable  |-> DOMAIN PressUnitTransitions,
     versioned  |-> FALSE]

PrintRunPolicy ==
    [moves      |-> PrintRunTransitions,
     initial    |-> "setup",
     seeded     |-> {"setup", "printing", "proofing"},
     reviewOnly |-> {"released"},
     editLocked |-> {},
     deletable  |-> {"setup"},
     versioned  |-> TRUE]

ColorProofPolicy ==
    [moves      |-> ColorProofTransitions,
     initial    |-> "captured",
     seeded     |-> {"captured", "review", "accepted"},
     reviewOnly |-> {"accepted", "rejected"},
     editLocked |-> {},
     deletable  |-> DOMAIN ColorProofTransitions,
     versioned  |-> FALSE]

ReleaseDecisionPolicy ==
    [moves      |-> ReleaseDecisionTransitions,
     initial    |-> "draft",
     seeded     |-> {"draft", "release", "rework"},
     reviewOnly |-> {"release", "quarantine"},
     editLocked |-> {"release", "quarantine"},
     deletable  |-> {"draft"},
     versioned  |-> TRUE]

Policies ==
    [PressUnit       |-> PressUnitPolicy,
     PrintRun        |-> PrintRunPolicy,
     ColorProof      |-> ColorProofPolicy,
     ReleaseDecision |-> ReleaseDecisionPolicy]

----------------------------------------------------------------------------
(***************************************************************************)
(* The verdict of a service on the row it has just read: the error code of *)
(* handler/errors.go it returns, or "loaded" when it goes on to write.     *)
(***************************************************************************)
(* Mutant: only entering a reserved status is gated, not leaving it. *)
GatedByTarget(policy, from, to) == to \in policy.reviewOnly

Gated(policy, from, to) == {from, to} \cap policy.reviewOnly # {}

(* Mutant: the status graph is not consulted. *)
TransitionVerdictOffGraph(policy, from, to, role) ==
    IF Gated(policy, from, to) /\ ~canReview(role) THEN "forbidden" ELSE "loaded"

TransitionVerdict(policy, from, to, role) ==
    IF Gated(policy, from, to) /\ ~canReview(role) THEN "forbidden"
    ELSE IF ~CanTransition(policy.moves, from, to) THEN "business_rule"
    ELSE "loaded"

(* Mutant: resolved records may be edited. *)
UpdateVerdictUnlocked(policy, status, valid) ==
    IF valid THEN "loaded" ELSE "business_rule"

(* "valid" says that no mandatory field is blank once trimmed. *)
UpdateVerdict(policy, status, valid) ==
    IF status \in policy.editLocked THEN "record_locked"
    ELSE IF ~valid THEN "business_rule"
    ELSE "loaded"

DeleteVerdict(policy, status) ==
    IF status \in policy.deletable THEN "loaded" ELSE "record_locked"
=============================================================================
