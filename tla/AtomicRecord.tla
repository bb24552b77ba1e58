---------------------------- MODULE AtomicRecord ----------------------------
(***************************************************************************)
(* What a resource promises the people who use it: a record that is         *)
(* created once, edited and moved along its status graph, each change       *)
(* judged by the record as it is at that instant, and that vanishes for     *)
(* good.  There are no requests, no versions quoted and no stale reads      *)
(* here; RecordService implements this with two transactions per request.   *)
(***************************************************************************)
EXTENDS Naturals

CONSTANTS
    Rules,      \* the policy of the resource (Lifecycle)
    Writers,    \* who may be named as the author of the content
    Callers,    \* the roles that call
    Origin      \* the author of rows that were seeded

VARIABLE record

Init ==
    \/ record = [state |-> "none", status |-> "none", version |-> 0,
                 evidence |-> Origin]
    \/ \E status \in Rules.seeded :
          record = [state |-> "live", status |-> status, version |-> 1,
                    evidence |-> Origin]

Appear(w) ==
    /\ record.state = "none"
    /\ record' = [state |-> "live", status |-> Rules.initial, version |-> 1,
                  evidence |-> w]

(* An edit replaces the content and leaves the status. *)
Edit(w) ==
    /\ record.state = "live"
    /\ record.status \notin Rules.editLocked
    /\ record' = [record EXCEPT !.evidence = w, !.version = @ + 1]

(* A move leaves the content and changes the status, if the caller may. *)
Move(role, to) ==
    /\ record.state = "live"
    /\ role \in {"operator", "reviewer", "admin"}
    /\ {record.status, to} \cap Rules.reviewOnly # {} => role # "operator"
    /\ to \in Rules.moves[record.status]
    /\ record' = [record EXCEPT !.status = to, !.version = @ + 1]

Vanish ==
    /\ record.state = "live"
    /\ record' = [record EXCEPT !.state = "deleted"]

Next ==
    \/ \E w \in Writers : Appear(w) \/ Edit(w)
    \/ \E role \in Callers, to \in DOMAIN Rules.moves : Move(role, to)
    \/ Vanish

Spec == Init /\ [][Next]_record
=============================================================================
