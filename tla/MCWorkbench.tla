----------------------------- MODULE MCWorkbench -----------------------------
(***************************************************************************)
(* Small instances of Workbench.                                            *)
(***************************************************************************)
EXTENDS Workbench

Decisions == {"ReleaseDecision"}
Seldom    == [r \in Records |-> IF r \in Fresh THEN 1 ELSE 2]
Twice     == [r \in Records |-> 2]
=============================================================================
