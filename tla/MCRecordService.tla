--------------------------- MODULE MCRecordService ---------------------------
(***************************************************************************)
(* Small instances of RecordService: the requests are interchangeable.      *)
(***************************************************************************)
EXTENDS RecordService, TLC

Symmetry == Permutations(Requests)

OperatorAdmin == {"operator", "admin"}
=============================================================================
