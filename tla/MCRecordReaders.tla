--------------------------- MODULE MCRecordReaders ---------------------------
(***************************************************************************)
(* Small instances of RecordReaders: the names of the requests.             *)
(***************************************************************************)
EXTENDS RecordReaders
=============================================================================
