---------------------------- MODULE MCAuthSession ----------------------------
(***************************************************************************)
(* Small instances of AuthSession.                                          *)
(***************************************************************************)
EXTENDS AuthSession
=============================================================================
