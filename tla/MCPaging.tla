------------------------------- MODULE MCPaging -------------------------------
(***************************************************************************)
(* Small instances of Paging: a page holds one row by default, two at most, *)
(* and clients ask for pages and sizes below, within and above the bounds.  *)
(***************************************************************************)
EXTENDS Paging

FirstPages == {-1, 1}
PageSizes  == {0, 2, 3}
=============================================================================
