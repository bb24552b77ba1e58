------------------------------ MODULE MCStartup ------------------------------
(* Startup for TLC, without symmetry: the run checks a liveness property.  *)
EXTENDS Startup
=============================================================================
