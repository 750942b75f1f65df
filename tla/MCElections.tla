---------------------------- MODULE MCElections ----------------------------
(* Instances of Elections for TLC. *)
EXTENDS Elections
=============================================================================
