------------------------------ MODULE MCPolls ------------------------------
(* Instances of Polls for TLC. *)
EXTENDS Polls, TLC

(* Residents, options, slots of votes and of views may be exchanged. *)
Symmetry ==
    UNION {Permutations(Residents), Permutations(Choices), Permutations(Voters), Permutations(Views)}
=============================================================================
