--------------------------- MODULE MCOnboarding ---------------------------
(* Instances of Onboarding for TLC: two households want one flat. *)
EXTENDS Onboarding

MCEmails == {"ann", "Ann"}
MCLower == [e \in MCEmails |-> IF e = "Ann" THEN "ann" ELSE e]

MCSubmissions ==
    {[unit |-> "u1", email |-> "Ann", person |-> "p1", parking |-> "absent"],
     [unit |-> "u1", email |-> "ann", person |-> "p2", parking |-> "null"]}
=============================================================================
