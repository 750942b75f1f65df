---------------------------- MODULE MCAccounts ----------------------------
(* Instances of Accounts for TLC: new accounts, or sessions or resets of a seeded one. *)
EXTENDS Accounts

MCEmails == {"ann", "Ann"}
MCLower == [e \in MCEmails |-> "ann"]

Exp(value, unit) == [value |-> value, unit |-> unit]
NewAccounts == [uses |-> {"register", "verify", "resend", "login"}, seeded |-> {}, exp |-> Exp(1, "m")]
Sessions(e) == [uses |-> {"login", "refresh", "logout"}, seeded |-> {"ann"}, exp |-> e]
Resets == [uses |-> {"forgot", "reset"}, seeded |-> {"ann"}, exp |-> Exp(1, "m")]

MCSessions == {Sessions(e) : e \in {Exp(1, "m"), Exp(0, "s"), Exp(1, "other")}}

MCNewAccounts == {NewAccounts}
MCProfiles == {NewAccounts, Resets} \union MCSessions

MCTimes == {0, 1, 60}
MCOneTime == {0}
MCTwoTimes == {0, 1}
=============================================================================
