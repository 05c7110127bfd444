----------------------------- MODULE MCAccounts -----------------------------
(* A small instance of Accounts for TLC. *)
EXTENDS Accounts, TLC

Text(name, edge, letters) ==
    [name |-> name, edge |-> edge, letters |-> letters]
Form(op, login, password) == [op |-> op, login |-> login, password |-> password]

Ann == Text("ann", "none", "lower")
Shouted == Text("ann", "space", "mixed")
Secret1 == Text("one", "none", "lower")
Secret2 == Text("two", "none", "lower")
Spaced1 == Text("one", "space", "lower")

Blank == Text("", "space", "lower")

(* Two registrations of one name in two spellings, a login in the second one,
   another with the other's password, and one without a login. *)
MCForms == {Form("register", Ann, Secret1), Form("register", Shouted, Secret2),
            Form("login", Shouted, Spaced1), Form("login", Ann, Secret2),
            Form("login", Blank, Secret1)}

Interchangeable == Permutations(Requests) \union Permutations(Pods)
=============================================================================
