----------------------------- MODULE MCLedgerTx -----------------------------
(* Small instances of LedgerTx for TLC. *)
EXTENDS LedgerTx, TLC

(* A malformed (negative) answer, which is credited like no points, and
   points. *)
MCAccruals == {-1, 2}

(* Users, order numbers and sessions are interchangeable; only used by runs
   without liveness properties. *)
Interchangeable ==
    Permutations(Users) \union Permutations(Numbers)
        \union Permutations(Sessions)
=============================================================================
