---------------------------- MODULE AccountBook ----------------------------
(***************************************************************************)
(* What registration and login promise: an account is opened once, keeps   *)
(* its password, and a session is given only to who knows it.  Accounts    *)
(* models how the service and the database keep this promise.              *)
(***************************************************************************)
CONSTANTS
    Logins,    \* logins as they are stored
    Passwords, \* passwords as they are hashed
    NoAccount  \* a login nobody has opened

VARIABLES
    book,    \* [Logins -> the password of the account, or NoAccount]
    admitted \* the pairs of login and password a session was given for

bookVars == <<book, admitted>>

BookInit ==
    /\ book = [l \in Logins |-> NoAccount]
    /\ admitted = {}

Open(l, p) ==
    /\ book[l] = NoAccount
    /\ book' = [book EXCEPT ![l] = p]
    /\ UNCHANGED admitted

Admit(l, p) ==
    /\ book[l] = p
    /\ admitted' = admitted \union {<<l, p>>}
    /\ UNCHANGED book

BookNext == \E l \in Logins, p \in Passwords : Open(l, p) \/ Admit(l, p)

BookSpec == BookInit /\ [][BookNext]_bookVars
=============================================================================
