----------------------------- MODULE MCHandlers -----------------------------
(* A small instance of Handlers for TLC. *)
EXTENDS Handlers

Request ==
    [route |-> "balance", session |-> TRUE, typed |-> TRUE, body |-> << >>,
     chunked |-> FALSE, number |-> <<1, 8>>, sum |-> [coef |-> 1, exp |-> 0],
     filled |-> TRUE]

Strings(S, n) == UNION {[1 .. k -> S] : k \in 0 .. n}

(* Every body of up to five symbols; 1 8 and 0 1 8 pass Luhn's check. *)
Uploads == {[Request EXCEPT !.route = "upload", !.body = b] :
              b \in Strings({0, 1, 8, Blank, Other}, 5)}

Documents == Strings({Blank, Other, Opening, Closing}, 5)
Document == <<Opening, Closing>>

Entries == {[Request EXCEPT !.route = "login", !.body = b] : b \in Documents}
           \union {[Request EXCEPT !.route = r, !.body = Document,
                                   !.filled = f] :
                     r \in Public, f \in BOOLEAN}

(* Sums from hundredths of a kopeck to tens: 1.000 and 0.001 are among them. *)
Sums == [coef : {-1, 0, 1, 100, 1000}, exp : -Places .. 1]

Withdrawals ==
    {[Request EXCEPT !.route = "withdraw", !.body = Document, !.number = n,
                     !.sum = s] :
       n \in Strings({0, 1, 8, Blank, Other}, 3), s \in Sums}

(* Every route without a session, with another content type, without a body. *)
Strangers == {[Request EXCEPT !.route = r, !.session = s, !.typed = t,
                              !.chunked = c, !.body = b] :
                r \in Routes, s \in BOOLEAN, t \in BOOLEAN, c \in BOOLEAN,
                b \in {<< >>, Document}}

MCForms == Uploads \union Entries \union Withdrawals \union Strangers
=============================================================================
