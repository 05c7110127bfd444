------------------------------ MODULE Accounts ------------------------------
(***************************************************************************)
(* Registration, login and the session check: Register, Authenticate and   *)
(* ValidateToken of internal/service/loyalty.go over the table users, one  *)
(* step per statement, on pods that RunMigrations let serve.               *)
(*                                                                         *)
(* A request is a goroutine of a pod.  Another pod may be migrating, so a  *)
(* statement fails when the table or the column it needs is not there yet; *)
(* and any statement may fail, or lose its answer.                         *)
(***************************************************************************)
EXTENDS Migrations

CONSTANTS
    Requests, \* requests of clients
    Forms,    \* bodies of /register and /login
    NoForm,   \* the form of a request that has not come
    NoRow,    \* no row with this login
    NoUser    \* no id of a user; the ids are the requests that made the rows

VARIABLES
    users,  \* table users: [Logins -> row or NoRow]
    form,   \* [Requests -> what the request asks for]
    at,     \* [Requests -> the pod that serves it, or Nobody]
    step,   \* [Requests -> its next statement]
    user,   \* [Requests -> the id of the user it goes on with]
    answer, \* [Requests -> the answer to the client]
    token,  \* [Requests -> the user_id in the cookie of the answer]
    live    \* the requests whose token has not expired

requests == <<form, at, step, user, answer, token>>
accounts == <<users, requests, live>>
vars == <<migrations, accounts>>
-----------------------------------------------------------------------------
(* A text by what Sanitize looks at: the blanks around it and its capitals. *)
Texts == [name : STRING, edge : {"none", "space", "tab"},
          letters : {"lower", "mixed"}]

ASSUME AccountsAssumption ==
    /\ Forms \subseteq
         [op : {"register", "login"}, login : Texts, password : Texts]
    /\ NoUser \notin Requests
    /\ NoForm \notin Forms
    /\ NoRow \notin [id : Requests, password : Texts]
    /\ NoRow \notin Texts

(* A blank at an edge makes Sanitize trim every white space, a tab does not. *)
Trim(text) == [text EXCEPT !.edge = IF @ = "space" THEN "none" ELSE @]

IsEmpty(text) == text.name = "" /\ text.edge = "none"

(* A slip for the properties to catch: the login keeps its capitals. *)
TrimmedLogin(f) == Trim(f.login)

(* What Sanitize makes of a body. *)
Login(f) == [Trim(f.login) EXCEPT !.letters = "lower"]
Secret(f) == Trim(f.password)

Logins == {Login(f) : f \in Forms}
Secrets == {Secret(f) : f \in Forms}
Row == [id : Requests, password : Secrets]

(* A visit of /balance carries the cookie another request was answered with. *)
Visits == [op : {"visit"}, of : Requests]

Steps == {"new", "exists", "insert", "sign", "lookup", "validate", "balance",
          "done"}

Answers == {"none", "welcome", "shown", "bad", "unauthorized", "conflict",
            "error", "lost"}

(* The request ends with an answer. *)
End(q, a) ==
    /\ step' = [step EXCEPT ![q] = "done"]
    /\ answer' = [answer EXCEPT ![q] = a]
    /\ at' = [at EXCEPT ![q] = Nobody]
    /\ user' = [user EXCEPT ![q] = NoUser]

GoOn(q, s, u) ==
    /\ step' = [step EXCEPT ![q] = s]
    /\ user' = [user EXCEPT ![q] = u]
    /\ UNCHANGED <<at, answer>>

(* A statement of q that needs migration i runs. *)
Runs(q, s, i) == step[q] = s /\ Has(i)
-----------------------------------------------------------------------------
Init ==
    /\ MigrationsInit
    /\ users = [l \in Logins |-> NoRow]
    /\ form = [q \in Requests |-> NoForm]
    /\ at = [q \in Requests |-> Nobody]
    /\ step = [q \in Requests |-> "new"]
    /\ user = [q \in Requests |-> NoUser]
    /\ answer = [q \in Requests |-> "none"]
    /\ token = [q \in Requests |-> NoUser]
    /\ live = {}

(* POST /register or /login: the form is validated before the service. *)
Post(q, p, f) ==
    /\ step[q] = "new" /\ pod[p] \in Serving
    /\ form' = [form EXCEPT ![q] = f]
    /\ \/ /\ IsEmpty(Login(f)) \/ IsEmpty(Secret(f))
          /\ End(q, "bad")
       \/ /\ ~IsEmpty(Login(f)) /\ ~IsEmpty(Secret(f))
          /\ at' = [at EXCEPT ![q] = p]
          /\ step' = [step EXCEPT ![q] =
               IF f.op = "register" THEN "exists" ELSE "lookup"]
          /\ UNCHANGED <<user, answer>>
    /\ UNCHANGED <<migrations, users, token, live>>

(* GET /balance with a cookie. *)
Visit(q, p, v) ==
    /\ step[q] = "new" /\ pod[p] \in Serving
    /\ token[v.of] # NoUser
    /\ form' = [form EXCEPT ![q] = v]
    /\ at' = [at EXCEPT ![q] = p]
    /\ step' = [step EXCEPT ![q] = "validate"]
    /\ UNCHANGED <<migrations, users, user, answer, token, live>>

CheckUserExists(q) ==
    /\ Runs(q, "exists", 1)
    /\ IF users[Login(form[q])] # NoRow
       THEN End(q, "conflict")
       ELSE GoOn(q, "insert", NoUser)
    /\ UNCHANGED <<migrations, users, form, token, live>>

(* A slip for the properties to catch: INSERT ... ON CONFLICT DO UPDATE. *)
Upsert(q) ==
    LET l == Login(form[q]) IN
    /\ Runs(q, "insert", 1)
    /\ users' = [users EXCEPT ![l] = [id |-> q, password |-> Secret(form[q])]]
    /\ GoOn(q, "sign", q)
    /\ UNCHANGED <<migrations, form, token, live>>

(* INSERT INTO users ... RETURNING id: the unique login decides the race that
   CheckUserExists does not see.  The answer may be lost after the insert. *)
CreateUser(q) ==
    LET l == Login(form[q]) IN
    /\ Runs(q, "insert", 1)
    /\ \/ /\ users[l] # NoRow
          /\ End(q, "conflict")
          /\ UNCHANGED users
       \/ /\ users[l] = NoRow
          /\ users' = [users EXCEPT ![l] =
               [id |-> q, password |-> Secret(form[q])]]
          /\ GoOn(q, "sign", q) \/ End(q, "error")
    /\ UNCHANGED <<migrations, form, token, live>>

(* A slip for the properties to catch: the password is not compared. *)
AnyPassword(q) ==
    LET row == users[Login(form[q])] IN
    /\ Runs(q, "lookup", 1)
    /\ IF row # NoRow
       THEN GoOn(q, "sign", row.id)
       ELSE End(q, "unauthorized")
    /\ UNCHANGED <<migrations, users, form, token, live>>

(* GetPasswordHash and CompareHashAndPassword. *)
Authenticate(q) ==
    LET row == users[Login(form[q])] IN
    /\ Runs(q, "lookup", 1)
    /\ IF row # NoRow /\ row.password = Secret(form[q])
       THEN GoOn(q, "sign", row.id)
       ELSE End(q, "unauthorized")
    /\ UNCHANGED <<migrations, users, form, token, live>>

(* generateJWT, and the cookie of the answer. *)
GenerateJWT(q) ==
    /\ step[q] = "sign"
    /\ token' = [token EXCEPT ![q] = user[q]]
    /\ live' = live \union {q}
    /\ End(q, "welcome")
    /\ UNCHANGED <<migrations, users, form>>

(* AuthMiddleware: an expired token is refused. *)
ValidateToken(q) ==
    /\ step[q] = "validate"
    /\ IF form[q].of \in live
       THEN GoOn(q, "balance", token[form[q].of])
       ELSE End(q, "unauthorized")
    /\ UNCHANGED <<migrations, users, form, token, live>>

(* SELECT balance, withdrawn FROM users WHERE id: the columns are those of
   migration 0002. *)
GetUserBalance(q) ==
    /\ Runs(q, "balance", 2)
    /\ End(q, IF \E l \in Logins : users[l] # NoRow /\ users[l].id = user[q]
              THEN "shown" ELSE "error")
    /\ UNCHANGED <<migrations, users, form, token, live>>

(* A statement fails: the table is missing, the connection breaks, the context
   ends, or the password cannot be hashed.  GetPasswordHash calls everything
   but the end of the context an unknown user. *)
StatementFails(q) ==
    /\ step[q] \in {"exists", "insert", "lookup", "balance"}
    /\ \E a \in {"error"} \union (IF step[q] = "lookup"
                                  THEN {"unauthorized"} ELSE {}) : End(q, a)
    /\ UNCHANGED <<migrations, users, form, token, live>>

Expire(q) ==
    /\ q \in live
    /\ live' = live \ {q}
    /\ UNCHANGED <<migrations, users, requests>>

Serve(q) ==
    \/ CheckUserExists(q) \/ CreateUser(q) \/ Authenticate(q) \/ GenerateJWT(q)
    \/ ValidateToken(q) \/ GetUserBalance(q) \/ StatementFails(q)

(* The requests of a pod that exits are lost; what they have stored is not. *)
PodExits(p) ==
    /\ Exit(p)
    /\ step' = [q \in Requests |-> IF at[q] = p THEN "done" ELSE step[q]]
    /\ answer' = [q \in Requests |-> IF at[q] = p THEN "lost" ELSE answer[q]]
    /\ user' = [q \in Requests |-> IF at[q] = p THEN NoUser ELSE user[q]]
    /\ at' = [q \in Requests |-> Without(p, at[q])]
    /\ UNCHANGED <<users, form, token, live>>

Migrate(p) ==
    /\ Launch(p) \/ RunMigrations(p) \/ LoseSession(p)
    /\ UNCHANGED accounts

Next ==
    \/ \E q \in Requests, p \in Pods :
         \/ \E f \in Forms : Post(q, p, f)
         \/ \E v \in Visits : Visit(q, p, v)
    \/ \E q \in Requests : Serve(q) \/ Expire(q)
    \/ \E p \in Pods : Migrate(p) \/ PodExits(p)

Spec == Init /\ [][Next]_vars
-----------------------------------------------------------------------------
AccountsTypeOK ==
    /\ MigrationsTypeOK
    /\ users \in [Logins -> Row \union {NoRow}]
    /\ form \in [Requests -> Forms \union Visits \union {NoForm}]
    /\ at \in [Requests -> Pods \union {Nobody}]
    /\ step \in [Requests -> Steps]
    /\ user \in [Requests -> Requests \union {NoUser}]
    /\ answer \in [Requests -> Answers]
    /\ token \in [Requests -> Requests \union {NoUser}]
    /\ live \subseteq Requests

SameName(s, t) ==
    s.name = t.name /\ (s.edge = "tab") = (t.edge = "tab")

(* A registration that was welcomed opened the account, and the account stays
   the one it opened: of several registrations of one name, with capitals or
   blanks or without, at one pod or at two, at most one is ever welcomed. *)
WelcomesAreKept ==
    \A q, r \in Requests :
        LET welcomed == {s \in {q, r} : /\ answer[s] = "welcome"
                                        /\ form[s].op = "register"}
        IN
        /\ q \in welcomed =>
             /\ users[Login(form[q])] # NoRow
             /\ users[Login(form[q])].id = q
        /\ {q, r} \subseteq welcomed
             /\ SameName(form[q].login, form[r].login) => q = r

(* A session belongs to the account whose login and password its request
   gave, and a visit acts for such an account and for no other: whatever was
   registered, crashed or lost before. *)
TokensNameOwner ==
    \A q \in Requests :
        /\ token[q] # NoUser =>
             users[Login(form[q])] =
                 [id |-> token[q], password |-> Secret(form[q])]
        /\ step[q] = "balance" => user[q] = token[form[q].of]

(* Accounts are opened once and never change, and a session is given only to
   who knows the password. *)
Book == INSTANCE AccountBook WITH
    Passwords <- Secrets,
    NoAccount <- NoRow,
    book <- [l \in Logins |-> IF users[l] = NoRow THEN NoRow
                              ELSE users[l].password],
    admitted <- {<<Login(form[q]), Secret(form[q])>> :
                    q \in {r \in Requests : token[r] # NoUser}}

RefinesAccountBook == Book!BookSpec
=============================================================================
