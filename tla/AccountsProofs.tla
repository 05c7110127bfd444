--------------------------- MODULE AccountsProofs ---------------------------
(***************************************************************************)
(* Proofs about Accounts and the migrations below it, for every set of     *)
(* pods, requests and forms and every number of migrations.                *)
(***************************************************************************)
EXTENDS Accounts, TLAPS

(* The migrations alone.  MigratorInv makes SchemaConsistent inductive: only
   the pod that holds golang-migrate's lock is between two writes of the
   version, and where it is says what the tables hold. *)
SchemaInv == MigrationsTypeOK /\ MigratorInv /\ SchemaConsistent

LEMMA SchemaStarts == MigrationsInit => SchemaInv
  <1> SUFFICES ASSUME MigrationsInit PROVE SchemaInv
    OBVIOUS
  <1> USE MigrationsAssumption DEF MigrationsInit
  <1>1. MigrationsTypeOK
    <2>1. ran \in [1 .. Last -> Nat]
      OBVIOUS
    <2>2. version \in 0 .. Last
      OBVIOUS
    <2>3. dirty \in BOOLEAN
      BY Zenon
    <2>4. pod \in [Pods -> {"down"} \union Migrating \union Serving]
      OBVIOUS
    <2> QED
      BY <2>1, <2>2, <2>3, <2>4 DEF MigrationsTypeOK
  <1>2. MigratorInv
    BY DEF MigratorInv
  <1>3. SchemaConsistent
    BY DEF SchemaConsistent
  <1> QED
    BY <1>1, <1>2, <1>3 DEF SchemaInv

LEMMA SchemaStays == UNCHANGED migrations /\ SchemaInv => SchemaInv'
  BY DEF migrations, schema, SchemaInv, MigrationsTypeOK, MigratorInv,
         SchemaConsistent

(* A pod that only starts, waits or leaves. *)
LEMMA PodMoves ==
    ASSUME SchemaInv, NEW p \in Pods,
           Launch(p) \/ TryLock(p) \/ Wakes(p) \/ Exit(p) \/ LoseSession(p)
    PROVE  SchemaInv'
  <1> USE MigrationsAssumption DEF SchemaInv
  <1>1. MigrationsTypeOK'
    BY DEF MigrationsTypeOK, Launch, TryLock, Wakes, Exit, LoseSession,
           Becomes, Without, schema, Migrating, Serving
  <1>2. MigratorInv'
    BY DEF MigrationsTypeOK, MigratorInv, Launch, TryLock, Wakes, Exit,
           LoseSession, Becomes, Without, schema
  <1>3. SchemaConsistent'
    BY DEF SchemaConsistent, Launch, TryLock, Wakes, Exit, LoseSession, schema
  <1> QED
    BY <1>1, <1>2, <1>3

LEMMA BeginKeeps ==
    ASSUME SchemaInv, NEW p \in Pods, Begin(p)
    PROVE  SchemaInv'
  <1> USE MigrationsAssumption DEF SchemaInv, Begin, Becomes, schema
  <1>1. MigrationsTypeOK'
    BY DEF MigrationsTypeOK, Migrating, Serving
  <1>2. MigratorInv'
    BY DEF MigrationsTypeOK, MigratorInv
  <1>3. SchemaConsistent'
    BY DEF SchemaConsistent
  <1> QED
    BY <1>1, <1>2, <1>3

LEMMA MarkDirtyKeeps ==
    ASSUME SchemaInv, NEW p \in Pods, MarkDirty(p)
    PROVE  SchemaInv'
  <1> USE MigrationsAssumption DEF SchemaInv, MarkDirty, Becomes
  <1>1. ~dirty /\ version < Last /\ migrator = p
    BY DEF MigratorInv
  <1>2. MigrationsTypeOK'
    BY <1>1 DEF MigrationsTypeOK, Migrating, Serving
  <1>3. SchemaConsistent'
    BY <1>1 DEF SchemaConsistent, MigrationsTypeOK
  <1>4. ran[version'] = 0
    BY <1>1 DEF SchemaConsistent, MigrationsTypeOK
  <1>5. MigratorInv'
    BY <1>1, <1>4 DEF MigratorInv, MigrationsTypeOK
  <1> QED
    BY <1>2, <1>3, <1>5

LEMMA RunBodyKeeps ==
    ASSUME SchemaInv, NEW p \in Pods, RunBody(p)
    PROVE  SchemaInv'
  <1> USE MigrationsAssumption DEF SchemaInv, RunBody, Becomes
  <1>1. dirty /\ version > 0 /\ ran[version] = 0 /\ migrator = p
    BY DEF MigratorInv
  <1>2. MigrationsTypeOK'
    BY <1>1 DEF MigrationsTypeOK, Migrating, Serving
  <1>3. SchemaConsistent'
    BY <1>1 DEF SchemaConsistent, MigrationsTypeOK
  <1>4. MigratorInv'
    BY <1>1 DEF MigratorInv, MigrationsTypeOK
  <1> QED
    BY <1>2, <1>3, <1>4

LEMMA MarkCleanKeeps ==
    ASSUME SchemaInv, NEW p \in Pods, MarkClean(p)
    PROVE  SchemaInv'
  <1> USE MigrationsAssumption DEF SchemaInv, MarkClean, Becomes
  <1>1. dirty /\ version > 0 /\ ran[version] = 1 /\ migrator = p
    BY DEF MigratorInv
  <1>2. MigrationsTypeOK'
    BY <1>1 DEF MigrationsTypeOK, Migrating, Serving
  <1>3. SchemaConsistent'
    BY <1>1 DEF SchemaConsistent, MigrationsTypeOK
  <1>4. MigratorInv'
    BY <1>1 DEF MigratorInv, MigrationsTypeOK
  <1> QED
    BY <1>2, <1>3, <1>4

LEMMA UnlockKeeps ==
    ASSUME SchemaInv, NEW p \in Pods, Unlock(p)
    PROVE  SchemaInv'
  <1> USE MigrationsAssumption DEF SchemaInv, Unlock, Becomes, Without, schema
  <1>1. MigrationsTypeOK'
    BY DEF MigrationsTypeOK, Migrating, Serving
  <1>2. MigratorInv'
    BY DEF MigrationsTypeOK, MigratorInv
  <1>3. SchemaConsistent'
    BY DEF SchemaConsistent
  <1> QED
    BY <1>1, <1>2, <1>3

LEMMA SchemaKept ==
    ASSUME SchemaInv, NEW p \in Pods,
           Launch(p) \/ RunMigrations(p) \/ LoseSession(p) \/ Exit(p)
    PROVE  SchemaInv'
  <1>1. Refused(p) => Exit(p)
    BY DEF Refused
  <1> QED
    BY <1>1, PodMoves, BeginKeeps, MarkDirtyKeeps, RunBodyKeeps,
       MarkCleanKeeps, UnlockKeeps
    DEF RunMigrations
-----------------------------------------------------------------------------
(* What Sanitize makes of a form. *)
LEMMA SanitizedForm ==
    ASSUME NEW f \in Forms
    PROVE  /\ f.op \in {"register", "login"}
           /\ Login(f) \in Logins
           /\ Login(f) = [name |-> f.login.name,
                          edge |-> IF f.login.edge = "space" THEN "none"
                                   ELSE f.login.edge,
                          letters |-> "lower"]
           /\ Secret(f) \in Secrets
           /\ Secret(f) # NoRow
  <1>1. f \in [op : {"register", "login"}, login : Texts, password : Texts]
    BY AccountsAssumption
  <1>2. Secret(f) \in Texts
    BY <1>1 DEF Secret, Trim, Texts
  <1>3. f.login = [name |-> f.login.name, edge |-> f.login.edge,
                   letters |-> f.login.letters]
    BY <1>1 DEF Texts
  <1>4. Login(f) = [name |-> f.login.name,
                    edge |-> IF f.login.edge = "space" THEN "none"
                             ELSE f.login.edge,
                    letters |-> "lower"]
    <2> DEFINE e == IF f.login.edge = "space" THEN "none" ELSE f.login.edge
    <2>1. Trim(f.login) = [name |-> f.login.name, edge |-> e,
                           letters |-> f.login.letters]
      BY <1>3 DEF Trim
    <2> HIDE DEF e
    <2>2. Login(f) = [name |-> f.login.name, edge |-> e, letters |-> "lower"]
      BY <2>1 DEF Login
    <2> QED
      BY <2>2 DEF e
  <1> QED
    BY <1>1, <1>2, <1>4, AccountsAssumption DEF Logins, Secrets

(* Two forms with one name are about one login. *)
LEMMA OneLogin ==
    ASSUME NEW f \in Forms, NEW g \in Forms, SameName(f.login, g.login)
    PROVE  Login(f) = Login(g)
  <1>1. /\ f.login.edge \in {"none", "space", "tab"}
        /\ g.login.edge \in {"none", "space", "tab"}
    BY AccountsAssumption DEF Texts
  <1>2. (IF f.login.edge = "space" THEN "none" ELSE f.login.edge)
          = (IF g.login.edge = "space" THEN "none" ELSE g.login.edge)
    BY <1>1 DEF SameName
  <1> QED
    BY <1>2, SanitizedForm, Zenon DEF SameName

(* A row is a row. *)
LEMMA RowIsNot ==
    ASSUME NEW q \in Requests, NEW f \in Forms
    PROVE  /\ [id |-> q, password |-> Secret(f)] \in Row
           /\ [id |-> q, password |-> Secret(f)] # NoRow
  <1>1. f.password \in Texts
    BY AccountsAssumption
  <1>2. Secret(f) \in Texts /\ Secret(f) \in Secrets
    BY <1>1, SanitizedForm DEF Secret, Trim, Texts
  <1>3. [id |-> q, password |-> Secret(f)] \in [id : Requests, password : Texts]
    BY <1>2
  <1> QED
    BY <1>2, <1>3, AccountsAssumption DEF Row
-----------------------------------------------------------------------------
(* The inductive invariant of the requests: what a request knows where it is,
   and the row its session names. *)
OwnRow(q, id) ==
    /\ form[q] \in Forms
    /\ id \in Requests
    /\ users[Login(form[q])] = [id |-> id, password |-> Secret(form[q])]
    /\ form[q].op = "register" => id = q

RequestInv(q) ==
    /\ step[q] = "new" => token[q] = NoUser /\ answer[q] = "none"
    /\ step[q] \in {"exists", "insert"} =>
         form[q] \in Forms /\ form[q].op = "register"
    /\ step[q] = "lookup" => form[q] \in Forms /\ form[q].op = "login"
    /\ step[q] = "sign" => OwnRow(q, user[q])
    /\ token[q] # NoUser => step[q] = "done" /\ OwnRow(q, token[q])
    /\ answer[q] = "welcome" => token[q] # NoUser
    /\ step[q] \in {"validate", "balance"} =>
         form[q] \in Visits /\ token[form[q].of] # NoUser
    /\ step[q] = "balance" => user[q] = token[form[q].of]

AccountsInv == AccountsTypeOK /\ \A q \in Requests : RequestInv(q)

LEMMA AccountsStart == Init => AccountsInv /\ SchemaInv
  <1> SUFFICES ASSUME Init PROVE AccountsInv /\ SchemaInv
    OBVIOUS
  <1>1. SchemaInv
    BY SchemaStarts DEF Init
  <1>2. AccountsTypeOK
    BY <1>1 DEF Init, AccountsTypeOK, SchemaInv, Steps, Answers
  <1>3. \A q \in Requests : RequestInv(q)
    BY DEF Init, RequestInv
  <1> QED
    BY <1>1, <1>2, <1>3 DEF AccountsInv

(* Requests that a step does not touch keep what they know, if rows stay and
   sessions stay. *)
LEMMA OthersKeep ==
    ASSUME AccountsTypeOK, NEW r \in Requests, RequestInv(r),
           \A l \in Logins : users[l] # NoRow => users'[l] = users[l],
           \A q \in Requests : token[q] # NoUser => token'[q] = token[q],
           form'[r] = form[r], step'[r] = step[r], user'[r] = user[r],
           answer'[r] = answer[r], token'[r] = token[r]
    PROVE  RequestInv(r)'
  <1>1. ASSUME NEW id \in Requests, OwnRow(r, id)
        PROVE  OwnRow(r, id)'
    <2>1. users[Login(form[r])] # NoRow /\ Login(form[r]) \in Logins
      BY <1>1, SanitizedForm, RowIsNot DEF OwnRow
    <2> QED
      BY <1>1, <2>1 DEF OwnRow
  <1>2. step[r] = "sign" => user[r] \in Requests /\ OwnRow(r, user[r])
    BY DEF RequestInv, OwnRow
  <1>3. token[r] # NoUser => token[r] \in Requests /\ OwnRow(r, token[r])
    BY DEF RequestInv, OwnRow
  <1>4. form[r] \in Visits => form[r].of \in Requests
    BY DEF Visits
  <1>5. step'[r] = "sign" => OwnRow(r, user[r])'
    BY <1>1, <1>2 DEF OwnRow
  <1>6. token'[r] # NoUser => step'[r] = "done" /\ OwnRow(r, token[r])'
    BY <1>1, <1>3 DEF OwnRow, RequestInv
  <1> QED
    BY <1>4, <1>5, <1>6 DEF RequestInv

(* A step of one request: only its own knowledge is to be looked at. *)
LEMMA OneStep ==
    ASSUME AccountsInv, NEW q \in Requests, AccountsTypeOK',
           \A l \in Logins : users[l] # NoRow => users'[l] = users[l],
           \A r \in Requests : token[r] # NoUser => token'[r] = token[r],
           \A r \in Requests \ {q} :
              /\ form'[r] = form[r] /\ step'[r] = step[r]
              /\ user'[r] = user[r] /\ answer'[r] = answer[r]
              /\ token'[r] = token[r],
           RequestInv(q)'
    PROVE  AccountsInv'
  <1>1. ASSUME NEW r \in Requests \ {q}
        PROVE  RequestInv(r)'
    BY <1>1, OthersKeep DEF AccountsInv
  <1> QED
    BY <1>1 DEF AccountsInv

LEMMA EndTypes ==
    ASSUME AccountsTypeOK, NEW q \in Requests, NEW a \in Answers, End(q, a)
    PROVE  /\ at' \in [Requests -> Pods \union {Nobody}]
           /\ step' \in [Requests -> Steps]
           /\ user' \in [Requests -> Requests \union {NoUser}]
           /\ answer' \in [Requests -> Answers]
           /\ step'[q] = "done" /\ answer'[q] = a
           /\ \A r \in Requests \ {q} : /\ step'[r] = step[r]
                                        /\ user'[r] = user[r]
                                        /\ answer'[r] = answer[r]
  BY DEF End, AccountsTypeOK, Steps

LEMMA GoOnTypes ==
    ASSUME AccountsTypeOK, NEW q \in Requests, NEW s \in Steps,
           NEW u \in Requests \union {NoUser}, GoOn(q, s, u)
    PROVE  /\ at' \in [Requests -> Pods \union {Nobody}]
           /\ step' \in [Requests -> Steps]
           /\ user' \in [Requests -> Requests \union {NoUser}]
           /\ answer' = answer
           /\ step'[q] = s /\ user'[q] = u
           /\ \A r \in Requests \ {q} : /\ step'[r] = step[r]
                                        /\ user'[r] = user[r]
  BY DEF GoOn, AccountsTypeOK, Steps
-----------------------------------------------------------------------------
(* One lemma per action. *)
LEMMA PostKeeps ==
    ASSUME AccountsInv, NEW q \in Requests, NEW p \in Pods, NEW f \in Forms,
           Post(q, p, f)
    PROVE  AccountsInv'
  <1>1. /\ AccountsTypeOK
        /\ step[q] = "new" /\ token[q] = NoUser /\ answer[q] = "none"
    BY DEF AccountsInv, RequestInv, Post
  <1>2. f.op \in {"register", "login"}
    BY SanitizedForm
  <1>3. form' \in [Requests -> Forms \union Visits \union {NoForm}] /\ form'[q] = f
    BY <1>1 DEF Post, AccountsTypeOK
  <1>4. CASE End(q, "bad")
    <2>1. AccountsTypeOK'
      BY <1>1, <1>3, <1>4, EndTypes
      DEF Post, AccountsTypeOK, MigrationsTypeOK, migrations, schema, Answers
    <2>2. RequestInv(q)'
      BY <1>1, <1>4, EndTypes DEF RequestInv, Answers, Post
    <2> QED
      BY <1>1, <1>3, <1>4, <2>1, <2>2, OneStep, EndTypes
      DEF Post, AccountsTypeOK, Answers
  <1>5. CASE /\ at' = [at EXCEPT ![q] = p]
             /\ step' = [step EXCEPT ![q] =
                  IF f.op = "register" THEN "exists" ELSE "lookup"]
             /\ UNCHANGED <<user, answer>>
    <2>1. AccountsTypeOK'
      BY <1>1, <1>3, <1>5
      DEF Post, AccountsTypeOK, MigrationsTypeOK, migrations, schema, Steps
    <2>2. RequestInv(q)'
      BY <1>1, <1>2, <1>3, <1>5 DEF RequestInv, Post, AccountsTypeOK
    <2> QED
      BY <1>1, <1>3, <1>5, <2>1, <2>2, OneStep DEF Post, AccountsTypeOK
  <1> QED
    BY <1>4, <1>5 DEF Post

LEMMA VisitKeeps ==
    ASSUME AccountsInv, NEW q \in Requests, NEW p \in Pods, NEW v \in Visits,
           Visit(q, p, v)
    PROVE  AccountsInv'
  <1>1. /\ AccountsTypeOK
        /\ step[q] = "new" /\ token[q] = NoUser /\ answer[q] = "none"
    BY DEF AccountsInv, RequestInv, Visit
  <1>2. AccountsTypeOK'
    BY <1>1
    DEF Visit, AccountsTypeOK, MigrationsTypeOK, migrations, schema, Steps
  <1>3. RequestInv(q)'
    BY <1>1 DEF RequestInv, Visit, AccountsTypeOK
  <1> QED
    BY <1>1, <1>2, <1>3, OneStep DEF Visit, AccountsTypeOK

(* A request that reads and ends, or goes on without a session. *)
LEMMA EndKeeps ==
    ASSUME AccountsInv, NEW q \in Requests, NEW a \in Answers, End(q, a),
           step[q] \in Steps \ {"new", "done"}, a # "welcome",
           UNCHANGED <<migrations, users, form, token, live>>
    PROVE  AccountsInv'
  <1>1. AccountsTypeOK
    BY DEF AccountsInv
  <1>2. AccountsTypeOK'
    BY <1>1, EndTypes DEF AccountsTypeOK, MigrationsTypeOK, migrations, schema
  <1>3. token[q] = NoUser
    BY DEF AccountsInv, RequestInv
  <1>4. RequestInv(q)'
    BY <1>1, <1>3, EndTypes DEF RequestInv
  <1> QED
    BY <1>1, <1>2, <1>4, OneStep, EndTypes

LEMMA CheckKeeps ==
    ASSUME AccountsInv, NEW q \in Requests, CheckUserExists(q)
    PROVE  AccountsInv'
  <1>1. /\ AccountsTypeOK /\ step[q] = "exists"
        /\ form[q] \in Forms /\ form[q].op = "register"
        /\ token[q] = NoUser /\ answer[q] # "welcome"
    BY DEF AccountsInv, RequestInv, CheckUserExists, Runs
  <1>2. CASE End(q, "conflict")
    BY <1>1, <1>2, EndKeeps DEF CheckUserExists, Steps, Answers
  <1>3. CASE GoOn(q, "insert", NoUser)
    <2>1. AccountsTypeOK'
      BY <1>1, <1>3, GoOnTypes
      DEF CheckUserExists, AccountsTypeOK, MigrationsTypeOK, migrations,
          schema, Steps
    <2>2. RequestInv(q)'
      BY <1>1, <1>3, GoOnTypes DEF CheckUserExists, RequestInv, Steps
    <2> QED
      BY <1>1, <1>3, <2>1, <2>2, OneStep, GoOnTypes DEF CheckUserExists, Steps
  <1> QED
    BY <1>2, <1>3 DEF CheckUserExists

LEMMA CreateKeeps ==
    ASSUME AccountsInv, NEW q \in Requests, CreateUser(q)
    PROVE  AccountsInv'
  <1> DEFINE l == Login(form[q])
             row == [id |-> q, password |-> Secret(form[q])]
  <1>1. /\ AccountsTypeOK /\ step[q] = "insert"
        /\ form[q] \in Forms /\ form[q].op = "register"
        /\ token[q] = NoUser /\ answer[q] # "welcome"
    BY DEF AccountsInv, RequestInv, CreateUser, Runs
  <1>2. CASE End(q, "conflict") /\ UNCHANGED users
    BY <1>1, <1>2, EndKeeps DEF CreateUser, Steps, Answers
  <1>3. CASE /\ users[l] = NoRow
             /\ users' = [users EXCEPT ![l] = row]
             /\ GoOn(q, "sign", q) \/ End(q, "error")
    <2>1. l \in Logins /\ row \in Row /\ row # NoRow
      BY <1>1, SanitizedForm, RowIsNot
    <2>2. /\ users' \in [Logins -> Row \union {NoRow}]
          /\ users'[l] = row
          /\ \A m \in Logins : users[m] # NoRow => users'[m] = users[m]
      BY <1>1, <1>3, <2>1 DEF AccountsTypeOK
    <2> HIDE DEF l, row
    <2>3. CASE GoOn(q, "sign", q)
      <3>1. AccountsTypeOK'
        BY <1>1, <2>2, <2>3, GoOnTypes
        DEF CreateUser, AccountsTypeOK, MigrationsTypeOK, migrations, schema,
            Steps
      <3>2. OwnRow(q, user[q])'
        BY <1>1, <2>2, <2>3, GoOnTypes DEF CreateUser, OwnRow, Steps, l, row
      <3>3. RequestInv(q)'
        BY <1>1, <2>3, <3>2, GoOnTypes DEF CreateUser, RequestInv, Steps
      <3> QED
        BY <1>1, <2>2, <2>3, <3>1, <3>3, OneStep, GoOnTypes
        DEF CreateUser, Steps
    <2>4. CASE End(q, "error")
      <3>1. AccountsTypeOK'
        BY <1>1, <2>2, <2>4, EndTypes
        DEF CreateUser, AccountsTypeOK, MigrationsTypeOK, migrations, schema,
            Answers
      <3>2. RequestInv(q)'
        BY <1>1, <2>4, EndTypes DEF CreateUser, RequestInv, Answers
      <3> QED
        BY <1>1, <2>2, <2>4, <3>1, <3>2, OneStep, EndTypes
        DEF CreateUser, Answers
    <2> QED
      BY <1>3, <2>3, <2>4
  <1> QED
    BY <1>2, <1>3 DEF CreateUser

LEMMA AuthenticateKeeps ==
    ASSUME AccountsInv, NEW q \in Requests, Authenticate(q)
    PROVE  AccountsInv'
  <1> DEFINE row == users[Login(form[q])]
  <1>1. /\ AccountsTypeOK /\ step[q] = "lookup"
        /\ form[q] \in Forms /\ form[q].op = "login"
        /\ token[q] = NoUser /\ answer[q] # "welcome"
    BY DEF AccountsInv, RequestInv, Authenticate, Runs
  <1>2. CASE End(q, "unauthorized")
    BY <1>1, <1>2, EndKeeps DEF Authenticate, Steps, Answers
  <1>3. CASE /\ row # NoRow /\ row.password = Secret(form[q])
             /\ GoOn(q, "sign", row.id)
    <2>1. row \in Row
      BY <1>1, <1>3, SanitizedForm DEF AccountsTypeOK
    <2>2. /\ row.id \in Requests
          /\ row = [id |-> row.id, password |-> Secret(form[q])]
      BY <1>3, <2>1 DEF Row
    <2>3. AccountsTypeOK'
      BY <1>1, <1>3, <2>2, GoOnTypes
      DEF Authenticate, AccountsTypeOK, MigrationsTypeOK, migrations, schema,
          Steps
    <2>4. OwnRow(q, user[q])'
      BY <1>1, <1>3, <2>2, GoOnTypes DEF Authenticate, OwnRow, Steps
    <2>5. RequestInv(q)'
      BY <1>1, <1>3, <2>2, <2>4, GoOnTypes DEF Authenticate, RequestInv, Steps
    <2> QED
      BY <1>1, <1>3, <2>2, <2>3, <2>5, OneStep, GoOnTypes
      DEF Authenticate, Steps
  <1> QED
    BY <1>2, <1>3 DEF Authenticate

LEMMA SignKeeps ==
    ASSUME AccountsInv, NEW q \in Requests, GenerateJWT(q)
    PROVE  AccountsInv'
  <1>1. /\ AccountsTypeOK /\ OwnRow(q, user[q]) /\ token[q] = NoUser
    BY DEF AccountsInv, RequestInv, GenerateJWT
  <1>2. /\ token' \in [Requests -> Requests \union {NoUser}]
        /\ token'[q] = user[q] /\ token'[q] # NoUser
    BY <1>1, AccountsAssumption DEF GenerateJWT, AccountsTypeOK, OwnRow
  <1>3. AccountsTypeOK'
    BY <1>1, <1>2, EndTypes
    DEF GenerateJWT, AccountsTypeOK, MigrationsTypeOK, migrations, schema,
        Answers
  <1>4. OwnRow(q, token[q])'
    BY <1>1, <1>2 DEF GenerateJWT, OwnRow
  <1>5. RequestInv(q)'
    BY <1>1, <1>2, <1>4, EndTypes DEF GenerateJWT, RequestInv, Answers
  <1> QED
    BY <1>1, <1>3, <1>5, OneStep, EndTypes
    DEF GenerateJWT, AccountsTypeOK, Answers

LEMMA ValidateKeeps ==
    ASSUME AccountsInv, NEW q \in Requests, ValidateToken(q)
    PROVE  AccountsInv'
  <1>1. /\ AccountsTypeOK /\ step[q] = "validate"
        /\ form[q] \in Visits /\ token[form[q].of] # NoUser
        /\ token[q] = NoUser /\ answer[q] # "welcome"
    BY DEF AccountsInv, RequestInv, ValidateToken
  <1>2. form[q].of \in Requests
    BY <1>1 DEF Visits
  <1>3. CASE End(q, "unauthorized")
    BY <1>1, <1>3, EndKeeps DEF ValidateToken, Steps, Answers
  <1>4. CASE GoOn(q, "balance", token[form[q].of])
    <2>1. token[form[q].of] \in Requests \union {NoUser}
      BY <1>1, <1>2 DEF AccountsTypeOK
    <2>2. AccountsTypeOK'
      BY <1>1, <1>4, <2>1, GoOnTypes
      DEF ValidateToken, AccountsTypeOK, MigrationsTypeOK, migrations, schema,
          Steps
    <2>3. RequestInv(q)'
      BY <1>1, <1>4, <2>1, GoOnTypes DEF ValidateToken, RequestInv, Steps
    <2> QED
      BY <1>1, <1>4, <2>1, <2>2, <2>3, OneStep, GoOnTypes
      DEF ValidateToken, Steps
  <1> QED
    BY <1>3, <1>4 DEF ValidateToken

LEMMA BalanceKeeps ==
    ASSUME AccountsInv, NEW q \in Requests, GetUserBalance(q)
    PROVE  AccountsInv'
  BY EndKeeps DEF GetUserBalance, Runs, Steps, Answers

LEMMA FailureKeeps ==
    ASSUME AccountsInv, NEW q \in Requests, StatementFails(q)
    PROVE  AccountsInv'
  BY EndKeeps DEF StatementFails, Steps, Answers

LEMMA ExpireKeeps ==
    ASSUME AccountsInv, NEW q \in Requests, Expire(q)
    PROVE  AccountsInv'
  <1>1. AccountsTypeOK'
    BY DEF AccountsInv, Expire, AccountsTypeOK, MigrationsTypeOK, migrations,
           schema, requests
  <1>2. ASSUME NEW r \in Requests PROVE RequestInv(r)'
    BY OthersKeep DEF AccountsInv, Expire, requests
  <1> QED
    BY <1>1, <1>2 DEF AccountsInv

LEMMA MigrateKeeps ==
    ASSUME AccountsInv, MigrationsTypeOK', UNCHANGED accounts
    PROVE  AccountsInv'
  <1>1. AccountsTypeOK'
    BY DEF AccountsInv, AccountsTypeOK, accounts, requests
  <1>2. ASSUME NEW r \in Requests PROVE RequestInv(r)'
    BY OthersKeep DEF AccountsInv, accounts, requests
  <1> QED
    BY <1>1, <1>2 DEF AccountsInv

(* A lost request is like one that ended, and the rows are still there. *)
LEMMA PodExitKeeps ==
    ASSUME AccountsInv, MigrationsTypeOK', NEW p \in Pods, PodExits(p)
    PROVE  AccountsInv'
  <1>1. AccountsTypeOK
    BY DEF AccountsInv
  <1>2. AccountsTypeOK'
    BY <1>1 DEF PodExits, Without, AccountsTypeOK, Steps, Answers
  <1>3. ASSUME NEW r \in Requests PROVE RequestInv(r)'
    <2>1. CASE at[r] # p
      BY <1>1, <2>1, OthersKeep DEF PodExits, AccountsInv
    <2>2. CASE at[r] = p
      <3>1. /\ step'[r] = "done" /\ answer'[r] = "lost"
            /\ form' = form /\ token' = token /\ users' = users
        BY <2>2 DEF PodExits
      <3>2. token[r] # NoUser => OwnRow(r, token[r])
        BY DEF AccountsInv, RequestInv
      <3>3. token'[r] # NoUser => OwnRow(r, token[r])'
        BY <3>1, <3>2 DEF OwnRow
      <3> QED
        BY <3>1, <3>3 DEF RequestInv
    <2> QED
      BY <2>1, <2>2
  <1> QED
    BY <1>2, <1>3 DEF AccountsInv

LEMMA AccountsStep == AccountsInv /\ SchemaInv /\ [Next]_vars
                        => AccountsInv' /\ SchemaInv'
  <1> SUFFICES ASSUME AccountsInv, SchemaInv, [Next]_vars
               PROVE  AccountsInv' /\ SchemaInv'
    OBVIOUS
  <1>1. CASE UNCHANGED migrations
    <2>1. SchemaInv'
      BY <1>1, SchemaStays
    <2>2. CASE \E q \in Requests, p \in Pods, f \in Forms : Post(q, p, f)
      BY <2>1, <2>2, PostKeeps
    <2>3. CASE \E q \in Requests, p \in Pods, v \in Visits : Visit(q, p, v)
      BY <2>1, <2>3, VisitKeeps
    <2>4. CASE \E q \in Requests : Serve(q) \/ Expire(q)
      BY <2>1, <2>4, CheckKeeps, CreateKeeps, AuthenticateKeeps, SignKeeps,
         ValidateKeeps, BalanceKeeps, FailureKeeps, ExpireKeeps DEF Serve
    <2>5. CASE \E p \in Pods : Migrate(p)
      BY <2>1, <2>5, MigrateKeeps DEF Migrate, SchemaInv
    <2>6. CASE \E p \in Pods : PodExits(p)
      BY <2>1, <2>6, PodExitKeeps DEF SchemaInv
    <2>7. CASE UNCHANGED vars
      BY <2>1, <2>7, MigrateKeeps DEF vars, SchemaInv
    <2> QED
      BY <2>2, <2>3, <2>4, <2>5, <2>6, <2>7 DEF Next
  <1>2. ASSUME NEW p \in Pods, Migrate(p)
        PROVE  AccountsInv' /\ SchemaInv'
    BY <1>2, SchemaKept, MigrateKeeps DEF Migrate, SchemaInv
  <1>3. ASSUME NEW p \in Pods, PodExits(p)
        PROVE  AccountsInv' /\ SchemaInv'
    <2>1. SchemaInv'
      BY <1>3, SchemaKept DEF PodExits
    <2> QED
      BY <1>3, <2>1, PodExitKeeps DEF SchemaInv
  <1>4. UNCHANGED migrations \/ \E p \in Pods : Migrate(p) \/ PodExits(p)
    BY DEF Next, vars, Post, Visit, Serve, CheckUserExists, CreateUser,
           Authenticate, GenerateJWT, ValidateToken, GetUserBalance,
           StatementFails, Expire
  <1> QED
    BY <1>1, <1>2, <1>3, <1>4

(* What a request knows of itself and of the row it acts for, and what the
   version table says of the schema: always. *)
THEOREM AccountsSound == Spec => [](AccountsInv /\ SchemaInv)
  BY AccountsStart, AccountsStep, PTL DEF Spec

(* Tables, requests and pods keep their types. *)
THEOREM AccountsTyped == Spec => []AccountsTypeOK
  <1>1. AccountsInv => AccountsTypeOK
    BY DEF AccountsInv
  <1> QED
    BY <1>1, AccountsSound, PTL

(* The version table tells the truth about the schema, however many pods
   start, fail, die or lose their session in whatever step. *)
THEOREM SchemaStaysConsistent == Spec => []SchemaConsistent
  <1>1. SchemaInv => SchemaConsistent
    BY DEF SchemaInv
  <1> QED
    BY <1>1, AccountsSound, PTL

(* A pod that led serves on a whole schema. *)
THEOREM LeadersServeWhole == Spec => []LedPodsServeWhole
  <1>1. SchemaInv => LedPodsServeWhole
    BY MigrationsAssumption
    DEF SchemaInv, MigratorInv, SchemaConsistent, LedPodsServeWhole,
        MigrationsTypeOK
  <1> QED
    BY <1>1, AccountsSound, PTL

(* At most one registration of a name is welcomed, and its account stays. *)
THEOREM WelcomesStay == Spec => []WelcomesAreKept
  <1>1. AccountsInv => WelcomesAreKept
    <2> SUFFICES ASSUME AccountsInv PROVE WelcomesAreKept
      OBVIOUS
    <2>1. ASSUME NEW q \in Requests, answer[q] = "welcome",
                 form[q].op = "register"
          PROVE  /\ form[q] \in Forms
                 /\ users[Login(form[q])] # NoRow
                 /\ users[Login(form[q])].id = q
      <3>1. OwnRow(q, token[q]) /\ token[q] = q
        BY <2>1 DEF AccountsInv, RequestInv, OwnRow
      <3> QED
        BY <3>1, RowIsNot DEF OwnRow
    <2>2. ASSUME NEW q \in Requests, answer[q] = "welcome",
                 form[q].op = "register",
                 NEW r \in Requests, answer[r] = "welcome",
                 form[r].op = "register",
                 SameName(form[q].login, form[r].login)
          PROVE  q = r
      <3>1. Login(form[q]) = Login(form[r])
        BY <2>1, <2>2, OneLogin
      <3> QED
        BY <2>1, <2>2, <3>1
    <2> QED
      BY <2>1, <2>2 DEF WelcomesAreKept
  <1> QED
    BY <1>1, AccountsSound, PTL

(* A session names the account whose login and password were given for it. *)
THEOREM TokensNameTheirOwner == Spec => []TokensNameOwner
  <1>1. AccountsInv => TokensNameOwner
    BY DEF AccountsInv, RequestInv, OwnRow, TokensNameOwner
  <1> QED
    BY <1>1, AccountsSound, PTL
-----------------------------------------------------------------------------
(* The refinement: the insert opens an account, the signature admits to one,
   and no other step changes what the book shows. *)
Shown == [l \in Logins |-> IF users[l] = NoRow THEN NoRow ELSE users[l].password]

Told == {<<Login(form[q]), Secret(form[q])>> :
            q \in {r \in Requests : token[r] # NoUser}}

LEMMA BookReads ==
    /\ Book!BookInit <=> Shown = [l \in Logins |-> NoRow] /\ Told = {}
    /\ Book!bookVars = <<Shown, Told>>
  BY DEF Book!BookInit, Book!bookVars, Shown, Told

LEMMA OthersAreQuiet ==
    ASSUME users' = users,
           \A q \in Requests : token'[q] = token[q],
           \A q \in Requests : token[q] # NoUser => form'[q] = form[q]
    PROVE  UNCHANGED Book!bookVars
  <1>1. Shown' = Shown
    BY DEF Shown
  <1>2. Told' = Told
    BY DEF Told
  <1> QED
    BY <1>1, <1>2 DEF Book!bookVars, Shown, Told

LEMMA CreateOpens ==
    ASSUME AccountsInv, NEW q \in Requests, CreateUser(q)
    PROVE  Book!BookNext \/ UNCHANGED Book!bookVars
  <1>1. AccountsTypeOK /\ form[q] \in Forms
    BY DEF AccountsInv, RequestInv, CreateUser, Runs
  <1>2. PICK l \in Logins, p \in Secrets :
          /\ l = Login(form[q]) /\ p = Secret(form[q])
          /\ [id |-> q, password |-> p] # NoRow
    BY <1>1, SanitizedForm, RowIsNot
  <1>3. CASE users' = users
    BY <1>3, OthersAreQuiet DEF CreateUser
  <1>4. CASE users[l] = NoRow
             /\ users' = [users EXCEPT ![l] = [id |-> q, password |-> p]]
    <2>1. Shown[l] = NoRow
      BY <1>2, <1>4 DEF Shown
    <2>2. Shown' = [Shown EXCEPT ![l] = p]
      BY <1>1, <1>2, <1>4 DEF Shown, AccountsTypeOK
    <2>3. Told' = Told
      BY DEF Told, CreateUser
    <2>4. Book!Open(l, p)
      BY <2>1, <2>2, <2>3 DEF Book!Open, Shown, Told
    <2> QED
      BY <2>4 DEF Book!BookNext
  <1> QED
    BY <1>2, <1>3, <1>4 DEF CreateUser

LEMMA SignAdmits ==
    ASSUME AccountsInv, NEW q \in Requests, GenerateJWT(q)
    PROVE  Book!BookNext
  <1>1. AccountsTypeOK /\ OwnRow(q, user[q]) /\ form[q] \in Forms
    BY DEF AccountsInv, RequestInv, GenerateJWT, OwnRow
  <1>2. PICK l \in Logins, p \in Secrets :
          /\ l = Login(form[q]) /\ p = Secret(form[q])
          /\ users[l] = [id |-> user[q], password |-> p]
          /\ users[l] # NoRow
    BY <1>1, SanitizedForm, RowIsNot DEF OwnRow
  <1>3. Shown[l] = p /\ Shown' = Shown
    BY <1>2 DEF Shown, GenerateJWT
  <1>4. token' = [token EXCEPT ![q] = user[q]] /\ user[q] # NoUser
    BY <1>1, AccountsAssumption DEF OwnRow, GenerateJWT
  <1>5. {r \in Requests : token'[r] # NoUser}
          = {r \in Requests : token[r] # NoUser} \union {q}
    BY <1>1, <1>4 DEF AccountsTypeOK
  <1>6. Told' = Told \union {<<l, p>>}
    BY <1>2, <1>5 DEF Told, GenerateJWT
  <1>7. Book!Admit(l, p)
    BY <1>3, <1>6 DEF Book!Admit, Shown, Told
  <1> QED
    BY <1>7 DEF Book!BookNext

LEMMA StepIsBooked ==
    ASSUME AccountsInv, [Next]_vars
    PROVE  [Book!BookNext]_(Book!bookVars)
  <1>1. \A q \in Requests : step[q] = "new" => token[q] = NoUser
    BY DEF AccountsInv, RequestInv
  <1>2. CASE \E q \in Requests, p \in Pods :
               \/ \E f \in Forms : Post(q, p, f)
               \/ \E v \in Visits : Visit(q, p, v)
    <2>1. PICK q \in Requests : /\ step[q] = "new"
                                /\ users' = users /\ token' = token
                                /\ \A r \in Requests \ {q} : form'[r] = form[r]
      BY <1>2 DEF Post, Visit, AccountsInv, AccountsTypeOK
    <2> QED
      BY <1>1, <2>1, OthersAreQuiet
  <1>3. CASE \E q \in Requests : CreateUser(q)
    BY <1>3, CreateOpens
  <1>4. CASE \E q \in Requests : GenerateJWT(q)
    BY <1>4, SignAdmits
  <1>5. CASE UNCHANGED <<users, form, token>>
    BY <1>5, OthersAreQuiet
  <1> QED
    BY <1>2, <1>3, <1>4, <1>5
    DEF Next, vars, accounts, requests, Serve, CheckUserExists, Authenticate,
        ValidateToken, GetUserBalance, StatementFails, Expire, Migrate,
        PodExits

(* Register and Authenticate keep the promise of AccountBook. *)
THEOREM AccountsKeepTheBook == Spec => RefinesAccountBook
  <1>1. Init => Book!BookInit
    BY BookReads DEF Init, Shown, Told
  <1>2. AccountsInv /\ [Next]_vars => [Book!BookNext]_(Book!bookVars)
    BY StepIsBooked
  <1> QED
    BY <1>1, <1>2, AccountsSound, PTL DEF Spec, RefinesAccountBook, Book!BookSpec
=============================================================================
