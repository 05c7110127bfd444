------------------------------ MODULE LedgerTx ------------------------------
(***************************************************************************)
(* The repositories of internal/repository/postgres at the grain of SQL    *)
(* statements.  A session is one call of CreateOrder (with the conflict    *)
(* branch of UploadOrder), UpdateOrderAndBalance or WithdrawPoints, running*)
(* on its own pooled connection; the sessions of every handler, of the     *)
(* worker and of every pod interleave.  PostgreSQL runs at READ COMMITTED: *)
(*                                                                         *)
(*   - a statement sees the committed rows;                                *)
(*   - a row updated by an open transaction is locked by it: its new       *)
(*     version waits in dirtyUser, dirtyOrder or dirtyWithdrawal until the *)
(*     commit, and another writer of the same row or of the same unique    *)
(*     key waits until then and looks at the committed row afterwards;     *)
(*   - an error rolls the transaction back (defer tx.Rollback), and so     *)
(*     does a lost connection, a cancelled context or a crashed pod.       *)
(***************************************************************************)
EXTENDS Ledger

CONSTANTS
    Sessions, \* concurrent calls of the repositories
    NoCall    \* a session that serves no call

VARIABLES
    pc,              \* [Sessions -> the statement to run next]
    call,            \* [Sessions -> the arguments of the call]
    reply,           \* [Sessions -> what the call returned]
    dirtyUser,       \* [Sessions -> uncommitted version of the user's row]
    dirtyOrder,      \* [Sessions -> uncommitted version of the order's row]
    dirtyWithdrawal  \* [Sessions -> uncommitted withdrawal]

dirty == <<dirtyUser, dirtyOrder, dirtyWithdrawal>>
vars == <<ledger, pc, call, reply, dirty>>
-----------------------------------------------------------------------------
UploadCalls ==
    [op : {"upload"}, user : Users, number : Numbers,
     status : {"NEW"}, amount : {0}]

SettleCalls ==
    {[op |-> "settle", user |-> u, number |-> n,
      status |-> v.status, amount |-> v.accrual] :
        u \in Users, n \in Numbers, v \in Verdicts}

WithdrawCalls ==
    [op : {"withdraw"}, user : Users, number : Numbers,
     status : {"NEW"}, amount : Sums]

Calls == UploadCalls \union SettleCalls \union WithdrawCalls

ASSUME CallAssumption == NoCall \notin Calls

PCs == {"idle", "insert", "lookup", "credit", "mark", "debit", "record",
        "commit"}

Replies == {"none", "ok", "same_user", "other_user", "insufficient",
            "duplicate", "not_found", "failed"}

(* A slip for the properties to catch: the status is written alone. *)
StatusOnly(c) ==
    CASE c.op = "upload" -> "insert"
      [] c.op = "withdraw" -> "debit"
      [] OTHER -> "mark"

(* The first statement of a call.  UpdateOrderAndBalance touches the user
   only for a positive accrual. *)
FirstStatement(c) ==
    CASE c.op = "upload" -> "insert"
      [] c.op = "withdraw" -> "debit"
      [] c.op = "settle" /\ c.amount > 0 -> "credit"
      [] OTHER -> "mark"

(* Another open transaction holds the row, or the unique key. *)
UserLocked(s, u) ==
    \E t \in Sessions \ {s} : dirtyUser[t] # NoRow /\ call[t].user = u

OrderLocked(s, n) ==
    \E t \in Sessions \ {s} : dirtyOrder[t] # NoRow /\ call[t].number = n

KeyLocked(s, n) ==
    \E t \in Sessions \ {s} : dirtyWithdrawal[t] # NoRow /\ call[t].number = n

(* Slips for the properties to catch: the statements run outside of the
   transaction, or the transaction is never rolled back. *)
KeepChanges(s, r) ==
    /\ pc' = [pc EXCEPT ![s] = "idle"]
    /\ reply' = [reply EXCEPT ![s] = r]
    /\ users' = IF dirtyUser[s] = NoRow THEN users
                ELSE [users EXCEPT ![call[s].user] = dirtyUser[s]]
    /\ dirtyUser' = [dirtyUser EXCEPT ![s] = NoRow]
    /\ dirtyOrder' = [dirtyOrder EXCEPT ![s] = NoRow]
    /\ dirtyWithdrawal' = [dirtyWithdrawal EXCEPT ![s] = NoRow]
    /\ UNCHANGED <<orders, withdrawals, call>>

KeepLocks(s, r) ==
    /\ pc' = [pc EXCEPT ![s] = "idle"]
    /\ reply' = [reply EXCEPT ![s] = r]
    /\ UNCHANGED <<ledger, call, dirty>>

(* The call returns r and its transaction, if any is open, is rolled back:
   the uncommitted rows vanish and their locks are released. *)
RollBack(s, r) ==
    /\ pc' = [pc EXCEPT ![s] = "idle"]
    /\ reply' = [reply EXCEPT ![s] = r]
    /\ dirtyUser' = [dirtyUser EXCEPT ![s] = NoRow]
    /\ dirtyOrder' = [dirtyOrder EXCEPT ![s] = NoRow]
    /\ dirtyWithdrawal' = [dirtyWithdrawal EXCEPT ![s] = NoRow]
    /\ UNCHANGED <<ledger, call>>

Return(s, r) ==
    /\ pc' = [pc EXCEPT ![s] = "idle"]
    /\ reply' = [reply EXCEPT ![s] = r]
-----------------------------------------------------------------------------
TxInit ==
    /\ Init
    /\ pc = [s \in Sessions |-> "idle"]
    /\ call = [s \in Sessions |-> NoCall]
    /\ reply = [s \in Sessions |-> "none"]
    /\ dirtyUser = [s \in Sessions |-> NoRow]
    /\ dirtyOrder = [s \in Sessions |-> NoRow]
    /\ dirtyWithdrawal = [s \in Sessions |-> NoRow]

(* A handler or the worker starts a call.  The worker takes the order and its
   owner from a committed row, read by GetUnprocessedOrders or put into the
   channel after CreateOrder returned; it may be stale in everything else. *)
Start(s, c) ==
    /\ pc[s] = "idle"
    /\ c.op = "settle" => /\ orders[c.number] # NoRow
                          /\ orders[c.number].owner = c.user
    /\ call' = [call EXCEPT ![s] = c]
    /\ reply' = [reply EXCEPT ![s] = "none"]
    /\ pc' = [pc EXCEPT ![s] = FirstStatement(c)]
    /\ UNCHANGED <<ledger, dirty>>

(* INSERT INTO orders, a transaction of its own.  The answer may be lost
   after the row is stored; a conflict on the primary key is looked up. *)
InsertOrder(s) ==
    LET c == call[s] IN
    /\ pc[s] = "insert"
    /\ \/ /\ orders[c.number] = NoRow
          /\ orders' = [orders EXCEPT ![c.number] = NewOrder(c.user)]
          /\ \E r \in {"ok", "failed"} : Return(s, r)
       \/ /\ orders[c.number] # NoRow
          /\ pc' = [pc EXCEPT ![s] = "lookup"]
          /\ UNCHANGED <<orders, reply>>
    /\ UNCHANGED <<users, withdrawals, call, dirty>>

(* UploadOrder reads the existing order with GetOrder and compares owners. *)
LookupOwner(s) ==
    /\ pc[s] = "lookup"
    /\ Return(s, IF orders[call[s].number].owner = call[s].user
                 THEN "same_user" ELSE "other_user")
    /\ UNCHANGED <<ledger, call, dirty>>

(* UPDATE users SET balance = balance + $1: an overflow of NUMERIC(12,2) is
   an error of the statement. *)
CreditUser(s) ==
    LET c == call[s]
        row == Credited(users[c.user], c.amount)
    IN
    /\ pc[s] = "credit"
    /\ ~UserLocked(s, c.user)
    /\ \/ /\ row.balance > MaxNumeric
          /\ RollBack(s, "failed")
       \/ /\ row.balance <= MaxNumeric
          /\ dirtyUser' = [dirtyUser EXCEPT ![s] = row]
          /\ pc' = [pc EXCEPT ![s] = "mark"]
          /\ UNCHANGED <<ledger, call, reply, dirtyOrder, dirtyWithdrawal>>

(* UPDATE orders ... WHERE id, user_id, status NOT IN (final statuses): a row
   that does not match is skipped without waiting for its lock, and a row
   that was locked is matched again after the wait. *)
MarkOrder(s) ==
    LET c == call[s]
        matches == IsOpen(c.number) /\ orders[c.number].owner = c.user
    IN
    /\ pc[s] = "mark"
    /\ \/ /\ ~matches
          /\ RollBack(s, "not_found")
       \/ /\ matches
          /\ ~OrderLocked(s, c.number)
          /\ dirtyOrder' = [dirtyOrder EXCEPT ![s] =
               Marked(orders[c.number], c.status, c.amount)]
          /\ pc' = [pc EXCEPT ![s] = "commit"]
          /\ UNCHANGED <<ledger, call, reply, dirtyUser, dirtyWithdrawal>>

(* Slips for the properties to catch: the new balance is computed from a row
   that was read before without a lock, or there is no check of the result. *)
DebitUnlocked(s) ==
    LET c == call[s]
        row == Debited(users[c.user], c.amount)
    IN
    /\ pc[s] = "debit"
    /\ row.balance >= 0 /\ row.withdrawn <= MaxNumeric
    /\ dirtyUser' = [dirtyUser EXCEPT ![s] = row]
    /\ pc' = [pc EXCEPT ![s] = "record"]
    /\ UNCHANGED <<ledger, call, reply, dirtyOrder, dirtyWithdrawal>>

DebitUnchecked(s) ==
    LET c == call[s] IN
    /\ pc[s] = "debit"
    /\ ~UserLocked(s, c.user)
    /\ dirtyUser' = [dirtyUser EXCEPT ![s] = Debited(users[c.user], c.amount)]
    /\ pc' = [pc EXCEPT ![s] = "record"]
    /\ UNCHANGED <<ledger, call, reply, dirtyOrder, dirtyWithdrawal>>

(* UPDATE users SET balance = balance - $1, withdrawn = withdrawn + $1: the
   new row is checked by check_balance_non_negative and by the column width. *)
DebitUser(s) ==
    LET c == call[s]
        row == Debited(users[c.user], c.amount)
    IN
    /\ pc[s] = "debit"
    /\ ~UserLocked(s, c.user)
    /\ \/ /\ row.withdrawn > MaxNumeric \/ row.balance < -MaxNumeric
          /\ RollBack(s, "failed")
       \/ /\ row.withdrawn <= MaxNumeric /\ row.balance >= -MaxNumeric
          /\ row.balance < 0
          /\ RollBack(s, "insufficient")
       \/ /\ row.withdrawn <= MaxNumeric
          /\ row.balance >= 0
          /\ dirtyUser' = [dirtyUser EXCEPT ![s] = row]
          /\ pc' = [pc EXCEPT ![s] = "record"]
          /\ UNCHANGED <<ledger, call, reply, dirtyOrder, dirtyWithdrawal>>

(* INSERT INTO withdrawals: order_id is UNIQUE; an uncommitted row with the
   same key makes the statement wait. *)
RecordWithdrawal(s) ==
    LET c == call[s] IN
    /\ pc[s] = "record"
    /\ ~KeyLocked(s, c.number)
    /\ \/ /\ withdrawals[c.number] # NoRow
          /\ RollBack(s, "duplicate")
       \/ /\ withdrawals[c.number] = NoRow
          /\ dirtyWithdrawal' = [dirtyWithdrawal EXCEPT ![s] =
               [user |-> c.user, amount |-> c.amount]]
          /\ pc' = [pc EXCEPT ![s] = "commit"]
          /\ UNCHANGED <<ledger, call, reply, dirtyUser, dirtyOrder>>

(* tx.Commit: every uncommitted row of the session becomes the committed one.
   The caller gets an error when the answer is lost after the commit. *)
Commit(s) ==
    LET c == call[s] IN
    /\ pc[s] = "commit"
    /\ users' = IF dirtyUser[s] = NoRow THEN users
                ELSE [users EXCEPT ![c.user] = dirtyUser[s]]
    /\ orders' = IF dirtyOrder[s] = NoRow THEN orders
                 ELSE [orders EXCEPT ![c.number] = dirtyOrder[s]]
    /\ withdrawals' = IF dirtyWithdrawal[s] = NoRow THEN withdrawals
                      ELSE [withdrawals EXCEPT ![c.number] = dirtyWithdrawal[s]]
    /\ dirtyUser' = [dirtyUser EXCEPT ![s] = NoRow]
    /\ dirtyOrder' = [dirtyOrder EXCEPT ![s] = NoRow]
    /\ dirtyWithdrawal' = [dirtyWithdrawal EXCEPT ![s] = NoRow]
    /\ \E r \in {"ok", "failed"} : Return(s, r)
    /\ UNCHANGED call

(* A lost connection, a cancelled or timed out context, a statement refused
   for another reason, or a crash of the pod, before the commit. *)
Abort(s) ==
    /\ pc[s] # "idle"
    /\ RollBack(s, "failed")

Statement(s) ==
    \/ InsertOrder(s)
    \/ LookupOwner(s)
    \/ CreditUser(s)
    \/ MarkOrder(s)
    \/ DebitUser(s)
    \/ RecordWithdrawal(s)
    \/ Commit(s)

TxNext ==
    \/ \E s \in Sessions, c \in Calls : Start(s, c)
    \/ \E s \in Sessions : Statement(s)
    \/ \E s \in Sessions : Abort(s)

TxSpec == TxInit /\ [][TxNext]_vars

(* PostgreSQL runs the statement of a session that waits for nobody, and
   grants a row lock to its waiters in turn. *)
Fairness == \A s \in Sessions : SF_vars(Statement(s))

FairSpec == TxSpec /\ Fairness
-----------------------------------------------------------------------------
TxTypeOK ==
    /\ LedgerTypeOK
    /\ pc \in [Sessions -> PCs]
    /\ call \in [Sessions -> Calls \union {NoCall}]
    /\ reply \in [Sessions -> Replies]
    /\ dirtyUser \in [Sessions -> Account \union {NoRow}]
    /\ dirtyOrder \in [Sessions -> Order \union {NoRow}]
    /\ dirtyWithdrawal \in [Sessions -> Withdrawal \union {NoRow}]

(* What a caller was told stays true, whatever the other sessions do: an
   accepted order belongs to the user and so does one reported as already
   uploaded by the same user, one reported as another user's never becomes
   the user's; an acknowledged final verdict and an acknowledged withdrawal
   are stored with exactly the amount of the call. *)
AnswersStayTrue ==
    \A s \in Sessions :
        LET c == call[s] IN
        /\ reply[s] = "same_user" \/ (reply[s] = "ok" /\ c.op = "upload") =>
             orders[c.number] # NoRow /\ orders[c.number].owner = c.user
        /\ reply[s] = "other_user" => orders[c.number].owner # c.user
        /\ reply[s] = "ok" /\ c.op = "settle" /\ c.status \in Final =>
             /\ orders[c.number].status = c.status
             /\ orders[c.number].accrual = c.amount
        /\ reply[s] = "ok" /\ c.op = "withdraw" =>
             withdrawals[c.number] = [user |-> c.user, amount |-> c.amount]

(* Two writers of one balance exclude each other between their statement and
   their commit, and what a session is about to commit is still computed from
   the committed row: no update is lost. *)
NoLostUpdate ==
    \A s \in Sessions :
        LET c == call[s] IN
        dirtyUser[s] # NoRow =>
            /\ ~UserLocked(s, c.user)
            /\ dirtyUser[s] = IF c.op = "withdraw"
                              THEN Debited(users[c.user], c.amount)
                              ELSE Credited(users[c.user], c.amount)

(* The inductive invariant: where a session is in its transaction tells which
   uncommitted rows it holds, and each of them was computed from a committed
   row that nobody changed since. *)
HoldsUser(s) ==
    \/ pc[s] = "record"
    \/ pc[s] = "commit" /\ call[s].op = "withdraw"
    \/ pc[s] \in {"mark", "commit"} /\ call[s].op = "settle" /\ call[s].amount > 0

PhaseInv(s) ==
    /\ pc[s] # "idle" => call[s] \in Calls
    /\ pc[s] \in {"insert", "lookup"} => call[s].op = "upload"
    /\ pc[s] = "credit" => call[s].op = "settle" /\ call[s].amount > 0
    /\ pc[s] = "mark" => call[s].op = "settle"
    /\ pc[s] \in {"debit", "record"} => call[s].op = "withdraw"
    /\ pc[s] = "commit" => call[s].op \in {"settle", "withdraw"}
    /\ dirtyUser[s] # NoRow <=> HoldsUser(s)
    /\ dirtyOrder[s] # NoRow <=> pc[s] = "commit" /\ call[s].op = "settle"
    /\ dirtyWithdrawal[s] # NoRow <=> pc[s] = "commit" /\ call[s].op = "withdraw"

UserInv(s) ==
    LET c == call[s] IN
    dirtyUser[s] # NoRow =>
        /\ \A t \in Sessions \ {s} :
              dirtyUser[t] # NoRow => call[t].user # c.user
        /\ dirtyUser[s] = IF c.op = "withdraw"
                          THEN Debited(users[c.user], c.amount)
                          ELSE Credited(users[c.user], c.amount)
        /\ dirtyUser[s].balance \in 0 .. MaxNumeric
        /\ dirtyUser[s].withdrawn \in 0 .. MaxNumeric

OrderInv(s) ==
    LET c == call[s] IN
    dirtyOrder[s] # NoRow =>
        /\ \A t \in Sessions \ {s} :
              dirtyOrder[t] # NoRow => call[t].number # c.number
        /\ IsOpen(c.number)
        /\ orders[c.number].owner = c.user
        /\ dirtyOrder[s] = Marked(orders[c.number], c.status, c.amount)

WithdrawalInv(s) ==
    LET c == call[s] IN
    dirtyWithdrawal[s] # NoRow =>
        /\ \A t \in Sessions \ {s} :
              dirtyWithdrawal[t] # NoRow => call[t].number # c.number
        /\ withdrawals[c.number] = NoRow
        /\ dirtyWithdrawal[s] = [user |-> c.user, amount |-> c.amount]

TxInv ==
    /\ BalanceInRange
    /\ \A s \in Sessions :
          PhaseInv(s) /\ UserInv(s) /\ OrderInv(s) /\ WithdrawalInv(s)

TracesAreAnswered ==
    ledger' # ledger =>
        \E s \in Sessions :
            /\ reply[s] = "none"
            /\ reply'[s] \in {"ok", "failed"}

(* A call that is refused leaves no trace: the committed tables change only
   in a step that answers "ok", or in one whose answer was lost. *)
RefusalsLeaveNoTrace == [][TracesAreAnswered]_vars

(* Sessions behave, for everybody who sees only committed rows, like the
   atomic operations of module Ledger. *)
Abstract == INSTANCE Ledger
RefinesLedger == Abstract!Spec

(* No call waits for ever: a transaction that ends, by a rollback too, releases
   all of its locks, and a session that waits behind several rivals gets its
   turn. *)
CallsReturn == \A s \in Sessions : pc[s] # "idle" ~> pc[s] = "idle"
=============================================================================
