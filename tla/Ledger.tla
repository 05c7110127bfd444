------------------------------- MODULE Ledger -------------------------------
(***************************************************************************)
(* What the PostgreSQL repositories promise to the rest of gophermart: the *)
(* three tables users, orders and withdrawals change only by three atomic  *)
(* operations.  LedgerTx models the SQL statements and shows that their    *)
(* interleavings implement this module.                                    *)
(*                                                                         *)
(* Amounts are integers, in kopecks: every amount column is NUMERIC(12,2). *)
(***************************************************************************)
EXTENDS Integers, Functions

CONSTANTS
    Users,      \* ids in table users; rows are never deleted
    Numbers,    \* order numbers, shared by orders.id and withdrawals.order_id
    Accruals,   \* accruals the external system may answer with
    Sums,       \* sums a client may ask to withdraw
    MaxNumeric, \* the largest value of a NUMERIC(12,2) column
    NoRow       \* no row with this key

VARIABLES
    users,       \* [Users -> Account]
    orders,      \* [Numbers -> Order or NoRow]
    withdrawals  \* [Numbers -> Withdrawal or NoRow]

ledger == <<users, orders, withdrawals>>
-----------------------------------------------------------------------------
Final == {"PROCESSED", "INVALID"}
Statuses == {"NEW", "PROCESSING"} \union Final

Account == [balance : Int, withdrawn : Int]
Order == [owner : Users, status : Statuses, accrual : Int]
Withdrawal == [user : Users, amount : Int]

ASSUME LedgerAssumption ==
    /\ Accruals \subseteq Int
    /\ Sums \subseteq Nat \ {0}
    /\ MaxNumeric \in Nat
    /\ NoRow \notin Account \union Order \union Withdrawal

(* The (status, accrual) pairs syncOrderStatus may write. *)
Verdicts ==
    {[status |-> "PROCESSED", accrual |-> a] : a \in Accruals}
        \union [status : {"INVALID", "PROCESSING"}, accrual : {0}]

(* What an accrual adds to a balance: only a positive one is credited. *)
CreditOf(accrual) == IF accrual > 0 THEN accrual ELSE 0

(* A slip for the properties to catch: the external system's vocabulary. *)
RegisteredOrder(u) == [owner |-> u, status |-> "REGISTERED", accrual |-> 0]

NewOrder(u) == [owner |-> u, status |-> "NEW", accrual |-> 0]

Credited(account, accrual) ==
    [balance |-> account.balance + CreditOf(accrual),
     withdrawn |-> account.withdrawn]

Marked(order, status, accrual) ==
    [owner |-> order.owner, status |-> status, accrual |-> accrual]

Debited(account, sum) ==
    [balance |-> account.balance - sum, withdrawn |-> account.withdrawn + sum]

(* A slip for the properties to catch: WHERE without the status guard. *)
AnyOrder(n) == orders[n] # NoRow

IsOpen(n) == orders[n] # NoRow /\ orders[n].status \notin Final
-----------------------------------------------------------------------------
Init ==
    /\ users = [u \in Users |-> [balance |-> 0, withdrawn |-> 0]]
    /\ orders = [n \in Numbers |-> NoRow]
    /\ withdrawals = [n \in Numbers |-> NoRow]

(* CreateOrder: the primary key of orders is the order number. *)
Upload(u, n) ==
    /\ orders[n] = NoRow
    /\ orders' = [orders EXCEPT ![n] = NewOrder(u)]
    /\ UNCHANGED <<users, withdrawals>>

(* UpdateOrderAndBalance: the status and the owner's balance together. *)
Settle(n, v) ==
    /\ IsOpen(n)
    /\ users[orders[n].owner].balance + CreditOf(v.accrual) <= MaxNumeric
    /\ orders' = [orders EXCEPT ![n] = Marked(@, v.status, v.accrual)]
    /\ users' = [users EXCEPT ![orders[n].owner] = Credited(@, v.accrual)]
    /\ UNCHANGED withdrawals

(* WithdrawPoints: the balance and the withdrawal record together. *)
Withdraw(u, n, sum) ==
    /\ withdrawals[n] = NoRow
    /\ users[u].balance >= sum
    /\ users[u].withdrawn + sum <= MaxNumeric
    /\ users' = [users EXCEPT ![u] = Debited(@, sum)]
    /\ withdrawals' =
         [withdrawals EXCEPT ![n] = [user |-> u, amount |-> sum]]
    /\ UNCHANGED orders

Next ==
    \/ \E u \in Users, n \in Numbers : Upload(u, n)
    \/ \E n \in Numbers, v \in Verdicts : Settle(n, v)
    \/ \E u \in Users, n \in Numbers, sum \in Sums : Withdraw(u, n, sum)

Spec == Init /\ [][Next]_ledger
-----------------------------------------------------------------------------
LedgerTypeOK ==
    /\ users \in [Users -> Account]
    /\ orders \in [Numbers -> Order \union {NoRow}]
    /\ withdrawals \in [Numbers -> Withdrawal \union {NoRow}]

Earned(u) ==
    LET mine == {n \in Numbers : /\ orders[n] # NoRow
                                 /\ orders[n].owner = u
                                 /\ orders[n].status = "PROCESSED"}
    IN  SumFunction([n \in mine |-> CreditOf(orders[n].accrual)])

Spent(u) ==
    LET mine == {n \in Numbers : /\ withdrawals[n] # NoRow
                                 /\ withdrawals[n].user = u}
    IN  SumFunction([n \in mine |-> withdrawals[n].amount])

(* The money of a user is exactly what the order and withdrawal tables say:
   the balance is the accruals of the user's PROCESSED orders minus the
   user's withdrawals, and "withdrawn" is the sum of the withdrawals.  The
   denormalised columns of users (migrations 0002 and 0003) never drift from
   the two tables that document them. *)
Conservation ==
    \A u \in Users :
        /\ users[u].balance = Earned(u) - Spent(u)
        /\ users[u].withdrawn = Spent(u)

(* check_balance_non_negative of migration 0003, and the upper bound of the
   NUMERIC(12,2) columns, hold of what is stored. *)
BalanceInRange ==
    \A u \in Users :
        /\ users[u].balance \in 0 .. MaxNumeric
        /\ users[u].withdrawn \in 0 .. MaxNumeric

RowsOnlyMature ==
    \A n \in Numbers :
        /\ orders[n] # NoRow =>
             /\ orders'[n] # NoRow
             /\ orders'[n].owner = orders[n].owner
             /\ orders[n].status \in Final => orders'[n] = orders[n]
        /\ withdrawals[n] # NoRow => withdrawals'[n] = withdrawals[n]

(* An order that reached PROCESSED or INVALID never changes again, an order
   never changes its owner, and no step removes a row. *)
FinalOrdersAreFinal == [][RowsOnlyMature]_ledger

EarnedGrows ==
    \A u \in Users :
        users'[u].balance + users'[u].withdrawn
            >= users[u].balance + users[u].withdrawn

(* What a user ever earned, balance + withdrawn, never falls: a withdrawal
   moves points from one column to the other, and only an accrual raises
   their sum.  A lost update of either transaction would break it. *)
EarnedNeverFalls == [][EarnedGrows]_ledger
=============================================================================
