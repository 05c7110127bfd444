--------------------------- MODULE LedgerTxProofs ---------------------------
(***************************************************************************)
(* Proofs about LedgerTx, for every set of users, order numbers, sessions, *)
(* accruals and sums.                                                      *)
(***************************************************************************)
EXTENDS LedgerTx, SumProofs, TLAPS

USE DEF ledger, dirty

(* Credited and Debited, column by column. *)
LEMMA CreditedRow ==
    ASSUME NEW a \in Account, NEW x \in Int
    PROVE  /\ CreditOf(x) \in Nat
           /\ Credited(a, x) \in Account
           /\ Credited(a, x).balance = a.balance + CreditOf(x)
           /\ Credited(a, x).withdrawn = a.withdrawn
  BY DEF Account, Credited, CreditOf

LEMMA DebitedRow ==
    ASSUME NEW a \in Account, NEW x \in Int
    PROVE  /\ Debited(a, x) \in Account
           /\ Debited(a, x).balance = a.balance - x
           /\ Debited(a, x).withdrawn = a.withdrawn + x
  BY DEF Account, Debited

LEMMA MarkedRow ==
    ASSUME NEW o \in Order, NEW st \in Statuses, NEW x \in Int
    PROVE  /\ Marked(o, st, x) \in Order
           /\ Marked(o, st, x).owner = o.owner
  BY DEF Marked, Order

LEMMA NewOrderRow ==
    ASSUME NEW u \in Users
    PROVE  NewOrder(u) \in Order
  BY DEF NewOrder, Order, Statuses

(* What a call carries. *)
LEMMA CallTypes ==
    ASSUME NEW c \in Calls
    PROVE  /\ c.user \in Users
           /\ c.number \in Numbers
           /\ c.amount \in Int
           /\ c.status \in Statuses
           /\ c.op \in {"upload", "settle", "withdraw"}
           /\ c.op = "withdraw" => c.amount \in Sums
           /\ c.op = "settle" =>
                [status |-> c.status, accrual |-> c.amount] \in Verdicts
           /\ FirstStatement(c) \in PCs
  <1>1. CASE c \in UploadCalls
    BY <1>1 DEF UploadCalls, Statuses, FirstStatement, PCs
  <1>2. CASE c \in WithdrawCalls
    BY <1>2, LedgerAssumption
    DEF WithdrawCalls, Statuses, FirstStatement, PCs
  <1>3. CASE c \in SettleCalls
    <2>1. PICK u \in Users, n \in Numbers, v \in Verdicts :
            c = [op |-> "settle", user |-> u, number |-> n,
                 status |-> v.status, amount |-> v.accrual]
      BY <1>3 DEF SettleCalls
    <2>2. /\ v.accrual \in Int
          /\ v.status \in Statuses
          /\ v = [status |-> v.status, accrual |-> v.accrual]
      BY LedgerAssumption DEF Verdicts, Statuses, Final
    <2>3. FirstStatement(c) \in PCs
      BY <2>1 DEF FirstStatement, PCs
    <2> QED
      BY <2>1, <2>2, <2>3
  <1> QED
    BY <1>1, <1>2, <1>3 DEF Calls
-----------------------------------------------------------------------------
(* Sessions run statements of the call they hold, so its arguments are typed
   once it is known to be a call; a session that is not idle holds one. *)
Busy == \A s \in Sessions : pc[s] # "idle" => call[s] \in Calls

LEMMA TypeInit == TxInit => TxTypeOK /\ Busy
  BY DEF TxInit, Init, TxTypeOK, Busy, LedgerTypeOK, Account, PCs, Replies

LEMMA TypeStep == TxTypeOK /\ Busy /\ [TxNext]_vars => TxTypeOK' /\ Busy'
  <1> SUFFICES ASSUME TxTypeOK, Busy, [TxNext]_vars
               PROVE  TxTypeOK' /\ Busy'
    OBVIOUS
  <1> USE DEF TxTypeOK, LedgerTypeOK, Busy
  <1>1. ASSUME NEW s \in Sessions, NEW c \in Calls, Start(s, c)
        PROVE  TxTypeOK' /\ Busy'
    BY <1>1, CallTypes DEF Start, Replies
  <1>2. ASSUME NEW s \in Sessions, InsertOrder(s)
        PROVE  TxTypeOK' /\ Busy'
    <2>1. call[s] \in Calls /\ call[s].user \in Users /\ call[s].number \in Numbers
      BY <1>2, CallTypes DEF InsertOrder
    <2>2. NewOrder(call[s].user) \in Order
      BY <2>1, NewOrderRow
    <2> QED
      BY <1>2, <2>1, <2>2 DEF InsertOrder, Return, PCs, Replies
  <1>3. ASSUME NEW s \in Sessions, LookupOwner(s)
        PROVE  TxTypeOK' /\ Busy'
    BY <1>3 DEF LookupOwner, Return, PCs, Replies
  <1>4. ASSUME NEW s \in Sessions, NEW r \in Replies, RollBack(s, r)
        PROVE  TxTypeOK' /\ Busy'
    BY <1>4 DEF RollBack, PCs
  <1>5. ASSUME NEW s \in Sessions, CreditUser(s)
        PROVE  TxTypeOK' /\ Busy'
    <2>1. Credited(users[call[s].user], call[s].amount) \in Account
      BY <1>5, CallTypes, CreditedRow DEF CreditUser
    <2> QED
      BY <1>4, <1>5, <2>1 DEF CreditUser, PCs, Replies
  <1>6. ASSUME NEW s \in Sessions, MarkOrder(s)
        PROVE  TxTypeOK' /\ Busy'
    <2>1. IsOpen(call[s].number) =>
            Marked(orders[call[s].number], call[s].status, call[s].amount)
              \in Order
      BY <1>6, CallTypes, MarkedRow DEF MarkOrder, IsOpen
    <2> QED
      BY <1>4, <1>6, <2>1 DEF MarkOrder, PCs, Replies
  <1>7. ASSUME NEW s \in Sessions, DebitUser(s)
        PROVE  TxTypeOK' /\ Busy'
    <2>1. Debited(users[call[s].user], call[s].amount) \in Account
      BY <1>7, CallTypes, DebitedRow DEF DebitUser
    <2> QED
      BY <1>4, <1>7, <2>1 DEF DebitUser, PCs, Replies
  <1>8. ASSUME NEW s \in Sessions, RecordWithdrawal(s)
        PROVE  TxTypeOK' /\ Busy'
    <2>1. [user |-> call[s].user, amount |-> call[s].amount] \in Withdrawal
      BY <1>8, CallTypes DEF RecordWithdrawal, Withdrawal
    <2> QED
      BY <1>4, <1>8, <2>1 DEF RecordWithdrawal, PCs, Replies
  <1>9. ASSUME NEW s \in Sessions, Commit(s)
        PROVE  TxTypeOK' /\ Busy'
    <2>1. call[s].user \in Users /\ call[s].number \in Numbers
      BY <1>9, CallTypes DEF Commit
    <2>2. LedgerTypeOK'
      BY <1>9, <2>1 DEF Commit
    <2> QED
      BY <1>9, <2>2 DEF Commit, Return, PCs, Replies
  <1>10. ASSUME NEW s \in Sessions, Abort(s)
         PROVE  TxTypeOK' /\ Busy'
    BY <1>4, <1>10 DEF Abort, Replies
  <1>11. CASE UNCHANGED vars
    BY <1>11 DEF vars
  <1> QED
    BY <1>1, <1>2, <1>3, <1>5, <1>6, <1>7, <1>8, <1>9, <1>10, <1>11
    DEF TxNext, Statement

(* Every variable of LedgerTx has its type in every reachable state. *)
THEOREM TypeCorrect == TxSpec => []TxTypeOK
  <1>1. TxSpec => [](TxTypeOK /\ Busy)
    BY TypeInit, TypeStep, PTL DEF TxSpec
  <1> QED
    BY <1>1, PTL
-----------------------------------------------------------------------------
(* TxInv is inductive.  The actions that only end or begin a call come first,
   then one lemma per statement. *)
SessionInv(s) == PhaseInv(s) /\ UserInv(s) /\ OrderInv(s) /\ WithdrawalInv(s)

LEMMA InvInit == TxInit => TxInv
  BY LedgerAssumption
  DEF TxInit, Init, TxInv, BalanceInRange, PhaseInv, HoldsUser, UserInv,
      OrderInv, WithdrawalInv

(* A session that is idle holds no uncommitted row. *)
LEMMA IdleHoldsNothing ==
    ASSUME NEW s \in Sessions, PhaseInv(s), pc[s] = "idle"
    PROVE  /\ dirtyUser[s] = NoRow
           /\ dirtyOrder[s] = NoRow
           /\ dirtyWithdrawal[s] = NoRow
  BY DEF PhaseInv, HoldsUser

LEMMA InvStart ==
    ASSUME TxTypeOK, TxInv, NEW s \in Sessions, NEW c \in Calls, Start(s, c)
    PROVE  TxInv'
  <1> USE DEF TxTypeOK, Start
  <1>1. BalanceInRange'
    BY DEF TxInv, BalanceInRange
  <1>2. /\ dirtyUser[s] = NoRow
        /\ dirtyOrder[s] = NoRow
        /\ dirtyWithdrawal[s] = NoRow
    BY IdleHoldsNothing DEF TxInv
  <1>3. c.op \in {"upload", "settle", "withdraw"}
    BY CallTypes
  <1>4. ASSUME NEW t \in Sessions
        PROVE  SessionInv(t)'
    <2>1. PhaseInv(t)'
      BY <1>2, <1>3 DEF TxInv, PhaseInv, HoldsUser, FirstStatement
    <2>2. UserInv(t)'
      BY <1>2 DEF TxInv, UserInv
    <2>3. OrderInv(t)'
      BY <1>2 DEF TxInv, OrderInv, IsOpen
    <2>4. WithdrawalInv(t)'
      BY <1>2 DEF TxInv, WithdrawalInv
    <2> QED
      BY <2>1, <2>2, <2>3, <2>4 DEF SessionInv
  <1> QED
    BY <1>1, <1>4 DEF TxInv, SessionInv

LEMMA InvRollBack ==
    ASSUME TxTypeOK, TxInv, NEW s \in Sessions, NEW r \in Replies,
           RollBack(s, r)
    PROVE  TxInv'
  <1> USE DEF TxTypeOK, RollBack
  <1>1. BalanceInRange'
    BY DEF TxInv, BalanceInRange
  <1>2. ASSUME NEW t \in Sessions
        PROVE  SessionInv(t)'
    <2>1. PhaseInv(t)'
      BY DEF TxInv, PhaseInv, HoldsUser
    <2>2. UserInv(t)'
      BY DEF TxInv, UserInv
    <2>3. OrderInv(t)'
      BY DEF TxInv, OrderInv, IsOpen
    <2>4. WithdrawalInv(t)'
      BY DEF TxInv, WithdrawalInv
    <2> QED
      BY <2>1, <2>2, <2>3, <2>4 DEF SessionInv
  <1> QED
    BY <1>1, <1>2 DEF TxInv, SessionInv

(* A session that holds an uncommitted row is serving a call. *)
LEMMA HoldersAreTyped ==
    ASSUME Busy, TxInv, NEW s \in Sessions,
           \/ dirtyUser[s] # NoRow
           \/ dirtyOrder[s] # NoRow
           \/ dirtyWithdrawal[s] # NoRow
    PROVE  /\ call[s] \in Calls
           /\ call[s].user \in Users
           /\ call[s].number \in Numbers
  <1>1. pc[s] # "idle"
    BY IdleHoldsNothing DEF TxInv
  <1> QED
    BY <1>1, CallTypes DEF Busy

LEMMA InvInsertOrder ==
    ASSUME TxTypeOK, Busy, TxInv, NEW s \in Sessions, InsertOrder(s)
    PROVE  TxInv'
  <1> USE DEF TxTypeOK, LedgerTypeOK, InsertOrder, Return
  <1>1. BalanceInRange'
    BY DEF TxInv, BalanceInRange
  <1>2. ASSUME NEW t \in Sessions
        PROVE  SessionInv(t)'
    <2>1. PhaseInv(t)'
      BY DEF TxInv, PhaseInv, HoldsUser, Busy
    <2>2. UserInv(t)'
      BY DEF TxInv, UserInv
    <2>3. OrderInv(t)'
      <3>1. dirtyOrder[t] # NoRow =>
              /\ call[t].number \in Numbers
              /\ orders[call[t].number] # NoRow
        BY HoldersAreTyped DEF TxInv, OrderInv, IsOpen
      <3>2. dirtyOrder[t] # NoRow =>
              orders'[call[t].number] = orders[call[t].number]
        BY <3>1
      <3> QED
        BY <3>2 DEF TxInv, OrderInv, IsOpen
    <2>4. WithdrawalInv(t)'
      BY DEF TxInv, WithdrawalInv
    <2> QED
      BY <2>1, <2>2, <2>3, <2>4 DEF SessionInv
  <1> QED
    BY <1>1, <1>2 DEF TxInv, SessionInv

LEMMA InvLookupOwner ==
    ASSUME TxTypeOK, Busy, TxInv, NEW s \in Sessions, LookupOwner(s)
    PROVE  TxInv'
  <1> USE DEF TxTypeOK, LookupOwner, Return
  <1>1. BalanceInRange'
    BY DEF TxInv, BalanceInRange
  <1>2. ASSUME NEW t \in Sessions
        PROVE  SessionInv(t)'
    <2>1. PhaseInv(t)'
      BY DEF TxInv, PhaseInv, HoldsUser, Busy
    <2>2. UserInv(t)' /\ OrderInv(t)' /\ WithdrawalInv(t)'
      BY DEF TxInv, UserInv, OrderInv, IsOpen, WithdrawalInv
    <2> QED
      BY <2>1, <2>2 DEF SessionInv
  <1> QED
    BY <1>1, <1>2 DEF TxInv, SessionInv

LEMMA InvCreditUser ==
    ASSUME TxTypeOK, Busy, TxInv, NEW s \in Sessions, CreditUser(s)
    PROVE  TxInv'
  <1> DEFINE row == Credited(users[call[s].user], call[s].amount)
  <1>1. /\ call[s] \in Calls
        /\ call[s].user \in Users
        /\ call[s].op = "settle"
        /\ call[s].amount > 0
        /\ users[call[s].user] \in Account
        /\ call[s].amount \in Int
    BY CallTypes DEF CreditUser, Busy, TxInv, PhaseInv, TxTypeOK, LedgerTypeOK
  <1>2. /\ row \in Account
        /\ row # NoRow
        /\ row.balance \in Nat
        /\ row.withdrawn \in 0 .. MaxNumeric
    <2>1. /\ users[call[s].user].balance \in 0 .. MaxNumeric
          /\ users[call[s].user].withdrawn \in 0 .. MaxNumeric
      BY <1>1 DEF TxInv, BalanceInRange
    <2>2. /\ row \in Account
          /\ row.balance = users[call[s].user].balance + CreditOf(call[s].amount)
          /\ row.withdrawn = users[call[s].user].withdrawn
          /\ CreditOf(call[s].amount) \in Nat
      BY <1>1, CreditedRow
    <2> QED
      BY <2>1, <2>2, LedgerAssumption
  <1>3. CASE RollBack(s, "failed")
    BY <1>3, InvRollBack DEF Replies
  <1>4. CASE /\ row.balance <= MaxNumeric
             /\ dirtyUser' = [dirtyUser EXCEPT ![s] = row]
             /\ pc' = [pc EXCEPT ![s] = "mark"]
             /\ UNCHANGED <<ledger, call, reply, dirtyOrder, dirtyWithdrawal>>
    <2>1. BalanceInRange'
      BY <1>4 DEF TxInv, BalanceInRange
    <2>2. ASSUME NEW t \in Sessions
          PROVE  SessionInv(t)'
      <3>1. PhaseInv(t)'
        BY <1>1, <1>2, <1>4 DEF TxInv, PhaseInv, HoldsUser, TxTypeOK, CreditUser
      <3>2. UserInv(t)'
        BY <1>1, <1>2, <1>4, LedgerAssumption
        DEF TxInv, UserInv, TxTypeOK, CreditUser, UserLocked
      <3>3. OrderInv(t)' /\ WithdrawalInv(t)'
        BY <1>4 DEF TxInv, OrderInv, IsOpen, WithdrawalInv
      <3> QED
        BY <3>1, <3>2, <3>3 DEF SessionInv
    <2> QED
      BY <2>1, <2>2 DEF TxInv, SessionInv
  <1> QED
    BY <1>3, <1>4 DEF CreditUser

LEMMA InvMarkOrder ==
    ASSUME TxTypeOK, Busy, TxInv, NEW s \in Sessions, MarkOrder(s)
    PROVE  TxInv'
  <1> DEFINE row == Marked(orders[call[s].number], call[s].status, call[s].amount)
  <1>1. CASE RollBack(s, "not_found")
    BY <1>1, InvRollBack DEF Replies
  <1>2. CASE /\ IsOpen(call[s].number)
             /\ orders[call[s].number].owner = call[s].user
             /\ ~OrderLocked(s, call[s].number)
             /\ dirtyOrder' = [dirtyOrder EXCEPT ![s] = row]
             /\ pc' = [pc EXCEPT ![s] = "commit"]
             /\ UNCHANGED <<ledger, call, reply, dirtyUser, dirtyWithdrawal>>
    <2>1. /\ call[s] \in Calls
          /\ call[s].op = "settle"
          /\ row \in Order
          /\ row # NoRow
      <3>1. call[s] \in Calls /\ call[s].op = "settle"
        BY DEF MarkOrder, Busy, TxInv, PhaseInv
      <3>2. orders[call[s].number] \in Order
        BY <1>2, <3>1, CallTypes DEF IsOpen, TxTypeOK, LedgerTypeOK
      <3>3. row \in Order
        BY <3>1, <3>2, CallTypes, MarkedRow
      <3> QED
        BY <3>1, <3>3, LedgerAssumption
    <2>2. BalanceInRange'
      BY <1>2 DEF TxInv, BalanceInRange
    <2>3. ASSUME NEW t \in Sessions
          PROVE  SessionInv(t)'
      <3>1. PhaseInv(t)'
        BY <1>2, <2>1 DEF TxInv, PhaseInv, HoldsUser, TxTypeOK, MarkOrder
      <3>2. OrderInv(t)'
        BY <1>2, <2>1 DEF TxInv, OrderInv, TxTypeOK, OrderLocked, IsOpen
      <3>3. UserInv(t)' /\ WithdrawalInv(t)'
        BY <1>2 DEF TxInv, UserInv, WithdrawalInv
      <3> QED
        BY <3>1, <3>2, <3>3 DEF SessionInv
    <2> QED
      BY <2>2, <2>3 DEF TxInv, SessionInv
  <1> QED
    BY <1>1, <1>2 DEF MarkOrder

LEMMA InvDebitUser ==
    ASSUME TxTypeOK, Busy, TxInv, NEW s \in Sessions, DebitUser(s)
    PROVE  TxInv'
  <1> DEFINE row == Debited(users[call[s].user], call[s].amount)
  <1>1. CASE RollBack(s, "failed") \/ RollBack(s, "insufficient")
    BY <1>1, InvRollBack DEF Replies
  <1>2. CASE /\ row.withdrawn <= MaxNumeric
             /\ row.balance >= 0
             /\ dirtyUser' = [dirtyUser EXCEPT ![s] = row]
             /\ pc' = [pc EXCEPT ![s] = "record"]
             /\ UNCHANGED <<ledger, call, reply, dirtyOrder, dirtyWithdrawal>>
    <2>1. /\ call[s] \in Calls
          /\ call[s].user \in Users
          /\ call[s].op = "withdraw"
          /\ call[s].amount \in Sums
          /\ call[s].amount \in Nat
          /\ call[s].amount \in Int
      BY CallTypes, LedgerAssumption DEF DebitUser, Busy, TxInv, PhaseInv
    <2>2. /\ users[call[s].user] \in Account
          /\ users[call[s].user].balance \in 0 .. MaxNumeric
          /\ users[call[s].user].withdrawn \in 0 .. MaxNumeric
      BY <2>1 DEF TxInv, BalanceInRange, TxTypeOK, LedgerTypeOK
    <2>3. /\ row \in Account
          /\ row.balance = users[call[s].user].balance - call[s].amount
          /\ row.withdrawn = users[call[s].user].withdrawn + call[s].amount
      BY <2>1, <2>2, DebitedRow
    <2>4. /\ row # NoRow
          /\ row.balance \in 0 .. MaxNumeric
          /\ row.withdrawn \in 0 .. MaxNumeric
      BY <1>2, <2>1, <2>2, <2>3, LedgerAssumption
    <2>5. BalanceInRange'
      BY <1>2 DEF TxInv, BalanceInRange
    <2>6. ASSUME NEW t \in Sessions
          PROVE  SessionInv(t)'
      <3>1. PhaseInv(t)'
        BY <1>2, <2>1, <2>4 DEF TxInv, PhaseInv, HoldsUser, TxTypeOK, DebitUser
      <3>2. UserInv(t)'
        BY <1>2, <2>1, <2>4
        DEF TxInv, UserInv, TxTypeOK, DebitUser, UserLocked
      <3>3. OrderInv(t)' /\ WithdrawalInv(t)'
        BY <1>2 DEF TxInv, OrderInv, IsOpen, WithdrawalInv
      <3> QED
        BY <3>1, <3>2, <3>3 DEF SessionInv
    <2> QED
      BY <2>5, <2>6 DEF TxInv, SessionInv
  <1> QED
    BY <1>1, <1>2 DEF DebitUser

LEMMA InvRecordWithdrawal ==
    ASSUME TxTypeOK, Busy, TxInv, NEW s \in Sessions, RecordWithdrawal(s)
    PROVE  TxInv'
  <1> DEFINE row == [user |-> call[s].user, amount |-> call[s].amount]
  <1>1. CASE RollBack(s, "duplicate")
    BY <1>1, InvRollBack DEF Replies
  <1>2. CASE /\ withdrawals[call[s].number] = NoRow
             /\ dirtyWithdrawal' = [dirtyWithdrawal EXCEPT ![s] = row]
             /\ pc' = [pc EXCEPT ![s] = "commit"]
             /\ UNCHANGED <<ledger, call, reply, dirtyUser, dirtyOrder>>
    <2>1. /\ call[s] \in Calls
          /\ call[s].op = "withdraw"
      BY DEF RecordWithdrawal, Busy, TxInv, PhaseInv
    <2>2. row # NoRow
      <3>1. row \in Withdrawal
        BY <2>1, CallTypes DEF Withdrawal
      <3> QED
        BY <3>1, LedgerAssumption
    <2>3. BalanceInRange'
      BY <1>2 DEF TxInv, BalanceInRange
    <2>4. ASSUME NEW t \in Sessions
          PROVE  SessionInv(t)'
      <3>1. PhaseInv(t)'
        BY <1>2, <2>1, <2>2
        DEF TxInv, PhaseInv, HoldsUser, TxTypeOK, RecordWithdrawal
      <3>2. WithdrawalInv(t)'
        BY <1>2, <2>1, <2>2
        DEF TxInv, WithdrawalInv, TxTypeOK, RecordWithdrawal, KeyLocked
      <3>3. UserInv(t)' /\ OrderInv(t)'
        BY <1>2 DEF TxInv, UserInv, OrderInv, IsOpen
      <3> QED
        BY <3>1, <3>2, <3>3 DEF SessionInv
    <2> QED
      BY <2>3, <2>4 DEF TxInv, SessionInv
  <1> QED
    BY <1>1, <1>2 DEF RecordWithdrawal

LEMMA InvCommit ==
    ASSUME TxTypeOK, Busy, TxInv, NEW s \in Sessions, Commit(s)
    PROVE  TxInv'
  <1> DEFINE c == call[s]
  <1> USE DEF TxTypeOK, LedgerTypeOK, Commit, Return
  <1>1. BalanceInRange'
    BY DEF TxInv, BalanceInRange, UserInv
  <1>2. ASSUME NEW t \in Sessions
        PROVE  SessionInv(t)'
    <2>1. PhaseInv(t)'
      BY DEF TxInv, PhaseInv, HoldsUser
    <2>2. UserInv(t)'
      <3>1. ASSUME t # s, dirtyUser[t] # NoRow
            PROVE  users'[call[t].user] = users[call[t].user]
        BY <3>1, HoldersAreTyped DEF TxInv, UserInv
      <3> QED
        BY <3>1 DEF TxInv, UserInv
    <2>3. OrderInv(t)'
      <3>1. ASSUME t # s, dirtyOrder[t] # NoRow
            PROVE  orders'[call[t].number] = orders[call[t].number]
        BY <3>1, HoldersAreTyped DEF TxInv, OrderInv
      <3> QED
        BY <3>1 DEF TxInv, OrderInv, IsOpen
    <2>4. WithdrawalInv(t)'
      <3>1. ASSUME t # s, dirtyWithdrawal[t] # NoRow
            PROVE  withdrawals'[call[t].number] = withdrawals[call[t].number]
        BY <3>1, HoldersAreTyped DEF TxInv, WithdrawalInv
      <3> QED
        BY <3>1 DEF TxInv, WithdrawalInv
    <2> QED
      BY <2>1, <2>2, <2>3, <2>4 DEF SessionInv
  <1> QED
    BY <1>1, <1>2 DEF TxInv, SessionInv

LEMMA InvStep == TxTypeOK /\ Busy /\ TxInv /\ [TxNext]_vars => TxInv'
  <1> SUFFICES ASSUME TxTypeOK, Busy, TxInv, [TxNext]_vars
               PROVE  TxInv'
    OBVIOUS
  <1>1. ASSUME NEW s \in Sessions, NEW d \in Calls, Start(s, d)
        PROVE  TxInv'
    BY <1>1, InvStart
  <1>2. ASSUME NEW s \in Sessions, Statement(s)
        PROVE  TxInv'
    BY <1>2, InvInsertOrder, InvLookupOwner, InvCreditUser, InvMarkOrder,
       InvDebitUser, InvRecordWithdrawal, InvCommit DEF Statement
  <1>3. ASSUME NEW s \in Sessions, Abort(s)
        PROVE  TxInv'
    BY <1>3, InvRollBack DEF Abort, Replies
  <1>4. CASE UNCHANGED vars
    BY <1>4 DEF vars, TxInv, BalanceInRange, PhaseInv, HoldsUser, UserInv,
                OrderInv, IsOpen, WithdrawalInv
  <1> QED
    BY <1>1, <1>2, <1>3, <1>4 DEF TxNext

(* In every reachable state the open transactions exclude each other row by
   row, and hold rows computed from the committed ones. *)
THEOREM TransactionsSound == TxSpec => [](TxTypeOK /\ Busy /\ TxInv)
  BY TypeInit, TypeStep, InvInit, InvStep, PTL DEF TxSpec

(* No update of a balance is lost, for any number of concurrent sessions. *)
THEOREM UpdatesAreNotLost == TxSpec => []NoLostUpdate
  <1>1. TxInv => NoLostUpdate
    BY DEF TxInv, UserInv, NoLostUpdate, UserLocked
  <1> QED
    BY <1>1, TransactionsSound, PTL

(* No balance is ever negative or beyond the column, committed or about to be
   committed. *)
THEOREM BalancesStayInRange == TxSpec => []BalanceInRange
  <1>1. TxInv => BalanceInRange
    BY DEF TxInv
  <1> QED
    BY <1>1, TransactionsSound, PTL
-----------------------------------------------------------------------------
(* The refinement: CreateOrder's insert and the two commits are the atomic
   operations of Ledger, every other step leaves the committed tables alone. *)
LEMMA InsertIsUpload ==
    ASSUME Busy, NEW s \in Sessions, InsertOrder(s)
    PROVE  Next \/ UNCHANGED ledger
  <1>1. call[s].user \in Users /\ call[s].number \in Numbers
    BY CallTypes DEF InsertOrder, Busy
  <1>2. CASE orders[call[s].number] = NoRow
    <2>1. Upload(call[s].user, call[s].number)
      BY <1>2 DEF InsertOrder, Upload
    <2> QED
      BY <1>1, <2>1 DEF Next
  <1>3. CASE orders[call[s].number] # NoRow
    BY <1>3 DEF InsertOrder
  <1> QED
    BY <1>2, <1>3

LEMMA CommitIsSettleOrWithdraw ==
    ASSUME TxTypeOK, Busy, TxInv, NEW s \in Sessions, Commit(s)
    PROVE  Next
  <1> DEFINE c == call[s]
             v == [status |-> c.status, accrual |-> c.amount]
  <1>1. /\ c \in Calls
        /\ c.user \in Users
        /\ c.number \in Numbers
        /\ c.op \in {"settle", "withdraw"}
        /\ c.amount \in Int
        /\ PhaseInv(s) /\ UserInv(s) /\ OrderInv(s) /\ WithdrawalInv(s)
    BY CallTypes DEF Commit, Busy, TxInv, PhaseInv
  <1>2. CASE c.op = "settle"
    <2>1. v \in Verdicts
      BY <1>1, <1>2, CallTypes
    <2>2. /\ dirtyOrder[s] # NoRow
          /\ dirtyWithdrawal[s] = NoRow
          /\ dirtyUser[s] # NoRow <=> c.amount > 0
      BY <1>1, <1>2 DEF Commit, PhaseInv, HoldsUser
    <2>3. /\ IsOpen(c.number)
          /\ orders[c.number].owner = c.user
          /\ dirtyOrder[s] = Marked(orders[c.number], v.status, v.accrual)
      BY <1>1, <2>2 DEF OrderInv
    <2>4. /\ users[c.user] \in Account
          /\ users[c.user].balance \in 0 .. MaxNumeric
      BY <1>1 DEF TxTypeOK, LedgerTypeOK, TxInv, BalanceInRange
    <2>5. /\ users[c.user].balance + CreditOf(v.accrual) <= MaxNumeric
          /\ users' = [users EXCEPT ![c.user] = Credited(@, v.accrual)]
      <3>1. CASE c.amount > 0
        <4>1. /\ dirtyUser[s] = Credited(users[c.user], c.amount)
              /\ dirtyUser[s].balance \in 0 .. MaxNumeric
          BY <1>1, <1>2, <2>2, <3>1 DEF UserInv
        <4>2. dirtyUser[s].balance = users[c.user].balance + CreditOf(c.amount)
          BY <1>1, <2>4, <4>1, CreditedRow
        <4> QED
          BY <2>2, <3>1, <4>1, <4>2, LedgerAssumption DEF Commit
      <3>2. CASE ~(c.amount > 0)
        <4>1. users' = users /\ CreditOf(v.accrual) = 0
          BY <2>2, <3>2 DEF Commit, CreditOf
        <4>2. Credited(users[c.user], v.accrual) = users[c.user]
          BY <2>4, <4>1 DEF Credited, Account
        <4>3. users = [users EXCEPT ![c.user] = users[c.user]]
          BY <1>1 DEF TxTypeOK, LedgerTypeOK
        <4> QED
          BY <2>4, <4>1, <4>2, <4>3, LedgerAssumption
      <3> QED
        BY <3>1, <3>2
    <2>6. Settle(c.number, v)
      BY <2>2, <2>3, <2>5 DEF Settle, Commit
    <2> QED
      BY <1>1, <2>1, <2>6 DEF Next
  <1>3. CASE c.op = "withdraw"
    <2>1. c.amount \in Sums
      BY <1>1, <1>3, CallTypes
    <2>2. /\ dirtyUser[s] # NoRow
          /\ dirtyOrder[s] = NoRow
          /\ dirtyWithdrawal[s] # NoRow
      BY <1>1, <1>3 DEF Commit, PhaseInv, HoldsUser
    <2>3. /\ users[c.user] \in Account
          /\ dirtyUser[s] = Debited(users[c.user], c.amount)
          /\ dirtyUser[s].balance \in 0 .. MaxNumeric
          /\ dirtyUser[s].withdrawn \in 0 .. MaxNumeric
      BY <1>1, <1>3, <2>2 DEF UserInv, TxTypeOK, LedgerTypeOK
    <2>4. /\ dirtyUser[s].balance = users[c.user].balance - c.amount
          /\ dirtyUser[s].withdrawn = users[c.user].withdrawn + c.amount
      <3>1. users[c.user] \in Account /\ c.amount \in Int
        BY <1>1, <2>3
      <3>2. /\ Debited(users[c.user], c.amount).balance
                 = users[c.user].balance - c.amount
            /\ Debited(users[c.user], c.amount).withdrawn
                 = users[c.user].withdrawn + c.amount
        BY <3>1, DebitedRow
      <3> QED
        BY <2>3, <3>2
    <2>5. /\ users[c.user].balance >= c.amount
          /\ users[c.user].withdrawn + c.amount <= MaxNumeric
      <3>1. users[c.user].balance \in Int /\ users[c.user].withdrawn \in Int
        BY <2>3 DEF Account
      <3> QED
        BY <1>1, <2>3, <2>4, <3>1, LedgerAssumption
    <2>6. /\ withdrawals[c.number] = NoRow
          /\ dirtyWithdrawal[s] = [user |-> c.user, amount |-> c.amount]
      BY <1>1, <2>2 DEF WithdrawalInv
    <2>7. /\ users' = [users EXCEPT ![c.user] = Debited(@, c.amount)]
          /\ withdrawals' = [withdrawals EXCEPT ![c.number] =
               [user |-> c.user, amount |-> c.amount]]
          /\ orders' = orders
      BY <2>2, <2>3, <2>6 DEF Commit
    <2>8. Withdraw(c.user, c.number, c.amount)
      BY <2>5, <2>6, <2>7 DEF Withdraw
    <2> QED
      BY <1>1, <2>1, <2>8 DEF Next
  <1> QED
    BY <1>1, <1>2, <1>3

LEMMA StepRefines ==
    TxTypeOK /\ Busy /\ TxInv /\ [TxNext]_vars => [Next]_ledger
  <1> SUFFICES ASSUME TxTypeOK, Busy, TxInv, [TxNext]_vars
               PROVE  [Next]_ledger
    OBVIOUS
  <1>1. ASSUME NEW s \in Sessions, NEW c \in Calls, Start(s, c)
        PROVE  UNCHANGED ledger
    BY <1>1 DEF Start
  <1>2. ASSUME NEW s \in Sessions, NEW r \in Replies, RollBack(s, r)
        PROVE  UNCHANGED ledger
    BY <1>2 DEF RollBack
  <1>3. ASSUME NEW s \in Sessions,
               \/ LookupOwner(s) \/ CreditUser(s) \/ MarkOrder(s)
               \/ DebitUser(s) \/ RecordWithdrawal(s) \/ Abort(s)
        PROVE  UNCHANGED ledger
    BY <1>2, <1>3 DEF LookupOwner, CreditUser, MarkOrder, DebitUser,
                      RecordWithdrawal, Abort, Replies
  <1>4. CASE UNCHANGED vars
    BY <1>4 DEF vars
  <1> QED
    BY <1>1, <1>3, <1>4, InsertIsUpload, CommitIsSettleOrWithdraw
    DEF TxNext, Statement

(* The interleaved SQL statements implement the atomic operations of Ledger:
   what the tables show at any moment is what some sequence of complete
   uploads, verdicts and withdrawals would have left. *)
THEOREM TransactionsRefineLedger == TxSpec => RefinesLedger
  <1>1. TxInit => Abstract!Init
    BY DEF TxInit, Init, Abstract!Init
  <1>2. [Next]_ledger => [Abstract!Next]_(Abstract!ledger)
    BY DEF Next, Abstract!Next, Upload, Abstract!Upload, Settle,
           Abstract!Settle, Withdraw, Abstract!Withdraw, NewOrder,
           Abstract!NewOrder, Marked, Abstract!Marked, Credited,
           Abstract!Credited, Debited, Abstract!Debited, CreditOf,
           Abstract!CreditOf, IsOpen, Abstract!IsOpen, Final, Abstract!Final,
           Verdicts, Abstract!Verdicts, Abstract!ledger
  <1>3. TxTypeOK /\ Busy /\ TxInv /\ [TxNext]_vars
          => [Abstract!Next]_(Abstract!ledger)
    BY <1>2, StepRefines
  <1> QED
    BY <1>1, <1>3, TransactionsSound, PTL DEF TxSpec, RefinesLedger, Abstract!Spec
-----------------------------------------------------------------------------
(* What every step of Ledger, and so every step of LedgerTx, preserves. *)
LEMMA StepMatures ==
    ASSUME LedgerTypeOK, [Next]_ledger
    PROVE  [RowsOnlyMature]_ledger
  <1>1. ASSUME NEW u \in Users, NEW n \in Numbers, Upload(u, n)
        PROVE  RowsOnlyMature
    BY <1>1 DEF Upload, RowsOnlyMature, LedgerTypeOK
  <1>2. ASSUME NEW n \in Numbers, NEW v \in Verdicts, Settle(n, v)
        PROVE  RowsOnlyMature
    <2>1. orders[n] \in Order /\ orders[n].status \notin Final
      BY <1>2 DEF Settle, IsOpen, LedgerTypeOK
    <2>2. v.status \in Statuses /\ v.accrual \in Int
      BY LedgerAssumption DEF Verdicts, Statuses, Final
    <2>3. /\ Marked(orders[n], v.status, v.accrual) # NoRow
          /\ Marked(orders[n], v.status, v.accrual).owner = orders[n].owner
      BY <2>1, <2>2, MarkedRow, LedgerAssumption
    <2> QED
      BY <1>2, <2>1, <2>3 DEF Settle, RowsOnlyMature, LedgerTypeOK
  <1>3. ASSUME NEW u \in Users, NEW n \in Numbers, NEW sum \in Sums,
               Withdraw(u, n, sum)
        PROVE  RowsOnlyMature
    BY <1>3 DEF Withdraw, RowsOnlyMature, LedgerTypeOK
  <1> QED
    BY <1>1, <1>2, <1>3 DEF Next

LEMMA StepEarns ==
    ASSUME LedgerTypeOK, [Next]_ledger
    PROVE  [EarnedGrows]_ledger
  <1>1. ASSUME NEW u \in Users, NEW n \in Numbers, Upload(u, n)
        PROVE  EarnedGrows
    BY <1>1 DEF Upload, EarnedGrows, LedgerTypeOK, Account
  <1>2. ASSUME NEW n \in Numbers, NEW v \in Verdicts, Settle(n, v)
        PROVE  EarnedGrows
    <2>1. orders[n].owner \in Users /\ v.accrual \in Int
      BY <1>2, LedgerAssumption
      DEF Settle, IsOpen, LedgerTypeOK, Order, Verdicts
    <2>2. ASSUME NEW u \in Users
          PROVE  users'[u].balance + users'[u].withdrawn
                   >= users[u].balance + users[u].withdrawn
      <3>1. /\ users[u] \in Account
            /\ users[u].balance \in Int /\ users[u].withdrawn \in Int
        BY DEF LedgerTypeOK, Account
      <3>2. CASE u = orders[n].owner
        <4>1. users'[u] = Credited(users[u], v.accrual)
          BY <1>2, <3>2 DEF Settle, LedgerTypeOK
        <4>2. /\ Credited(users[u], v.accrual).balance
                   = users[u].balance + CreditOf(v.accrual)
              /\ Credited(users[u], v.accrual).withdrawn = users[u].withdrawn
              /\ CreditOf(v.accrual) \in Nat
          BY <2>1, <3>1, CreditedRow
        <4> QED
          BY <3>1, <4>1, <4>2
      <3>3. CASE u # orders[n].owner
        BY <1>2, <3>1, <3>3 DEF Settle, LedgerTypeOK
      <3> QED
        BY <3>2, <3>3
    <2> QED
      BY <2>2 DEF EarnedGrows
  <1>3. ASSUME NEW u \in Users, NEW n \in Numbers, NEW sum \in Sums,
               Withdraw(u, n, sum)
        PROVE  EarnedGrows
    <2>1. sum \in Int
      BY LedgerAssumption
    <2>2. ASSUME NEW w \in Users
          PROVE  users'[w].balance + users'[w].withdrawn
                   >= users[w].balance + users[w].withdrawn
      <3>1. /\ users[w] \in Account
            /\ users[w].balance \in Int /\ users[w].withdrawn \in Int
        BY DEF LedgerTypeOK, Account
      <3>2. CASE w = u
        <4>1. users'[w] = Debited(users[w], sum)
          BY <1>3, <3>2 DEF Withdraw, LedgerTypeOK
        <4>2. /\ Debited(users[w], sum).balance = users[w].balance - sum
              /\ Debited(users[w], sum).withdrawn = users[w].withdrawn + sum
          BY <2>1, <3>1, DebitedRow
        <4> QED
          BY <2>1, <3>1, <4>1, <4>2
      <3>3. CASE w # u
        BY <1>3, <3>1, <3>3 DEF Withdraw, LedgerTypeOK
      <3> QED
        BY <3>2, <3>3
    <2> QED
      BY <2>2 DEF EarnedGrows
  <1> QED
    BY <1>1, <1>2, <1>3 DEF Next

(* No interleaving of the transactions reopens or rewrites a final order,
   gives an order to another user, or removes a row. *)
THEOREM FinalOrdersStayFinal == TxSpec => FinalOrdersAreFinal
  <1>1. TxTypeOK /\ Busy /\ TxInv /\ [TxNext]_vars => [RowsOnlyMature]_ledger
    BY StepRefines, StepMatures DEF TxTypeOK
  <1> QED
    BY <1>1, TransactionsSound, PTL DEF TxSpec, FinalOrdersAreFinal

(* No interleaving of the transactions makes a user poorer than the sum of
   what is left and what was withdrawn. *)
THEOREM EarningsAreKept == TxSpec => EarnedNeverFalls
  <1>1. TxTypeOK /\ Busy /\ TxInv /\ [TxNext]_vars => [EarnedGrows]_ledger
    BY StepRefines, StepEarns DEF TxTypeOK
  <1> QED
    BY <1>1, TransactionsSound, PTL DEF TxSpec, EarnedNeverFalls
-----------------------------------------------------------------------------
(* Answers.  What makes AnswersStayTrue inductive: a reply belongs to a call
   that has ended, the row that an answer speaks of exists, and so does the
   row that an upload is about to look up. *)
AnswerInv(s) ==
    LET c == call[s] IN
    /\ reply[s] # "none" => pc[s] = "idle" /\ c \in Calls
    /\ pc[s] = "lookup" => orders[c.number] # NoRow
    /\ reply[s] = "same_user" \/ (reply[s] = "ok" /\ c.op = "upload") =>
         orders[c.number] # NoRow /\ orders[c.number].owner = c.user
    /\ reply[s] = "other_user" =>
         orders[c.number] # NoRow /\ orders[c.number].owner # c.user
    /\ reply[s] = "ok" /\ c.op = "settle" /\ c.status \in Final =>
         /\ orders[c.number] # NoRow
         /\ orders[c.number].status = c.status
         /\ orders[c.number].accrual = c.amount
    /\ reply[s] = "ok" /\ c.op = "withdraw" =>
         /\ withdrawals[c.number] # NoRow
         /\ withdrawals[c.number] = [user |-> c.user, amount |-> c.amount]

Answers == \A s \in Sessions : AnswerInv(s)

LEMMA AnswersInit == TxInit => Answers
  BY DEF TxInit, Answers, AnswerInv

(* A session that does not move keeps its answer, whatever happens to the
   tables: rows only mature. *)
LEMMA AnswerKept ==
    ASSUME Busy, NEW s \in Sessions, AnswerInv(s), [RowsOnlyMature]_ledger,
           pc'[s] = pc[s], call'[s] = call[s], reply'[s] = reply[s]
    PROVE  AnswerInv(s)'
  <1>1. CASE reply[s] = "none" /\ pc[s] # "lookup"
    BY <1>1 DEF AnswerInv
  <1>2. CASE reply[s] # "none" \/ pc[s] = "lookup"
    <2>1. call[s] \in Calls /\ call[s].number \in Numbers
      BY <1>2, CallTypes DEF AnswerInv, Busy
    <2>2. CASE UNCHANGED ledger
      BY <2>2 DEF AnswerInv
    <2>3. CASE RowsOnlyMature
      BY <2>1, <2>3 DEF AnswerInv, RowsOnlyMature
    <2> QED
      BY <2>2, <2>3
  <1> QED
    BY <1>1, <1>2

(* A session whose transaction is rolled back says nothing about the rows. *)
LEMMA AnswerRollBack ==
    ASSUME TxTypeOK, Busy, NEW s \in Sessions, pc[s] # "idle",
           NEW r \in {"failed", "insufficient", "duplicate", "not_found"},
           RollBack(s, r)
    PROVE  AnswerInv(s)'
  BY DEF RollBack, AnswerInv, TxTypeOK, Busy

LEMMA AnswerInsertOrder ==
    ASSUME TxTypeOK, Busy, TxInv, NEW s \in Sessions, AnswerInv(s),
           InsertOrder(s)
    PROVE  AnswerInv(s)'
  <1> DEFINE c == call[s]
  <1>1. /\ c \in Calls
        /\ c.op = "upload"
        /\ c.user \in Users
        /\ c.number \in Numbers
    BY CallTypes DEF InsertOrder, Busy, TxInv, PhaseInv
  <1>2. CASE orders[c.number] = NoRow
    <2>1. /\ NewOrder(c.user) # NoRow
          /\ NewOrder(c.user).owner = c.user
      BY <1>1, NewOrderRow, LedgerAssumption DEF NewOrder
    <2>2. orders'[c.number] = NewOrder(c.user) /\ call' = call
      BY <1>1, <1>2 DEF InsertOrder, TxTypeOK, LedgerTypeOK
    <2>3. pc'[s] = "idle" /\ reply'[s] \in {"ok", "failed"}
      BY <1>2 DEF InsertOrder, Return, TxTypeOK
    <2> QED
      BY <1>1, <2>1, <2>2, <2>3 DEF AnswerInv
  <1>3. CASE orders[c.number] # NoRow
    BY <1>1, <1>3 DEF InsertOrder, AnswerInv, TxTypeOK
  <1> QED
    BY <1>2, <1>3

LEMMA AnswerLookupOwner ==
    ASSUME TxTypeOK, Busy, NEW s \in Sessions, AnswerInv(s), LookupOwner(s)
    PROVE  AnswerInv(s)'
  BY DEF LookupOwner, Return, AnswerInv, TxTypeOK, Busy

LEMMA AnswerCommit ==
    ASSUME TxTypeOK, Busy, TxInv, NEW s \in Sessions, Commit(s)
    PROVE  AnswerInv(s)'
  <1> DEFINE c == call[s]
  <1>1. /\ c \in Calls
        /\ c.user \in Users
        /\ c.number \in Numbers
        /\ c.op \in {"settle", "withdraw"}
        /\ PhaseInv(s) /\ OrderInv(s) /\ WithdrawalInv(s)
    BY CallTypes DEF Commit, Busy, TxInv, PhaseInv
  <1>2. /\ pc'[s] = "idle"
        /\ reply'[s] \in {"ok", "failed"}
        /\ call' = call
    BY DEF Commit, Return, TxTypeOK
  <1>3. CASE c.op = "settle"
    <2>1. /\ dirtyOrder[s] # NoRow
          /\ dirtyOrder[s] = Marked(orders[c.number], c.status, c.amount)
      BY <1>1, <1>3 DEF Commit, PhaseInv, OrderInv
    <2>2. orders'[c.number] = dirtyOrder[s]
      BY <1>1, <2>1 DEF Commit, TxTypeOK, LedgerTypeOK
    <2>3. /\ dirtyOrder[s].status = c.status
          /\ dirtyOrder[s].accrual = c.amount
      BY <2>1 DEF Marked
    <2> QED
      BY <1>1, <1>2, <1>3, <2>1, <2>2, <2>3 DEF AnswerInv
  <1>4. CASE c.op = "withdraw"
    <2>1. /\ dirtyWithdrawal[s] # NoRow
          /\ dirtyWithdrawal[s] = [user |-> c.user, amount |-> c.amount]
      BY <1>1, <1>4 DEF Commit, PhaseInv, WithdrawalInv
    <2>2. withdrawals'[c.number] = dirtyWithdrawal[s]
      BY <1>1, <2>1 DEF Commit, TxTypeOK, LedgerTypeOK
    <2> QED
      BY <1>1, <1>2, <1>4, <2>1, <2>2 DEF AnswerInv
  <1> QED
    BY <1>1, <1>3, <1>4

(* Only the session that takes a step changes its own place and its answer. *)
LEMMA OthersStand ==
    ASSUME TxTypeOK, NEW s \in Sessions, NEW t \in Sessions \ {s},
           \/ Statement(s) \/ Abort(s)
           \/ \E c \in Calls : Start(s, c)
    PROVE  pc'[t] = pc[t] /\ call'[t] = call[t] /\ reply'[t] = reply[t]
  <1> USE DEF TxTypeOK
  <1>1. ASSUME NEW r \in Replies, RollBack(s, r)
        PROVE  pc'[t] = pc[t] /\ call'[t] = call[t] /\ reply'[t] = reply[t]
    BY <1>1 DEF RollBack
  <1>2. CASE \E c \in Calls : Start(s, c)
    BY <1>2 DEF Start
  <1>3. CASE InsertOrder(s) \/ LookupOwner(s) \/ Commit(s)
    BY <1>3 DEF InsertOrder, LookupOwner, Commit, Return
  <1>4. CASE CreditUser(s)
    BY <1>1, <1>4 DEF CreditUser, Replies
  <1>5. CASE MarkOrder(s)
    BY <1>1, <1>5 DEF MarkOrder, Replies
  <1>6. CASE DebitUser(s)
    BY <1>1, <1>6 DEF DebitUser, Replies
  <1>7. CASE RecordWithdrawal(s)
    BY <1>1, <1>7 DEF RecordWithdrawal, Replies
  <1>8. CASE Abort(s)
    BY <1>1, <1>8 DEF Abort, Replies
  <1> QED
    BY <1>2, <1>3, <1>4, <1>5, <1>6, <1>7, <1>8 DEF Statement

(* The answer of the session that takes the step. *)
LEMMA OwnAnswer ==
    ASSUME TxTypeOK, Busy, TxInv, NEW s \in Sessions, AnswerInv(s),
           \/ Statement(s) \/ Abort(s)
           \/ \E c \in Calls : Start(s, c)
    PROVE  AnswerInv(s)'
  <1>1. CASE \E c \in Calls : Start(s, c)
    BY <1>1 DEF Start, AnswerInv, TxTypeOK, FirstStatement
  <1>2. CASE CreditUser(s)
    BY <1>2, AnswerRollBack DEF CreditUser, AnswerInv, TxTypeOK
  <1>3. CASE MarkOrder(s)
    BY <1>3, AnswerRollBack DEF MarkOrder, AnswerInv, TxTypeOK
  <1>4. CASE DebitUser(s)
    BY <1>4, AnswerRollBack DEF DebitUser, AnswerInv, TxTypeOK
  <1>5. CASE RecordWithdrawal(s)
    BY <1>5, AnswerRollBack DEF RecordWithdrawal, AnswerInv, TxTypeOK
  <1>6. CASE Abort(s)
    BY <1>6, AnswerRollBack DEF Abort
  <1> QED
    BY <1>1, <1>2, <1>3, <1>4, <1>5, <1>6, AnswerInsertOrder,
       AnswerLookupOwner, AnswerCommit DEF Statement

LEMMA AnswersStep ==
    TxTypeOK /\ Busy /\ TxInv /\ Answers /\ [TxNext]_vars => Answers'
  <1> SUFFICES ASSUME TxTypeOK, Busy, TxInv, Answers, [TxNext]_vars,
                      NEW t \in Sessions
               PROVE  AnswerInv(t)'
    BY DEF Answers
  <1>1. [RowsOnlyMature]_ledger
    BY StepRefines, StepMatures DEF TxTypeOK
  <1>2. AnswerInv(t)
    BY DEF Answers
  <1>3. CASE UNCHANGED vars
    BY <1>1, <1>2, <1>3, AnswerKept DEF vars
  <1>4. CASE TxNext
    <2>1. PICK s \in Sessions :
            \/ Statement(s) \/ Abort(s) \/ \E c \in Calls : Start(s, c)
      BY <1>4 DEF TxNext
    <2>2. CASE s = t
      BY <1>2, <2>1, <2>2, OwnAnswer
    <2>3. CASE s # t
      BY <1>1, <1>2, <2>1, <2>3, OthersStand, AnswerKept
    <2> QED
      BY <2>2, <2>3
  <1> QED
    BY <1>3, <1>4

LEMMA AnswersHold == TxSpec => []Answers
  <1>1. TxSpec => [](TxTypeOK /\ Busy /\ TxInv)
    BY TransactionsSound
  <1> QED
    BY <1>1, AnswersInit, AnswersStep, PTL DEF TxSpec

(* What a caller was told stays true, for any number of sessions. *)
THEOREM AnswersAreKept == TxSpec => []AnswersStayTrue
  <1>1. Answers => AnswersStayTrue
    BY DEF Answers, AnswerInv, AnswersStayTrue
  <1> QED
    BY <1>1, AnswersHold, PTL

(* A refused call leaves no trace: only a session that had not answered
   changes the committed tables, and it answers "ok" or its answer is lost. *)
THEOREM RefusalsAreTraceless == TxSpec => RefusalsLeaveNoTrace
  <1>1. TxTypeOK /\ Answers /\ [TxNext]_vars => [TracesAreAnswered]_vars
    <2> SUFFICES ASSUME TxTypeOK, Answers, TxNext, ledger' # ledger
                 PROVE  \E s \in Sessions : /\ reply[s] = "none"
                                            /\ reply'[s] \in {"ok", "failed"}
      BY DEF TracesAreAnswered
    <2>1. ASSUME NEW s \in Sessions, NEW r \in Replies, RollBack(s, r)
          PROVE  FALSE
      BY <2>1 DEF RollBack
    <2>2. ASSUME NEW s \in Sessions, InsertOrder(s) \/ Commit(s)
          PROVE  /\ reply[s] = "none"
                 /\ reply'[s] \in {"ok", "failed"}
      <3>1. AnswerInv(s) /\ pc[s] # "idle"
        BY <2>2 DEF Answers, InsertOrder, Commit
      <3>2. reply[s] = "none"
        BY <3>1 DEF AnswerInv
      <3>3. reply'[s] \in {"ok", "failed"}
        BY <2>2 DEF InsertOrder, Commit, Return, TxTypeOK
      <3> QED
        BY <3>2, <3>3
    <2>3. ASSUME NEW s \in Sessions,
                 \/ LookupOwner(s) \/ CreditUser(s) \/ MarkOrder(s)
                 \/ DebitUser(s) \/ RecordWithdrawal(s) \/ Abort(s)
                 \/ \E c \in Calls : Start(s, c)
          PROVE  FALSE
      BY <2>1, <2>3 DEF LookupOwner, CreditUser, MarkOrder, DebitUser,
                        RecordWithdrawal, Abort, Start, Replies
    <2> QED
      BY <2>2, <2>3 DEF TxNext, Statement
  <1> QED
    BY <1>1, TransactionsSound, AnswersHold, PTL
    DEF TxSpec, RefusalsLeaveNoTrace
-----------------------------------------------------------------------------
(* Conservation.  The sums over the rows are sums over finitely many rows,
   whatever Numbers is: each row was inserted by a step. *)
FewRows ==
    /\ IsFiniteSet({n \in Numbers : orders[n] # NoRow})
    /\ IsFiniteSet({n \in Numbers : withdrawals[n] # NoRow})

Rewarded(u) == {n \in Numbers : /\ orders[n] # NoRow
                                /\ orders[n].owner = u
                                /\ orders[n].status = "PROCESSED"}

Paid(u) == {n \in Numbers : /\ withdrawals[n] # NoRow
                            /\ withdrawals[n].user = u}

Credits(u) == [n \in Rewarded(u) |-> CreditOf(orders[n].accrual)]

Amounts(u) == [n \in Paid(u) |-> withdrawals[n].amount]

SumsOver == \A u \in Users :
    /\ IsFiniteSet(Rewarded(u)) /\ Credits(u) \in [Rewarded(u) -> Int]
    /\ IsFiniteSet(Paid(u)) /\ Amounts(u) \in [Paid(u) -> Int]
    /\ Earned(u) \in Int /\ Spent(u) \in Int

LEMMA SumsAre == \A u \in Users :
    /\ Earned(u) = SumFunction(Credits(u))
    /\ Spent(u) = SumFunction(Amounts(u))
  BY DEF Earned, Spent, Credits, Amounts, Rewarded, Paid

LEMMA SumsAreOver == LedgerTypeOK /\ FewRows => SumsOver
  <1> SUFFICES ASSUME LedgerTypeOK, FewRows, NEW u \in Users
               PROVE  /\ IsFiniteSet(Rewarded(u))
                      /\ Credits(u) \in [Rewarded(u) -> Int]
                      /\ IsFiniteSet(Paid(u))
                      /\ Amounts(u) \in [Paid(u) -> Int]
                      /\ Earned(u) \in Int /\ Spent(u) \in Int
    BY DEF SumsOver
  <1>1. IsFiniteSet(Rewarded(u)) /\ IsFiniteSet(Paid(u))
    BY FS_Subset, Rewarded(u) \subseteq {n \in Numbers : orders[n] # NoRow},
       Paid(u) \subseteq {n \in Numbers : withdrawals[n] # NoRow}
    DEF FewRows, Rewarded, Paid
  <1>2. Credits(u) \in [Rewarded(u) -> Int]
    <2>1. ASSUME NEW n \in Rewarded(u)
          PROVE  CreditOf(orders[n].accrual) \in Int
      BY DEF LedgerTypeOK, Order, Rewarded, CreditOf
    <2> QED
      BY <2>1 DEF Credits
  <1>3. Amounts(u) \in [Paid(u) -> Int]
    <2>1. ASSUME NEW n \in Paid(u)
          PROVE  withdrawals[n].amount \in Int
      BY DEF LedgerTypeOK, Withdrawal, Paid
    <2> QED
      BY <2>1 DEF Amounts
  <1> QED
    BY <1>1, <1>2, <1>3, SumsAre, SumOfInts

LEMMA ConservationInit == Init => FewRows /\ Conservation
  <1> SUFFICES ASSUME Init PROVE FewRows /\ Conservation
    OBVIOUS
  <1>1. FewRows
    <2>1. /\ {n \in Numbers : orders[n] # NoRow} = {}
          /\ {n \in Numbers : withdrawals[n] # NoRow} = {}
      BY DEF Init
    <2> QED
      BY <2>1, FS_EmptySet DEF FewRows
  <1>2. LedgerTypeOK
    BY DEF Init, LedgerTypeOK, Account
  <1>3. ASSUME NEW u \in Users
        PROVE  Earned(u) = 0 /\ Spent(u) = 0
    <2>1. Rewarded(u) = {} /\ Paid(u) = {}
      BY DEF Init, Rewarded, Paid
    <2> QED
      BY <1>1, <1>2, <2>1, SumsAreOver, SumsAre, SumOfNothing DEF SumsOver
  <1> QED
    BY <1>1, <1>3 DEF Init, Conservation

LEMMA RowsStayFew ==
    ASSUME LedgerTypeOK, FewRows, [Next]_ledger
    PROVE  FewRows'
  <1> DEFINE Filled(t) == {n \in Numbers : t[n] # NoRow}
             OneMore(n) ==
               /\ Filled(orders') \subseteq Filled(orders) \union {n}
               /\ Filled(withdrawals') \subseteq Filled(withdrawals) \union {n}
  <1>1. ASSUME NEW u \in Users, NEW n \in Numbers, Upload(u, n)
        PROVE  OneMore(n)
    BY <1>1 DEF Upload, LedgerTypeOK
  <1>2. ASSUME NEW n \in Numbers, NEW v \in Verdicts, Settle(n, v)
        PROVE  OneMore(n)
    BY <1>2 DEF Settle, LedgerTypeOK
  <1>3. ASSUME NEW u \in Users, NEW n \in Numbers, NEW sum \in Sums,
               Withdraw(u, n, sum)
        PROVE  OneMore(n)
    BY <1>3 DEF Withdraw, LedgerTypeOK
  <1>4. ASSUME NEW n \in Numbers, OneMore(n)
        PROVE  FewRows'
    <2>1. ASSUME NEW S, IsFiniteSet(S), NEW T, T \subseteq S \union {n}
          PROVE  IsFiniteSet(T)
      BY <2>1, FS_AddElement, FS_Subset
    <2> QED
      BY <1>4, <2>1 DEF FewRows
  <1>5. CASE UNCHANGED ledger
    <2>1. /\ Filled(orders') = Filled(orders)
          /\ Filled(withdrawals') = Filled(withdrawals)
      BY <1>5 DEF ledger
    <2> QED
      BY <2>1 DEF FewRows
  <1> HIDE DEF OneMore
  <1> QED
    BY <1>1, <1>2, <1>3, <1>4, <1>5 DEF Next

(* Money that does not move: the rows that count are the same. *)
LEMMA EarnedStays ==
    ASSUME NEW u \in Users, Rewarded(u)' = Rewarded(u),
           \A n \in Rewarded(u) : orders'[n] = orders[n]
    PROVE  Earned(u)' = Earned(u)
  <1>1. Credits(u)' = Credits(u)
    BY DEF Credits
  <1>2. Earned(u)' = SumFunction(Credits(u)')
    BY DEF Earned, Credits, Rewarded
  <1> QED
    BY <1>1, <1>2, SumsAre

LEMMA SpentStays ==
    ASSUME NEW u \in Users, Paid(u)' = Paid(u),
           \A n \in Paid(u) : withdrawals'[n] = withdrawals[n]
    PROVE  Spent(u)' = Spent(u)
  <1>1. Amounts(u)' = Amounts(u)
    BY DEF Amounts
  <1>2. Spent(u)' = SumFunction(Amounts(u)')
    BY DEF Spent, Amounts, Paid
  <1> QED
    BY <1>1, <1>2, SumsAre

(* Money that moves: one row more counts. *)
LEMMA EarnedGains ==
    ASSUME SumsOver, SumsOver', NEW u \in Users, NEW n,
           n \notin Rewarded(u), Rewarded(u)' = Rewarded(u) \union {n},
           \A k \in Rewarded(u) : orders'[k] = orders[k]
    PROVE  Earned(u)' = CreditOf(orders'[n].accrual) + Earned(u)
  <1> DEFINE f == Credits(u)'
             g == Credits(u)
  <1>1. /\ IsFiniteSet(Rewarded(u)) /\ g \in [Rewarded(u) -> Int]
        /\ f \in [Rewarded(u) \union {n} -> Int]
    BY DEF SumsOver
  <1>2. /\ f[n] = CreditOf(orders'[n].accrual)
        /\ \A k \in Rewarded(u) : g[k] = f[k]
    BY DEF Credits
  <1>3. Earned(u)' = SumFunction(f)
    BY DEF Earned, Credits, Rewarded
  <1> HIDE DEF f, g
  <1>4. SumFunction(f) = f[n] + SumFunction(g)
    BY <1>1, <1>2, SumWithOneMore, SMTT(30)
  <1> QED
    BY <1>2, <1>3, <1>4, SumsAre DEF g

LEMMA SpentGains ==
    ASSUME SumsOver, SumsOver', NEW u \in Users, NEW n,
           n \notin Paid(u), Paid(u)' = Paid(u) \union {n},
           \A k \in Paid(u) : withdrawals'[k] = withdrawals[k]
    PROVE  Spent(u)' = withdrawals'[n].amount + Spent(u)
  <1> DEFINE f == Amounts(u)'
             g == Amounts(u)
  <1>1. /\ IsFiniteSet(Paid(u)) /\ g \in [Paid(u) -> Int]
        /\ f \in [Paid(u) \union {n} -> Int]
    BY DEF SumsOver
  <1>2. /\ f[n] = withdrawals'[n].amount
        /\ \A k \in Paid(u) : g[k] = f[k]
    BY DEF Amounts
  <1>3. Spent(u)' = SumFunction(f)
    BY DEF Spent, Amounts, Paid
  <1> HIDE DEF f, g
  <1>4. SumFunction(f) = f[n] + SumFunction(g)
    BY <1>1, <1>2, SumWithOneMore, SMTT(30)
  <1> QED
    BY <1>2, <1>3, <1>4, SumsAre DEF g

LEMMA StepConserves ==
    /\ LedgerTypeOK /\ SumsOver /\ SumsOver' /\ Conservation /\ [Next]_ledger
    => Conservation'
  <1> SUFFICES ASSUME LedgerTypeOK, SumsOver, SumsOver', Conservation,
                      [Next]_ledger
               PROVE  Conservation'
    OBVIOUS
  <1> DEFINE Adds(u) == /\ users'[u].balance = Earned(u)' - Spent(u)'
                        /\ users'[u].withdrawn = Spent(u)'
  <1>1. ASSUME NEW u \in Users
        PROVE  /\ users[u].balance = Earned(u) - Spent(u)
               /\ users[u].withdrawn = Spent(u)
               /\ users[u] \in Account
               /\ Earned(u) \in Int /\ Spent(u) \in Int
    BY <1>1 DEF Conservation, LedgerTypeOK, SumsOver
  <1>2. ASSUME NEW w \in Users, NEW n \in Numbers, Upload(w, n),
               NEW u \in Users
        PROVE  Adds(u)
    <2>1. /\ Paid(u)' = Paid(u)
          /\ \A k \in Paid(u) : withdrawals'[k] = withdrawals[k]
      BY <1>2 DEF Upload, Paid
    <2>2. /\ Rewarded(u)' = Rewarded(u)
          /\ \A k \in Rewarded(u) : orders'[k] = orders[k]
      BY <1>2, NewOrder(w).status = "NEW"
      DEF Upload, Rewarded, LedgerTypeOK, NewOrder
    <2> QED
      BY <1>1, <1>2, <2>1, <2>2, EarnedStays, SpentStays DEF Upload
  <1>3. ASSUME NEW n \in Numbers, NEW v \in Verdicts, Settle(n, v),
               NEW u \in Users
        PROVE  Adds(u)
    <2>1. /\ Paid(u)' = Paid(u)
          /\ \A k \in Paid(u) : withdrawals'[k] = withdrawals[k]
      BY <1>3 DEF Settle, Paid
    <2>2. Spent(u)' = Spent(u)
      BY <2>1, SpentStays
    <2>3. /\ orders[n] \in Order /\ orders[n].owner \in Users
          /\ orders[n].status # "PROCESSED"
          /\ orders[n] # NoRow
      BY <1>3 DEF Settle, IsOpen, Final, LedgerTypeOK, Order
    <2>4. /\ orders' = [orders EXCEPT ![n] = Marked(orders[n], v.status, v.accrual)]
          /\ Marked(orders[n], v.status, v.accrual) # NoRow
          /\ Marked(orders[n], v.status, v.accrual).owner = orders[n].owner
          /\ Marked(orders[n], v.status, v.accrual).status = v.status
          /\ Marked(orders[n], v.status, v.accrual).accrual = v.accrual
          /\ v.accrual \in Int
          /\ v.status # "PROCESSED" => v.accrual = 0
      <3>1. /\ v.accrual \in Int /\ v.status \in Statuses
            /\ v.status # "PROCESSED" => v.accrual = 0
        <4>1. CASE v \in {[status |-> "PROCESSED", accrual |-> a] : a \in Accruals}
          BY <4>1, LedgerAssumption DEF Statuses, Final
        <4>2. CASE v \in [status : {"INVALID", "PROCESSING"}, accrual : {0}]
          BY <4>2 DEF Statuses, Final
        <4> QED
          BY <4>1, <4>2 DEF Verdicts
      <3>2. Marked(orders[n], v.status, v.accrual) \in Order
        BY <2>3, <3>1, MarkedRow
      <3> QED
        BY <1>3, <3>1, <3>2, LedgerAssumption DEF Settle, Marked
    <2>5. n \in DOMAIN orders /\ DOMAIN orders = Numbers
      BY DEF LedgerTypeOK
    <2>6. CASE u = orders[n].owner /\ v.status = "PROCESSED"
      <3>1. /\ n \notin Rewarded(u) /\ Rewarded(u)' = Rewarded(u) \union {n}
            /\ \A k \in Rewarded(u) : orders'[k] = orders[k]
        BY <2>3, <2>4, <2>5, <2>6 DEF Rewarded
      <3>2. Earned(u)' = CreditOf(orders'[n].accrual) + Earned(u)
        BY <3>1, EarnedGains
      <3>3. orders'[n].accrual = v.accrual
        BY <2>4, <2>5
      <3>4. users'[u] = Credited(users[u], v.accrual)
        BY <1>3, <2>6 DEF Settle, LedgerTypeOK
      <3>5. /\ users'[u].balance = users[u].balance + CreditOf(v.accrual)
            /\ users'[u].withdrawn = users[u].withdrawn
            /\ CreditOf(v.accrual) \in Nat
        <4>1. users[u] \in Account /\ v.accrual \in Int
          BY <1>1, <2>4
        <4>2. /\ Credited(users[u], v.accrual).balance
                   = users[u].balance + CreditOf(v.accrual)
              /\ Credited(users[u], v.accrual).withdrawn = users[u].withdrawn
              /\ CreditOf(v.accrual) \in Nat
          BY <4>1, CreditedRow
        <4> QED
          BY <3>4, <4>2
      <3> QED
        BY <1>1, <2>2, <3>2, <3>3, <3>5
    <2>7. CASE ~(u = orders[n].owner /\ v.status = "PROCESSED")
      <3>1. /\ Rewarded(u)' = Rewarded(u)
            /\ \A k \in Rewarded(u) : orders'[k] = orders[k]
        BY <2>3, <2>4, <2>5, <2>7 DEF Rewarded
      <3>2. Earned(u)' = Earned(u)
        BY <3>1, EarnedStays
      <3>3. users'[u].balance = users[u].balance
            /\ users'[u].withdrawn = users[u].withdrawn
        <4>1. CASE u # orders[n].owner
          BY <1>3, <4>1 DEF Settle, LedgerTypeOK
        <4>2. CASE u = orders[n].owner
          <5>1. users'[u] = Credited(users[u], 0)
            BY <1>3, <2>4, <2>7, <4>2 DEF Settle, LedgerTypeOK
          <5> QED
            BY <1>1, <5>1 DEF Credited, CreditOf, Account
        <4> QED
          BY <4>1, <4>2
      <3> QED
        BY <1>1, <2>2, <3>2, <3>3
    <2> QED
      BY <2>6, <2>7
  <1>4. ASSUME NEW w \in Users, NEW n \in Numbers, NEW sum \in Sums,
               Withdraw(w, n, sum), NEW u \in Users
        PROVE  Adds(u)
    <2>1. /\ Rewarded(u)' = Rewarded(u)
          /\ \A k \in Rewarded(u) : orders'[k] = orders[k]
      BY <1>4 DEF Withdraw, Rewarded
    <2>2. Earned(u)' = Earned(u)
      BY <2>1, EarnedStays
    <2> DEFINE row == [user |-> w, amount |-> sum]
    <2>3. /\ withdrawals[n] = NoRow
          /\ withdrawals' = [withdrawals EXCEPT ![n] = row]
          /\ row # NoRow /\ sum \in Int
          /\ n \in DOMAIN withdrawals /\ DOMAIN withdrawals = Numbers
      <3>1. sum \in Int /\ row \in Withdrawal
        BY LedgerAssumption DEF Withdrawal
      <3> QED
        BY <1>4, <3>1, LedgerAssumption DEF Withdraw, LedgerTypeOK
    <2>4. CASE u = w
      <3>1. /\ n \notin Paid(u) /\ Paid(u)' = Paid(u) \union {n}
            /\ \A k \in Paid(u) : withdrawals'[k] = withdrawals[k]
        BY <2>3, <2>4 DEF Paid
      <3>2. Spent(u)' = sum + Spent(u)
        BY <2>3, <3>1, SpentGains
      <3>3. users'[u] = Debited(users[u], sum)
        BY <1>4, <2>4 DEF Withdraw, LedgerTypeOK
      <3>4. /\ users'[u].balance = users[u].balance - sum
            /\ users'[u].withdrawn = users[u].withdrawn + sum
        <4>1. users[u] \in Account /\ sum \in Int
          BY <1>1, <2>3
        <4>2. /\ Debited(users[u], sum).balance = users[u].balance - sum
              /\ Debited(users[u], sum).withdrawn = users[u].withdrawn + sum
          BY <4>1, DebitedRow
        <4> QED
          BY <3>3, <4>2
      <3> QED
        BY <1>1, <2>2, <2>3, <3>2, <3>4
    <2>5. CASE u # w
      <3>1. /\ Paid(u)' = Paid(u)
            /\ \A k \in Paid(u) : withdrawals'[k] = withdrawals[k]
        BY <2>3, <2>5 DEF Paid
      <3>2. users'[u] = users[u] /\ Spent(u)' = Spent(u)
        BY <1>4, <2>5, <3>1, SpentStays DEF Withdraw, LedgerTypeOK
      <3> QED
        BY <1>1, <2>2, <3>2
    <2> QED
      BY <2>4, <2>5
  <1>5. ASSUME UNCHANGED ledger, NEW u \in Users
        PROVE  Adds(u)
    <2>1. users' = users /\ orders' = orders /\ withdrawals' = withdrawals
      BY <1>5 DEF ledger
    <2>2. Rewarded(u)' = Rewarded(u) /\ Paid(u)' = Paid(u)
      BY <2>1 DEF Rewarded, Paid
    <2> QED
      BY <1>1, <2>1, <2>2, EarnedStays, SpentStays
  <1>6. \A u \in Users : Adds(u)
    <2> HIDE DEF Adds
    <2> QED
      BY <1>2, <1>3, <1>4, <1>5 DEF Next
  <1> QED
    BY <1>6 DEF Conservation

(* In every reachable state, for any number of users, orders and concurrent
   transactions, the columns of users add up to the rows of orders and
   withdrawals. *)
THEOREM MoneyIsConserved == TxSpec => []Conservation
  <1>1. TxInit => FewRows /\ Conservation
    BY ConservationInit DEF TxInit
  <1>2. /\ TxTypeOK /\ Busy /\ TxInv /\ [TxNext]_vars => [Next]_ledger
        /\ TxTypeOK => LedgerTypeOK
    BY StepRefines DEF TxTypeOK
  <1>3. LedgerTypeOK /\ FewRows /\ [Next]_ledger => FewRows'
    BY RowsStayFew
  <1> QED
    BY <1>1, <1>2, <1>3, SumsAreOver, StepConserves, TransactionsSound, PTL
    DEF TxSpec
=============================================================================
