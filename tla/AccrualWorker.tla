---------------------------- MODULE AccrualWorker ----------------------------
(***************************************************************************)
(* The accrual worker of one pod (internal/worker/accrual) with what feeds *)
(* it: UploadOrder's insert and channel send, the ticker, the orders table,*)
(* the external accrual system and the workers of the other pods.          *)
(*                                                                         *)
(* The dispatcher is the goroutine of AccrualWorker.Start; it runs the     *)
(* ticker's ProcessOrder calls itself, in lane Ticker, and starts one      *)
(* goroutine, a lane of Slots, for every order it reads from the channel.  *)
(* UpdateOrderAndBalance is one step here: LedgerTx shows why it may be.   *)
(***************************************************************************)
EXTENDS Integers, Sequences, SequencesExt

CONSTANTS
    Orders,     \* order numbers the clients upload
    Capacity,   \* capacity of OrderChan
    Slots,      \* goroutines the dispatcher may have started; a bound
    Ticker,     \* the lane of the ticker's synchronous ProcessOrder
    Views,      \* what the accrual system may come to know of an order
    RetryAfter, \* Retry-After values of a 429, in seconds; 0 if unreadable
    DefaultBan, \* the ban when Retry-After is missing
    Panicky     \* orders whose processing may panic

VARIABLES
    orders,     \* [Orders -> status in the database, or "absent"]
    arrived,    \* the uploaded orders by uploaded_at
    remote,     \* [Orders -> what the accrual system knows]
    sending,    \* orders inserted by a handler that has not reached its send
    chan,       \* OrderChan
    chanClosed, \* OrderChan was closed
    ctxDone,    \* the context of Start is cancelled
    ban,        \* seconds until blockedUntil, 0 when the throttler is open
    tick,       \* a tick waits in ticker.C
    pc,         \* the dispatcher's control
    armed,      \* activeChan is OrderChan, not nil
    held,       \* the order read from the channel, at limiter.Wait
    scan,       \* the rest of the list the ticker read from the database
    lane,       \* [Lanes -> a call of ProcessOrder]
    processing, \* the keys of Service.processing
    slipped     \* history: calls of ProcessOrder begun under the present ban

uploads == <<orders, arrived, sending, chan>>
dispatcher == <<pc, armed, held, scan, tick>>
calls == <<lane, processing>>
process == <<chanClosed, ctxDone>>
vars == <<uploads, remote, process, ban, dispatcher, calls, slipped>>
-----------------------------------------------------------------------------
Final == {"PROCESSED", "INVALID"}
Lanes == Slots \union {Ticker}
Statuses == {"NEW", "PROCESSING"} \union Final
Copy == [order : Orders, status : Statuses]

(* The accrual system's view of an order only moves forward. *)
Rank == [UNKNOWN |-> 0, REGISTERED |-> 1, PROCESSING |-> 2,
         INVALID |-> 3, PROCESSED |-> 3]

ASSUME WorkerAssumption ==
    /\ Capacity \in Nat \ {0}
    /\ Views \subseteq DOMAIN Rank
    /\ RetryAfter \subseteq Int
    /\ DefaultBan \in Nat \ {0}
    /\ Ticker \notin Slots
    /\ Panicky \subseteq Orders

(* CheckOrder's reading of Retry-After, after Throttler.Block: no header or
   an unreadable one is 0 and means the default, a negative one bans until a
   moment that has passed. *)
BanOf(seconds) ==
    IF seconds = 0 THEN DefaultBan ELSE IF seconds < 0 THEN 0 ELSE seconds

(* A slip for the properties to catch: the throttler is never consulted. *)
NeverBlocked == FALSE

IsBlocked == ban > 0

NoCall == [at |-> "none"]
Calls ==
    [at : {"begin", "request", "unlock", "unwind"}, of : Copy]
        \union [at : {"sync"}, of : Copy, answer : DOMAIN Rank]
        \union [at : {"sync"}, of : Copy, answer : {"429"}, ban : Nat]

Serves(l, o) == lane[l] # NoCall /\ lane[l].of.order = o
Inside(l) == lane[l].at \in {"request", "sync", "unlock"}

(* A slip for the properties to catch: new orders are left to the channel. *)
OnlyProcessing ==
    LET open == SelectSeq(arrived, LAMBDA o : orders[o] = "PROCESSING")
    IN  [i \in 1 .. Len(open) |-> [order |-> open[i], status |-> "PROCESSING"]]

(* GetUnprocessedOrders: the open orders, the oldest first.  A list of places
   in arrived, and what the rows at those places say. *)
Listing(places) ==
    CHOOSE list \in UNION {[1 .. n -> places] : n \in 0 .. Len(arrived)} :
        /\ ToSet(list) = places
        /\ \A i, j \in DOMAIN list : i < j => list[i] < list[j]

Unprocessed ==
    LET open == {i \in DOMAIN arrived : orders[arrived[i]] \notin Final}
    IN  [i \in DOMAIN Listing(open) |->
            LET o == arrived[Listing(open)[i]]
            IN  [order |-> o, status |-> orders[o]]]

(* A slip for the properties to catch: WHERE without the status guard. *)
SetAnyStatus(o, status) == orders' = [orders EXCEPT ![o] = status]

(* UpdateOrderAndBalance: the update finds no row when the order is final. *)
SetStatus(o, status) ==
    orders' = IF orders[o] \in Final THEN orders
              ELSE [orders EXCEPT ![o] = status]
-----------------------------------------------------------------------------
Init ==
    /\ orders = [o \in Orders |-> "absent"]
    /\ arrived = << >>
    /\ remote = [o \in Orders |-> "UNKNOWN"]
    /\ sending = {}
    /\ chan = << >>
    /\ chanClosed = FALSE
    /\ ctxDone = FALSE
    /\ ban = 0
    /\ tick = FALSE
    /\ pc = "top"
    /\ armed = FALSE
    /\ held = {}
    /\ scan = << >>
    /\ lane = [l \in Lanes |-> NoCall]
    /\ processing = {}
    /\ slipped = 0

(* UploadOrder: the row is inserted first ... *)
Insert(o) ==
    /\ orders[o] = "absent"
    /\ orders' = [orders EXCEPT ![o] = "NEW"]
    /\ arrived' = Append(arrived, o)
    /\ sending' = sending \union {o}
    /\ UNCHANGED <<chan, remote, process, ban, dispatcher, calls, slipped>>

(* A slip for the properties to catch: the handler stays in its send. *)
SendAgain(o) ==
    /\ o \in sending
    /\ ~chanClosed
    /\ Len(chan) < Capacity
    /\ chan' = Append(chan, o)
    /\ UNCHANGED <<orders, arrived, sending, remote, process, ban, dispatcher,
                   calls, slipped>>

(* ... and then sent without blocking: a full buffer drops it. *)
Send(o) ==
    /\ o \in sending
    /\ ~chanClosed
    /\ sending' = sending \ {o}
    /\ chan' = IF Len(chan) < Capacity THEN Append(chan, o) ELSE chan
    /\ UNCHANGED <<orders, arrived, remote, process, ban, dispatcher, calls,
                   slipped>>

(* The accrual system makes progress on an order, uploaded here or not. *)
Advance(o) ==
    /\ \E status \in Views :
         /\ Rank[status] > Rank[remote[o]]
         /\ remote' = [remote EXCEPT ![o] = status]
    /\ UNCHANGED <<uploads, process, ban, dispatcher, calls, slipped>>

(* Another pod got the present answer for the order and stored it. *)
OtherPod(o) ==
    /\ orders[o] \notin Final \union {"absent"}
    /\ remote[o] \in {"PROCESSING"} \union Final
    /\ orders' = [orders EXCEPT ![o] = remote[o]]
    /\ UNCHANGED <<arrived, sending, chan, remote, process, ban, dispatcher,
                   calls, slipped>>

(* Time passes for the throttler, and for the ticker (which keeps one tick). *)
Second ==
    /\ ban > 0
    /\ ban' = ban - 1
    /\ slipped' = IF ban = 1 THEN 0 ELSE slipped
    /\ UNCHANGED <<uploads, remote, process, dispatcher, calls>>

TickerFires ==
    /\ ~tick
    /\ pc # "stopped"
    /\ tick' = TRUE
    /\ UNCHANGED <<uploads, remote, process, ban, pc, armed, held, scan, calls,
                   slipped>>
-----------------------------------------------------------------------------
(* A call of ProcessOrder begins in lane l. *)
Call(l, copy) ==
    /\ lane' = [lane EXCEPT ![l] = [at |-> "begin", of |-> copy]]
    /\ slipped' = IF ban > 0 THEN slipped + 1 ELSE slipped
    /\ UNCHANGED processing

GoTo(at) == pc' = at /\ UNCHANGED <<armed, held, scan, tick>>

(* The head of Start's loop: activeChan is chosen once per iteration. *)
Top ==
    /\ pc = "top"
    /\ armed' = ~IsBlocked
    /\ pc' = "select"
    /\ UNCHANGED <<uploads, remote, process, ban, held, scan, tick, calls,
                   slipped>>

SelectDone ==
    /\ pc = "select"
    /\ ctxDone
    /\ GoTo("drain")
    /\ UNCHANGED <<uploads, remote, process, ban, calls, slipped>>

(* The ticker's case; processUnprocessedOrders returns under a ban. *)
SelectTick ==
    /\ pc = "select"
    /\ tick
    /\ tick' = FALSE
    /\ pc' = IF IsBlocked THEN "top" ELSE "fetch"
    /\ UNCHANGED <<uploads, remote, process, ban, armed, held, scan, calls,
                   slipped>>

SelectOrder ==
    /\ pc = "select"
    /\ armed
    /\ chan # << >>
    /\ held' = {[order |-> Head(chan), status |-> "NEW"]}
    /\ chan' = Tail(chan)
    /\ pc' = "wait"
    /\ UNCHANGED <<orders, arrived, sending, remote, process, ban, armed, scan,
                   tick, calls, slipped>>

SelectClosed ==
    /\ pc = "select"
    /\ armed
    /\ chan = << >> /\ chanClosed
    /\ GoTo("drain")
    /\ UNCHANGED <<uploads, remote, process, ban, calls, slipped>>

(* limiter.Wait, then a goroutine of its own for the order; a cancelled
   context makes Wait fail, and the order that was read is dropped. *)
WaitFails ==
    /\ pc = "wait"
    /\ ctxDone
    /\ held' = {}
    /\ pc' = "top"
    /\ UNCHANGED <<uploads, remote, process, ban, armed, scan, tick, calls,
                   slipped>>

Spawn ==
    /\ pc = "wait"
    /\ ~ctxDone
    /\ \E l \in Slots, copy \in held :
         /\ lane[l] = NoCall
         /\ Call(l, copy)
    /\ held' = {}
    /\ pc' = "top"
    /\ UNCHANGED <<uploads, remote, process, ban, armed, scan, tick>>

(* The ticker's list, or an error of the database. *)
Fetch ==
    /\ pc = "fetch"
    /\ \/ scan' = Unprocessed /\ pc' = "scan"
       \/ scan' = << >> /\ pc' = "top"
    /\ UNCHANGED <<uploads, remote, process, ban, armed, held, tick, calls,
                   slipped>>

(* The loop over the list: it ends with the list, with the context, or at
   the first order met under a ban. *)
ScanEnds ==
    /\ pc = "scan"
    /\ scan = << >> \/ ctxDone \/ IsBlocked
    /\ scan' = << >>
    /\ pc' = "top"
    /\ UNCHANGED <<uploads, remote, process, ban, armed, held, tick, calls,
                   slipped>>

ScanNext ==
    /\ pc = "scan"
    /\ scan # << >> /\ ~ctxDone /\ ~IsBlocked
    /\ GoTo("scan_wait")
    /\ UNCHANGED <<uploads, remote, process, ban, calls, slipped>>

ScanWaitFails ==
    /\ pc = "scan_wait"
    /\ ctxDone
    /\ scan' = << >>
    /\ pc' = "top"
    /\ UNCHANGED <<uploads, remote, process, ban, armed, held, tick, calls,
                   slipped>>

ScanCall ==
    /\ pc = "scan_wait"
    /\ ~ctxDone
    /\ Call(Ticker, Head(scan))
    /\ scan' = Tail(scan)
    /\ pc' = "scan_call"
    /\ UNCHANGED <<uploads, remote, process, ban, armed, held, tick>>

ScanReturns ==
    /\ pc = "scan_call"
    /\ lane[Ticker] = NoCall
    /\ GoTo("scan")
    /\ UNCHANGED <<uploads, remote, process, ban, calls, slipped>>

(* A slip for the properties to catch: no WaitGroup. *)
StopAtOnce ==
    /\ pc = "drain"
    /\ GoTo("stopped")
    /\ UNCHANGED <<uploads, remote, process, ban, calls, slipped>>

(* wg.Wait: Start returns after its goroutines. *)
Stop ==
    /\ pc = "drain"
    /\ \A l \in Slots : lane[l] = NoCall
    /\ GoTo("stopped")
    /\ UNCHANGED <<uploads, remote, process, ban, calls, slipped>>

Dispatch ==
    \/ Top \/ SelectTick \/ SelectOrder \/ Spawn
    \/ Fetch \/ ScanEnds \/ ScanNext \/ ScanCall \/ ScanReturns

(* The dispatcher's ways out.  They need a context that is done or a channel
   that is closed, which only main brings about: module Lifecycle. *)
WindDown == SelectDone \/ SelectClosed \/ WaitFails \/ ScanWaitFails \/ Stop
-----------------------------------------------------------------------------
(* A slip for the properties to catch: Store without looking. *)
EnterAlways(l) ==
    /\ lane[l].at = "begin"
    /\ lane' = [lane EXCEPT ![l].at = "request"]
    /\ processing' = processing \union {lane[l].of.order}
    /\ UNCHANGED <<uploads, remote, process, ban, dispatcher, slipped>>

(* LoadOrStore: an order another lane is inside of is left to that lane. *)
Enter(l) ==
    /\ lane[l].at = "begin"
    /\ LET o == lane[l].of.order IN
         IF o \in processing
         THEN /\ lane' = [lane EXCEPT ![l] = NoCall]
              /\ UNCHANGED processing
         ELSE /\ lane' = [lane EXCEPT ![l].at = "request"]
              /\ processing' = processing \union {o}
    /\ UNCHANGED <<uploads, remote, process, ban, dispatcher, slipped>>

(* The accrual system answers with what it knows of the order. *)
Answer(l) ==
    /\ lane[l].at = "request"
    /\ lane' = [lane EXCEPT ![l] =
         [at |-> "sync", of |-> @.of, answer |-> remote[@.of.order]]]
    /\ UNCHANGED <<uploads, remote, process, ban, dispatcher, processing,
                   slipped>>

(* It answers 429. *)
Refuse(l) ==
    /\ lane[l].at = "request"
    /\ \E seconds \in RetryAfter :
         lane' = [lane EXCEPT ![l] =
           [at |-> "sync", of |-> @.of, answer |-> "429", ban |-> BanOf(seconds)]]
    /\ UNCHANGED <<uploads, remote, process, ban, dispatcher, processing,
                   slipped>>

(* A slip for the properties to catch: the error path forgets the key. *)
RequestFailsKeepsKey(l) ==
    /\ lane[l].at = "request"
    /\ lane' = [lane EXCEPT ![l] = NoCall]
    /\ UNCHANGED <<uploads, remote, process, ban, dispatcher, processing,
                   slipped>>

(* A network error, a timeout, a cancelled context, an unexpected status or a
   body that is not JSON: the call ends with its deferred Delete. *)
RequestFails(l) ==
    /\ lane[l].at = "request"
    /\ lane' = [lane EXCEPT ![l] = [at |-> "unlock", of |-> @.of]]
    /\ UNCHANGED <<uploads, remote, process, ban, dispatcher, processing,
                   slipped>>

(* The answer 429 blocks the throttler, whatever ban it had. *)
Blocks(l) ==
    /\ lane[l].at = "sync"
    /\ lane[l].answer = "429"
    /\ ban' = lane[l].ban
    /\ slipped' = IF ban' = 0 THEN 0 ELSE slipped
    /\ lane' = [lane EXCEPT ![l] = [at |-> "unlock", of |-> @.of]]
    /\ UNCHANGED <<uploads, remote, process, dispatcher, processing>>

(* syncOrderStatus stores a verdict, and stores PROCESSING when the copy of
   the order in hand says NEW. *)
Applies(l) ==
    /\ lane[l].at = "sync"
    /\ lane[l].answer # "429"
    /\ LET a == lane[l].answer
            stored == a \in Final \/ (a = "PROCESSING" /\ lane[l].of.status = "NEW")
       IN  IF stored THEN SetStatus(lane[l].of.order, a) ELSE UNCHANGED orders
    /\ lane' = [lane EXCEPT ![l] = [at |-> "unlock", of |-> @.of]]
    /\ UNCHANGED <<arrived, sending, chan, remote, process, ban, dispatcher,
                   processing, slipped>>

(* The database refuses the update; the error is only logged. *)
SyncFails(l) ==
    /\ lane[l].at = "sync"
    /\ lane[l].answer # "429"
    /\ lane' = [lane EXCEPT ![l] = [at |-> "unlock", of |-> @.of]]
    /\ UNCHANGED <<uploads, remote, process, ban, dispatcher, processing,
                   slipped>>

(* The deferred Delete of a call that returns. *)
Leave(l) ==
    /\ lane[l].at = "unlock"
    /\ lane' = [lane EXCEPT ![l] = NoCall]
    /\ processing' = processing \ {lane[l].of.order}
    /\ UNCHANGED <<uploads, remote, process, ban, dispatcher, slipped>>

(* A panic: the same deferred Delete runs first, then the one of the deferred
   recover, which stands before it in ProcessOrder and so runs after it. *)
Panic(l) ==
    /\ lane[l].at \in {"request", "sync"}
    /\ lane[l].of.order \in Panicky
    /\ lane' = [lane EXCEPT ![l] = [at |-> "unwind", of |-> @.of]]
    /\ processing' = processing \ {lane[l].of.order}
    /\ UNCHANGED <<uploads, remote, process, ban, dispatcher, slipped>>

Recover(l) ==
    /\ lane[l].at = "unwind"
    /\ lane' = [lane EXCEPT ![l] = NoCall]
    /\ processing' = processing \ {lane[l].of.order}
    /\ UNCHANGED <<uploads, remote, process, ban, dispatcher, slipped>>

Process(l) ==
    \/ Enter(l) \/ Answer(l) \/ Refuse(l) \/ RequestFails(l)
    \/ Blocks(l) \/ Applies(l) \/ SyncFails(l) \/ Leave(l)
    \/ Panic(l) \/ Recover(l)

World ==
    \/ \E o \in Orders : Insert(o) \/ Send(o) \/ Advance(o) \/ OtherPod(o)
    \/ Second
    \/ TickerFires

Next == World \/ Dispatch \/ \E l \in Lanes : Process(l)

Spec == Init /\ [][Next]_vars

(* The scheduler and the runtime run the dispatcher and the calls, time and
   ticks go on, and the accrual system reaches a verdict on every order.  The
   database does not refuse every list, nor the accrual system every request,
   nor the database every update of those that are tried again and again.
   Which ready case a select takes, and which order fails, is left open. *)
Fairness ==
    /\ WF_vars(Dispatch)
    /\ WF_vars(Second) /\ WF_vars(TickerFires)
    /\ \A l \in Lanes : WF_vars(Process(l))
    /\ \A o \in Orders : WF_vars(Advance(o))
    /\ SF_vars(Fetch /\ pc' = "scan")
    /\ SF_vars(\E l \in Lanes : Answer(l))
    /\ SF_vars(\E l \in Lanes : Applies(l))

FairSpec == Spec /\ Fairness
-----------------------------------------------------------------------------
WorkerTypeOK ==
    /\ orders \in [Orders -> Statuses \union {"absent"}]
    /\ IsInjective(arrived)
    /\ ToSet(arrived) = {o \in Orders : orders[o] # "absent"}
    /\ remote \in [Orders -> DOMAIN Rank]
    /\ sending \subseteq ToSet(arrived)
    /\ ToSet(chan) \subseteq ToSet(arrived) \ sending
    /\ Len(chan) <= Capacity
    /\ {chanClosed, ctxDone, tick, armed} \subseteq BOOLEAN
    /\ ban \in Nat /\ slipped \in Nat
    /\ pc \in {"top", "select", "wait", "fetch", "scan", "scan_wait",
               "scan_call", "drain", "stopped"}
    /\ held \subseteq Copy
    /\ ToSet(scan) \subseteq Copy
    /\ \A l \in Lanes : lane[l] \in Calls \union {NoCall}
    /\ processing \subseteq Orders

(* service.go: protection against parallel processing.  An order is processed
   by one call at a time, although its copies reach the worker through the
   channel, through every list of the ticker, and through both at once.  The
   code does not keep this for an order whose processing panics, see
   OneCallPerCalmOrder. *)
OneCallPerOrder ==
    \A l, m \in Lanes :
        l # m /\ Inside(l) /\ Inside(m) => lane[l].of.order # lane[m].of.order

(* What the code does keep: an order whose own calls do not panic is processed
   by one call at a time, whatever panics run the Deletes of other orders. *)
OneCallPerCalmOrder ==
    \A l, m \in Lanes :
        /\ l # m /\ Inside(l) /\ Inside(m)
        /\ lane[l].of.order \notin Panicky
        => lane[l].of.order # lane[m].of.order

(* The map of orders being processed names exactly the orders with a call
   inside, but for those that panic: whatever way a call ended its key is gone,
   or no later call could ever process the order. *)
LocksMatchCalls ==
    processing \ Panicky =
        {lane[l].of.order : l \in {m \in Lanes : Inside(m)}} \ Panicky

(* The stop valve closes late, but not more than one call late: an order the
   dispatcher had committed to when the 429 came is still sent, and none after
   it until the ban is over. *)
AtMostOneSlips == slipped <= 1

(* A verdict is never taken back: an answer that was overtaken by another
   call, or by another pod, changes nothing when it is applied at last. *)
VerdictsStay ==
    [][\A o \in Orders : orders[o] \in Final => orders'[o] = orders[o]]_vars

(* Every order is settled once the accrual system has a verdict: neither the
   full buffer, nor a missed 429, nor a failed request, nor a failed update
   strands it. *)
EveryOrderSettles ==
    \A o \in Orders : orders[o] = "NEW" ~> orders[o] \in Final
=============================================================================
