--------------------------- MODULE LifecycleProofs ---------------------------
(***************************************************************************)
(* Proofs about Lifecycle: what AccrualWorkerProofs shows of one run of    *)
(* the worker holds through shutdowns, crashes and the next starts, and    *)
(* AccrualWorker.Start returns after its calls.                            *)
(***************************************************************************)
EXTENDS Lifecycle, AccrualWorkerProofs

(* What main and its handlers do to the worker but by the worker's own steps
   and by those of UploadOrder that AccrualWorker knows. *)
Interrupt ==
    \/ \E o \in Orders : SendPanics(o) \/ SaveUnheard(o)
    \/ Signal \/ CloseChan \/ Exit \/ Start

LEMMA LifeSteps ==
    LifeNext => Interrupt \/ [Next \/ WindDown]_vars
  <1> SUFFICES ASSUME LifeNext, ~Interrupt PROVE [Next \/ WindDown]_vars
    OBVIOUS
  <1>1. CASE Handlers
    <2> PICK o \in Orders :
             \/ Request(o) \/ Reject(o) \/ Acquire(o)
             \/ DatabaseCall(o) \/ Hand(o) \/ SendPanics(o)
      BY <1>1 DEF Handlers
    <2>1. CASE Request(o) \/ Reject(o) \/ Acquire(o) \/ SaveFails(o)
      BY <2>1 DEF Request, Reject, Acquire, SaveFails
    <2>2. CASE Save(o) \/ Hand(o)
      BY <2>2 DEF Save, Hand, Next, World
    <2> QED
      BY <2>1, <2>2 DEF DatabaseCall, Interrupt
  <1>2. CASE Outside
    BY <1>2 DEF Outside, Next, World
  <1>3. CASE Worker
    BY <1>3 DEF Worker, Next
  <1>4. CASE Shutdown
    BY <1>4 DEF Shutdown, ServerStopped, StopTimesOut, WorkerDone, PoolClosed,
                Interrupt
  <1> QED
    BY <1>1, <1>2, <1>3, <1>4 DEF LifeNext, Interrupt, Crash

(* The lanes and the channel begin anew, and the database does not: an order
   that was still in its handler, in the channel or in a call is dropped there
   and stays in its row. *)
LEMMA StartKeeps ==
    ASSUME WorkerInv, Start
    PROVE  WorkerInv'
  <1> USE DEF WorkerInv, Start
  <1>1. << >> \in Seq(Orders) /\ << >> \in Seq(Copy) /\ ToSet(<< >>) = {}
    BY DEF ToSet
  <1>2. UploadsInv'
    BY <1>1, WorkerAssumption DEF UploadsInv
  <1>3. DispatcherInv'
    BY <1>1 DEF DispatcherInv
  <1>4. WorldInv'
    BY DEF WorldInv
  <1>5. CallsInv' /\ OnlyUploaded'
    BY <1>1 DEF CallsInv, OnlyUploaded
  <1> QED
    BY <1>2, <1>3, <1>4, <1>5

(* A row that is stored unheard keeps everything an Insert keeps. *)
LEMMA UnheardKeeps ==
    ASSUME WorkerInv, NEW o \in Orders, SaveUnheard(o)
    PROVE  WorkerInv'
  <1> USE DEF WorkerInv, SaveUnheard, process, dispatcher, calls
  <1>1. o \notin ToSet(arrived)
    BY DEF UploadsInv
  <1>2. arrived' \in Seq(Orders) /\ IsInjective(arrived')
    BY <1>1, AppendNew, AppendProperties DEF UploadsInv
  <1>3. ToSet(arrived') = ToSet(arrived) \union {o}
    BY ToSetOfAppend DEF UploadsInv
  <1>4. ToSet(arrived') = {p \in Orders : orders'[p] # "absent"}
    BY <1>3 DEF UploadsInv
  <1>5. UploadsInv'
    BY <1>2, <1>3, <1>4 DEF UploadsInv, Statuses
  <1>6. DispatcherInv' /\ WorldInv' /\ CallsInv'
    BY DEF DispatcherInv, WorldInv, CallsInv
  <1>7. RowsStay
    BY DEF RowsStay, UploadsInv
  <1>8. OnlyUploaded'
    BY <1>7, UploadedStay
  <1> QED
    BY <1>5, <1>6, <1>8

LEMMA InterruptKeeps ==
    ASSUME WorkerInv, Interrupt
    PROVE  WorkerInv'
  <1> USE DEF WorkerInv
  <1>1. CASE Start
    BY <1>1, StartKeeps
  <1>2. CASE (\E o \in Orders : SendPanics(o)) \/ Exit
    <2>1. UploadsInv'
      BY <1>2 DEF SendPanics, Exit, UploadsInv
    <2>2. DispatcherInv' /\ WorldInv' /\ CallsInv' /\ OnlyUploaded'
      BY <1>2 DEF SendPanics, Exit, process, dispatcher, calls, DispatcherInv,
                  WorldInv, CallsInv, OnlyUploaded
    <2> QED
      BY <2>1, <2>2
  <1>3. CASE Signal \/ CloseChan
    <2>1. UploadsInv' /\ DispatcherInv' /\ CallsInv' /\ OnlyUploaded'
      BY <1>3 DEF Signal, CloseChan, uploads, dispatcher, calls, UploadsInv,
                  DispatcherInv, CallsInv, OnlyUploaded
    <2>2. WorldInv'
      BY <1>3 DEF Signal, CloseChan, WorldInv
    <2> QED
      BY <2>1, <2>2
  <1>4. CASE \E o \in Orders : SaveUnheard(o)
    BY <1>4, UnheardKeeps
  <1> QED
    BY <1>1, <1>2, <1>3, <1>4 DEF Interrupt
-----------------------------------------------------------------------------
ProcessInv ==
    /\ main \in {"serving", "stopping", "closing", "waiting", "draining",
                 "down"}
    /\ inflight \subseteq Orders /\ connected \subseteq Orders
    /\ starts \in 1 .. MaxStarts

(* NoCallOutlivesStart is inductive with TickerWaits: wg.Wait is for the
   goroutines of Slots alone, and the ticker's call is not running because the
   dispatcher itself ran it. *)
LifeInv == WorkerInv /\ TickerWaits /\ ProcessInv /\ NoCallOutlivesStart

LEMMA LifeStarts == LifeInit => LifeInv
  <1> SUFFICES ASSUME LifeInit PROVE LifeInv
    OBVIOUS
  <1>1. WorkerInv /\ TickerWaits
    BY WorkerStarts, LocksStart DEF LifeInit
  <1>2. ProcessInv
    BY LifecycleAssumption DEF LifeInit, ProcessInv
  <1>3. NoCallOutlivesStart
    BY DEF LifeInit, Init, NoCallOutlivesStart
  <1> QED
    BY <1>1, <1>2, <1>3 DEF LifeInv

LEMMA ProcessInvKeeps ==
    ASSUME ProcessInv, [LifeNext]_allVars
    PROVE  ProcessInv'
  <1> USE DEF ProcessInv
  <1>1. CASE Handlers
    BY <1>1 DEF Handlers, Request, Reject, Acquire, DatabaseCall, Save,
                SaveFails, SaveUnheard, Release, Hand, SendPanics, lifecycle,
                handlers
  <1>2. CASE Outside \/ Worker
    BY <1>2 DEF Outside, Worker, lifecycle, handlers
  <1>3. CASE Signal \/ Shutdown \/ Crash
    BY <1>3 DEF Signal, Shutdown, ServerStopped, StopTimesOut, CloseChan,
                WorkerDone, PoolClosed, Crash, Exit, handlers
  <1>4. CASE Start
    BY <1>4, LifecycleAssumption DEF Start, handlers
  <1>5. CASE UNCHANGED allVars
    BY <1>5 DEF allVars, lifecycle, handlers
  <1> QED
    BY <1>1, <1>2, <1>3, <1>4, <1>5 DEF LifeNext

LEMMA QuietWorker ==
    ASSUME WorkerInv, TickerWaits, NoCallOutlivesStart, [Next \/ WindDown]_vars
    PROVE  NoCallOutlivesStart'
  <1> USE DEF NoCallOutlivesStart
  <1>1. CASE Stop
    BY <1>1 DEF Stop, TickerWaits, Lanes, calls
  <1>2. CASE \E l \in Lanes : Process(l)
    <2>1. PICK l \in Lanes : Process(l)
      BY <1>2
    <2>2. lane[l] # NoCall
      BY <2>1, AnyStep, NoCallIsNot
    <2>3. UNCHANGED pc
      BY <2>1 DEF Process, Enter, Answer, Refuse, RequestFails, Blocks,
                  Applies, SyncFails, Leave, Panic, Recover, dispatcher
    <2> QED
      BY <2>2, <2>3
  <1>3. CASE World \/ UNCHANGED vars
    BY <1>3 DEF World, Insert, Send, Advance, OtherPod, Second, TickerFires,
                dispatcher, calls, vars
  <1>4. CASE Dispatch \/ (WindDown /\ ~Stop)
    <2>1. pc' # "stopped"
      BY <1>4 DEF Dispatch, WindDown, Top, SelectTick, SelectOrder, Spawn,
                  Fetch, ScanEnds, ScanNext, ScanCall, ScanReturns,
                  SelectDone, SelectClosed, WaitFails, ScanWaitFails, GoTo
    <2> QED
      BY <2>1
  <1> QED
    BY <1>1, <1>2, <1>3, <1>4 DEF Next, WindDown

LEMMA LifeKeeps == LifeInv /\ [LifeNext]_allVars => LifeInv'
  <1> SUFFICES ASSUME LifeInv, [LifeNext]_allVars PROVE LifeInv'
    OBVIOUS
  <1> USE DEF LifeInv
  <1>1. ProcessInv'
    BY ProcessInvKeeps
  <1>2. CASE [Next \/ WindDown]_vars
    BY <1>1, <1>2, WorkerKeeps, TickerKeeps, QuietWorker
  <1>3. CASE Interrupt
    <2>1. WorkerInv'
      BY <1>3, InterruptKeeps
    <2>2. TickerWaits' /\ NoCallOutlivesStart'
      <3>1. CASE Start
        BY <3>1 DEF Start, TickerWaits, NoCallOutlivesStart, Lanes
      <3>2. CASE ~Start
        BY <1>3, <3>2
        DEF Interrupt, SendPanics, SaveUnheard, Signal, CloseChan, Exit,
            dispatcher, calls, TickerWaits, NoCallOutlivesStart
      <3> QED
        BY <3>1, <3>2
    <2> QED
      BY <1>1, <2>1, <2>2
  <1>4. UNCHANGED allVars => UNCHANGED vars
    BY DEF allVars
  <1> QED
    BY <1>2, <1>3, <1>4, LifeSteps

LEMMA LifeIsInvariant == LifeSpec => []LifeInv
  BY LifeStarts, LifeKeeps, PTL DEF LifeSpec

(* The types of the worker, of main and of the handlers, through every
   shutdown, crash and start. *)
THEOREM LifeTyped == LifeSpec => []LifeTypeOK
  <1>1. LifeInv => LifeTypeOK
    BY WorkerInvTypes DEF LifeInv, ProcessInv, LifeTypeOK
  <1> QED
    BY <1>1, LifeIsInvariant, PTL

(* AccrualWorker.Start returns, and main goes on to close the connection pool,
   only when no call of ProcessOrder is running: neither one of the goroutines
   it waits for, nor the ticker's, for which it has no WaitGroup. *)
THEOREM CallsEndBeforeStart == LifeSpec => []NoCallOutlivesStart
  <1>1. LifeInv => NoCallOutlivesStart
    BY DEF LifeInv
  <1> QED
    BY <1>1, LifeIsInvariant, PTL
-----------------------------------------------------------------------------
(* What holds of one run of the worker holds of all of them. *)
LEMMA LocksThroughout == LifeSpec => []LocksInv
  <1>1. LifeInit => LocksInv
    BY LocksStart DEF LifeInit
  <1>2. LifeInv /\ LocksInv /\ [LifeNext]_allVars => LocksInv'
    <2> SUFFICES ASSUME LifeInv, LocksInv, [LifeNext]_allVars PROVE LocksInv'
      OBVIOUS
    <2>1. CASE [Next \/ WindDown]_vars
      BY <2>1, LocksKeep DEF LifeInv
    <2>2. CASE Start
      BY <2>2 DEF Start, LocksInv, OnlyPanickyUnwind, LocksMatchCalls,
                  OneCallPerCalmOrder, Inside, NoCall, Lanes
    <2>3. CASE Interrupt /\ ~Start
      BY <2>3, LocksStay
      DEF Interrupt, SendPanics, SaveUnheard, Signal, CloseChan, Exit, calls
    <2>4. UNCHANGED allVars => UNCHANGED vars
      BY DEF allVars
    <2> QED
      BY <2>1, <2>2, <2>3, <2>4, LifeSteps
  <1> QED
    BY <1>1, <1>2, LifeIsInvariant, PTL DEF LifeSpec

(* The map of processed orders is a lock in every process: a key is lost with
   the process that held it, and the next one begins with an empty map and
   with no call. *)
THEOREM LocksThroughRestarts ==
    LifeSpec => [](OneCallPerCalmOrder /\ LocksMatchCalls)
  <1>1. LocksInv => OneCallPerCalmOrder /\ LocksMatchCalls
    BY DEF LocksInv
  <1> QED
    BY <1>1, LocksThroughout, PTL

(* The stop valve is late by one call at most in every process, and a shutdown
   does not make it later: the dispatcher's ways out begin no call.  (A new
   process begins without the ban that the last one was under.) *)
THEOREM OneSlipThroughRestarts == LifeSpec => []AtMostOneSlips
  <1>1. LifeInit => SlipInv
    BY SlipStart DEF LifeInit
  <1>2. LifeInv /\ SlipInv /\ [LifeNext]_allVars => SlipInv'
    <2> SUFFICES ASSUME LifeInv, SlipInv, [LifeNext]_allVars PROVE SlipInv'
      OBVIOUS
    <2>1. CASE [Next \/ WindDown]_vars
      BY <2>1, SlipKeeps DEF LifeInv
    <2>2. CASE Start
      BY <2>2 DEF Start, SlipInv
    <2>3. CASE Interrupt /\ ~Start
      BY <2>3
      DEF Interrupt, SendPanics, SaveUnheard, Signal, CloseChan, Exit,
          dispatcher, SlipInv, Committed
    <2>4. UNCHANGED allVars => UNCHANGED vars
      BY DEF allVars
    <2> QED
      BY <2>1, <2>2, <2>3, <2>4, LifeSteps
  <1>3. SlipInv => AtMostOneSlips
    BY DEF SlipInv, AtMostOneSlips
  <1> QED
    BY <1>1, <1>2, <1>3, LifeIsInvariant, PTL DEF LifeSpec

(* Nor is a verdict lost to a crash or taken back by an answer that an earlier
   process was given: a status that is final outlives the process. *)
THEOREM VerdictsThroughRestarts == LifeSpec => VerdictsStay
  <1>1. LifeInv /\ [LifeNext]_allVars
          => [\A o \in Orders : orders[o] \in Final => orders'[o] = orders[o]]_vars
    <2> SUFFICES ASSUME LifeInv, [LifeNext]_allVars, NEW o \in Orders,
                        orders[o] \in Final
                 PROVE  orders'[o] = orders[o]
      OBVIOUS
    <2>1. CASE [Next \/ WindDown]_vars
      BY <2>1, VerdictStep DEF LifeInv
    <2>2. CASE Interrupt
      <3>1. orders[o] # "absent"
        BY DEF Final
      <3>2. CASE SaveUnheard(o) \/ \E p \in Orders \ {o} : SaveUnheard(p)
        BY <3>1, <3>2 DEF SaveUnheard, LifeInv, WorkerInv, UploadsInv
      <3>3. CASE ~\E p \in Orders : SaveUnheard(p)
        BY <2>2, <3>3
        DEF Interrupt, SendPanics, Signal, CloseChan, Exit, Start, uploads
      <3> QED
        BY <3>2, <3>3
    <2>3. UNCHANGED allVars => UNCHANGED vars
      BY DEF allVars
    <2> QED
      BY <2>1, <2>2, <2>3, LifeSteps
  <1> QED
    BY <1>1, LifeIsInvariant, PTL DEF LifeSpec, VerdictsStay
=============================================================================
