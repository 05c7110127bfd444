------------------------------ MODULE Lifecycle ------------------------------
(***************************************************************************)
(* The life of one gophermart process around its accrual worker: main.go's *)
(* graceful shutdown, the HTTP handlers that are still running meanwhile   *)
(* and the connections they hold, crashes, and the next start on the same  *)
(* database.                                                               *)
(***************************************************************************)
EXTENDS AccrualWorker

CONSTANTS MaxStarts \* starts of the process; a bound

ASSUME LifecycleAssumption == MaxStarts \in Nat \ {0}

VARIABLES
    main,      \* the control of main
    inflight,  \* uploads whose handler has not acquired a connection yet
    connected, \* uploads whose INSERT runs on a connection of the pool
    starts     \* how often the process was started

handlers == <<inflight, connected>>
lifecycle == <<main, handlers, starts>>
allVars == <<vars, lifecycle>>
-----------------------------------------------------------------------------
LifeInit ==
    /\ Init
    /\ main = "serving"
    /\ inflight = {} /\ connected = {}
    /\ starts = 1

Alive == main # "down"
Running == inflight \union connected \union sending

(* The server accepts a request only until Shutdown was called. *)
Request(o) ==
    /\ main = "serving"
    /\ orders[o] = "absent" /\ o \notin inflight \union connected
    /\ inflight' = inflight \union {o}
    /\ UNCHANGED <<vars, main, connected, starts>>

(* The handler ends without a database call: the request is not good enough,
   or the pool has no connection for it, since it is closed or the context of
   the request is done. *)
Reject(o) ==
    /\ Alive /\ o \in inflight
    /\ inflight' = inflight \ {o}
    /\ UNCHANGED <<vars, main, connected, starts>>

(* Exec acquires a connection, which a closed pool refuses. *)
Acquire(o) ==
    /\ Alive /\ main # "draining"
    /\ o \in inflight
    /\ inflight' = inflight \ {o}
    /\ connected' = connected \union {o}
    /\ UNCHANGED <<vars, main, starts>>

Release(o) ==
    /\ Alive /\ o \in connected
    /\ connected' = connected \ {o}
    /\ UNCHANGED <<main, inflight, starts>>

Save(o) == Insert(o) /\ Release(o)

SaveFails(o) == Release(o) /\ UNCHANGED vars

(* The row is stored and its answer is lost: the handler answers 500 and the
   order is not sent to the worker. *)
SaveUnheard(o) ==
    /\ Release(o)
    /\ orders[o] = "absent"
    /\ orders' = [orders EXCEPT ![o] = "NEW"]
    /\ arrived' = Append(arrived, o)
    /\ UNCHANGED <<sending, chan, remote, process, ban, dispatcher, calls,
                   slipped>>

DatabaseCall(o) == Save(o) \/ SaveFails(o) \/ SaveUnheard(o)

Hand(o) == Alive /\ Send(o) /\ UNCHANGED lifecycle

(* A send on a closed channel panics, in a select too; RecoveryMiddleware
   answers 500.  The order is already stored. *)
SendPanics(o) ==
    /\ Alive /\ o \in sending
    /\ chanClosed
    /\ sending' = sending \ {o}
    /\ UNCHANGED <<orders, arrived, chan, remote, process, ban, dispatcher,
                   calls, slipped, lifecycle>>

(* SIGTERM, or an error of the server: groupCtx is done at once.  The last
   process of a behaviour is neither stopped nor crashed. *)
Signal ==
    /\ main = "serving"
    /\ starts < MaxStarts
    /\ ctxDone' = TRUE
    /\ main' = "stopping"
    /\ UNCHANGED <<uploads, remote, chanClosed, ban, dispatcher, calls,
                   slipped, handlers, starts>>

(* server.Stop returns when no request is left, or after five seconds. *)
ServerStopped ==
    /\ main = "stopping"
    /\ Running = {}
    /\ main' = "closing"
    /\ UNCHANGED <<vars, handlers, starts>>

(* A slip for the properties to catch: Shutdown without a deadline. *)
NoDeadline == FALSE

StopTimesOut ==
    /\ main = "stopping"
    /\ Running # {}
    /\ main' = "closing"
    /\ UNCHANGED <<vars, handlers, starts>>

CloseChan ==
    /\ main = "closing"
    /\ chanClosed' = TRUE
    /\ main' = "waiting"
    /\ UNCHANGED <<uploads, remote, ctxDone, ban, dispatcher, calls, slipped,
                   handlers, starts>>

(* eg.Wait returns with the worker, and main reaches its deferred
   pool.Close: no connection is handed out any more. *)
WorkerDone ==
    /\ main = "waiting"
    /\ pc = "stopped"
    /\ main' = "draining"
    /\ UNCHANGED <<vars, handlers, starts>>

(* What a process keeps in memory is gone with it. *)
Exit ==
    /\ main' = "down"
    /\ inflight' = {} /\ connected' = {}
    /\ sending' = {}
    /\ UNCHANGED <<orders, arrived, chan, remote, process, ban, dispatcher,
                   calls, slipped, starts>>

(* pool.Close returns, and main with it, when every connection is back.  It
   has no deadline; a handler that holds none is not waited for. *)
PoolClosed == main = "draining" /\ connected = {} /\ Exit

Crash == Alive /\ starts < MaxStarts /\ Exit

(* The next start: everything but the database begins anew. *)
Start ==
    /\ main = "down"
    /\ starts < MaxStarts
    /\ starts' = starts + 1
    /\ main' = "serving"
    /\ chan' = << >>
    /\ chanClosed' = FALSE
    /\ ctxDone' = FALSE
    /\ ban' = 0
    /\ tick' = FALSE
    /\ pc' = "top"
    /\ armed' = FALSE
    /\ held' = {}
    /\ scan' = << >>
    /\ lane' = [l \in Lanes |-> NoCall]
    /\ processing' = {}
    /\ slipped' = 0
    /\ UNCHANGED <<orders, arrived, sending, remote, handlers>>

Shutdown ==
    ServerStopped \/ StopTimesOut \/ CloseChan \/ WorkerDone \/ PoolClosed

Handlers ==
    \E o \in Orders :
        \/ Request(o) \/ Reject(o) \/ Acquire(o)
        \/ DatabaseCall(o) \/ Hand(o) \/ SendPanics(o)

Outside ==
    /\ \/ \E o \in Orders : Advance(o) \/ OtherPod(o)
       \/ Alive /\ (Second \/ TickerFires)
    /\ UNCHANGED lifecycle

Worker ==
    /\ Alive
    /\ Dispatch \/ WindDown \/ \E l \in Lanes : Process(l)
    /\ UNCHANGED lifecycle

LifeNext ==
    \/ Handlers \/ Outside \/ Worker
    \/ Signal \/ Shutdown \/ Crash \/ Start

LifeSpec == LifeInit /\ [][LifeNext]_allVars

(* The fairness of AccrualWorker while the process is up; a select that is
   reached again and again takes the done context in the end, a database call
   returns, main goes through its shutdown, and a process that is down is
   started again.  A handler outside of the database may hang for ever. *)
LifeFairness ==
    /\ WF_allVars(Worker)
    /\ WF_allVars(Alive /\ Second /\ UNCHANGED lifecycle)
    /\ WF_allVars(Alive /\ TickerFires /\ UNCHANGED lifecycle)
    /\ \A l \in Lanes : WF_allVars(Alive /\ Process(l) /\ UNCHANGED lifecycle)
    /\ \A o \in Orders :
         /\ WF_allVars(Advance(o) /\ UNCHANGED lifecycle)
         /\ WF_allVars(DatabaseCall(o))
         /\ WF_allVars(Hand(o) \/ SendPanics(o))
    /\ SF_allVars(Alive /\ Fetch /\ pc' = "scan" /\ UNCHANGED lifecycle)
    /\ SF_allVars(Alive /\ (\E l \in Lanes : Answer(l)) /\ UNCHANGED lifecycle)
    /\ SF_allVars(Alive /\ (\E l \in Lanes : Applies(l)) /\ UNCHANGED lifecycle)
    /\ SF_allVars(Alive /\ SelectDone /\ UNCHANGED lifecycle)
    /\ WF_allVars(Shutdown)
    /\ WF_allVars(Start)

LifeFairSpec == LifeSpec /\ LifeFairness
-----------------------------------------------------------------------------
LifeTypeOK ==
    /\ WorkerTypeOK
    /\ main \in {"serving", "stopping", "closing", "waiting", "draining",
                 "down"}
    /\ inflight \subseteq Orders /\ connected \subseteq Orders
    /\ starts \in 1 .. MaxStarts

(* Start returns only when none of the calls of ProcessOrder it began is
   running: the pool that main closes next is not taken away from one.  (A
   handler that outlived Shutdown's deadline may still be at the database.) *)
NoCallOutlivesStart ==
    pc = "stopped" => \A l \in Lanes : lane[l] = NoCall

(* A graceful shutdown ends: the dispatcher comes to see that it is over, the
   calls that Start waits for end, a handler that hangs before or after its
   database call is left behind when the deadline is over, and pool.Close gets
   back what the others still hold as soon as their calls return. *)
ShutdownEnds == main = "stopping" ~> main = "down"
=============================================================================
