------------------------- MODULE AccrualWorkerProofs -------------------------
(***************************************************************************)
(* Proofs about AccrualWorker, for every set of orders, every capacity of  *)
(* the channel and every number of goroutines.  What is proved of a step   *)
(* is proved of the dispatcher's ways out too, for LifecycleProofs.        *)
(***************************************************************************)
EXTENDS AccrualWorker, SequenceTheorems, SumProofs, TLAPS

(* Sequences and the sets of their members. *)
LEMMA ToSetOfAppend ==
    ASSUME NEW S, NEW s \in Seq(S), NEW e \in S
    PROVE  ToSet(Append(s, e)) = ToSet(s) \union {e}
  <1>1. /\ Append(s, e) \in Seq(S)
        /\ Len(Append(s, e)) = Len(s) + 1
        /\ \A i \in 1 .. Len(s) : Append(s, e)[i] = s[i]
        /\ Append(s, e)[Len(s) + 1] = e
    BY AppendProperties
  <1>2. DOMAIN s = 1 .. Len(s) /\ Len(s) \in Nat
    OBVIOUS
  <1>3. DOMAIN Append(s, e) = 1 .. Len(s) + 1
    BY <1>1
  <1> QED
    BY <1>1, <1>2, <1>3 DEF ToSet

LEMMA ToSetOfTail ==
    ASSUME NEW S, NEW s \in Seq(S), s # << >>
    PROVE  /\ Head(s) \in S /\ Head(s) \in ToSet(s)
           /\ Tail(s) \in Seq(S) /\ Len(Tail(s)) = Len(s) - 1
           /\ ToSet(Tail(s)) \subseteq ToSet(s)
  <1>1. /\ Head(s) \in S
        /\ Tail(s) \in Seq(S)
        /\ Len(Tail(s)) = Len(s) - 1
        /\ \A i \in 1 .. Len(Tail(s)) : Tail(s)[i] = s[i + 1]
    BY HeadTailProperties
  <1>2. Head(s) = s[1] /\ 1 \in DOMAIN s
    OBVIOUS
  <1>3. \A i \in DOMAIN Tail(s) : Tail(s)[i] = s[i + 1] /\ i + 1 \in DOMAIN s
    BY <1>1
  <1> QED
    BY <1>1, <1>2, <1>3 DEF ToSet

LEMMA ToSetInRange ==
    ASSUME NEW S, NEW s \in Seq(S)
    PROVE  ToSet(s) \subseteq S /\ ToSet(<< >>) = {}
  BY DEF ToSet

LEMMA AppendNew ==
    ASSUME NEW S, NEW s \in Seq(S), NEW e \in S, IsInjective(s), e \notin ToSet(s)
    PROVE  IsInjective(Append(s, e))
  <1>1. /\ Append(s, e) \in Seq(S)
        /\ Len(Append(s, e)) = Len(s) + 1
        /\ \A i \in 1 .. Len(s) : Append(s, e)[i] = s[i]
        /\ Append(s, e)[Len(s) + 1] = e
    BY AppendProperties
  <1>2. DOMAIN s = 1 .. Len(s) /\ Len(s) \in Nat
    OBVIOUS
  <1>3. DOMAIN Append(s, e) = 1 .. Len(s) + 1
    BY <1>1
  <1>4. \A i \in 1 .. Len(s) : s[i] # e
    BY <1>2 DEF ToSet
  <1> QED
    BY <1>1, <1>2, <1>3, <1>4 DEF IsInjective

(* The ticker's list of the places it wants: it exists, and so Listing is it. *)
LEMMA ListingIs ==
    ASSUME arrived \in Seq(Orders), NEW places, places \subseteq DOMAIN arrived
    PROVE  /\ Listing(places) \in Seq(places)
           /\ ToSet(Listing(places)) = places
           /\ \A i, j \in DOMAIN Listing(places) :
                 i < j => Listing(places)[i] < Listing(places)[j]
  <1> DEFINE Total == Len(arrived)
             Ordered(list) ==
               \A i, j \in DOMAIN list : i < j => list[i] < list[j]
             Upto(n) ==
               \E m \in 0 .. n : \E list \in [1 .. m -> places] :
                 ToSet(list) = places \intersect (1 .. n) /\ Ordered(list)
             Missing == {n \in 0 .. Total : ~Upto(n)}
  <1>1. Total \in Nat /\ places \subseteq 1 .. Total
    OBVIOUS
  <1>2. Upto(0)
    <2>1. << >> \in [1 .. 0 -> places]
      OBVIOUS
    <2>2. ToSet(<< >>) = places \intersect (1 .. 0) /\ Ordered(<< >>)
      BY DEF ToSet
    <2> HIDE DEF Ordered
    <2>3. \E list \in [1 .. 0 -> places] :
             ToSet(list) = places \intersect (1 .. 0) /\ Ordered(list)
      BY <2>1, <2>2, Zenon
    <2>4. 0 \in 0 .. 0
      OBVIOUS
    <2> QED
      BY <2>3, <2>4, Zenon
  <1>3. ASSUME NEW n \in 1 .. Total, Upto(n - 1)
        PROVE  Upto(n)
    <2>0. PICK m \in 0 .. n - 1 : \E list \in [1 .. m -> places] :
             ToSet(list) = places \intersect (1 .. n - 1) /\ Ordered(list)
      BY <1>3
    <2>1. PICK list \in [1 .. m -> places] :
             ToSet(list) = places \intersect (1 .. n - 1) /\ Ordered(list)
      BY <2>0
    <2>2. CASE n \notin places
      <3>1. places \intersect (1 .. n) = places \intersect (1 .. n - 1)
        BY <1>1, <2>2
      <3> QED
        BY <2>1, <3>1
    <2>3. CASE n \in places
      <3> DEFINE longer == [i \in 1 .. m + 1 |-> IF i = m + 1 THEN n ELSE list[i]]
      <3>1. longer \in [1 .. m + 1 -> places]
        BY <2>3
      <3>2. \A i \in 1 .. m : list[i] \in ToSet(list)
        BY DEF ToSet
      <3>3. \A i \in 1 .. m : list[i] \in 1 .. n - 1
        BY <2>1, <3>2
      <3>4. Ordered(longer)
        BY <2>1, <3>3
      <3>5. ToSet(longer) = ToSet(list) \union {n}
        <4>1. \A i \in 1 .. m : longer[i] = list[i]
          OBVIOUS
        <4>2. longer[m + 1] = n
          OBVIOUS
        <4>3. DOMAIN list = 1 .. m /\ DOMAIN longer = (1 .. m) \union {m + 1}
          OBVIOUS
        <4> HIDE DEF longer
        <4> QED
          BY <4>1, <4>2, <4>3 DEF ToSet
      <3>6. places \intersect (1 .. n) = (places \intersect (1 .. n - 1)) \union {n}
        BY <1>1, <2>3
      <3>7. m + 1 \in 0 .. n
        OBVIOUS
      <3>8. ToSet(longer) = places \intersect (1 .. n)
        BY <2>1, <3>5, <3>6
      <3> HIDE DEF longer, Ordered
      <3> QED
        BY <3>1, <3>4, <3>7, <3>8
    <2> QED
      BY <2>2, <2>3
  <1>4. Missing = {}
    <2> SUFFICES ASSUME Missing # {} PROVE FALSE
      OBVIOUS
    <2> HIDE DEF Upto
    <2>1. PICK n \in Missing : \A k \in Missing : ~(k < n)
      BY LeastNumber, Missing \subseteq Nat
    <2>2. n # 0 /\ n \in 1 .. Total
      BY <1>1, <1>2
    <2>3. n - 1 \in 0 .. Total /\ n - 1 \notin Missing
      BY <2>1, <2>2
    <2> QED
      BY <1>3, <2>2, <2>3
  <1>5. Upto(Total)
    <2> HIDE DEF Upto
    <2> QED
      BY <1>1, <1>4
  <1>6. \E m \in 0 .. Total : \E list \in [1 .. m -> places] :
           ToSet(list) = places /\ Ordered(list)
    BY <1>1, <1>5
  <1>7. /\ Listing(places) \in UNION {[1 .. n -> places] : n \in 0 .. Total}
        /\ ToSet(Listing(places)) = places
        /\ Ordered(Listing(places))
    BY <1>6 DEF Listing
  <1> QED
    BY <1>7

LEMMA UnprocessedIs ==
    ASSUME arrived \in Seq(Orders), orders \in [Orders -> Statuses \union {"absent"}],
           ToSet(arrived) = {o \in Orders : orders[o] # "absent"}
    PROVE  /\ Unprocessed \in Seq(Copy)
           /\ \A copy \in ToSet(Unprocessed) : orders[copy.order] # "absent"
  <1> DEFINE open == {i \in DOMAIN arrived : orders[arrived[i]] \notin Final}
             list == Listing(open)
             copyAt(i) == [order |-> arrived[list[i]],
                           status |-> orders[arrived[list[i]]]]
  <1>1. list \in Seq(open)
    BY ListingIs, open \subseteq DOMAIN arrived
  <1>2. \A i \in DOMAIN list : list[i] \in open
    BY <1>1
  <1>3. \A i \in DOMAIN list :
           arrived[list[i]] \in Orders /\ orders[arrived[list[i]]] \in Statuses
    <2> TAKE i \in DOMAIN list
    <2>1. list[i] \in DOMAIN arrived
      BY <1>2
    <2>2. arrived[list[i]] \in ToSet(arrived)
      BY <2>1 DEF ToSet
    <2> QED
      BY <2>2
  <1>4. Unprocessed = [i \in DOMAIN list |-> copyAt(i)]
    BY DEF Unprocessed
  <1>5. DOMAIN list = 1 .. Len(list) /\ Len(list) \in Nat
    BY <1>1
  <1>6. \A i \in DOMAIN list : copyAt(i) \in Copy
    BY <1>3 DEF Copy
  <1> HIDE DEF list
  <1>7. Unprocessed \in Seq(Copy)
    BY <1>4, <1>5, <1>6
  <1>8. \A copy \in ToSet(Unprocessed) : \E i \in DOMAIN list : copy = copyAt(i)
    BY <1>4 DEF ToSet
  <1>9. \A i \in DOMAIN list : orders[copyAt(i).order] # "absent"
    BY <1>3 DEF Statuses, Final
  <1> QED
    BY <1>7, <1>8, <1>9
-----------------------------------------------------------------------------
(* What calls are made of. *)
LEMMA CallFields ==
    ASSUME NEW c \in Calls
    PROVE  /\ c.at \in {"begin", "request", "sync", "unlock", "unwind"}
           /\ c # NoCall
           /\ c.of \in Copy /\ c.of.order \in Orders /\ c.of.status \in Statuses
           /\ c.at = "sync" => c.answer \in DOMAIN Rank \union {"429"}
           /\ c.at = "sync" /\ c.answer = "429" => c.ban \in Nat
           /\ c.at = "begin" => c = [at |-> "begin", of |-> c.of]
  BY DEF Calls, NoCall, Copy, Rank

LEMMA CallMade ==
    ASSUME NEW copy \in Copy
    PROVE  /\ \A at \in {"begin", "request", "unlock", "unwind"} :
                [at |-> at, of |-> copy] \in Calls
           /\ \A a \in DOMAIN Rank :
                [at |-> "sync", of |-> copy, answer |-> a] \in Calls
           /\ \A b \in Nat :
                [at |-> "sync", of |-> copy, answer |-> "429", ban |-> b] \in Calls
  BY DEF Calls

LEMMA NoCallIsNot ==
    /\ NoCall.at = "none"
    /\ NoCall \notin Calls
  BY DEF Calls, NoCall
-----------------------------------------------------------------------------
(* The inductive invariant behind WorkerTypeOK.  An order is only ever held,
   listed or processed after its row was inserted: an answer that is applied
   never makes a row of an order nobody uploaded. *)
OnlyUploaded ==
    /\ \A copy \in held \union ToSet(scan) : orders[copy.order] # "absent"
    /\ \A l \in Lanes : lane[l] # NoCall => orders[lane[l].of.order] # "absent"

UploadsInv ==
    /\ orders \in [Orders -> Statuses \union {"absent"}]
    /\ arrived \in Seq(Orders) /\ IsInjective(arrived)
    /\ ToSet(arrived) = {o \in Orders : orders[o] # "absent"}
    /\ sending \subseteq ToSet(arrived)
    /\ chan \in Seq(Orders) /\ ToSet(chan) \subseteq ToSet(arrived) \ sending
    /\ Len(chan) <= Capacity

DispatcherInv ==
    /\ tick \in BOOLEAN /\ armed \in BOOLEAN
    /\ pc \in {"top", "select", "wait", "fetch", "scan", "scan_wait",
               "scan_call", "drain", "stopped"}
    /\ held \subseteq Copy
    /\ scan \in Seq(Copy)
    /\ pc = "scan_wait" => scan # << >>

WorldInv ==
    /\ remote \in [Orders -> DOMAIN Rank]
    /\ chanClosed \in BOOLEAN /\ ctxDone \in BOOLEAN
    /\ ban \in Nat /\ slipped \in Nat

CallsInv ==
    /\ lane \in [Lanes -> Calls \union {NoCall}]
    /\ processing \subseteq Orders

WorkerInv == UploadsInv /\ DispatcherInv /\ WorldInv /\ CallsInv /\ OnlyUploaded

LEMMA WorkerInvTypes == WorkerInv => WorkerTypeOK
  BY ToSetInRange
  DEF WorkerInv, UploadsInv, DispatcherInv, WorldInv, CallsInv, WorkerTypeOK

LEMMA WorkerStarts == Init => WorkerInv
  <1> SUFFICES ASSUME Init PROVE WorkerInv
    OBVIOUS
  <1> USE WorkerAssumption DEF Init
  <1>1. << >> \in Seq(Orders) /\ << >> \in Seq(Copy) /\ IsInjective(<< >>)
    BY DEF IsInjective
  <1>2. ToSet(arrived) = {} /\ ToSet(chan) = {} /\ ToSet(scan) = {}
    BY DEF ToSet
  <1>3. UploadsInv
    BY <1>1, <1>2 DEF UploadsInv
  <1>4. DispatcherInv
    BY <1>1 DEF DispatcherInv
  <1>5. WorldInv
    BY DEF WorldInv, Rank
  <1>6. CallsInv /\ OnlyUploaded
    BY <1>2 DEF CallsInv, OnlyUploaded
  <1> QED
    BY <1>3, <1>4, <1>5, <1>6 DEF WorkerInv

(* Rows are inserted and updated, and none is deleted. *)
RowsStay == \A o \in Orders : orders[o] # "absent" => orders'[o] # "absent"

(* What a step leaves of OnlyUploaded when it starts no call. *)
LEMMA UploadedStay ==
    ASSUME WorkerInv, RowsStay,
           held' \union ToSet(scan') \subseteq held \union ToSet(scan),
           \A l \in Lanes : lane'[l] # NoCall =>
              lane[l] # NoCall /\ lane'[l].of = lane[l].of
    PROVE  OnlyUploaded'
  <1> USE DEF WorkerInv, RowsStay
  <1>1. \A copy \in held \union ToSet(scan) : copy.order \in Orders
    <2>1. held \union ToSet(scan) \subseteq Copy
      BY ToSetInRange DEF DispatcherInv
    <2> QED
      BY <2>1 DEF Copy
  <1>2. \A l \in Lanes : lane[l] # NoCall => lane[l].of.order \in Orders
    BY CallFields DEF CallsInv
  <1> QED
    BY <1>1, <1>2 DEF OnlyUploaded

LEMMA InsertKeeps ==
    ASSUME WorkerInv, NEW o \in Orders, Insert(o)
    PROVE  WorkerInv'
  <1> USE DEF WorkerInv, Insert, process, dispatcher, calls
  <1>1. o \notin ToSet(arrived)
    BY DEF UploadsInv
  <1>2. arrived' \in Seq(Orders) /\ IsInjective(arrived')
    BY <1>1, AppendNew, AppendProperties DEF UploadsInv
  <1>3. ToSet(arrived') = ToSet(arrived) \union {o}
    BY ToSetOfAppend DEF UploadsInv
  <1>4. ToSet(arrived') = {p \in Orders : orders'[p] # "absent"}
    BY <1>3 DEF UploadsInv
  <1>5. ToSet(chan) \subseteq ToSet(arrived') \ sending'
    BY <1>1, <1>3 DEF UploadsInv
  <1>6. UploadsInv'
    BY <1>2, <1>3, <1>4, <1>5 DEF UploadsInv, Statuses
  <1>7. DispatcherInv' /\ WorldInv' /\ CallsInv'
    BY DEF DispatcherInv, WorldInv, CallsInv
  <1>8. RowsStay
    BY DEF RowsStay, UploadsInv
  <1>9. OnlyUploaded'
    BY <1>8, UploadedStay
  <1> QED
    BY <1>6, <1>7, <1>9

LEMMA SendKeeps ==
    ASSUME WorkerInv, NEW o \in Orders, Send(o)
    PROVE  WorkerInv'
  <1> USE DEF WorkerInv, Send, process, dispatcher, calls
  <1>1. UploadsInv'
    <2>1. CASE Len(chan) < Capacity
      <3>1. ToSet(chan') = ToSet(chan) \union {o}
        BY <2>1, ToSetOfAppend DEF UploadsInv
      <3>2. chan' \in Seq(Orders) /\ Len(chan') = Len(chan) + 1
        BY <2>1, AppendProperties DEF UploadsInv
      <3>3. ToSet(chan') \subseteq ToSet(arrived) \ sending'
        BY <3>1 DEF UploadsInv
      <3>4. Len(chan') <= Capacity
        BY <2>1, <3>2, WorkerAssumption DEF UploadsInv
      <3> QED
        BY <3>2, <3>3, <3>4 DEF UploadsInv
    <2>2. CASE ~(Len(chan) < Capacity)
      BY <2>2 DEF UploadsInv
    <2> QED
      BY <2>1, <2>2
  <1>2. DispatcherInv' /\ WorldInv' /\ CallsInv'
    BY DEF DispatcherInv, WorldInv, CallsInv
  <1>3. OnlyUploaded'
    BY UploadedStay DEF RowsStay
  <1> QED
    BY <1>1, <1>2, <1>3

LEMMA OtherPodKeeps ==
    ASSUME WorkerInv, NEW o \in Orders, OtherPod(o)
    PROVE  WorkerInv'
  <1> USE DEF WorkerInv, OtherPod, process, dispatcher, calls
  <1>1. orders' \in [Orders -> Statuses \union {"absent"}]
    BY DEF UploadsInv, Statuses
  <1>2. \A p \in Orders : orders'[p] = "absent" <=> orders[p] = "absent"
    BY DEF UploadsInv, Final
  <1>3. UploadsInv'
    BY <1>1, <1>2 DEF UploadsInv
  <1>4. DispatcherInv' /\ WorldInv' /\ CallsInv'
    BY DEF DispatcherInv, WorldInv, CallsInv
  <1>5. OnlyUploaded'
    BY <1>2, UploadedStay DEF RowsStay
  <1> QED
    BY <1>3, <1>4, <1>5

(* The steps of the world that leave the rows alone. *)
LEMMA WorldKeeps ==
    ASSUME WorkerInv, Second \/ TickerFires \/ \E o \in Orders : Advance(o)
    PROVE  WorkerInv'
  <1> USE DEF WorkerInv, Second, TickerFires, Advance, uploads, process,
              dispatcher, calls
  <1>1. UploadsInv'
    BY DEF UploadsInv
  <1>2. DispatcherInv' /\ CallsInv'
    BY DEF DispatcherInv, CallsInv
  <1>3. WorldInv'
    BY WorkerAssumption DEF WorldInv
  <1>4. OnlyUploaded'
    BY UploadedStay DEF RowsStay
  <1> QED
    BY <1>1, <1>2, <1>3, <1>4
-----------------------------------------------------------------------------
(* The dispatcher's steps that neither read an order nor begin a call. *)
LEMMA DispatcherMoves ==
    ASSUME WorkerInv,
           \/ Top \/ SelectTick \/ ScanEnds \/ ScanNext \/ ScanReturns
           \/ WindDown
    PROVE  WorkerInv'
  <1> USE DEF WorkerInv, Top, SelectTick, ScanEnds, ScanNext, ScanReturns,
              WindDown, SelectDone, SelectClosed, WaitFails, ScanWaitFails,
              Stop, GoTo, uploads, process, calls
  <1>1. UploadsInv' /\ CallsInv'
    BY DEF UploadsInv, CallsInv
  <1>2. DispatcherInv'
    <2>1. armed' \in BOOLEAN
      <3>1. CASE Top
        BY <3>1, Zenon
      <3>2. CASE ~Top
        BY <3>2 DEF DispatcherInv
      <3> QED
        BY <3>1, <3>2
    <2>2. tick' \in BOOLEAN
      BY DEF DispatcherInv
    <2>3. /\ pc' \in {"top", "select", "wait", "fetch", "scan", "scan_wait",
                      "scan_call", "drain", "stopped"}
          /\ pc' = "scan_wait" => scan' # << >>
      BY DEF DispatcherInv
    <2>4. (held' = held \/ held' = {}) /\ (scan' = scan \/ scan' = << >>)
      OBVIOUS
    <2>5. << >> \in Seq(Copy)
      OBVIOUS
    <2>6. held' \subseteq Copy /\ scan' \in Seq(Copy)
      BY <2>4, <2>5 DEF DispatcherInv
    <2> QED
      BY <2>1, <2>2, <2>3, <2>6 DEF DispatcherInv
  <1>3. WorldInv'
    BY DEF WorldInv
  <1>4. held' \subseteq held /\ ToSet(scan') \subseteq ToSet(scan)
    <2>1. ToSet(<< >>) = {} /\ (scan' = scan \/ scan' = << >>)
      BY DEF ToSet
    <2> QED
      BY <2>1
  <1>5. OnlyUploaded'
    BY <1>4, UploadedStay DEF RowsStay
  <1> QED
    BY <1>1, <1>2, <1>3, <1>5

LEMMA SelectOrderKeeps ==
    ASSUME WorkerInv, SelectOrder
    PROVE  WorkerInv'
  <1> USE DEF WorkerInv, SelectOrder, process, calls
  <1>1. /\ Head(chan) \in Orders /\ Head(chan) \in ToSet(chan)
        /\ chan' \in Seq(Orders) /\ Len(chan') = Len(chan) - 1
        /\ ToSet(chan') \subseteq ToSet(chan)
    BY ToSetOfTail DEF UploadsInv
  <1>2. orders[Head(chan)] # "absent"
    BY <1>1 DEF UploadsInv
  <1>3. UploadsInv'
    BY <1>1, WorkerAssumption DEF UploadsInv
  <1>4. DispatcherInv'
    BY <1>1 DEF DispatcherInv, Copy, Statuses
  <1>5. WorldInv' /\ CallsInv'
    BY DEF WorldInv, CallsInv
  <1>6. OnlyUploaded'
    BY <1>2 DEF OnlyUploaded
  <1> QED
    BY <1>3, <1>4, <1>5, <1>6

LEMMA FetchKeeps ==
    ASSUME WorkerInv, Fetch
    PROVE  WorkerInv'
  <1> USE DEF WorkerInv, Fetch, uploads, process, calls
  <1>1. scan' \in Seq(Copy) /\ \A copy \in ToSet(scan') : orders[copy.order] # "absent"
    <2>1. CASE scan' = Unprocessed
      BY <2>1, UnprocessedIs DEF UploadsInv
    <2>2. CASE scan' = << >>
      BY <2>2 DEF ToSet
    <2> QED
      BY <2>1, <2>2
  <1>2. UploadsInv' /\ WorldInv' /\ CallsInv'
    BY DEF UploadsInv, WorldInv, CallsInv
  <1>3. DispatcherInv'
    BY <1>1 DEF DispatcherInv
  <1>4. OnlyUploaded'
    BY <1>1 DEF OnlyUploaded
  <1> QED
    BY <1>2, <1>3, <1>4

(* A call that begins for an uploaded order. *)
LEMMA CallKeeps ==
    ASSUME WorkerInv, NEW l \in Lanes, NEW copy \in Copy, Call(l, copy),
           orders[copy.order] # "absent", UNCHANGED orders,
           held' \union ToSet(scan') \subseteq held \union ToSet(scan)
    PROVE  CallsInv' /\ OnlyUploaded' /\ slipped' \in Nat
  <1> USE DEF WorkerInv, Call
  <1> DEFINE new == [at |-> "begin", of |-> copy]
  <1>1. new \in Calls /\ new.of = copy
    BY CallMade
  <1>2. lane' \in [Lanes -> Calls \union {NoCall}] /\ lane'[l] = new
        /\ \A m \in Lanes \ {l} : lane'[m] = lane[m]
    BY <1>1 DEF CallsInv
  <1> HIDE DEF new
  <1>3. CallsInv'
    BY <1>2 DEF CallsInv, Call
  <1>4. slipped' \in Nat
    BY DEF WorldInv
  <1>5. OnlyUploaded'
    BY <1>1, <1>2 DEF OnlyUploaded
  <1> QED
    BY <1>3, <1>4, <1>5

LEMMA SpawnKeeps ==
    ASSUME WorkerInv, Spawn
    PROVE  WorkerInv'
  <1> USE DEF WorkerInv, Spawn, uploads, process
  <1>1. PICK l \in Slots, copy \in held : Call(l, copy)
    OBVIOUS
  <1>2. l \in Lanes /\ copy \in Copy /\ orders[copy.order] # "absent"
    BY DEF Lanes, DispatcherInv, OnlyUploaded
  <1>3. CallsInv' /\ OnlyUploaded' /\ slipped' \in Nat
    BY <1>1, <1>2, CallKeeps
  <1>4. UploadsInv' /\ WorldInv'
    BY <1>3 DEF UploadsInv, WorldInv
  <1>5. DispatcherInv'
    BY DEF DispatcherInv
  <1> QED
    BY <1>3, <1>4, <1>5

LEMMA ScanCallKeeps ==
    ASSUME WorkerInv, ScanCall
    PROVE  WorkerInv'
  <1> USE DEF WorkerInv, ScanCall, uploads, process
  <1>1. /\ Head(scan) \in Copy /\ Head(scan) \in ToSet(scan)
        /\ scan' \in Seq(Copy) /\ ToSet(scan') \subseteq ToSet(scan)
    BY ToSetOfTail DEF DispatcherInv
  <1>2. orders[Head(scan).order] # "absent"
    BY <1>1 DEF OnlyUploaded
  <1>3. CallsInv' /\ OnlyUploaded' /\ slipped' \in Nat
    BY <1>1, <1>2, CallKeeps DEF Lanes
  <1>4. UploadsInv' /\ WorldInv'
    BY <1>3 DEF UploadsInv, WorldInv
  <1>5. DispatcherInv'
    BY <1>1 DEF DispatcherInv
  <1> QED
    BY <1>3, <1>4, <1>5
-----------------------------------------------------------------------------
(* What a step of a lane makes of its call: it ends it, or takes it to the
   next control point with the same copy in hand. *)
LaneStep(l, c) ==
    /\ c \in Calls \union {NoCall}
    /\ c # NoCall => c.of = lane[l].of
    /\ lane' = [lane EXCEPT ![l] = c]

LEMMA CallIsThere ==
    ASSUME CallsInv, NEW l \in Lanes,
           lane[l].at \in {"begin", "request", "sync", "unlock", "unwind"}
    PROVE  lane[l] \in Calls
  BY NoCallIsNot DEF CallsInv

LEMMA EnterStep ==
    ASSUME CallsInv, NEW l \in Lanes, Enter(l)
    PROVE  \/ /\ LaneStep(l, NoCall)
              /\ lane[l].of.order \in processing /\ UNCHANGED processing
           \/ /\ LaneStep(l, [at |-> "request", of |-> lane[l].of])
              /\ lane[l].of.order \notin processing
              /\ processing' = processing \union {lane[l].of.order}
  <1>1. lane[l] \in Calls /\ lane[l] = [at |-> "begin", of |-> lane[l].of]
    BY CallIsThere, CallFields DEF Enter
  <1>2. [lane[l] EXCEPT !.at = "request"] = [at |-> "request", of |-> lane[l].of]
    BY <1>1
  <1>3. [at |-> "request", of |-> lane[l].of] \in Calls
    BY <1>1, CallFields, CallMade
  <1>4. CASE lane[l].of.order \in processing
    BY <1>4 DEF Enter, LaneStep
  <1>5. CASE lane[l].of.order \notin processing
    <2>1. lane' = [lane EXCEPT ![l].at = "request"]
          /\ processing' = processing \union {lane[l].of.order}
      BY <1>5 DEF Enter
    <2>2. lane' = [lane EXCEPT ![l] = [at |-> "request", of |-> lane[l].of]]
      BY <1>2, <2>1 DEF CallsInv
    <2> QED
      BY <1>3, <1>5, <2>1, <2>2 DEF LaneStep
  <1> QED
    BY <1>4, <1>5

LEMMA AnswerStep ==
    ASSUME WorkerInv, NEW l \in Lanes, Answer(l) \/ Refuse(l)
    PROVE  \E c \in Calls : c.at = "sync" /\ LaneStep(l, c)
  <1> USE DEF WorkerInv
  <1>1. lane[l] \in Calls
    BY CallIsThere DEF Answer, Refuse
  <1>2. lane[l].of \in Copy /\ lane[l].of.order \in Orders
    BY <1>1, CallFields
  <1>3. CASE Answer(l)
    <2> DEFINE c == [at |-> "sync", of |-> lane[l].of,
                     answer |-> remote[lane[l].of.order]]
    <2>1. c \in Calls
      BY <1>2, CallMade DEF WorldInv
    <2>2. lane' = [lane EXCEPT ![l] = c]
      BY <1>3 DEF Answer
    <2> QED
      BY <2>1, <2>2 DEF LaneStep
  <1>4. CASE Refuse(l)
    <2>1. PICK seconds \in RetryAfter :
             lane' = [lane EXCEPT ![l] =
               [at |-> "sync", of |-> @.of, answer |-> "429",
                ban |-> BanOf(seconds)]]
      BY <1>4 DEF Refuse
    <2>2. BanOf(seconds) \in Nat
      BY WorkerAssumption DEF BanOf
    <2> DEFINE c == [at |-> "sync", of |-> lane[l].of, answer |-> "429",
                     ban |-> BanOf(seconds)]
    <2>3. c \in Calls
      BY <1>2, <2>2, CallMade
    <2> QED
      BY <2>1, <2>3 DEF LaneStep
  <1> QED
    BY <1>3, <1>4

LEMMA UnlockStep ==
    ASSUME WorkerInv, NEW l \in Lanes,
           RequestFails(l) \/ Blocks(l) \/ Applies(l) \/ SyncFails(l)
    PROVE  LaneStep(l, [at |-> "unlock", of |-> lane[l].of])
  <1>1. lane[l] \in Calls
    BY CallIsThere DEF WorkerInv, RequestFails, Blocks, Applies, SyncFails
  <1>2. [at |-> "unlock", of |-> lane[l].of] \in Calls
    BY <1>1, CallFields, CallMade
  <1>3. lane' = [lane EXCEPT ![l] = [at |-> "unlock", of |-> lane[l].of]]
    BY DEF RequestFails, Blocks, Applies, SyncFails
  <1> QED
    BY <1>2, <1>3 DEF LaneStep

LEMMA UnwindStep ==
    ASSUME WorkerInv, NEW l \in Lanes, Panic(l)
    PROVE  LaneStep(l, [at |-> "unwind", of |-> lane[l].of])
  <1>1. lane[l] \in Calls
    BY CallIsThere DEF WorkerInv, Panic
  <1>2. [at |-> "unwind", of |-> lane[l].of] \in Calls
    BY <1>1, CallFields, CallMade
  <1> QED
    BY <1>2 DEF LaneStep, Panic

LEMMA EndStep ==
    ASSUME WorkerInv, NEW l \in Lanes, Leave(l) \/ Recover(l)
    PROVE  LaneStep(l, NoCall) /\ processing' = processing \ {lane[l].of.order}
  BY DEF LaneStep, Leave, Recover

LEMMA AnyStep ==
    ASSUME WorkerInv, NEW l \in Lanes, Process(l)
    PROVE  /\ \E c : LaneStep(l, c)
           /\ lane[l] \in Calls
           /\ processing' \subseteq processing \union {lane[l].of.order}
  <1>1. lane[l] \in Calls
    BY CallIsThere
    DEF WorkerInv, Process, Enter, Answer, Refuse, RequestFails, Blocks,
        Applies, SyncFails, Leave, Panic, Recover
  <1>2. \E c : LaneStep(l, c)
    BY EnterStep, AnswerStep, UnlockStep, UnwindStep, EndStep
    DEF WorkerInv, Process
  <1>3. processing' \subseteq processing \union {lane[l].of.order}
    BY DEF Process, Enter, Answer, Refuse, RequestFails, Blocks,
           Applies, SyncFails, Leave, Panic, Recover
  <1> QED
    BY <1>1, <1>2, <1>3

(* syncOrderStatus writes the row of an uploaded order, and a status. *)
LEMMA AppliedRow ==
    ASSUME WorkerInv, NEW l \in Lanes, Applies(l)
    PROVE  /\ orders' \in [Orders -> Statuses \union {"absent"}]
           /\ \A p \in Orders : /\ orders'[p] = "absent" <=> orders[p] = "absent"
                                /\ orders[p] \in Final => orders'[p] = orders[p]
  <1> USE DEF WorkerInv
  <1>1. lane[l] \in Calls
    BY CallIsThere DEF Applies
  <1> DEFINE o == lane[l].of.order
             a == lane[l].answer
  <1>2. o \in Orders /\ orders[o] # "absent"
    BY <1>1, CallFields DEF OnlyUploaded
  <1>3. UNCHANGED orders \/ (SetStatus(o, a) /\ a \in {"PROCESSING"} \union Final)
    BY DEF Applies
  <1> HIDE DEF o, a
  <1> QED
    BY <1>2, <1>3 DEF SetStatus, UploadsInv, Statuses, Final

LEMMA ProcessKeeps ==
    ASSUME WorkerInv, NEW l \in Lanes, Process(l)
    PROVE  WorkerInv'
  <1> USE DEF WorkerInv
  <1>1. PICK c : LaneStep(l, c)
    BY AnyStep
  <1>2. lane[l] \in Calls /\ processing' \subseteq processing \union {lane[l].of.order}
    BY AnyStep
  <1>3. CallsInv'
    BY <1>1, <1>2, CallFields DEF CallsInv, LaneStep
  <1>4. \A m \in Lanes : lane'[m] # NoCall =>
           lane[m] # NoCall /\ lane'[m].of = lane[m].of
    BY <1>1, <1>2, CallFields DEF CallsInv, LaneStep
  <1>5. DispatcherInv' /\ UNCHANGED <<arrived, sending, chan, held, scan>>
    BY DEF DispatcherInv, Process, Enter, Answer, Refuse, RequestFails, Blocks,
           Applies, SyncFails, Leave, Panic, Recover, dispatcher, uploads
  <1>6. WorldInv'
    <2>1. CASE Blocks(l)
      <3>1. lane[l].ban \in Nat
        BY <1>2, <2>1, CallFields DEF Blocks
      <3> QED
        BY <2>1, <3>1 DEF Blocks, WorldInv, process
    <2>2. CASE ~Blocks(l)
      BY <2>2 DEF WorldInv, Process, Enter, Answer, Refuse, RequestFails,
                  Applies, SyncFails, Leave, Panic, Recover, process
    <2> QED
      BY <2>1, <2>2
  <1>7. /\ orders' \in [Orders -> Statuses \union {"absent"}]
        /\ \A p \in Orders : orders'[p] = "absent" <=> orders[p] = "absent"
    <2>1. CASE Applies(l)
      BY <2>1, AppliedRow
    <2>2. CASE ~Applies(l)
      <3>1. UNCHANGED orders
        BY <2>2 DEF Process, Enter, Answer, Refuse, RequestFails, Blocks,
                    SyncFails, Leave, Panic, Recover, uploads
      <3> QED
        BY <3>1 DEF UploadsInv
    <2> QED
      BY <2>1, <2>2
  <1>8. UploadsInv'
    BY <1>5, <1>7 DEF UploadsInv
  <1>9. OnlyUploaded'
    BY <1>4, <1>5, <1>7, UploadedStay DEF RowsStay
  <1> QED
    BY <1>3, <1>5, <1>6, <1>8, <1>9

LEMMA WorkerKeeps == WorkerInv /\ [Next \/ WindDown]_vars => WorkerInv'
  <1> SUFFICES ASSUME WorkerInv, [Next \/ WindDown]_vars PROVE WorkerInv'
    OBVIOUS
  <1>1. CASE World
    BY <1>1, InsertKeeps, SendKeeps, OtherPodKeeps, WorldKeeps DEF World
  <1>2. CASE Dispatch \/ WindDown
    BY <1>2, DispatcherMoves, SelectOrderKeeps, FetchKeeps, SpawnKeeps,
       ScanCallKeeps
    DEF Dispatch
  <1>3. CASE \E l \in Lanes : Process(l)
    BY <1>3, ProcessKeeps
  <1>4. CASE UNCHANGED vars
    BY <1>4
    DEF vars, uploads, process, dispatcher, calls, WorkerInv, UploadsInv,
        DispatcherInv, WorldInv, CallsInv, OnlyUploaded
  <1> QED
    BY <1>1, <1>2, <1>3, <1>4 DEF Next

LEMMA WorkerIsInvariant == Spec => []WorkerInv
  <1>1. WorkerInv /\ [Next]_vars => WorkerInv'
    BY WorkerKeeps
  <1> QED
    BY <1>1, WorkerStarts, PTL DEF Spec

(* Every variable of the worker keeps to its type; no row is made but by an
   upload (UploadOrder), and what is in the channel has left its handler. *)
THEOREM WorkerTyped == Spec => []WorkerTypeOK
  BY WorkerIsInvariant, WorkerInvTypes, PTL
-----------------------------------------------------------------------------
(* A verdict is never taken back. *)
LEMMA VerdictStep ==
    ASSUME WorkerInv, [Next \/ WindDown]_vars, NEW o \in Orders,
           orders[o] \in Final
    PROVE  orders'[o] = orders[o]
  <1> USE DEF WorkerInv
  <1>1. CASE \E p \in Orders : Insert(p) \/ OtherPod(p)
    BY <1>1 DEF Insert, OtherPod, UploadsInv, Final
  <1>2. CASE \E l \in Lanes : Applies(l)
    BY <1>2, AppliedRow
  <1>3. CASE ~((\E p \in Orders : Insert(p) \/ OtherPod(p))
                 \/ \E l \in Lanes : Applies(l))
    <2>1. UNCHANGED orders
      BY <1>3
      DEF Next, World, Dispatch, WindDown, Process, Send, Advance, Second,
          TickerFires, Top, SelectTick, SelectOrder, Spawn, Fetch, ScanEnds,
          ScanNext, ScanCall, ScanReturns, SelectDone, SelectClosed, WaitFails,
          ScanWaitFails, Stop, Enter, Answer, Refuse, RequestFails, Blocks,
          SyncFails, Leave, Panic, Recover, vars, uploads
    <2> QED
      BY <2>1
  <1> QED
    BY <1>1, <1>2, <1>3

(* Whatever answer a call holds and however late it applies it, whether the
   call is overtaken by another lane or by another pod, an order that is
   PROCESSED or INVALID keeps its status (UpdateOrderAndBalance's WHERE). *)
THEOREM VerdictsStayForever == Spec => VerdictsStay
  <1>1. WorkerInv /\ [Next]_vars
          => [\A o \in Orders : orders[o] \in Final => orders'[o] = orders[o]]_vars
    BY VerdictStep
  <1> QED
    BY <1>1, WorkerIsInvariant, PTL DEF Spec, VerdictsStay
-----------------------------------------------------------------------------
(* The ticker's lane is in use only while the dispatcher waits for it. *)
TickerWaits == pc # "scan_call" => lane[Ticker] = NoCall

LEMMA TickerKeeps ==
    WorkerInv /\ TickerWaits /\ [Next \/ WindDown]_vars => TickerWaits'
  <1> SUFFICES ASSUME WorkerInv, TickerWaits, [Next \/ WindDown]_vars
               PROVE  TickerWaits'
    OBVIOUS
  <1> USE DEF TickerWaits
  <1>1. CASE World
    BY <1>1 DEF World, Insert, Send, Advance, OtherPod, Second, TickerFires,
                dispatcher, calls
  <1>2. CASE Spawn
    BY <1>2, WorkerAssumption DEF Spawn, Call, WorkerInv, CallsInv, Lanes
  <1>3. CASE (Dispatch /\ ~Spawn) \/ WindDown
    BY <1>3 DEF Dispatch, WindDown, Top, SelectTick, SelectOrder, Fetch,
                ScanEnds, ScanNext, ScanCall, ScanReturns, SelectDone,
                SelectClosed, WaitFails, ScanWaitFails, Stop, GoTo, calls
  <1>4. ASSUME NEW l \in Lanes, Process(l)
        PROVE  TickerWaits'
    <2>1. UNCHANGED pc
      BY <1>4 DEF Process, Enter, Answer, Refuse, RequestFails, Blocks,
                  Applies, SyncFails, Leave, Panic, Recover, dispatcher
    <2>2. lane[l] \in Calls /\ \E c : LaneStep(l, c)
      BY <1>4, AnyStep
    <2>3. l # Ticker => lane'[Ticker] = lane[Ticker]
      BY <2>2 DEF LaneStep, WorkerInv, CallsInv, Lanes
    <2> QED
      BY <2>1, <2>2, <2>3, NoCallIsNot
  <1>5. CASE UNCHANGED vars
    BY <1>5 DEF vars, dispatcher, calls
  <1> QED
    BY <1>1, <1>2, <1>3, <1>4, <1>5 DEF Next
-----------------------------------------------------------------------------
(* Why the map of processed orders is a lock.  Its keys are the orders of the
   calls inside and no two of those have one order, so the Delete of a call
   that leaves takes its own key and nobody else's.  Of the orders that panic
   this cannot be said: the Delete is run twice, and another call can begin
   between.  But what it deletes is the key of such an order. *)
OnlyPanickyUnwind ==
    \A l \in Lanes : lane[l].at = "unwind" => lane[l].of.order \in Panicky

LocksInv == OnlyPanickyUnwind /\ LocksMatchCalls /\ OneCallPerCalmOrder

LEMMA LocksStart == Init => LocksInv /\ TickerWaits
  BY DEF Init, LocksInv, OnlyPanickyUnwind, LocksMatchCalls, OneCallPerCalmOrder,
         Inside, NoCall, TickerWaits, Lanes

LEMMA LocksStay ==
    ASSUME LocksInv, UNCHANGED calls
    PROVE  LocksInv'
  BY DEF calls, LocksInv, OnlyPanickyUnwind, LocksMatchCalls, OneCallPerCalmOrder,
         Inside

(* A key is in the map if and only if a call is inside with its order. *)
LEMMA LocksPointwise ==
    LocksMatchCalls <=>
        \A o : o \notin Panicky =>
            (o \in processing <=>
                \E l \in Lanes : Inside(l) /\ lane[l].of.order = o)
  BY DEF LocksMatchCalls

(* A lane that was not inside of an order and is not afterwards. *)
LEMMA LocksOutside ==
    ASSUME LocksInv, CallsInv, NEW l \in Lanes, NEW c,
           lane' = [lane EXCEPT ![l] = c], UNCHANGED processing,
           ~Inside(l), c.at \in {"none", "begin"}
    PROVE  LocksInv'
  <1>1. lane'[l] = c /\ \A m \in Lanes \ {l} : lane'[m] = lane[m]
    BY DEF CallsInv
  <1>2. \A m \in Lanes : Inside(m)' <=> Inside(m)
    BY <1>1 DEF Inside
  <1>3. \A m \in Lanes : Inside(m) => lane'[m] = lane[m]
    BY <1>1
  <1>4. OnlyPanickyUnwind'
    BY <1>1 DEF LocksInv, OnlyPanickyUnwind
  <1>5. OneCallPerCalmOrder'
    BY <1>2, <1>3 DEF LocksInv, OneCallPerCalmOrder
  <1>6. LocksMatchCalls'
    BY <1>2, <1>3 DEF LocksInv, LocksMatchCalls
  <1> QED
    BY <1>4, <1>5, <1>6 DEF LocksInv

(* A lane that is inside and stays there with the same order. *)
LEMMA LocksInside ==
    ASSUME LocksInv, CallsInv, NEW l \in Lanes, NEW c,
           lane' = [lane EXCEPT ![l] = c], UNCHANGED processing,
           Inside(l), c.at \in {"sync", "unlock"}, c.of = lane[l].of
    PROVE  LocksInv'
  <1>1. lane'[l] = c /\ \A m \in Lanes \ {l} : lane'[m] = lane[m]
    BY DEF CallsInv
  <1>2. \A m \in Lanes : Inside(m)' <=> Inside(m)
    BY <1>1 DEF Inside
  <1>3. \A m \in Lanes : lane'[m].of = lane[m].of
    BY <1>1
  <1>4. OnlyPanickyUnwind'
    BY <1>1 DEF LocksInv, OnlyPanickyUnwind
  <1>5. OneCallPerCalmOrder'
    BY <1>2, <1>3 DEF LocksInv, OneCallPerCalmOrder
  <1>6. LocksMatchCalls'
    BY <1>2, <1>3 DEF LocksInv, LocksMatchCalls
  <1> QED
    BY <1>4, <1>5, <1>6 DEF LocksInv

LEMMA LocksEnter ==
    ASSUME LocksInv, CallsInv, NEW l \in Lanes, Enter(l)
    PROVE  LocksInv'
  <1>1. ~Inside(l)
    BY DEF Enter, Inside
  <1>2. CASE lane[l].of.order \in processing
    <2>1. lane' = [lane EXCEPT ![l] = NoCall] /\ UNCHANGED processing
      BY <1>2 DEF Enter
    <2> QED
      BY <1>1, <2>1, NoCallIsNot, LocksOutside
  <1>3. CASE lane[l].of.order \notin processing
    <2> DEFINE o == lane[l].of.order
               c == [at |-> "request", of |-> lane[l].of]
    <2>1. lane' = [lane EXCEPT ![l] = c] /\ processing' = processing \union {o}
      BY <1>3, EnterStep DEF LaneStep
    <2>2. lane'[l] = c /\ c.at = "request" /\ c.of.order = o
          /\ \A m \in Lanes \ {l} : lane'[m] = lane[m]
      BY <2>1 DEF CallsInv
    <2>3. \A m \in Lanes : Inside(m)' <=> Inside(m) \/ m = l
      BY <2>2 DEF Inside
    <2>4. o \notin Panicky =>
             \A m \in Lanes : Inside(m) => lane[m].of.order # o
      BY <1>3, LocksPointwise DEF LocksInv
    <2> HIDE DEF o, c
    <2>5. OnlyPanickyUnwind'
      BY <2>2 DEF LocksInv, OnlyPanickyUnwind
    <2>6. OneCallPerCalmOrder'
      BY <2>2, <2>3, <2>4 DEF LocksInv, OneCallPerCalmOrder
    <2>7. LocksMatchCalls'
      BY <1>1, <2>1, <2>2, <2>3 DEF LocksInv, LocksMatchCalls
    <2> QED
      BY <2>5, <2>6, <2>7 DEF LocksInv
  <1> QED
    BY <1>2, <1>3

LEMMA LocksLeave ==
    ASSUME LocksInv, CallsInv, NEW l \in Lanes, Leave(l)
    PROVE  LocksInv'
  <1> DEFINE o == lane[l].of.order
  <1>1. Inside(l) /\ processing' = processing \ {o}
    BY DEF Leave, Inside
  <1>2. lane'[l] = NoCall /\ \A m \in Lanes \ {l} : lane'[m] = lane[m]
    BY DEF Leave, CallsInv
  <1>3. \A m \in Lanes : Inside(m)' <=> Inside(m) /\ m # l
    BY <1>2, NoCallIsNot DEF Inside
  <1>4. o \notin Panicky =>
           \A m \in Lanes : m # l /\ Inside(m) => lane[m].of.order # o
    BY <1>1 DEF LocksInv, OneCallPerCalmOrder
  <1> HIDE DEF o
  <1>5. OnlyPanickyUnwind'
    BY <1>2, NoCallIsNot DEF LocksInv, OnlyPanickyUnwind
  <1>6. OneCallPerCalmOrder'
    BY <1>2, <1>3 DEF LocksInv, OneCallPerCalmOrder
  <1>7. LocksMatchCalls'
    BY <1>1, <1>2, <1>3, <1>4 DEF LocksInv, LocksMatchCalls, o
  <1> QED
    BY <1>5, <1>6, <1>7 DEF LocksInv

(* A call that panics, or has panicked, deletes the key of an order that
   panics. *)
LEMMA LocksPanic ==
    ASSUME LocksInv, CallsInv, NEW l \in Lanes, Panic(l) \/ Recover(l)
    PROVE  LocksInv'
  <1> DEFINE o == lane[l].of.order
  <1>1. o \in Panicky /\ processing' = processing \ {o}
    BY DEF Panic, Recover, LocksInv, OnlyPanickyUnwind
  <1>2. /\ ~(lane'[l].at \in {"request", "sync", "unlock"})
        /\ lane'[l].at = "unwind" => lane'[l].of.order = o
        /\ \A m \in Lanes \ {l} : lane'[m] = lane[m]
    <2>1. CASE Panic(l)
      <3> DEFINE c == [at |-> "unwind", of |-> lane[l].of]
      <3>1. lane' = [lane EXCEPT ![l] = c] /\ c.at = "unwind" /\ c.of.order = o
        BY <2>1 DEF Panic
      <3> HIDE DEF c, o
      <3> QED
        BY <3>1 DEF CallsInv
    <2>2. CASE Recover(l)
      <3>1. lane' = [lane EXCEPT ![l] = NoCall]
        BY <2>2 DEF Recover
      <3> HIDE DEF o
      <3> QED
        BY <3>1, NoCallIsNot DEF CallsInv
    <2> QED
      BY <2>1, <2>2
  <1>3. \A m \in Lanes : Inside(m)' <=> Inside(m) /\ m # l
    BY <1>2 DEF Inside
  <1> HIDE DEF o
  <1>4. OnlyPanickyUnwind'
    BY <1>1, <1>2 DEF LocksInv, OnlyPanickyUnwind
  <1>5. OneCallPerCalmOrder'
    BY <1>2, <1>3 DEF LocksInv, OneCallPerCalmOrder
  <1>6. LocksMatchCalls'
    BY <1>1, <1>2, <1>3 DEF LocksInv, LocksMatchCalls, o
  <1> QED
    BY <1>4, <1>5, <1>6 DEF LocksInv

LEMMA LocksProcess ==
    ASSUME WorkerInv, LocksInv, NEW l \in Lanes, Process(l)
    PROVE  LocksInv'
  <1> USE DEF WorkerInv
  <1>1. CASE Answer(l) \/ Refuse(l)
    <2>1. PICK c \in Calls : c.at = "sync" /\ LaneStep(l, c)
      BY <1>1, AnswerStep
    <2>2. Inside(l) /\ UNCHANGED processing
      BY <1>1 DEF Inside, Answer, Refuse
    <2>3. c.of = lane[l].of
      BY <2>1, NoCallIsNot DEF LaneStep
    <2> QED
      BY <2>1, <2>2, <2>3, LocksInside DEF LaneStep
  <1>2. CASE RequestFails(l) \/ Blocks(l) \/ Applies(l) \/ SyncFails(l)
    <2> DEFINE c == [at |-> "unlock", of |-> lane[l].of]
    <2>1. LaneStep(l, c) /\ c.at = "unlock" /\ c.of = lane[l].of
      BY <1>2, UnlockStep
    <2>2. Inside(l) /\ UNCHANGED processing
      BY <1>2 DEF Inside, RequestFails, Blocks, Applies, SyncFails
    <2> HIDE DEF c
    <2> QED
      BY <2>1, <2>2, LocksInside DEF LaneStep
  <1> QED
    BY <1>1, <1>2, LocksEnter, LocksLeave, LocksPanic DEF Process

LEMMA LocksKeep ==
    WorkerInv /\ LocksInv /\ TickerWaits /\ [Next \/ WindDown]_vars
        => LocksInv'
  <1> SUFFICES ASSUME WorkerInv, LocksInv, TickerWaits, [Next \/ WindDown]_vars
               PROVE  LocksInv'
    OBVIOUS
  <1>1. ASSUME NEW l \in Lanes, NEW copy, lane[l] = NoCall, Call(l, copy)
        PROVE  LocksInv'
    <2> DEFINE c == [at |-> "begin", of |-> copy]
    <2>1. c.at = "begin" /\ lane' = [lane EXCEPT ![l] = c] /\ UNCHANGED processing
      BY <1>1 DEF Call
    <2>2. ~Inside(l)
      BY <1>1, NoCallIsNot DEF Inside
    <2> HIDE DEF c
    <2> QED
      BY <2>1, <2>2, LocksOutside DEF WorkerInv
  <1>2. CASE Spawn
    BY <1>1, <1>2 DEF Spawn, Lanes
  <1>3. CASE ScanCall
    BY <1>1, <1>3 DEF ScanCall, Lanes, TickerWaits
  <1>4. CASE \E l \in Lanes : Process(l)
    BY <1>4, LocksProcess
  <1>5. CASE ~(Spawn \/ ScanCall \/ \E l \in Lanes : Process(l))
    <2>1. UNCHANGED calls
      BY <1>5
      DEF Next, World, Dispatch, WindDown, Insert, Send, Advance, OtherPod,
          Second, TickerFires, Top, SelectTick, SelectOrder, Fetch, ScanEnds,
          ScanNext, ScanReturns, SelectDone, SelectClosed, WaitFails,
          ScanWaitFails, Stop, vars, calls
    <2> QED
      BY <2>1, LocksStay
  <1> QED
    BY <1>2, <1>3, <1>4, <1>5

LEMMA LocksAreInvariant == Spec => []LocksInv
  <1>1. WorkerInv /\ TickerWaits /\ LocksInv /\ [Next]_vars
          => (TickerWaits /\ LocksInv)'
    BY LocksKeep, TickerKeeps
  <1> QED
    BY <1>1, LocksStart, WorkerIsInvariant, PTL DEF Spec

(* However many copies of an order reach the worker, through the channel and
   through the ticker's lists, and whatever the other lanes do, panics of other
   orders included, it is inside of ProcessOrder at most once, unless its own
   calls panic: OneCallPerCalmOrder. *)
THEOREM OneCallForEachOrder == Spec => []OneCallPerCalmOrder
  <1>1. LocksInv => OneCallPerCalmOrder
    BY DEF LocksInv
  <1> QED
    BY <1>1, LocksAreInvariant, PTL

(* The map of processed orders names exactly the orders of the calls inside,
   but for those that panic: no way a call ends leaves a key that would shut its
   order out for good, LocksMatchCalls. *)
THEOREM LocksAreTheCalls == Spec => []LocksMatchCalls
  <1>1. LocksInv => LocksMatchCalls
    BY DEF LocksInv
  <1> QED
    BY <1>1, LocksAreInvariant, PTL

(* Of orders that panic too: the Delete of another call may take a key too early, and
   OneCallPerCalmOrder with it, but no key stays behind when its call is gone. *)
NoKeyIsStranded ==
    \A o \in processing : \E l \in Lanes : Inside(l) /\ lane[l].of.order = o

LEMMA KeysProcess ==
    ASSUME WorkerInv, NoKeyIsStranded, NEW l \in Lanes, Process(l)
    PROVE  NoKeyIsStranded'
  <1> USE DEF WorkerInv
  <1>1. PICK c : LaneStep(l, c)
    BY AnyStep
  <1>2. lane[l] \in Calls /\ lane[l] # NoCall
    BY AnyStep, NoCallIsNot
  <1>3. lane'[l] = c /\ \A m \in Lanes \ {l} : lane'[m] = lane[m]
    BY <1>1 DEF LaneStep, CallsInv
  <1>4. CASE Enter(l)
    <2>1. ~Inside(l)
      BY <1>4 DEF Enter, Inside
    <2>2. CASE UNCHANGED processing
      BY <1>3, <2>1, <2>2 DEF NoKeyIsStranded, Inside
    <2>3. CASE ~UNCHANGED processing
      <3> DEFINE d == [at |-> "request", of |-> lane[l].of]
      <3>1. /\ lane' = [lane EXCEPT ![l] = d]
            /\ processing' = processing \union {lane[l].of.order}
        BY <1>4, <2>3, EnterStep DEF LaneStep
      <3>2. lane'[l].at = "request" /\ lane'[l].of = lane[l].of
        BY <3>1 DEF CallsInv
      <3> HIDE DEF d
      <3> QED
        BY <1>3, <2>1, <3>1, <3>2 DEF NoKeyIsStranded, Inside
    <2> QED
      BY <2>2, <2>3
  <1>5. CASE Answer(l) \/ Refuse(l)
    <2>1. lane'[l].at = "sync" /\ lane'[l].of = lane[l].of
      <3>1. PICK d \in Calls : d.at = "sync" /\ LaneStep(l, d)
        BY <1>5, AnswerStep
      <3> QED
        BY <3>1, NoCallIsNot DEF LaneStep, CallsInv
    <2>2. UNCHANGED processing
      BY <1>5 DEF Answer, Refuse
    <2> QED
      BY <1>3, <2>1, <2>2 DEF NoKeyIsStranded, Inside
  <1>6. CASE RequestFails(l) \/ Blocks(l) \/ Applies(l) \/ SyncFails(l)
    <2>1. lane'[l].at = "unlock" /\ lane'[l].of = lane[l].of
      <3> DEFINE d == [at |-> "unlock", of |-> lane[l].of]
      <3>1. d.at = "unlock" /\ d.of = lane[l].of /\ LaneStep(l, d)
        BY <1>6, UnlockStep
      <3> HIDE DEF d
      <3> QED
        BY <3>1 DEF LaneStep, CallsInv
    <2>2. UNCHANGED processing
      BY <1>6 DEF RequestFails, Blocks, Applies, SyncFails
    <2> QED
      BY <1>3, <2>1, <2>2 DEF NoKeyIsStranded, Inside
  <1>7. CASE Leave(l) \/ Panic(l) \/ Recover(l)
    <2>1. processing' = processing \ {lane[l].of.order}
      BY <1>7 DEF Leave, Panic, Recover
    <2>2. \A o \in processing' : \E m \in Lanes \ {l} :
             Inside(m) /\ lane[m].of.order = o
      BY <2>1 DEF NoKeyIsStranded
    <2> QED
      BY <1>3, <2>2 DEF NoKeyIsStranded, Inside
  <1> QED
    BY <1>4, <1>5, <1>6, <1>7 DEF Process

LEMMA KeysKeep ==
    WorkerInv /\ TickerWaits /\ NoKeyIsStranded /\ [Next \/ WindDown]_vars
        => NoKeyIsStranded'
  <1> SUFFICES ASSUME WorkerInv, TickerWaits, NoKeyIsStranded,
                      [Next \/ WindDown]_vars
               PROVE  NoKeyIsStranded'
    OBVIOUS
  <1>1. ASSUME NEW l \in Lanes, NEW copy, lane[l] = NoCall, Call(l, copy)
        PROVE  NoKeyIsStranded'
    <2>1. UNCHANGED processing /\ \A m \in Lanes \ {l} : lane'[m] = lane[m]
      BY <1>1 DEF Call, WorkerInv, CallsInv
    <2>2. ~Inside(l)
      BY <1>1, NoCallIsNot DEF Inside
    <2> QED
      BY <2>1, <2>2 DEF NoKeyIsStranded, Inside
  <1>2. CASE Spawn
    BY <1>1, <1>2 DEF Spawn, Lanes
  <1>3. CASE ScanCall
    BY <1>1, <1>3 DEF ScanCall, Lanes, TickerWaits
  <1>4. CASE \E l \in Lanes : Process(l)
    BY <1>4, KeysProcess
  <1>5. CASE ~(Spawn \/ ScanCall \/ \E l \in Lanes : Process(l))
    <2>1. UNCHANGED calls
      BY <1>5
      DEF Next, World, Dispatch, WindDown, Insert, Send, Advance, OtherPod,
          Second, TickerFires, Top, SelectTick, SelectOrder, Fetch, ScanEnds,
          ScanNext, ScanReturns, SelectDone, SelectClosed, WaitFails,
          ScanWaitFails, Stop, vars, calls
    <2> QED
      BY <2>1 DEF NoKeyIsStranded, Inside, calls
  <1> QED
    BY <1>2, <1>3, <1>4, <1>5

(* Whether calls panic or not, a key of the map belongs to a call that is
   inside and will delete it: no order is shut out by a call that is gone. *)
THEOREM NoKeyStaysBehind == Spec => []NoKeyIsStranded
  <1>1. Init => NoKeyIsStranded /\ TickerWaits
    BY LocksStart DEF Init, NoKeyIsStranded
  <1>2. WorkerInv /\ TickerWaits /\ NoKeyIsStranded /\ [Next]_vars
          => (TickerWaits /\ NoKeyIsStranded)'
    BY KeysKeep, TickerKeeps
  <1> QED
    BY <1>1, <1>2, WorkerIsInvariant, PTL DEF Spec
-----------------------------------------------------------------------------
(* Why the stop valve is late by one call at most.  A call can slip through
   only where the dispatcher is committed, between its look at the throttler
   and the call; after the slip it is back at the head of a loop, and looks
   again, before it can be committed once more. *)
Committed == (pc = "select" /\ armed) \/ pc \in {"wait", "scan_wait"}

SlipInv ==
    /\ slipped <= 1
    /\ slipped = 1 => ban > 0 /\ ~Committed

LEMMA SlipStart == Init => SlipInv
  BY DEF Init, SlipInv

LEMMA SlipWorld ==
    ASSUME WorkerInv, SlipInv, World
    PROVE  SlipInv'
  <1> USE DEF SlipInv, Committed
  <1>1. CASE Second
    BY <1>1 DEF Second, dispatcher, WorkerInv, WorldInv
  <1>2. CASE ~Second
    BY <1>2 DEF World, Insert, Send, Advance, OtherPod, TickerFires, dispatcher
  <1> QED
    BY <1>1, <1>2

LEMMA SlipDispatch ==
    ASSUME WorkerInv, SlipInv, Dispatch \/ WindDown
    PROVE  SlipInv'
  <1> USE DEF SlipInv, Committed
  <1>1. slipped \in Nat /\ ban \in Nat
    BY DEF WorkerInv, WorldInv
  <1>2. CASE Spawn \/ ScanCall
    <2>1. pc \in {"wait", "scan_wait"} /\ pc' \in {"top", "scan_call"}
      BY <1>2 DEF Spawn, ScanCall
    <2>2. UNCHANGED ban /\ slipped' = IF ban > 0 THEN slipped + 1 ELSE slipped
      BY <1>2 DEF Spawn, ScanCall, Call
    <2>3. slipped = 0
      BY <1>1, <2>1
    <2> QED
      BY <1>1, <2>1, <2>2, <2>3
  <1>3. CASE Top
    <2>1. armed' <=> ~(ban > 0)
      BY <1>3, Zenon DEF Top, IsBlocked
    <2> QED
      BY <1>3, <2>1 DEF Top
  <1>4. CASE SelectTick \/ SelectOrder \/ Fetch \/ ScanEnds \/ ScanReturns
    BY <1>4 DEF SelectTick, SelectOrder, Fetch, ScanEnds, ScanReturns, GoTo,
                IsBlocked
  <1>5. CASE ScanNext
    BY <1>5 DEF ScanNext, GoTo, IsBlocked
  <1>6. CASE WindDown
    BY <1>6 DEF WindDown, SelectDone, SelectClosed, WaitFails, ScanWaitFails,
                Stop, GoTo
  <1> QED
    BY <1>2, <1>3, <1>4, <1>5, <1>6 DEF Dispatch

LEMMA SlipProcess ==
    ASSUME WorkerInv, SlipInv, NEW l \in Lanes, Process(l)
    PROVE  SlipInv'
  <1> USE DEF SlipInv, Committed
  <1>1. UNCHANGED <<pc, armed>>
    BY DEF Process, Enter, Answer, Refuse, RequestFails, Blocks, Applies,
           SyncFails, Leave, Panic, Recover, dispatcher
  <1>2. CASE Blocks(l)
    <2>1. ban' \in Nat
      BY ProcessKeeps DEF WorkerInv, WorldInv
    <2>2. slipped' = IF ban' = 0 THEN 0 ELSE slipped
      BY <1>2 DEF Blocks
    <2> QED
      BY <1>1, <2>1, <2>2
  <1>3. CASE ~Blocks(l)
    <2>1. UNCHANGED <<ban, slipped>>
      BY <1>3 DEF Process, Enter, Answer, Refuse, RequestFails, Applies,
                  SyncFails, Leave, Panic, Recover
    <2> QED
      BY <1>1, <2>1
  <1> QED
    BY <1>2, <1>3

LEMMA SlipKeeps == WorkerInv /\ SlipInv /\ [Next \/ WindDown]_vars => SlipInv'
  <1>1. SlipInv /\ UNCHANGED vars => SlipInv'
    BY DEF SlipInv, Committed, vars, dispatcher
  <1> QED
    BY <1>1, SlipWorld, SlipDispatch, SlipProcess DEF Next

(* Whenever a 429 comes, from any lane, and however long the ban is renewed:
   at most one call of ProcessOrder begins under it (throttler.go's promise to
   the accrual system, short of the order the dispatcher had in hand). *)
THEOREM OneSlipAtMost == Spec => []AtMostOneSlips
  <1>1. SlipInv => AtMostOneSlips
    BY DEF SlipInv, AtMostOneSlips
  <1> QED
    BY <1>1, SlipStart, SlipKeeps, WorkerIsInvariant, PTL DEF Spec
=============================================================================
