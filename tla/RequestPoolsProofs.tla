------------------------- MODULE RequestPoolsProofs -------------------------
(***************************************************************************)
(* Proofs about RequestPools, for every set of requests, compressed or not,*)
(* and of objects.                                                         *)
(***************************************************************************)
EXTENDS RequestPools, TLAPS

(* The pools whose objects go back once, after their last use. *)
Once == {"writer", "buffer", "form"}

LEMMA KindsApart ==
    /\ DOMAIN Kinds = {"reader", "writer", "buffer", "form"}
    /\ Once \subseteq DOMAIN Kinds
    /\ \A k \in DOMAIN Kinds : Kinds[k] \subseteq Objects /\ NoOne \notin Kinds[k]
    /\ \A k, j \in DOMAIN Kinds : k # j => Kinds[k] \intersect Kinds[j] = {}
    /\ Kinds["reader"] = Readers /\ Kinds["writer"] = Writers
    /\ Kinds["buffer"] = Buffers /\ Kinds["form"] = Forms
  <1>1. /\ DOMAIN Kinds = {"reader", "writer", "buffer", "form"}
        /\ Kinds["reader"] = Readers /\ Kinds["writer"] = Writers
        /\ Kinds["buffer"] = Buffers /\ Kinds["form"] = Forms
    BY DEF Kinds
  <1> QED
    BY <1>1, PoolAssumption DEF Objects, Once

WithForm == {"buffer", "read", "parse", "put_buffer", "put_buffer_failed",
             "close_body", "close_body_failed", "serve", "put_form"}
WithBuffer == {"read", "parse", "put_buffer", "put_buffer_failed"}
Places == {"decompress", "bad_gzip", "compress", "form", "close_writer",
           "close_reader", "done"} \union WithForm

TypesInv ==
    /\ pc \in [Requests -> Places]
    /\ pooled \in [Objects -> Nat]
    /\ made \subseteq Objects
    /\ holds \in [Requests -> [DOMAIN Kinds -> Objects \union {NoOne}]]
    /\ \A q \in Requests, k \in DOMAIN Kinds :
          holds[q][k] \in Kinds[k] \union {NoOne}
    /\ data \in [Objects -> Requests \union {NoOne}]
    /\ served \in [Requests -> Requests \union {NoOne}]

(* Where a goroutine has which object. *)
HoldsInv == \A q \in Requests :
    /\ q \notin Compressed => /\ pc[q] \notin {"decompress", "bad_gzip"}
                              /\ holds[q]["reader"] = NoOne
    /\ q \in Compressed =>
          (holds[q]["reader"] # NoOne <=> pc[q] \notin {"decompress", "done"})
    /\ holds[q]["writer"] # NoOne =>
          pc[q] \notin {"decompress", "bad_gzip", "compress", "close_reader", "done"}
    /\ holds[q]["form"] # NoOne <=> pc[q] \in WithForm
    /\ holds[q]["buffer"] # NoOne <=> pc[q] \in WithBuffer

(* An object of these pools is new, or once in its pool, or used by one. *)
OnceInv ==
    /\ \A k \in Once : \A x \in Kinds[k] :
          /\ pooled[x] <= 1
          /\ pooled[x] > 0 => x \in made
    /\ \A q \in Requests, k \in Once : holds[q][k] # NoOne =>
          /\ holds[q][k] \in made
          /\ pooled[holds[q][k]] = 0
          /\ \A r \in Requests \ {q} : holds[r][k] # holds[q][k]

DataInv ==
    /\ \A x \in Buffers \union Forms :
          pooled[x] > 0 \/ x \notin made => data[x] = NoOne
    /\ \A x \in Readers : data[x] \in Compressed \union {NoOne}
    /\ \A q \in Requests, k \in {"buffer", "form"} :
          holds[q][k] # NoOne => data[holds[q][k]] \in Sources(q) \union {NoOne}
    /\ \A q \in Requests : served[q] \in Sources(q) \union {NoOne}

PoolsInv == TypesInv /\ HoldsInv /\ OnceInv /\ DataInv

LEMMA PoolsStart == Init => PoolsInv
  <1> SUFFICES ASSUME Init PROVE PoolsInv
    OBVIOUS
  <1> USE KindsApart, PoolAssumption DEF Init
  <1>1. \A q \in Requests, k \in DOMAIN Kinds : holds[q][k] = NoOne
    OBVIOUS
  <1>2. TypesInv
    BY <1>1 DEF TypesInv, Places
  <1>3. HoldsInv
    BY <1>1 DEF HoldsInv, WithForm, WithBuffer
  <1>4. OnceInv
    BY <1>1 DEF OnceInv, Once
  <1>5. DataInv
    BY <1>1 DEF DataInv, Objects
  <1> QED
    BY <1>2, <1>3, <1>4, <1>5 DEF PoolsInv

(* What Get does, for an object that may be handed out. *)
Taken(q, k, x) ==
    /\ x \in Kinds[k]
    /\ pooled[x] > 0 \/ x \notin made
    /\ pooled' = [pooled EXCEPT ![x] = IF @ > 0 THEN @ - 1 ELSE @]
       \/ (UNCHANGED pooled /\ x \notin made)
    /\ made' = made \union {x}
    /\ holds' = [holds EXCEPT ![q][k] = x]

LEMMA HoldsChange ==
    ASSUME TypesInv, NEW q \in Requests, NEW k \in DOMAIN Kinds,
           NEW x \in Kinds[k] \union {NoOne}, holds' = [holds EXCEPT ![q][k] = x]
    PROVE  /\ holds' \in [Requests -> [DOMAIN Kinds -> Objects \union {NoOne}]]
           /\ holds'[q][k] = x
           /\ \A r \in Requests, j \in DOMAIN Kinds :
                 r # q \/ j # k => holds'[r][j] = holds[r][j]
           /\ \A r \in Requests, j \in DOMAIN Kinds :
                 holds'[r][j] \in Kinds[j] \union {NoOne}
  <1>1. x \in Objects \union {NoOne}
    BY KindsApart
  <1>2. /\ holds' \in [Requests -> [DOMAIN Kinds -> Objects \union {NoOne}]]
        /\ holds'[q][k] = x
        /\ \A r \in Requests, j \in DOMAIN Kinds :
              r # q \/ j # k => holds'[r][j] = holds[r][j]
    BY <1>1 DEF TypesInv
  <1> QED
    BY <1>2 DEF TypesInv

LEMMA TakenBy ==
    ASSUME TypesInv, NEW q \in Requests, NEW k \in DOMAIN Kinds, NEW owner,
           Get(q, k, owner)
    PROVE  \E x : Taken(q, k, x) /\ data' = [data EXCEPT ![x] = owner]
  BY DEF Get, Taken

LEMMA TakenAsIsBy ==
    ASSUME TypesInv, NEW q \in Requests, NEW k \in DOMAIN Kinds, GetAsIs(q, k)
    PROVE  \E x : Taken(q, k, x) /\ UNCHANGED data
  BY DEF GetAsIs, Taken

LEMMA TakenHolds ==
    ASSUME TypesInv, NEW q \in Requests, NEW k \in DOMAIN Kinds, NEW x,
           Taken(q, k, x)
    PROVE  /\ x \in Kinds[k] /\ x # NoOne /\ x \in Objects
           /\ holds'[q][k] = x
           /\ \A r \in Requests, j \in DOMAIN Kinds :
                 r # q \/ j # k => holds'[r][j] = holds[r][j]
  <1>1. x \in Kinds[k] /\ x # NoOne /\ x \in Objects
    BY KindsApart DEF Taken
  <1>2. holds' = [holds EXCEPT ![q][k] = x]
    BY DEF Taken
  <1> QED
    BY <1>1, <1>2, HoldsChange

(* Nobody uses an object that is handed out. *)
LEMMA TakenIsFree ==
    ASSUME TypesInv, OnceInv, NEW q \in Requests, NEW k \in Once, NEW x,
           Taken(q, k, x)
    PROVE  /\ \A r \in Requests, j \in Once : holds[r][j] # x
           /\ \A r \in Requests : holds[r]["reader"] # x
  <1>1. x \in Kinds[k] /\ x # NoOne
    BY KindsApart DEF Taken
  <1>2. \A r \in Requests, j \in DOMAIN Kinds : j # k => holds[r][j] # x
    BY <1>1, KindsApart DEF TypesInv
  <1>3. \A r \in Requests : holds[r][k] # x
    BY <1>1 DEF OnceInv, Taken
  <1> QED
    BY <1>2, <1>3, KindsApart DEF Once

LEMMA TakenTypes ==
    ASSUME TypesInv, NEW q \in Requests, NEW k \in DOMAIN Kinds, NEW x,
           Taken(q, k, x)
    PROVE  /\ pooled' \in [Objects -> Nat] /\ made' \subseteq Objects
           /\ holds' \in [Requests -> [DOMAIN Kinds -> Objects \union {NoOne}]]
           /\ \A r \in Requests, j \in DOMAIN Kinds :
                 holds'[r][j] \in Kinds[j] \union {NoOne}
  <1>1. x \in Kinds[k] /\ x \in Objects
    BY KindsApart DEF Taken
  <1>2. pooled' \in [Objects -> Nat]
    BY <1>1 DEF Taken, TypesInv
  <1>3. made' \subseteq Objects
    BY <1>1 DEF Taken, TypesInv
  <1> QED
    BY <1>1, <1>2, <1>3, HoldsChange DEF Taken

LEMMA TakenOnce ==
    ASSUME TypesInv, OnceInv, NEW q \in Requests, NEW k \in DOMAIN Kinds, NEW x,
           Taken(q, k, x)
    PROVE  OnceInv'
  <1>1. x \in Kinds[k] /\ x \in Objects /\ x # NoOne
    BY KindsApart DEF Taken
  <1>2. /\ holds'[q][k] = x
        /\ \A r \in Requests, j \in DOMAIN Kinds :
              r # q \/ j # k => holds'[r][j] = holds[r][j]
    BY TakenHolds
  <1>3. \A y \in Objects \ {x} : pooled'[y] = pooled[y]
    BY DEF Taken, TypesInv
  <1>4. \A j \in Once : \A y \in Kinds[j] : y \in Objects
    BY KindsApart
  <1>5. CASE k \in Once
    <2>1. pooled[x] \in Nat /\ pooled[x] <= 1 /\ (pooled[x] > 0 => x \in made)
      BY <1>1, <1>5 DEF OnceInv, TypesInv
    <2>2. pooled'[x] = 0
      BY <1>1, <2>1 DEF Taken, TypesInv
    <2>3. \A r \in Requests, j \in Once : holds[r][j] # x
      BY <1>5, TakenIsFree
    <2>4. \A j \in Once : \A y \in Kinds[j] :
             pooled'[y] <= 1 /\ (pooled'[y] > 0 => y \in made')
      <3> TAKE j \in Once
      <3> TAKE y \in Kinds[j]
      <3>1. CASE y = x
        BY <2>2, <3>1
      <3>2. CASE y # x
        <4>1. pooled'[y] = pooled[y] /\ made \subseteq made'
          BY <1>3, <1>4, <3>2 DEF Taken
        <4> QED
          BY <4>1 DEF OnceInv
      <3> QED
        BY <3>1, <3>2
    <2>5. ASSUME NEW r \in Requests, NEW j \in Once, holds'[r][j] # NoOne
          PROVE  /\ holds'[r][j] \in made'
                 /\ pooled'[holds'[r][j]] = 0
                 /\ \A t \in Requests \ {r} : holds'[t][j] # holds'[r][j]
      <3>1. j \in DOMAIN Kinds
        BY KindsApart
      <3>2. CASE r = q /\ j = k
        BY <1>2, <2>2, <2>3, <3>1, <3>2 DEF Taken
      <3>3. CASE ~(r = q /\ j = k)
        <4>1. holds'[r][j] = holds[r][j]
          BY <1>2, <3>1, <3>3
        <4>2. holds[r][j] \in Objects \ {x}
          BY <2>3, <2>5, <3>1, <4>1, KindsApart DEF TypesInv
        <4>3. holds[r][j] \in made' /\ pooled'[holds[r][j]] = 0
          BY <1>3, <2>5, <4>1, <4>2 DEF OnceInv, Taken
        <4>4. \A t \in Requests \ {r} : holds'[t][j] # holds[r][j]
          BY <1>2, <2>5, <3>1, <4>1, <4>2 DEF OnceInv
        <4> QED
          BY <4>1, <4>3, <4>4
      <3> QED
        BY <3>2, <3>3
    <2> QED
      BY <2>4, <2>5 DEF OnceInv
  <1>6. CASE k \notin Once
    <2>1. \A j \in Once : j \in DOMAIN Kinds /\ x \notin Kinds[j] /\ j # k
      BY <1>1, <1>6, KindsApart
    <2>2. \A j \in Once : \A y \in Kinds[j] : pooled'[y] = pooled[y]
      BY <1>3, <1>4, <2>1
    <2>3. \A r \in Requests, j \in Once : holds'[r][j] = holds[r][j]
      BY <1>2, <2>1
    <2>4. \A r \in Requests, j \in Once :
             holds[r][j] # NoOne => pooled'[holds[r][j]] = pooled[holds[r][j]]
      BY <2>1, <2>2 DEF TypesInv
    <2>5. made \subseteq made'
      BY DEF Taken
    <2> QED
      BY <2>2, <2>3, <2>4, <2>5 DEF OnceInv
  <1> QED
    BY <1>5, <1>6

(* An object of these pools goes back and is forgotten in one step. *)
LEMMA PutOnce ==
    ASSUME TypesInv, OnceInv, NEW q \in Requests, NEW k \in Once, NEW owner,
           holds[q][k] # NoOne, Put(q, k, owner), Forget(q, k)
    PROVE  /\ OnceInv'
           /\ pooled' \in [Objects -> Nat] /\ made' \subseteq Objects
           /\ holds' \in [Requests -> [DOMAIN Kinds -> Objects \union {NoOne}]]
           /\ \A r \in Requests, j \in DOMAIN Kinds :
                 holds'[r][j] \in Kinds[j] \union {NoOne}
  <1> DEFINE x == holds[q][k]
  <1>1. k \in DOMAIN Kinds /\ x \in Kinds[k] /\ x \in Objects /\ x # NoOne
    BY KindsApart DEF TypesInv
  <1>2. /\ pooled' = [pooled EXCEPT ![x] = @ + 1] /\ UNCHANGED made
        /\ holds' = [holds EXCEPT ![q][k] = NoOne]
    BY DEF Put, Forget
  <1>3. x \in made /\ pooled[x] = 0 /\ \A r \in Requests \ {q} : holds[r][k] # x
    BY DEF OnceInv
  <1> HIDE DEF x
  <1>4. /\ holds' \in [Requests -> [DOMAIN Kinds -> Objects \union {NoOne}]]
        /\ holds'[q][k] = NoOne
        /\ \A r \in Requests, j \in DOMAIN Kinds :
              r # q \/ j # k => holds'[r][j] = holds[r][j]
        /\ \A r \in Requests, j \in DOMAIN Kinds :
              holds'[r][j] \in Kinds[j] \union {NoOne}
    BY <1>1, <1>2, HoldsChange
  <1>5. pooled' \in [Objects -> Nat] /\ pooled'[x] = 1
        /\ \A y \in Objects \ {x} : pooled'[y] = pooled[y]
    BY <1>1, <1>2, <1>3 DEF TypesInv
  <1>6. \A j \in Once : \A y \in Kinds[j] :
           pooled'[y] <= 1 /\ (pooled'[y] > 0 => y \in made')
    <2> TAKE j \in Once
    <2> TAKE y \in Kinds[j]
    <2>1. y \in Objects
      BY KindsApart
    <2> QED
      BY <1>2, <1>3, <1>5, <2>1 DEF OnceInv
  <1>7. ASSUME NEW r \in Requests, NEW j \in Once, holds'[r][j] # NoOne
        PROVE  /\ holds'[r][j] \in made'
               /\ pooled'[holds'[r][j]] = 0
               /\ \A t \in Requests \ {r} : holds'[t][j] # holds'[r][j]
    <2>1. j \in DOMAIN Kinds /\ holds'[r][j] = holds[r][j] /\ ~(r = q /\ j = k)
      BY <1>4, <1>7, KindsApart
    <2>2. holds[r][j] \in Objects
      BY <1>7, <2>1 DEF TypesInv
    <2>3. holds[r][j] # x
      <3>1. CASE j = k
        BY <1>3, <2>1, <3>1
      <3>2. CASE j # k
        BY <1>1, <1>7, <2>1, <3>2, KindsApart DEF TypesInv
      <3> QED
        BY <3>1, <3>2
    <2>4. holds[r][j] \in made' /\ pooled'[holds[r][j]] = 0
      BY <1>2, <1>5, <1>7, <2>1, <2>2, <2>3 DEF OnceInv
    <2>5. \A t \in Requests \ {r} : holds'[t][j] # holds[r][j]
      BY <1>4, <1>7, <2>1 DEF OnceInv
    <2> QED
      BY <2>1, <2>4, <2>5
  <1>8. OnceInv'
    BY <1>6, <1>7 DEF OnceInv
  <1> QED
    BY <1>2, <1>4, <1>5, <1>8 DEF TypesInv
-----------------------------------------------------------------------------
(* DataInv after a step that hands out an object of the kind and fills it with
   something its new user may see. *)
LEMMA TakenData ==
    ASSUME PoolsInv, NEW q \in Requests, NEW k \in DOMAIN Kinds, NEW x,
           Taken(q, k, x), UNCHANGED served,
           NEW d, data' = [data EXCEPT ![x] = d],
           k \in {"buffer", "form"} => d = NoOne,
           k = "reader" => d \in Compressed
    PROVE  DataInv'
  <1> USE DEF PoolsInv
  <1>1. x \in Kinds[k] /\ x \in Objects /\ x # NoOne
    BY KindsApart DEF Taken
  <1>2. data'[x] = d /\ \A y \in Objects \ {x} : data'[y] = data[y]
    BY <1>1 DEF TypesInv
  <1>3. \A y \in Objects \ {x} : pooled'[y] = pooled[y]
    BY DEF Taken, TypesInv
  <1>4. made' = made \union {x}
    BY DEF Taken
  <1>5. /\ holds'[q][k] = x
        /\ \A r \in Requests, j \in DOMAIN Kinds :
              r # q \/ j # k => holds'[r][j] = holds[r][j]
    BY TakenHolds
  <1>6. \A y \in Buffers \union Forms :
           pooled'[y] > 0 \/ y \notin made' => data'[y] = NoOne
    <2> TAKE y \in Buffers \union Forms
    <2>1. CASE y = x
      <3>1. k \in {"buffer", "form"}
        BY <1>1, <2>1, KindsApart
      <3> QED
        BY <1>2, <2>1, <3>1
    <2>2. CASE y # x
      BY <1>2, <1>3, <1>4, <2>2 DEF DataInv, Objects
    <2> QED
      BY <2>1, <2>2
  <1>7. \A y \in Readers : data'[y] \in Compressed \union {NoOne}
    <2> TAKE y \in Readers
    <2>1. CASE y = x
      BY <1>1, <1>2, <2>1, KindsApart
    <2>2. CASE y # x
      BY <1>2, <2>2 DEF DataInv, Objects
    <2> QED
      BY <2>1, <2>2
  <1>8. ASSUME NEW r \in Requests, NEW j \in {"buffer", "form"},
               holds'[r][j] # NoOne
        PROVE  data'[holds'[r][j]] \in Sources(r) \union {NoOne}
    <2>1. j \in Once /\ j \in DOMAIN Kinds
      BY KindsApart DEF Once
    <2>2. CASE r = q /\ j = k
      BY <1>2, <1>5, <2>2
    <2>3. CASE ~(r = q /\ j = k)
      <3>1. holds'[r][j] = holds[r][j] /\ holds[r][j] \in Kinds[j]
        BY <1>5, <1>8, <2>1, <2>3 DEF TypesInv
      <3>2. holds[r][j] # x
        <4>1. CASE k \in Once
          BY <2>1, <4>1, TakenIsFree
        <4>2. CASE k \notin Once
          BY <1>1, <2>1, <3>1, <4>2, KindsApart
        <4> QED
          BY <4>1, <4>2
      <3>3. holds[r][j] \in Objects
        BY <2>1, <3>1, KindsApart
      <3> QED
        BY <1>2, <1>8, <3>1, <3>2, <3>3 DEF DataInv
    <2> QED
      BY <2>2, <2>3
  <1>9. \A r \in Requests : served'[r] \in Sources(r) \union {NoOne}
    BY DEF DataInv
  <1> QED
    BY <1>6, <1>7, <1>8, <1>9 DEF DataInv

(* A new or pooled form holds nobody's data: Get of one that is left as it is
   does to the data what Get of a cleared one does. *)
LEMMA TakenForm ==
    ASSUME PoolsInv, NEW q \in Requests, NEW x, Taken(q, "form", x),
           UNCHANGED data
    PROVE  data' = [data EXCEPT ![x] = NoOne]
  <1>1. x \in Forms /\ x \in Objects
    BY KindsApart DEF Taken, Objects
  <1>2. data[x] = NoOne
    BY <1>1 DEF Taken, PoolsInv, DataInv
  <1> QED
    BY <1>1, <1>2 DEF PoolsInv, TypesInv

(* The types of data after a write. *)
LEMMA DataTyped ==
    ASSUME TypesInv, NEW x, NEW d \in Requests \union {NoOne},
           data' = [data EXCEPT ![x] = d]
    PROVE  data' \in [Objects -> Requests \union {NoOne}]
  BY DEF TypesInv

(* HoldsInv of the requests that take no step. *)
LEMMA OthersHold ==
    ASSUME PoolsInv, NEW q \in Requests, NEW at \in Places, GoTo(q, at),
           \A r \in Requests, j \in DOMAIN Kinds :
              r # q => holds'[r][j] = holds[r][j],
           q \notin Compressed =>
              /\ at \notin {"decompress", "bad_gzip"}
              /\ holds'[q]["reader"] = NoOne,
           q \in Compressed =>
              (holds'[q]["reader"] # NoOne <=> at \notin {"decompress", "done"}),
           holds'[q]["writer"] # NoOne =>
              at \notin {"decompress", "bad_gzip", "compress", "close_reader",
                         "done"},
           holds'[q]["form"] # NoOne <=> at \in WithForm,
           holds'[q]["buffer"] # NoOne <=> at \in WithBuffer
    PROVE  HoldsInv' /\ pc' \in [Requests -> Places]
  <1>1. pc'[q] = at /\ \A r \in Requests \ {q} : pc'[r] = pc[r]
    BY DEF GoTo, PoolsInv, TypesInv
  <1>2. pc' \in [Requests -> Places]
    BY DEF GoTo, PoolsInv, TypesInv
  <1>3. \A r \in Requests \ {q} :
           /\ holds'[r]["reader"] = holds[r]["reader"]
           /\ holds'[r]["writer"] = holds[r]["writer"]
           /\ holds'[r]["form"] = holds[r]["form"]
           /\ holds'[r]["buffer"] = holds[r]["buffer"]
    BY KindsApart
  <1> QED
    BY <1>1, <1>2, <1>3 DEF HoldsInv, PoolsInv
-----------------------------------------------------------------------------
LEMMA DecompressKeeps ==
    ASSUME PoolsInv, NEW q \in Requests, Decompress(q)
    PROVE  PoolsInv'
  <1> USE DEF PoolsInv
  <1>1. "reader" \in DOMAIN Kinds /\ q \in Compressed
    BY KindsApart DEF Decompress, HoldsInv
  <1>2. PICK x : Taken(q, "reader", x) /\ data' = [data EXCEPT ![x] = q]
    BY <1>1, TakenBy DEF Decompress
  <1>3. OnceInv' /\ DataInv'
    BY <1>1, <1>2, TakenOnce, TakenData DEF Decompress
  <1>4. PICK at \in {"compress", "bad_gzip"} : GoTo(q, at)
    BY DEF Decompress
  <1>5. /\ x # NoOne /\ x \in Kinds["reader"]
        /\ holds'[q]["reader"] = x
        /\ \A r \in Requests, j \in DOMAIN Kinds :
              r # q \/ j # "reader" => holds'[r][j] = holds[r][j]
    BY <1>1, <1>2, TakenHolds
  <1>6. HoldsInv' /\ pc' \in [Requests -> Places]
    <2>1. /\ holds'[q]["writer"] = holds[q]["writer"]
          /\ holds'[q]["form"] = holds[q]["form"]
          /\ holds'[q]["buffer"] = holds[q]["buffer"]
      BY <1>5, KindsApart
    <2>2. pc[q] = "decompress" /\ at \in Places
      BY DEF Decompress, Places
    <2> QED
      BY <1>1, <1>4, <1>5, <2>1, <2>2, OthersHold
      DEF HoldsInv, WithForm, WithBuffer
  <1>7. TypesInv'
    BY <1>1, <1>2, <1>6, TakenTypes, DataTyped DEF TypesInv, Decompress
  <1> QED
    BY <1>3, <1>6, <1>7

LEMMA CompressKeeps ==
    ASSUME PoolsInv, NEW q \in Requests, Compress(q)
    PROVE  PoolsInv'
  <1> USE DEF PoolsInv
  <1>1. "writer" \in DOMAIN Kinds /\ pc[q] = "compress"
    BY KindsApart DEF Compress
  <1>2. PICK at \in {"form", "close_writer"} : GoTo(q, at)
    BY DEF Compress
  <1>3. at \in Places
    BY DEF Places
  <1>4. CASE UNCHANGED <<pooled, made, holds, data>>
    <2>1. HoldsInv' /\ pc' \in [Requests -> Places]
      BY <1>1, <1>2, <1>3, <1>4, OthersHold DEF HoldsInv, WithForm, WithBuffer
    <2>2. TypesInv' /\ OnceInv' /\ DataInv'
      BY <1>4, <2>1 DEF TypesInv, OnceInv, DataInv, Compress
    <2> QED
      BY <2>1, <2>2
  <1>5. CASE Get(q, "writer", q)
    <2>1. PICK x : Taken(q, "writer", x) /\ data' = [data EXCEPT ![x] = q]
      BY <1>1, <1>5, TakenBy
    <2>2. OnceInv' /\ DataInv'
      BY <1>1, <2>1, TakenOnce, TakenData DEF Compress
    <2>3. \A r \in Requests, j \in DOMAIN Kinds :
             r # q \/ j # "writer" => holds'[r][j] = holds[r][j]
      BY <1>1, <2>1, HoldsChange DEF Taken
    <2>4. HoldsInv' /\ pc' \in [Requests -> Places]
      <3>1. /\ holds'[q]["reader"] = holds[q]["reader"]
            /\ holds'[q]["form"] = holds[q]["form"]
            /\ holds'[q]["buffer"] = holds[q]["buffer"]
        BY <2>3, KindsApart
      <3> QED
        BY <1>1, <1>2, <1>3, <2>3, <3>1, OthersHold
        DEF HoldsInv, WithForm, WithBuffer
    <2>5. TypesInv'
      BY <1>1, <2>1, <2>4, TakenTypes, DataTyped DEF TypesInv, Compress
    <2> QED
      BY <2>2, <2>4, <2>5
  <1> QED
    BY <1>4, <1>5 DEF Compress

LEMMA TakeFormKeeps ==
    ASSUME PoolsInv, NEW q \in Requests, TakeForm(q)
    PROVE  PoolsInv'
  <1> USE DEF PoolsInv
  <1>1. "form" \in DOMAIN Kinds /\ pc[q] = "form" /\ GoTo(q, "buffer")
    BY KindsApart DEF TakeForm
  <1>2. PICK x : Taken(q, "form", x) /\ data' = [data EXCEPT ![x] = NoOne]
    BY <1>1, TakenAsIsBy, TakenForm DEF TakeForm
  <1>3. OnceInv' /\ DataInv'
    BY <1>1, <1>2, TakenOnce, TakenData DEF TakeForm
  <1>4. /\ x # NoOne /\ x \in Kinds["form"] /\ holds'[q]["form"] = x
        /\ \A r \in Requests, j \in DOMAIN Kinds :
              r # q \/ j # "form" => holds'[r][j] = holds[r][j]
    BY <1>1, <1>2, TakenHolds
  <1>5. HoldsInv' /\ pc' \in [Requests -> Places]
    <2>1. /\ holds'[q]["reader"] = holds[q]["reader"]
          /\ holds'[q]["writer"] = holds[q]["writer"]
          /\ holds'[q]["buffer"] = holds[q]["buffer"]
      BY <1>4, KindsApart
    <2>2. "buffer" \in Places
      BY DEF Places, WithForm
    <2> QED
      BY <1>1, <1>4, <2>1, <2>2, OthersHold DEF HoldsInv, WithForm, WithBuffer
  <1>6. TypesInv'
    BY <1>1, <1>2, <1>5, TakenTypes, DataTyped DEF TypesInv, TakeForm
  <1> QED
    BY <1>3, <1>5, <1>6

LEMMA TakeBufferKeeps ==
    ASSUME PoolsInv, NEW q \in Requests, TakeBuffer(q)
    PROVE  PoolsInv'
  <1> USE DEF PoolsInv
  <1>1. "buffer" \in DOMAIN Kinds /\ pc[q] = "buffer" /\ GoTo(q, "read")
    BY KindsApart DEF TakeBuffer
  <1>2. PICK x : Taken(q, "buffer", x) /\ data' = [data EXCEPT ![x] = NoOne]
    BY <1>1, TakenBy DEF TakeBuffer
  <1>3. OnceInv' /\ DataInv'
    BY <1>1, <1>2, TakenOnce, TakenData DEF TakeBuffer
  <1>4. /\ x # NoOne /\ x \in Kinds["buffer"] /\ holds'[q]["buffer"] = x
        /\ \A r \in Requests, j \in DOMAIN Kinds :
              r # q \/ j # "buffer" => holds'[r][j] = holds[r][j]
    BY <1>1, <1>2, TakenHolds
  <1>5. HoldsInv' /\ pc' \in [Requests -> Places]
    <2>1. /\ holds'[q]["reader"] = holds[q]["reader"]
          /\ holds'[q]["writer"] = holds[q]["writer"]
          /\ holds'[q]["form"] = holds[q]["form"]
      BY <1>4, KindsApart
    <2>2. "read" \in Places
      BY DEF Places, WithForm
    <2> QED
      BY <1>1, <1>4, <2>1, <2>2, OthersHold DEF HoldsInv, WithForm, WithBuffer
  <1>6. TypesInv'
    BY <1>1, <1>2, <1>5, TakenTypes, DataTyped DEF TypesInv, TakeBuffer
  <1> QED
    BY <1>3, <1>5, <1>6

(* The steps that fill an object in use, or none. *)
LEMMA FillKeeps ==
    ASSUME PoolsInv, NEW q \in Requests, pc[q] = "read", Fill(q),
           NEW at \in {"parse", "put_buffer_failed"}, GoTo(q, at),
           UNCHANGED <<pooled, made, holds, served>>
    PROVE  PoolsInv'
  <1> USE DEF PoolsInv
  <1> DEFINE b == holds[q]["buffer"]
             d == IF q \in Compressed THEN data[holds[q]["reader"]] ELSE q
  <1>1. data' = [data EXCEPT ![b] = d]
    BY DEF Fill
  <1>2. b # NoOne /\ b \in Buffers /\ b \in Objects
    BY KindsApart DEF HoldsInv, TypesInv, WithBuffer
  <1>3. d \in Sources(q) \union {NoOne}
    <2>1. q \in Compressed => holds[q]["reader"] \in Readers
      BY KindsApart DEF HoldsInv, TypesInv
    <2> QED
      BY <2>1 DEF DataInv, Sources
  <1> HIDE DEF b, d
  <1>4. data'[b] = d /\ \A y \in Objects \ {b} : data'[y] = data[y]
    BY <1>1, <1>2 DEF TypesInv
  <1>5. pooled[b] = 0 /\ b \in made /\ \A r \in Requests \ {q} : holds[r]["buffer"] # b
    BY <1>2 DEF OnceInv, Once, b
  <1>6. \A r \in Requests : holds[r]["form"] # b
    BY <1>2, KindsApart DEF TypesInv
  <1>7. b \notin Readers /\ Readers \subseteq Objects /\ Buffers \subseteq Objects
        /\ Forms \subseteq Objects
    BY <1>2, PoolAssumption DEF Objects
  <1>8. DataInv'
    <2>1. \A y \in Buffers \union Forms :
             pooled'[y] > 0 \/ y \notin made' => data'[y] = NoOne
      BY <1>1, <1>4, <1>5, <1>7 DEF DataInv
    <2>2. \A y \in Readers : data'[y] \in Compressed \union {NoOne}
      BY <1>4, <1>7 DEF DataInv
    <2>3. \A r \in Requests, j \in {"buffer", "form"} : holds[r][j] # NoOne =>
             data'[holds[r][j]] \in Sources(r) \union {NoOne}
      <3> SUFFICES ASSUME NEW r \in Requests, NEW j \in {"buffer", "form"},
                          holds[r][j] # NoOne
                   PROVE  data'[holds[r][j]] \in Sources(r) \union {NoOne}
        OBVIOUS
      <3>1. holds[r][j] \in Objects
        BY KindsApart DEF TypesInv
      <3>2. CASE holds[r][j] = b
        BY <1>3, <1>4, <1>5, <1>6, <3>2
      <3>3. CASE holds[r][j] # b
        BY <1>4, <3>1, <3>3 DEF DataInv
      <3> QED
        BY <3>2, <3>3
    <2> QED
      BY <1>1, <2>1, <2>2, <2>3 DEF DataInv
  <1>9. HoldsInv' /\ pc' \in [Requests -> Places]
    <2>1. {"parse", "put_buffer_failed"} \subseteq Places
      BY DEF Places, WithForm
    <2> QED
      BY <2>1, OthersHold DEF HoldsInv, WithForm, WithBuffer
  <1>10. data' \in [Objects -> Requests \union {NoOne}]
    <2>1. d \in Requests \union {NoOne}
      BY <1>3, PoolAssumption DEF Sources
    <2> QED
      BY <1>1, <2>1, DataTyped
  <1>11. TypesInv' /\ OnceInv'
    BY <1>1, <1>9, <1>10 DEF TypesInv, OnceInv
  <1> QED
    BY <1>8, <1>9, <1>11

LEMMA ReadBodyKeeps ==
    ASSUME PoolsInv, NEW q \in Requests, ReadBody(q)
    PROVE  PoolsInv'
  BY FillKeeps DEF ReadBody

LEMMA ParseKeeps ==
    ASSUME PoolsInv, NEW q \in Requests, Parse(q)
    PROVE  PoolsInv'
  <1> USE DEF PoolsInv
  <1> DEFINE f == holds[q]["form"]
             d == data[holds[q]["buffer"]]
  <1>1. pc[q] = "parse" /\ UNCHANGED <<pooled, made, holds, served>>
        /\ (UNCHANGED data \/ data' = [data EXCEPT ![f] = d])
    BY DEF Parse
  <1>2. PICK at \in {"put_buffer", "put_buffer_failed"} : GoTo(q, at)
    BY DEF Parse
  <1>3. f # NoOne /\ f \in Forms /\ f \in Objects
    BY <1>1, KindsApart DEF HoldsInv, TypesInv, WithForm
  <1>4. d \in Sources(q) \union {NoOne}
    BY <1>1 DEF DataInv, HoldsInv, WithBuffer
  <1>5. pooled[f] = 0 /\ f \in made /\ \A r \in Requests \ {q} : holds[r]["form"] # f
    BY <1>3 DEF OnceInv, Once
  <1> HIDE DEF f, d
  <1>6. (data'[f] = d \/ data'[f] = data[f]) /\ \A y \in Objects \ {f} : data'[y] = data[y]
    BY <1>1, <1>3 DEF TypesInv
  <1>7. \A r \in Requests : holds[r]["buffer"] # f
    BY <1>3, KindsApart DEF TypesInv
  <1>8. f \notin Readers /\ Readers \subseteq Objects /\ Buffers \subseteq Objects
        /\ Forms \subseteq Objects
    BY <1>3, PoolAssumption DEF Objects
  <1>9. DataInv'
    <2>1. \A y \in Buffers \union Forms :
             pooled'[y] > 0 \/ y \notin made' => data'[y] = NoOne
      BY <1>1, <1>5, <1>6, <1>8 DEF DataInv
    <2>2. \A y \in Readers : data'[y] \in Compressed \union {NoOne}
      BY <1>6, <1>8 DEF DataInv
    <2>3. \A r \in Requests, j \in {"buffer", "form"} : holds[r][j] # NoOne =>
             data'[holds[r][j]] \in Sources(r) \union {NoOne}
      <3> SUFFICES ASSUME NEW r \in Requests, NEW j \in {"buffer", "form"},
                          holds[r][j] # NoOne
                   PROVE  data'[holds[r][j]] \in Sources(r) \union {NoOne}
        OBVIOUS
      <3>1. holds[r][j] \in Objects
        BY KindsApart DEF TypesInv
      <3>2. data[holds[r][j]] \in Sources(r) \union {NoOne}
        BY DEF DataInv
      <3>3. CASE holds[r][j] = f
        BY <1>4, <1>5, <1>6, <1>7, <3>2, <3>3
      <3>4. CASE holds[r][j] # f
        BY <1>6, <3>1, <3>2, <3>4
      <3> QED
        BY <3>3, <3>4
    <2> QED
      BY <1>1, <2>1, <2>2, <2>3 DEF DataInv
  <1>10. HoldsInv' /\ pc' \in [Requests -> Places]
    <2>1. at \in Places
      BY DEF Places, WithForm
    <2> QED
      BY <1>1, <1>2, <2>1, OthersHold DEF HoldsInv, WithForm, WithBuffer
  <1>11. data' \in [Objects -> Requests \union {NoOne}]
    <2>1. d \in Requests \union {NoOne}
      BY <1>4, PoolAssumption DEF Sources
    <2> QED
      BY <1>1, <2>1, DataTyped DEF TypesInv
  <1>12. TypesInv' /\ OnceInv'
    BY <1>1, <1>10, <1>11 DEF TypesInv, OnceInv
  <1> QED
    BY <1>9, <1>10, <1>12

LEMMA QuietKeeps ==
    ASSUME PoolsInv, NEW q \in Requests, UNCHANGED data,
           ReadFails(q) \/ Serve(q)
    PROVE  PoolsInv'
  <1> USE DEF PoolsInv
  <1>1. UNCHANGED <<pooled, made, holds>>
    BY DEF ReadFails, Serve
  <1>2. HoldsInv' /\ pc' \in [Requests -> Places]
    <2>1. CASE ReadFails(q)
      <3>1. "put_buffer_failed" \in Places
        BY DEF Places, WithForm
      <3> QED
        BY <1>1, <2>1, <3>1, OthersHold
        DEF ReadFails, HoldsInv, WithForm, WithBuffer
    <2>2. CASE Serve(q)
      <3>1. "put_form" \in Places
        BY DEF Places, WithForm
      <3> QED
        BY <1>1, <2>2, <3>1, OthersHold
        DEF Serve, HoldsInv, WithForm, WithBuffer
    <2> QED
      BY <2>1, <2>2
  <1>3. /\ served' \in [Requests -> Requests \union {NoOne}]
        /\ \A r \in Requests : served'[r] \in Sources(r) \union {NoOne}
    <2>1. CASE UNCHANGED served
      BY <2>1 DEF TypesInv, DataInv
    <2>2. CASE ~UNCHANGED served
      <3>1. pc[q] = "serve" /\ served' = [served EXCEPT ![q] = data[holds[q]["form"]]]
        BY <2>2 DEF ReadFails, Serve
      <3>2. data[holds[q]["form"]] \in Sources(q) \union {NoOne}
        BY <3>1 DEF DataInv, HoldsInv, WithForm
      <3>3. Sources(q) \subseteq Requests
        BY PoolAssumption DEF Sources
      <3> QED
        BY <3>1, <3>2, <3>3 DEF TypesInv, DataInv
    <2> QED
      BY <2>1, <2>2
  <1>4. TypesInv' /\ OnceInv' /\ DataInv'
    BY <1>1, <1>2, <1>3 DEF TypesInv, OnceInv, DataInv
  <1> QED
    BY <1>2, <1>4

LEMMA ReadFailsKeeps ==
    ASSUME PoolsInv, NEW q \in Requests, ReadFails(q)
    PROVE  PoolsInv'
  BY FillKeeps, QuietKeeps DEF ReadFails

LEMMA ServeKeeps ==
    ASSUME PoolsInv, NEW q \in Requests, Serve(q)
    PROVE  PoolsInv'
  BY QuietKeeps DEF Serve
-----------------------------------------------------------------------------
(* DataInv after an object went back: a buffer and a form clean. *)
LEMMA PutData ==
    ASSUME PoolsInv, NEW q \in Requests, NEW k \in Once, NEW owner,
           holds[q][k] # NoOne, Put(q, k, owner), Forget(q, k),
           UNCHANGED served, k \in {"buffer", "form"} => owner = NoOne
    PROVE  DataInv'
  <1> USE DEF PoolsInv
  <1> DEFINE x == holds[q][k]
  <1>1. k \in DOMAIN Kinds /\ x \in Kinds[k] /\ x \in Objects /\ x # NoOne
    BY KindsApart DEF TypesInv
  <1>2. /\ pooled' = [pooled EXCEPT ![x] = @ + 1] /\ UNCHANGED made
        /\ holds' = [holds EXCEPT ![q][k] = NoOne]
        /\ data' = [data EXCEPT ![x] = owner]
    BY DEF Put, Forget
  <1>3. \A r \in Requests \ {q} : holds[r][k] # x
    BY DEF OnceInv
  <1> HIDE DEF x
  <1>4. /\ holds'[q][k] = NoOne
        /\ \A r \in Requests, j \in DOMAIN Kinds :
              r # q \/ j # k => holds'[r][j] = holds[r][j]
    BY <1>1, <1>2, HoldsChange
  <1>5. /\ data'[x] = owner
        /\ \A y \in Objects \ {x} : data'[y] = data[y] /\ pooled'[y] = pooled[y]
    BY <1>1, <1>2 DEF TypesInv
  <1>6. x \notin Readers /\ (x \in Buffers \union Forms => owner = NoOne)
        /\ Buffers \union Forms \subseteq Objects /\ Readers \subseteq Objects
    BY <1>1, KindsApart DEF Once
  <1>7. \A y \in Buffers \union Forms :
           pooled'[y] > 0 \/ y \notin made' => data'[y] = NoOne
    BY <1>2, <1>5, <1>6 DEF DataInv
  <1>8. \A y \in Readers : data'[y] \in Compressed \union {NoOne}
    BY <1>5, <1>6 DEF DataInv
  <1>9. ASSUME NEW r \in Requests, NEW j \in {"buffer", "form"},
               holds'[r][j] # NoOne
        PROVE  data'[holds'[r][j]] \in Sources(r) \union {NoOne}
    <2>1. j \in DOMAIN Kinds
      BY KindsApart
    <2>2. ~(r = q /\ j = k) /\ holds'[r][j] = holds[r][j]
      BY <1>4, <1>9, <2>1
    <2>3. holds[r][j] # x
      <3>1. CASE j = k
        BY <1>3, <2>2, <3>1
      <3>2. CASE j # k
        BY <1>1, <1>9, <2>1, <2>2, <3>2, KindsApart DEF TypesInv
      <3> QED
        BY <3>1, <3>2
    <2>4. holds[r][j] \in Objects
      BY <1>9, <2>1, <2>2 DEF TypesInv
    <2> QED
      BY <1>5, <1>9, <2>2, <2>3, <2>4 DEF DataInv
  <1> QED
    BY <1>7, <1>8, <1>9 DEF DataInv

LEMMA PutBufferKeeps ==
    ASSUME PoolsInv, NEW q \in Requests, PutBuffer(q)
    PROVE  PoolsInv'
  <1> USE DEF PoolsInv
  <1>1. /\ pc[q] \in {"put_buffer", "put_buffer_failed"}
        /\ Put(q, "buffer", NoOne) /\ Forget(q, "buffer") /\ UNCHANGED served
    BY DEF PutBuffer
  <1>2. "buffer" \in Once /\ "buffer" \in DOMAIN Kinds /\ holds[q]["buffer"] # NoOne
    BY <1>1, KindsApart DEF Once, HoldsInv, WithBuffer
  <1>3. OnceInv' /\ DataInv'
    BY <1>1, <1>2, PutOnce, PutData
  <1>4. PICK at \in {"close_body", "close_body_failed"} : GoTo(q, at)
    BY DEF PutBuffer
  <1>5. HoldsInv' /\ pc' \in [Requests -> Places]
    <2>1. /\ holds'[q]["buffer"] = NoOne
          /\ \A r \in Requests, j \in DOMAIN Kinds :
                r # q \/ j # "buffer" => holds'[r][j] = holds[r][j]
      BY <1>1, <1>2, HoldsChange DEF Forget
    <2>2. /\ holds'[q]["reader"] = holds[q]["reader"]
          /\ holds'[q]["writer"] = holds[q]["writer"]
          /\ holds'[q]["form"] = holds[q]["form"]
      BY <2>1, KindsApart
    <2>3. at \in Places
      BY DEF Places, WithForm
    <2> QED
      BY <1>1, <1>4, <2>1, <2>2, <2>3, OthersHold
      DEF HoldsInv, WithForm, WithBuffer
  <1>6. TypesInv'
    BY <1>1, <1>2, <1>5, PutOnce, DataTyped DEF TypesInv, Put
  <1> QED
    BY <1>3, <1>5, <1>6

LEMMA PutFormKeeps ==
    ASSUME PoolsInv, NEW q \in Requests, PutForm(q)
    PROVE  PoolsInv'
  <1> USE DEF PoolsInv
  <1>1. /\ pc[q] = "put_form" /\ GoTo(q, "close_writer")
        /\ Put(q, "form", NoOne) /\ Forget(q, "form") /\ UNCHANGED served
    BY DEF PutForm
  <1>2. "form" \in Once /\ "form" \in DOMAIN Kinds /\ holds[q]["form"] # NoOne
    BY <1>1, KindsApart DEF Once, HoldsInv, WithForm
  <1>3. OnceInv' /\ DataInv'
    BY <1>1, <1>2, PutOnce, PutData
  <1>4. HoldsInv' /\ pc' \in [Requests -> Places]
    <2>1. /\ holds'[q]["form"] = NoOne
          /\ \A r \in Requests, j \in DOMAIN Kinds :
                r # q \/ j # "form" => holds'[r][j] = holds[r][j]
      BY <1>1, <1>2, HoldsChange DEF Forget
    <2>2. /\ holds'[q]["reader"] = holds[q]["reader"]
          /\ holds'[q]["writer"] = holds[q]["writer"]
          /\ holds'[q]["buffer"] = holds[q]["buffer"]
      BY <2>1, KindsApart
    <2>3. "close_writer" \in Places
      BY DEF Places
    <2> QED
      BY <1>1, <2>1, <2>2, <2>3, OthersHold DEF HoldsInv, WithForm, WithBuffer
  <1>5. TypesInv'
    BY <1>1, <1>2, <1>4, PutOnce, DataTyped DEF TypesInv, Put
  <1> QED
    BY <1>3, <1>4, <1>5

LEMMA CloseWriterKeeps ==
    ASSUME PoolsInv, NEW q \in Requests, CloseWriter(q)
    PROVE  PoolsInv'
  <1> USE DEF PoolsInv
  <1>1. pc[q] = "close_writer" /\ GoTo(q, "close_reader") /\ UNCHANGED served
    BY DEF CloseWriter
  <1>2. "close_reader" \in Places
    BY DEF Places
  <1>3. CASE holds[q]["writer"] = NoOne
    <2>1. UNCHANGED <<pooled, data, made, holds>>
      BY <1>3 DEF CloseWriter
    <2>2. HoldsInv' /\ pc' \in [Requests -> Places]
      BY <1>1, <1>2, <1>3, <2>1, OthersHold DEF HoldsInv, WithForm, WithBuffer
    <2> QED
      BY <1>1, <2>1, <2>2 DEF TypesInv, OnceInv, DataInv
  <1>4. CASE holds[q]["writer"] # NoOne
    <2>1. Put(q, "writer", q) /\ Forget(q, "writer")
      BY <1>4 DEF CloseWriter
    <2>2. "writer" \in Once /\ "writer" \in DOMAIN Kinds
      BY KindsApart DEF Once
    <2>3. OnceInv' /\ DataInv'
      BY <1>1, <1>4, <2>1, <2>2, PutOnce, PutData
    <2>4. HoldsInv' /\ pc' \in [Requests -> Places]
      <3>1. /\ holds'[q]["writer"] = NoOne
            /\ \A r \in Requests, j \in DOMAIN Kinds :
                  r # q \/ j # "writer" => holds'[r][j] = holds[r][j]
        BY <2>1, <2>2, HoldsChange DEF Forget
      <3>2. /\ holds'[q]["reader"] = holds[q]["reader"]
            /\ holds'[q]["form"] = holds[q]["form"]
            /\ holds'[q]["buffer"] = holds[q]["buffer"]
        BY <3>1, KindsApart
      <3> QED
        BY <1>1, <1>2, <3>1, <3>2, OthersHold DEF HoldsInv, WithForm, WithBuffer
    <2>5. TypesInv'
      BY <1>1, <1>4, <2>1, <2>2, <2>4, PutOnce, DataTyped DEF TypesInv, Put
    <2> QED
      BY <2>3, <2>4, <2>5
  <1> QED
    BY <1>3, <1>4
-----------------------------------------------------------------------------
(* A reader goes into its pool, once or again: the objects of the other pools
   and what is in them stay as they are. *)
LEMMA ReaderBack ==
    ASSUME PoolsInv, NEW q \in Compressed, holds[q]["reader"] # NoOne,
           NEW owner \in Compressed \union {NoOne}, Put(q, "reader", owner),
           UNCHANGED holds \/ Forget(q, "reader"), UNCHANGED served
    PROVE  /\ OnceInv' /\ DataInv'
           /\ pooled' \in [Objects -> Nat] /\ UNCHANGED made
           /\ data' \in [Objects -> Requests \union {NoOne}]
           /\ holds' \in [Requests -> [DOMAIN Kinds -> Objects \union {NoOne}]]
           /\ \A r \in Requests, j \in DOMAIN Kinds :
                 /\ holds'[r][j] \in Kinds[j] \union {NoOne}
                 /\ r # q \/ j # "reader" => holds'[r][j] = holds[r][j]
  <1> USE DEF PoolsInv
  <1> DEFINE x == holds[q]["reader"]
  <1>1. /\ q \in Requests /\ "reader" \in DOMAIN Kinds
        /\ x \in Readers /\ x \in Objects /\ x # NoOne
    BY KindsApart, PoolAssumption DEF TypesInv
  <1>2. /\ pooled' = [pooled EXCEPT ![x] = @ + 1] /\ UNCHANGED made
        /\ data' = [data EXCEPT ![x] = owner]
    BY DEF Put
  <1> HIDE DEF x
  <1>3. /\ holds' \in [Requests -> [DOMAIN Kinds -> Objects \union {NoOne}]]
        /\ \A r \in Requests, j \in DOMAIN Kinds :
              /\ holds'[r][j] \in Kinds[j] \union {NoOne}
              /\ r # q \/ j # "reader" => holds'[r][j] = holds[r][j]
    <2>1. CASE UNCHANGED holds
      BY <2>1 DEF TypesInv
    <2>2. CASE Forget(q, "reader")
      BY <1>1, <2>2, HoldsChange DEF Forget
    <2> QED
      BY <2>1, <2>2
  <1>4. pooled' \in [Objects -> Nat] /\ data' \in [Objects -> Requests \union {NoOne}]
    BY <1>1, <1>2, PoolAssumption DEF TypesInv
  <1>5. /\ data'[x] = owner
        /\ \A y \in Objects \ {x} : data'[y] = data[y] /\ pooled'[y] = pooled[y]
    BY <1>1, <1>2 DEF TypesInv
  <1>6. \A j \in Once : j \in DOMAIN Kinds /\ j # "reader" /\ x \notin Kinds[j]
                        /\ Kinds[j] \subseteq Objects
    BY <1>1, KindsApart DEF Once
  <1>7. \A r \in Requests, j \in Once :
           /\ holds'[r][j] = holds[r][j]
           /\ holds[r][j] # NoOne => holds[r][j] \in Objects \ {x}
    BY <1>3, <1>6 DEF TypesInv
  <1>8. OnceInv'
    BY <1>2, <1>5, <1>6, <1>7 DEF OnceInv
  <1>9. DataInv'
    <2>1. /\ x \notin Buffers \union Forms
          /\ Buffers \union Forms \subseteq Objects /\ Readers \subseteq Objects
      BY <1>1, PoolAssumption DEF Objects
    <2>2. \A y \in Buffers \union Forms :
             pooled'[y] > 0 \/ y \notin made' => data'[y] = NoOne
      BY <1>2, <1>5, <2>1 DEF DataInv
    <2>3. \A y \in Readers : data'[y] \in Compressed \union {NoOne}
      BY <1>5, <2>1 DEF DataInv
    <2>4. \A r \in Requests, j \in {"buffer", "form"} : holds'[r][j] # NoOne =>
             data'[holds'[r][j]] \in Sources(r) \union {NoOne}
      BY <1>5, <1>7 DEF DataInv, Once
    <2> QED
      BY <2>2, <2>3, <2>4 DEF DataInv
  <1> QED
    BY <1>2, <1>3, <1>4, <1>8, <1>9

LEMMA BadGzipKeeps ==
    ASSUME PoolsInv, NEW q \in Requests, BadGzip(q)
    PROVE  PoolsInv'
  <1> USE DEF PoolsInv
  <1>1. /\ pc[q] = "bad_gzip" /\ Put(q, "reader", q) /\ Forget(q, "reader")
        /\ GoTo(q, "done") /\ UNCHANGED served
    BY DEF BadGzip
  <1>2. q \in Compressed /\ holds[q]["reader"] # NoOne
    BY <1>1 DEF HoldsInv
  <1>3. /\ OnceInv' /\ DataInv'
        /\ pooled' \in [Objects -> Nat] /\ UNCHANGED made
        /\ data' \in [Objects -> Requests \union {NoOne}]
        /\ holds' \in [Requests -> [DOMAIN Kinds -> Objects \union {NoOne}]]
        /\ \A r \in Requests, j \in DOMAIN Kinds :
              /\ holds'[r][j] \in Kinds[j] \union {NoOne}
              /\ r # q \/ j # "reader" => holds'[r][j] = holds[r][j]
    BY <1>1, <1>2, ReaderBack
  <1>4. HoldsInv' /\ pc' \in [Requests -> Places]
    <2>1. /\ holds'[q]["reader"] = NoOne
          /\ holds'[q]["writer"] = holds[q]["writer"]
          /\ holds'[q]["form"] = holds[q]["form"]
          /\ holds'[q]["buffer"] = holds[q]["buffer"]
      <3>1. holds'[q]["reader"] = NoOne
        BY <1>1, KindsApart, HoldsChange DEF Forget
      <3> QED
        BY <1>3, <3>1, KindsApart
    <2>2. "done" \in Places
      BY DEF Places
    <2> QED
      BY <1>1, <1>2, <1>3, <2>1, <2>2, OthersHold, SMTT(30)
      DEF HoldsInv, WithForm, WithBuffer
  <1>5. TypesInv'
    BY <1>1, <1>3, <1>4 DEF TypesInv
  <1> QED
    BY <1>3, <1>4, <1>5

LEMMA CloseBodyKeeps ==
    ASSUME PoolsInv, NEW q \in Requests, CloseBody(q)
    PROVE  PoolsInv'
  <1> USE DEF PoolsInv
  <1>1. /\ pc[q] \in {"close_body", "close_body_failed"}
        /\ CloseReader(q) /\ UNCHANGED <<holds, served>>
    BY DEF CloseBody
  <1>2. PICK at \in {"serve", "put_form"} : GoTo(q, at)
    BY DEF CloseBody
  <1>3. HoldsInv' /\ pc' \in [Requests -> Places]
    <2>1. at \in Places
      BY DEF Places, WithForm
    <2> QED
      BY <1>1, <1>2, <2>1, OthersHold DEF HoldsInv, WithForm, WithBuffer
  <1>4. CASE UNCHANGED <<pooled, data, made>>
    BY <1>1, <1>3, <1>4 DEF TypesInv, OnceInv, DataInv
  <1>5. CASE q \in Compressed /\ Put(q, "reader", data[holds[q]["reader"]])
    <2>1. holds[q]["reader"] # NoOne /\ holds[q]["reader"] \in Readers
      BY <1>1, <1>5, KindsApart DEF HoldsInv, TypesInv
    <2>2. data[holds[q]["reader"]] \in Compressed \union {NoOne}
      BY <2>1 DEF DataInv
    <2>3. /\ OnceInv' /\ DataInv'
          /\ pooled' \in [Objects -> Nat] /\ UNCHANGED made
          /\ data' \in [Objects -> Requests \union {NoOne}]
      BY <1>1, <1>5, <2>1, <2>2, ReaderBack
    <2>4. TypesInv'
      BY <1>1, <1>3, <2>3 DEF TypesInv
    <2> QED
      BY <1>3, <2>3, <2>4
  <1> QED
    BY <1>1, <1>4, <1>5 DEF CloseReader

LEMMA FinishKeeps ==
    ASSUME PoolsInv, NEW q \in Requests, Finish(q)
    PROVE  PoolsInv'
  <1> USE DEF PoolsInv
  <1>1. /\ pc[q] = "close_reader" /\ CloseReader(q) /\ Forget(q, "reader")
        /\ GoTo(q, "done") /\ UNCHANGED served
    BY DEF Finish
  <1>2. "reader" \in DOMAIN Kinds
    BY KindsApart
  <1>3. /\ holds' \in [Requests -> [DOMAIN Kinds -> Objects \union {NoOne}]]
        /\ holds'[q]["reader"] = NoOne
        /\ \A r \in Requests, j \in DOMAIN Kinds :
              /\ holds'[r][j] \in Kinds[j] \union {NoOne}
              /\ r # q \/ j # "reader" => holds'[r][j] = holds[r][j]
    BY <1>1, <1>2, HoldsChange DEF Forget
  <1>4. HoldsInv' /\ pc' \in [Requests -> Places]
    <2>1. /\ holds'[q]["writer"] = holds[q]["writer"]
          /\ holds'[q]["form"] = holds[q]["form"]
          /\ holds'[q]["buffer"] = holds[q]["buffer"]
      BY <1>3, KindsApart
    <2>2. "done" \in Places
      BY DEF Places
    <2> QED
      BY <1>1, <1>3, <2>1, <2>2, OthersHold DEF HoldsInv, WithForm, WithBuffer
  <1>5. CASE UNCHANGED <<pooled, data, made>>
    <2>1. \A r \in Requests, j \in Once : holds'[r][j] = holds[r][j]
      BY <1>3, KindsApart DEF Once
    <2>2. OnceInv'
      BY <1>5, <2>1 DEF OnceInv
    <2>3. DataInv'
      BY <1>1, <1>5, <2>1 DEF DataInv, Once
    <2>4. TypesInv'
      BY <1>1, <1>3, <1>4, <1>5 DEF TypesInv
    <2> QED
      BY <1>4, <2>2, <2>3, <2>4
  <1>6. CASE q \in Compressed /\ Put(q, "reader", data[holds[q]["reader"]])
    <2>1. holds[q]["reader"] # NoOne /\ holds[q]["reader"] \in Readers
      BY <1>1, <1>6, KindsApart DEF HoldsInv, TypesInv
    <2>2. data[holds[q]["reader"]] \in Compressed \union {NoOne}
      BY <2>1 DEF DataInv
    <2>3. /\ OnceInv' /\ DataInv'
          /\ pooled' \in [Objects -> Nat] /\ UNCHANGED made
          /\ data' \in [Objects -> Requests \union {NoOne}]
      BY <1>1, <1>6, <2>1, <2>2, ReaderBack
    <2>4. TypesInv'
      BY <1>1, <1>3, <1>4, <2>3 DEF TypesInv
    <2> QED
      BY <1>4, <2>3, <2>4
  <1> QED
    BY <1>1, <1>5, <1>6 DEF CloseReader
-----------------------------------------------------------------------------
LEMMA PoolsKeep == PoolsInv /\ [Next]_vars => PoolsInv'
  <1> SUFFICES ASSUME PoolsInv, [Next]_vars PROVE PoolsInv'
    OBVIOUS
  <1>1. CASE UNCHANGED vars
    BY <1>1 DEF vars, PoolsInv, TypesInv, HoldsInv, OnceInv, DataInv
  <1>2. ASSUME NEW q \in Requests, Step(q)
        PROVE  PoolsInv'
    BY <1>2, DecompressKeeps, BadGzipKeeps, CompressKeeps, TakeFormKeeps,
       TakeBufferKeeps, ReadBodyKeeps, ReadFailsKeeps, ServeKeeps, ParseKeeps,
       PutBufferKeeps, CloseBodyKeeps, PutFormKeeps, CloseWriterKeeps, FinishKeeps
    DEF Step
  <1> QED
    BY <1>1, <1>2 DEF Next

-----------------------------------------------------------------------------
LEMMA PoolsIsInvariant == Spec => []PoolsInv
  BY PoolsStart, PoolsKeep, PTL DEF Spec

(* The pools hand out objects of their type, and a request that is done keeps
   no pointer to one, whatever path it took through the handler. *)
THEOREM PoolsTyped == Spec => []PoolsTypeOK
  <1>1. PoolsInv => PoolsTypeOK
    <2> SUFFICES ASSUME PoolsInv PROVE PoolsTypeOK
      OBVIOUS
    <2>1. ASSUME NEW q \in Requests, NEW k \in DOMAIN Kinds, pc[q] = "done"
          PROVE  holds[q][k] = NoOne
      BY <2>1, KindsApart DEF PoolsInv, HoldsInv, WithForm, WithBuffer
    <2> QED
      BY <2>1 DEF PoolsInv, TypesInv, PoolsTypeOK
  <1> QED
    BY <1>1, PoolsIsInvariant, PTL

(* However the requests interleave and however many come compressed, a buffer,
   a form or a writer in use is used by one request and is in no pool. *)
THEOREM ObjectsUsedByOne == Spec => []UsedByOne
  <1>1. PoolsInv => UsedByOne
    BY DEF PoolsInv, OnceInv, Once, UsedByOne
  <1> QED
    BY <1>1, PoolsIsInvariant, PTL

(* What the pools of buffers and forms hold is clean, and is there once. *)
THEOREM PoolsAreClean == Spec => []PooledIsClean
  <1>1. PoolsInv => PooledIsClean
    <2> SUFFICES ASSUME PoolsInv, NEW x \in Buffers \union Forms, pooled[x] > 0
                 PROVE  pooled[x] = 1 /\ data[x] = NoOne
      BY DEF PooledIsClean
    <2>1. pooled[x] <= 1 /\ pooled[x] \in Nat
      BY KindsApart DEF PoolsInv, OnceInv, Once, TypesInv
    <2> QED
      BY <2>1 DEF PoolsInv, DataInv
  <1> QED
    BY <1>1, PoolsIsInvariant, PTL

(* Whatever the readers of the compressed requests are bound to, a plain
   request is asked for its own data or none, and a compressed one at worst for
   that of another compressed one, for any number of requests and objects. *)
THEOREM NoLeakFromPlain == Spec => []DataFromSources
  <1>1. PoolsInv => DataFromSources
    BY DEF PoolsInv, DataInv, DataFromSources
  <1> QED
    BY <1>1, PoolsIsInvariant, PTL
=============================================================================
