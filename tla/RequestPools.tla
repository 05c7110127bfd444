---------------------------- MODULE RequestPools ----------------------------
(***************************************************************************)
(* The pooled objects of one withdrawal request: the gzip reader and writer*)
(* of pkg/gzip, the body buffer of ReadBodyOptimized and the               *)
(* WithdrawRequest of the handler.  A sync.Pool is a bag: Put adds a       *)
(* pointer whether it is in the pool or not, Get takes any, or a new one   *)
(* when the pool gives none.  Data is represented by the request it        *)
(* belongs to.                                                             *)
(***************************************************************************)
EXTENDS Integers

CONSTANTS
    Requests,   \* requests in flight, one after the other or concurrently
    Compressed, \* those that come with Content-Encoding: gzip
    Readers, Writers, Buffers, Forms, \* objects the pools may hand out
    NoOne       \* no request, no object

Objects == Readers \union Writers \union Buffers \union Forms

(* The pools are of four types, and no object is of two. *)
ASSUME PoolAssumption ==
    /\ Compressed \subseteq Requests
    /\ NoOne \notin Requests \union Objects
    /\ Readers \intersect (Writers \union Buffers \union Forms) = {}
    /\ Writers \intersect (Buffers \union Forms) = {}
    /\ Buffers \intersect Forms = {}

VARIABLES
    pc,     \* [Requests -> where its goroutine is]
    pooled, \* [Objects -> how many times it is in its pool]
    made,   \* the objects allocated so far
    holds,  \* [Requests -> the objects its goroutine uses]
    data,   \* [Objects -> whose data is in the object]
    served  \* [Requests -> whose withdrawal the service was asked for]

vars == <<pc, pooled, made, holds, data, served>>
-----------------------------------------------------------------------------
Kinds == [reader |-> Readers, writer |-> Writers, buffer |-> Buffers,
          form |-> Forms]

Init ==
    /\ pc = [q \in Requests |->
               IF q \in Compressed THEN "decompress" ELSE "compress"]
    /\ pooled = [x \in Objects |-> 0]
    /\ made = {}
    /\ holds = [q \in Requests |-> [k \in DOMAIN Kinds |-> NoOne]]
    /\ data = [x \in Objects |-> NoOne]
    /\ served = [q \in Requests |-> NoOne]

(* Pool.Get, and what the caller writes into the object at once. *)
Get(q, kind, owner) ==
    \E x \in Kinds[kind] :
        /\ \/ pooled[x] > 0 /\ pooled' = [pooled EXCEPT ![x] = @ - 1]
           \/ x \notin made /\ UNCHANGED pooled
        /\ made' = made \union {x}
        /\ holds' = [holds EXCEPT ![q][kind] = x]
        /\ data' = [data EXCEPT ![x] = owner]

(* The same without touching the content. *)
GetAsIs(q, kind) ==
    \E x \in Kinds[kind] :
        /\ \/ pooled[x] > 0 /\ pooled' = [pooled EXCEPT ![x] = @ - 1]
           \/ x \notin made /\ UNCHANGED pooled
        /\ made' = made \union {x}
        /\ holds' = [holds EXCEPT ![q][kind] = x]
        /\ UNCHANGED data

(* Pool.Put of an object that is left with the given content. *)
Put(q, kind, owner) ==
    LET x == holds[q][kind] IN
    /\ pooled' = [pooled EXCEPT ![x] = @ + 1]
    /\ data' = [data EXCEPT ![x] = owner]
    /\ UNCHANGED made

Forget(q, kind) == holds' = [holds EXCEPT ![q][kind] = NoOne]

GoTo(q, at) == pc' = [pc EXCEPT ![q] = at]
-----------------------------------------------------------------------------
(* Middleware: NewCompressReader takes a reader and resets it to the body; a
   body that is not gzip puts it back and ends the request. *)
Decompress(q) ==
    /\ pc[q] = "decompress"
    /\ Get(q, "reader", q)
    /\ \/ GoTo(q, "compress") \/ GoTo(q, "bad_gzip")
    /\ UNCHANGED served

BadGzip(q) ==
    /\ pc[q] = "bad_gzip"
    /\ Put(q, "reader", q)
    /\ Forget(q, "reader")
    /\ GoTo(q, "done")
    /\ UNCHANGED served

(* Middleware: for a client that accepts gzip, NewCompressWriter takes a writer
   and resets it to the answer.  Then the router may refuse the request before
   the handler. *)
Compress(q) ==
    /\ pc[q] = "compress"
    /\ \/ Get(q, "writer", q)
       \/ UNCHANGED <<pooled, made, holds, data>>
    /\ GoTo(q, "form") \/ GoTo(q, "close_writer")
    /\ UNCHANGED served

(* Withdraw takes a WithdrawRequest ... *)
TakeForm(q) ==
    /\ pc[q] = "form"
    /\ GetAsIs(q, "form")
    /\ GoTo(q, "buffer")
    /\ UNCHANGED served

(* ... and ReadBodyOptimized a buffer, which it clears. *)
TakeBuffer(q) ==
    /\ pc[q] = "buffer"
    /\ Get(q, "buffer", NoOne)
    /\ GoTo(q, "read")
    /\ UNCHANGED served

(* io.ReadFull fills the buffer from the body, through the reader of the
   request if it has one; the reader gives what it is bound to now. *)
Fill(q) ==
    LET source == IF q \in Compressed THEN data[holds[q].reader] ELSE q
    IN  data' = [data EXCEPT ![holds[q].buffer] = source]

ReadBody(q) ==
    /\ pc[q] = "read"
    /\ Fill(q)
    /\ GoTo(q, "parse")
    /\ UNCHANGED <<pooled, made, holds, served>>

(* An error of the stream: a part of the body may be in the buffer by then. *)
ReadFails(q) ==
    /\ pc[q] = "read"
    /\ Fill(q) \/ UNCHANGED data
    /\ GoTo(q, "put_buffer_failed")
    /\ UNCHANGED <<pooled, made, holds, served>>

(* json.Unmarshal writes the fields the body names, perhaps none of them, and
   an invalid body is refused. *)
Parse(q) ==
    /\ pc[q] = "parse"
    /\ \/ /\ data' = [data EXCEPT ![holds[q].form] = data[holds[q].buffer]]
          /\ GoTo(q, "put_buffer")
       \/ UNCHANGED data /\ GoTo(q, "put_buffer")
       \/ UNCHANGED data /\ GoTo(q, "put_buffer_failed")
    /\ UNCHANGED <<pooled, made, holds, served>>

(* The deferred function of ReadBodyOptimized clears the buffer and puts it
   back ... *)
PutBuffer(q) ==
    /\ pc[q] \in {"put_buffer", "put_buffer_failed"}
    /\ Put(q, "buffer", NoOne)
    /\ Forget(q, "buffer")
    /\ GoTo(q, IF pc[q] = "put_buffer" THEN "close_body" ELSE "close_body_failed")
    /\ UNCHANGED served

(* CompressReader.Close: unless closing the connection's body fails, the reader
   goes into the pool, and the CompressReader keeps its pointer. *)
CloseReader(q) ==
    \/ q \in Compressed /\ Put(q, "reader", data[holds[q].reader])
    \/ UNCHANGED <<pooled, data, made>>

(* ... and closes the body. *)
CloseBody(q) ==
    /\ pc[q] \in {"close_body", "close_body_failed"}
    /\ CloseReader(q)
    /\ UNCHANGED holds
    /\ GoTo(q, IF pc[q] = "close_body" THEN "serve" ELSE "put_form")
    /\ UNCHANGED served

(* Validate may refuse what the form says; service.Withdraw uses it. *)
Serve(q) ==
    /\ pc[q] = "serve"
    /\ \/ served' = [served EXCEPT ![q] = data[holds[q].form]]
       \/ UNCHANGED served
    /\ GoTo(q, "put_form")
    /\ UNCHANGED <<pooled, made, holds, data>>

(* A slip for the properties to catch: the form is put back as it is. *)
PutFormUnreset(q) ==
    /\ pc[q] = "put_form"
    /\ Put(q, "form", data[holds[q].form])
    /\ Forget(q, "form")
    /\ GoTo(q, "close_writer")
    /\ UNCHANGED served

(* The deferred function of Withdraw: Reset, then Put. *)
PutForm(q) ==
    /\ pc[q] = "put_form"
    /\ Put(q, "form", NoOne)
    /\ Forget(q, "form")
    /\ GoTo(q, "close_writer")
    /\ UNCHANGED served

(* A slip for the properties to catch: the writer goes back to the pool before
   the answer is written. *)
PutWriterEarly(q) ==
    /\ pc[q] = "close_writer"
    /\ IF holds[q].writer # NoOne
       THEN Put(q, "writer", q)
       ELSE UNCHANGED <<pooled, data, made>>
    /\ GoTo(q, "close_reader")
    /\ UNCHANGED <<holds, served>>

(* CompressWriter.Close, deferred by the middleware. *)
CloseWriter(q) ==
    /\ pc[q] = "close_writer"
    /\ IF holds[q].writer # NoOne
       THEN Put(q, "writer", q) /\ Forget(q, "writer")
       ELSE UNCHANGED <<pooled, data, made, holds>>
    /\ GoTo(q, "close_reader")
    /\ UNCHANGED served

(* The middleware deferred CompressReader.Close first, so it runs last. *)
Finish(q) ==
    /\ pc[q] = "close_reader"
    /\ CloseReader(q)
    /\ Forget(q, "reader")
    /\ GoTo(q, "done")
    /\ UNCHANGED served

Step(q) ==
    \/ Decompress(q) \/ BadGzip(q) \/ Compress(q)
    \/ TakeForm(q) \/ TakeBuffer(q) \/ ReadBody(q) \/ ReadFails(q) \/ Parse(q)
    \/ PutBuffer(q) \/ CloseBody(q) \/ Serve(q) \/ PutForm(q)
    \/ CloseWriter(q) \/ Finish(q)

Next == \E q \in Requests : Step(q)

Spec == Init /\ [][Next]_vars
-----------------------------------------------------------------------------
(* Types, and a request that is done keeps no pointer into a pool. *)
PoolsTypeOK ==
    /\ pooled \in [Objects -> Nat]
    /\ made \subseteq Objects
    /\ \A q \in Requests, k \in DOMAIN Kinds :
          holds[q][k] \in Kinds[k] \union {NoOne}
    /\ data \in [Objects -> Requests \union {NoOne}]
    /\ served \in [Requests -> Requests \union {NoOne}]
    /\ \A q \in Requests, k \in DOMAIN Kinds :
          pc[q] = "done" => holds[q][k] = NoOne

(* An object a request uses is used by no other request and cannot be handed
   out: buffers, forms and writers go back to their pools once, after the last
   use. *)
UsedByOne ==
    \A q \in Requests, k \in {"writer", "buffer", "form"} :
        LET x == holds[q][k] IN
        x # NoOne => /\ pooled[x] = 0
                     /\ \A r \in Requests \ {q} : holds[r][k] # x

(* contract.go and helper.go: a pooled buffer and a pooled form hold nobody's
   data, and each is in its pool once. *)
PooledIsClean ==
    \A x \in Buffers \union Forms :
        pooled[x] > 0 => pooled[x] = 1 /\ data[x] = NoOne

(* The requests whose data a request may get: a plain one its own, and a
   compressed one that of any compressed request, since CompressReader.Close
   puts its reader into the pool twice. *)
Sources(q) == IF q \in Compressed THEN Compressed ELSE {q}

(* No amount leaks into or out of a plain request, whatever readers the
   compressed ones come to share and wherever requests were refused before: the
   forms and buffers of contract.go and helper.go carry nothing over. *)
DataFromSources == \A q \in Requests : served[q] \in Sources(q) \union {NoOne}

(* contract.go: no amount leaks from one request into a parallel one; the
   service is only asked for what the request itself carried. *)
OwnDataOnly == \A q \in Requests : served[q] \in {q, NoOne}
=============================================================================
