--------------------------- MODULE HandlersProofs ---------------------------
(***************************************************************************)
(* The safety properties of Handlers, for bodies, buffers and lists of any *)
(* size and any set of requests.                                           *)
(***************************************************************************)
EXTENDS Handlers, SumProofs, TLAPS

(* What the processor of ReadBodyOptimized may rely on. *)
Gathered ==
    /\ read > 0
    /\ read = Len(form.body) \/ read = MaxBodySize \/ ending = "cut"

(* HandlersTypeOK knows nothing of the way a request went: how its body was
   read, that it was parsed, and that nobody has answered it yet. *)
HandlersInv ==
    /\ HandlersTypeOK
    /\ form \in Forms
    /\ pc # "done" => status = 0 /\ result = "none"
    /\ pc \in {"type", "read", "process"} => form.route \in Bodied
    /\ pc \in {"query", "rows"} => form.route \in Lists
    /\ pc = "service" => form.route \notin Lists
    /\ pc \in {"auth", "type", "read"} => read <= Len(form.body)
    /\ form.route \in Bodied /\ (pc \in {"process", "service"} \/ result # "none")
         => Gathered
    /\ Asks /\ form.route # "upload" => Parses(Payload)
    /\ AnswersFit
    /\ OrdersListIsWhole

USE HandlersAssumption

(* What the assumption says of a request. *)
LEMMA FormIsKnown ==
    ASSUME HandlersInv
    PROVE  /\ form \in Forms /\ form.route \in Routes
           /\ form.body \in Seq(0 .. 13) /\ Len(form.body) \in Nat
           /\ MaxBodySize \in Nat \ {0} /\ MaxRows \in Nat
           /\ read \in Nat /\ rows \in Nat /\ shown \in Nat
BY DEF HandlersInv, HandlersTypeOK

(* Every request starts within the invariant. *)
LEMMA InitSound == Init => HandlersInv
BY DEF Init, HandlersInv, HandlersTypeOK, Gathered, Asks, AnswersFit, Wire,
       OrdersListIsWhole, Routes, Bodied, Public, Lists

(* An answer with an error before anything was asked keeps the invariant. *)
LEMMA RefusalSound ==
    ASSUME HandlersInv, NEW code \in {400, 401, 415, 422, 500},
           pc # "done", Answer(code),
           UNCHANGED <<form, rows, result>>,
           read' \in 0 .. MaxBodySize, shown' \in 0 .. rows,
           ending' \in {"none", "full", "eof", "cut", "broken"}
    PROVE  HandlersInv'
<1>1. result = "none" /\ result' = "none" /\ pc' = "done" /\ status' = code
  BY DEF HandlersInv, Answer
<1>2. HandlersTypeOK'
  BY <1>1 DEF HandlersInv, HandlersTypeOK
<1>3. ~Asks'
  BY <1>1 DEF Asks
<1>4. AnswersFit'
  BY <1>1 DEF AnswersFit, Wire
<1>5. OrdersListIsWhole'
  BY <1>1 DEF OrdersListIsWhole
<1> QED
  BY <1>1, <1>2, <1>3, <1>4, <1>5 DEF HandlersInv

(* What a service returns and the status of it fit. *)
LEMMA StatusFits ==
    ASSUME NEW route \in Routes \ Lists, NEW r \in Results(route)
    PROVE  /\ StatusOf(route, r) \in {200, 202, 401, 402, 409, 500}
           /\ StatusOf(route, r) < 300 <=> r \in {"ok", "same_user"}
           /\ StatusOf(route, r) = 202 <=> route = "upload" /\ r = "ok"
           /\ route # "upload" => r # "same_user"
           /\ r \in {"ok", "conflict", "invalid", "same_user", "other_user",
                     "insufficient", "duplicate", "error"}
<1>1. CASE route = "register"
  <2>1. /\ r \in {"ok", "conflict", "error"}
        /\ StatusOf(route, r) = RegisterStatus(r)
    BY <1>1 DEF Results, StatusOf
  <2> QED
    BY <1>1, <2>1 DEF RegisterStatus
<1>2. CASE route = "login"
  <2>1. /\ r \in {"ok", "invalid", "error"}
        /\ StatusOf(route, r) = LoginStatus(r)
    BY <1>2 DEF Results, StatusOf
  <2> QED
    BY <1>2, <2>1 DEF LoginStatus
<1>3. CASE route = "upload"
  <2>1. /\ r \in {"ok", "same_user", "other_user", "error"}
        /\ StatusOf(route, r) = UploadStatus(r)
    BY <1>3 DEF Results, StatusOf
  <2> QED
    BY <1>3, <2>1 DEF UploadStatus
<1>4. CASE route = "withdraw"
  <2>1. /\ r \in {"ok", "insufficient", "duplicate", "error"}
        /\ StatusOf(route, r) = WithdrawStatus(r)
    BY <1>4 DEF Results, StatusOf
  <2> QED
    BY <1>4, <2>1 DEF WithdrawStatus
<1>5. CASE route = "balance"
  <2>1. r \in {"ok", "error"} /\ StatusOf(route, r) = BalanceStatus(r)
    BY <1>5 DEF Results, StatusOf
  <2> QED
    BY <1>5, <2>1 DEF BalanceStatus
<1> QED
  BY <1>1, <1>2, <1>3, <1>4, <1>5 DEF Routes, Bodied, Public

(* The steps that go on with a request and leave its body and rows alone. *)
LEMMA ForwardSound ==
    ASSUME HandlersInv, OnlyPc, pc # "done",
           NEW s \in {"type", "read", "query", "rows"}, GoTo(s),
           s \in {"type", "read"} => form.route \in Bodied,
           s \in {"query", "rows"} => form.route \in Lists,
           s \in {"type", "read"} => read <= Len(form.body)
    PROVE  HandlersInv'
<1>1. /\ pc' = s /\ status' = 0 /\ result' = "none"
      /\ UNCHANGED <<form, read, ending, rows, shown>>
  BY DEF HandlersInv, GoTo, OnlyPc
<1>2. HandlersTypeOK'
  BY <1>1 DEF HandlersInv, HandlersTypeOK
<1>3. ~Asks' /\ AnswersFit' /\ OrdersListIsWhole'
  BY <1>1 DEF Asks, AnswersFit, OrdersListIsWhole
<1> QED
  BY <1>1, <1>2, <1>3 DEF HandlersInv

(* Every step keeps the invariant. *)
LEMMA NextSound == HandlersInv /\ [Next]_vars => HandlersInv'
<1> SUFFICES ASSUME HandlersInv, [Next]_vars
             PROVE  HandlersInv'
  OBVIOUS
<1>0. /\ form \in Forms /\ form.route \in Routes /\ Len(form.body) \in Nat
      /\ MaxBodySize \in Nat \ {0} /\ MaxRows \in Nat
      /\ read \in 0 .. MaxBodySize /\ rows \in 0 .. MaxRows
      /\ shown \in 0 .. rows
      /\ ending \in {"none", "full", "eof", "cut", "broken"}
  BY FormIsKnown DEF HandlersInv, HandlersTypeOK
<1>1. CASE Authorize
  <2>1. pc = "auth" /\ OnlyPc /\ read <= Len(form.body)
    BY <1>1 DEF Authorize, HandlersInv
  <2>2. CASE ~form.session
    <3>1. Answer(401)
      BY <1>1, <2>2 DEF Authorize
    <3> QED
      BY <1>0, <2>1, <3>1, RefusalSound DEF OnlyPc
  <2>3. CASE form.session /\ form.route \in Lists
    <3>1. GoTo("query")
      BY <1>1, <2>3 DEF Authorize, Lists
    <3> QED
      BY <2>1, <2>3, <3>1, ForwardSound
  <2>4. CASE form.session /\ form.route = "balance"
    <3>1. GoTo("service")
      BY <1>1, <2>4 DEF Authorize, Lists
    <3>2. /\ pc' = "service" /\ status' = 0 /\ result' = "none"
          /\ UNCHANGED <<form, read, ending, rows, shown>>
          /\ form.route \notin Bodied /\ form.route \notin Lists
      BY <2>1, <2>4, <3>1 DEF GoTo, OnlyPc, HandlersInv, Bodied, Public, Lists
    <3> QED
      BY <3>2 DEF HandlersInv, HandlersTypeOK, Asks, AnswersFit,
                  OrdersListIsWhole
  <2>5. CASE form.session /\ form.route \in Bodied
    <3>1. GoTo("type")
      BY <1>1, <2>5 DEF Authorize, Lists, Bodied, Public
    <3> QED
      BY <2>1, <2>5, <3>1, ForwardSound
  <2> QED
    BY <1>0, <2>2, <2>3, <2>4, <2>5 DEF Routes
<1>2. CASE CheckType
  <2>1. /\ pc = "type" /\ OnlyPc /\ form.route \in Bodied
        /\ read <= Len(form.body)
    BY <1>2 DEF CheckType, HandlersInv
  <2>2. CASE Answer(415)
    BY <1>0, <2>1, <2>2, RefusalSound DEF OnlyPc
  <2>3. CASE GoTo("read")
    BY <1>0, <2>1, <2>3, ForwardSound
  <2> QED
    BY <1>2, <2>2, <2>3 DEF CheckType
<1>3. CASE ReadSome
  <2>1. PICK n \in read + 1 .. MaxBodySize : n <= Len(form.body) /\ read' = n
    BY <1>3 DEF ReadSome
  <2>2. /\ pc = "read" /\ result = "none"
        /\ UNCHANGED <<pc, form, ending, rows, shown, result, status>>
    BY <1>3 DEF ReadSome, HandlersInv
  <2>3. read' \in 0 .. MaxBodySize /\ read' <= Len(form.body)
    BY <1>0, <2>1
  <2>4. ~Asks' /\ AnswersFit' /\ OrdersListIsWhole'
    BY <2>2 DEF Asks, AnswersFit, OrdersListIsWhole
  <2> QED
    BY <2>2, <2>3, <2>4 DEF HandlersInv, HandlersTypeOK
<1>4. CASE ReadFills \/ ReadEnds \/ ReadIsCut
  <2>1. /\ pc = "read" /\ form.route \in Bodied
        /\ ending' \in {"none", "full", "eof", "cut", "broken"}
        /\ UNCHANGED <<form, read, rows, shown, result>>
    BY <1>4 DEF ReadFills, ReadEnds, ReadIsCut, EndOfBody, HandlersInv
  <2>2. CASE Answer(400)
    BY <1>0, <2>1, <2>2, RefusalSound
  <2>3. CASE ~Answer(400)
    <3>1. GoTo("process") /\ Gathered'
      BY <1>0, <1>4, <2>1, <2>3
      DEF ReadFills, ReadEnds, ReadIsCut, EndOfBody, Gathered
    <3>2. pc' = "process" /\ status' = 0 /\ result' = "none"
      BY <2>1, <3>1 DEF GoTo, HandlersInv
    <3>3. HandlersTypeOK' /\ ~Asks' /\ AnswersFit' /\ OrdersListIsWhole'
      BY <2>1, <3>2
      DEF HandlersInv, HandlersTypeOK, Asks, AnswersFit, OrdersListIsWhole
    <3> QED
      BY <2>1, <3>1, <3>2, <3>3 DEF HandlersInv
  <2> QED
    BY <2>2, <2>3
<1>5. CASE ReadBreaks
  BY <1>0, <1>5, RefusalSound DEF ReadBreaks, EndOfBody
<1>6. CASE CheckOrder \/ CheckForm
  <2>1. pc = "process" /\ OnlyPc /\ form.route \in Bodied /\ Gathered
    BY <1>6 DEF CheckOrder, CheckForm, HandlersInv
  <2>2. CASE Answer(400) \/ Answer(422)
    BY <1>0, <2>1, <2>2, RefusalSound DEF OnlyPc
  <2>3. CASE Answer(0)
    <3>1. CheckOrder /\ Trim(Payload) = << >>
      BY <1>6, <2>3 DEF CheckOrder, CheckForm, Answer, GoTo, HandlersInv
    <3>2. /\ pc' = "done" /\ status' = 0 /\ result' = "none"
          /\ UNCHANGED <<form, read, ending, rows, shown>>
          /\ form.route = "upload" /\ Payload' = Payload /\ read > 0
      BY <2>1, <2>3, <3>1
      DEF CheckOrder, Answer, OnlyPc, HandlersInv, Payload, Gathered
    <3>3. AnswersFit'
      BY <3>2 DEF AnswersFit, Wire
    <3>4. HandlersTypeOK' /\ ~Asks' /\ OrdersListIsWhole'
      BY <3>2 DEF HandlersInv, HandlersTypeOK, Asks, OrdersListIsWhole
    <3> QED
      BY <3>2, <3>3, <3>4 DEF HandlersInv
  <2>4. CASE /\ GoTo("service")
             /\ form.route # "upload" => Parses(Payload)
    <3>1. /\ pc' = "service" /\ status' = 0 /\ result' = "none"
          /\ UNCHANGED <<form, read, ending, rows, shown>>
          /\ Payload' = Payload /\ form.route \notin Lists
      BY <2>1, <2>4
      DEF GoTo, OnlyPc, HandlersInv, Payload, Bodied, Public, Lists
    <3>2. HandlersTypeOK' /\ Gathered' /\ AnswersFit' /\ OrdersListIsWhole'
      BY <2>1, <3>1
      DEF HandlersInv, HandlersTypeOK, Gathered, AnswersFit, OrdersListIsWhole
    <3>3. form.route # "upload" => Parses(Payload)'
      BY <2>4, <3>1 DEF Parses
    <3> QED
      BY <3>1, <3>2, <3>3 DEF HandlersInv
  <2> QED
    BY <1>6, <2>2, <2>3, <2>4 DEF CheckOrder, CheckForm
<1>7. CASE CallService
  <2>1. PICK r \in Results(form.route) :
               result' = r /\ Answer(StatusOf(form.route, r))
    BY <1>7 DEF CallService
  <2>2. /\ pc = "service" /\ pc' = "done" /\ form.route \in Routes \ Lists
        /\ result' = r /\ status' = StatusOf(form.route, r)
        /\ UNCHANGED <<form, read, ending, rows, shown>>
        /\ Payload' = Payload
    BY <1>0, <1>7, <2>1 DEF CallService, HandlersInv, Answer, Payload
  <2>3. /\ status' \in {200, 202, 401, 402, 409, 500}
        /\ status' < 300 <=> result' \in {"ok", "same_user"}
        /\ form.route # "upload" => result' # "same_user"
        /\ status' = 202 <=> form.route = "upload" /\ result' = "ok"
        /\ result' \in {"ok", "conflict", "invalid", "same_user",
                        "other_user", "insufficient", "duplicate", "error"}
    BY <2>1, <2>2, StatusFits
  <2>4. AnswersFit'
    BY <2>2, <2>3 DEF AnswersFit, Wire
  <2>5. HandlersTypeOK' /\ OrdersListIsWhole'
    BY <2>2, <2>3 DEF HandlersInv, HandlersTypeOK, OrdersListIsWhole, Lists
  <2>6. form.route \in Bodied => Gathered'
    BY <2>2 DEF HandlersInv, Gathered
  <2>7. Asks' /\ form.route # "upload" => Parses(Payload)'
    BY <2>2 DEF HandlersInv, Asks, Parses
  <2> QED
    BY <2>2, <2>4, <2>5, <2>6, <2>7 DEF HandlersInv
<1>8. CASE Query
  <2>1. pc = "query" /\ OnlyPc /\ form.route \in Lists
    BY <1>8 DEF Query, HandlersInv
  <2>2. CASE GoTo("rows")
    BY <2>1, <2>2, ForwardSound
  <2>3. CASE Answer(500)
    BY <1>0, <2>1, <2>3, RefusalSound DEF OnlyPc
  <2> QED
    BY <1>8, <2>2, <2>3 DEF Query
<1>9. CASE ScanRow
  <2>1. /\ pc = "rows" /\ shown < rows /\ form.route \in Lists
        /\ UNCHANGED <<form, read, ending, rows, result>>
    BY <1>9 DEF ScanRow, HandlersInv
  <2>2. CASE shown' = shown + 1 /\ GoTo("rows")
    <3>1. /\ pc' = "rows" /\ status' = 0 /\ result' = "none"
          /\ shown' \in 0 .. rows
      BY <1>0, <2>1, <2>2 DEF GoTo, HandlersInv
    <3>2. HandlersTypeOK' /\ ~Asks' /\ AnswersFit' /\ OrdersListIsWhole'
      BY <2>1, <3>1
      DEF HandlersInv, HandlersTypeOK, Asks, AnswersFit, OrdersListIsWhole
    <3> QED
      BY <2>1, <3>1, <3>2 DEF HandlersInv
  <2>3. CASE Answer(500) /\ shown' = shown
    BY <1>0, <2>1, <2>3, RefusalSound
  <2> QED
    BY <1>9, <2>2, <2>3 DEF ScanRow
<1>10. CASE RowsEnd \/ RowsBreak
  <2>1. /\ pc = "rows" /\ OnlyPc /\ form.route \in Lists
    BY <1>10 DEF RowsEnd, RowsBreak, HandlersInv
  <2>2. CASE Answer(500)
    BY <1>0, <2>1, <2>2, RefusalSound DEF OnlyPc
  <2>3. CASE ShowList /\ (form.route = "orders" => shown = rows)
    <3>1. /\ pc' = "done" /\ status' \in {200, 204} /\ result' = "none"
          /\ UNCHANGED <<form, read, ending, rows, shown>>
      BY <2>1, <2>3 DEF ShowList, Answer, OnlyPc, HandlersInv
    <3>2. HandlersTypeOK' /\ ~Asks' /\ AnswersFit' /\ OrdersListIsWhole'
      BY <2>1, <2>3, <3>1
      DEF HandlersInv, HandlersTypeOK, Asks, AnswersFit, OrdersListIsWhole
    <3> QED
      BY <3>1, <3>2 DEF HandlersInv
  <2> QED
    BY <1>10, <2>2, <2>3 DEF RowsEnd, RowsBreak
<1>11. CASE UNCHANGED vars
  BY <1>11 DEF vars, HandlersInv, HandlersTypeOK, Gathered, Asks, Parses,
               Payload, AnswersFit, Wire, OrdersListIsWhole
<1> QED
  BY <1>1, <1>2, <1>3, <1>4, <1>5, <1>6, <1>7, <1>8, <1>9, <1>10, <1>11
  DEF Next

(* Whatever clients send, and however their connections and the one to the
   database break, a request never leaves the invariant. *)
THEOREM HandlersSound == Spec => []HandlersInv
BY InitSound, NextSound, PTL DEF Spec

(* A buffer is never filled past its size, and every answer is a known one. *)
THEOREM HandlersTyped == Spec => []HandlersTypeOK
<1>1. HandlersInv => HandlersTypeOK
  BY DEF HandlersInv
<1> QED
  BY <1>1, HandlersSound, PTL

(* The whole of a body is in the buffer when all of its symbols are. *)
LEMMA WholeBody ==
    ASSUME HandlersInv, read = Len(form.body)
    PROVE  Payload = form.body
BY FormIsKnown DEF Payload

(* The service is asked for what the client sent, but for what is behind the
   end of the buffer, for a number whose end is lost, and for a document that
   something follows whose end is lost: ActsOnWhatWasSent. *)
THEOREM RequestsAreAsSent == Spec => []ActsOnWhatWasSent
<1>1. HandlersInv => ActsOnWhatWasSent
  <2> SUFFICES ASSUME HandlersInv, Asks
               PROVE  \/ Trim(Payload) = Trim(form.body)
                      \/ read = MaxBodySize
                      \/ ending = "cut" /\ form.route = "upload"
                      \/ ending = "cut" /\ ~Parses(form.body)
    BY DEF ActsOnWhatWasSent
  <2>1. Gathered
    BY DEF HandlersInv, Asks
  <2>2. CASE read = Len(form.body)
    BY <2>2, WholeBody
  <2>3. CASE ending = "cut" /\ form.route # "upload" /\ Parses(form.body)
    <3>1. Parses(Payload)
      BY <2>3 DEF HandlersInv
    <3> QED
      BY <2>3, <3>1 DEF Parses
  <2> QED
    BY <2>1, <2>2, <2>3 DEF Gathered
<1> QED
  BY <1>1, HandlersSound, PTL

(* The client of a service call is told of success exactly if there was one,
   202 tells of a new order only, and a handler that reads JSON sends an error
   before it gives up: AnswersFit. *)
THEOREM AnswersAreTrue == Spec => []AnswersFit
<1>1. HandlersInv => AnswersFit
  BY DEF HandlersInv
<1> QED
  BY <1>1, HandlersSound, PTL

(* No list of orders is shown in part. *)
THEOREM OrdersAreShownWhole == Spec => []OrdersListIsWhole
<1>1. HandlersInv => OrdersListIsWhole
  BY DEF HandlersInv
<1> QED
  BY <1>1, HandlersSound, PTL
-----------------------------------------------------------------------------
(* Luhn's check.  What Doubled makes of a digit is what Weight makes of it. *)
LEMMA DoubledIs ==
    ASSUME NEW d \in Digits
    PROVE  /\ Doubled(d) \in Int
           /\ Doubled(d) = ((2 * d) \div 10) + ((2 * d) % 10)
<1>1. d \in {0, 1, 2, 3, 4, 5, 6, 7, 8, 9}
  BY DEF Digits
<1>2. CASE d \in {0, 1, 2, 3, 4}
  <2>1. Doubled(d) = 2 * d /\ (2 * d) \div 10 = 0 /\ (2 * d) % 10 = 2 * d
    BY <1>2 DEF Doubled
  <2> QED
    BY <1>2, <2>1
<1>3. CASE d \in {5, 6, 7, 8, 9}
  <2>1. Doubled(d) = 2 * d - 9
        /\ (2 * d) \div 10 = 1 /\ (2 * d) % 10 = 2 * d - 10
    BY <1>3 DEF Doubled
  <2> QED
    BY <1>3, <2>1
<1> QED
  BY <1>1, <1>2, <1>3

(* Counted from the left, the digits to double have the parity of the length;
   counted from the right, they are every second one. *)
LEMMA SameParity ==
    ASSUME NEW n \in Nat, NEW i \in 1 .. n
    PROVE  (i - 1) % 2 = n % 2 <=> (n - i) % 2 # 0
OBVIOUS

LEMMA LuhnAgrees ==
    ASSUME NEW s \in Seq(0 .. 13), IsValid(s)
    PROVE  PassesLuhn(s)
<1> DEFINE n == Len(s)
           Doubles(i) == (i - 1) % 2 = n % 2
           f == [i \in 1 .. n |-> IF Doubles(i) THEN Doubled(s[i]) ELSE s[i]]
           Adds(sum) ==
             [i \in 0 .. n |-> IF i = 0 THEN 0
                               ELSE sum[i - 1] + (IF Doubles(i)
                                                  THEN Doubled(s[i])
                                                  ELSE s[i])]
           running == CHOOSE sum : sum = Adds(sum)
<1>1. /\ s # << >> /\ n \in Nat /\ DOMAIN s = 1 .. n
      /\ \A i \in 1 .. n : s[i] \in Digits
      /\ running[n] % 10 = 0
  BY DEF IsValid
<1>2. f \in [1 .. n -> Int] /\ \A i \in 1 .. n : f[i] \in Int
  <2>1. ASSUME NEW i \in 1 .. n
        PROVE  (IF Doubles(i) THEN Doubled(s[i]) ELSE s[i]) \in Int
    <3>1. s[i] \in Digits /\ s[i] \in Int
      BY <1>1 DEF Digits
    <3> HIDE DEF Doubles
    <3> QED
      BY <3>1, DoubledIs
  <2> HIDE DEF Doubles
  <2> QED
    BY <2>1
<1>3. \E sum : sum = Adds(sum)
  <2> HIDE DEF f
  <2>5. PICK g \in [0 .. n -> Int] :
           g[0] = 0 /\ \A i \in 1 .. n : g[i] = g[i - 1] + f[i]
    BY <1>1, <1>2, SumRuns
  <2>6. ASSUME NEW i \in 0 .. n
        PROVE  g[i] = Adds(g)[i]
    <3>1. CASE i = 0
      BY <2>5, <3>1
    <3>2. CASE i # 0
      <4>1. i \in 1 .. n
        BY <1>1, <3>2
      <4> QED
        BY <2>5, <3>2, <4>1 DEF f
    <3> QED
      BY <3>1, <3>2
  <2> HIDE DEF Doubles
  <2>7. g = Adds(g)
    BY <2>6
  <2> QED
    BY <2>7
<1>4. running = Adds(running)
  <2> HIDE DEF Adds
  <2> QED
    BY <1>3
<1> HIDE DEF running
<1>5. running[0] = 0 /\ \A i \in 1 .. n : running[i] = running[i - 1] + f[i]
  <2>1. \A i \in 0 .. n : running[i] = Adds(running)[i]
    BY <1>4
  <2>2. \A i \in 1 .. n : i \in 0 .. n /\ i # 0
    BY <1>1
  <2> QED
    BY <1>1, <2>1, <2>2
<1> HIDE DEF f
<1>6. running[n] = SumFunction(f)
  BY <1>1, <1>2, <1>5, RunningSum
<1> DEFINE Value(i) == IF (Len(s) - i) % 2 = 0 THEN s[i]
                       ELSE ((2 * s[i]) \div 10) + ((2 * s[i]) % 10)
<1>7. f = [i \in DOMAIN s |-> Value(i)]
  <2>1. ASSUME NEW i \in 1 .. n
        PROVE  f[i] = Value(i)
    <3>1. s[i] \in Digits
      BY <1>1
    <3>2. Doubles(i) <=> (n - i) % 2 # 0
      BY <1>1, SameParity
    <3> HIDE DEF Doubles
    <3> QED
      BY <1>1, <3>1, <3>2, DoubledIs DEF f
  <2>2. f = [i \in 1 .. n |-> f[i]]
    BY DEF f
  <2> HIDE DEF Value
  <2> QED
    BY <1>1, <2>1, <2>2
<1> QED
  BY <1>1, <1>6, <1>7 DEF PassesLuhn

LEMMA PowersExist ==
    ASSUME NEW k \in Nat
    PROVE  \E g \in [0 .. k -> Int] :
              g[0] = 1 /\ \A i \in 1 .. k : g[i] = 10 * g[i - 1]
<1> DEFINE step == [i \in 1 .. k |-> [x \in Int |-> 10 * x]]
<1>1. step \in [1 .. k -> [Int -> Int]] /\ 1 \in Int
  OBVIOUS
<1>2. \A i \in 1 .. k, x \in Int : step[i][x] = 10 * x
  OBVIOUS
<1> HIDE DEF step
<1>3. PICK g \in [0 .. k -> Int] :
         g[0] = 1 /\ \A i \in 1 .. k : g[i] = step[i][g[i - 1]]
  <2>1. Steps(k, 1, step)
    BY <1>1 DEF Steps
  <2>2. PICK g : Solution(k, 1, step, g)
    BY <2>1, SolutionExists
  <2> QED
    BY <2>2 DEF Solution
<1>4. \A i \in 1 .. k : g[i] = 10 * g[i - 1]
  <2> SUFFICES ASSUME NEW i \in 1 .. k PROVE g[i] = 10 * g[i - 1]
    OBVIOUS
  <2>1. g[i - 1] \in Int
    OBVIOUS
  <2> QED
    BY <1>2, <1>3, <2>1
<1> QED
  BY <1>3, <1>4

(* The exponent of the smallest amount and whole kopecks. *)
LEMMA WholeSum ==
    ASSUME NEW sum, sum.coef \in Int, sum.exp \in Int, sum.exp >= Kopecks
    PROVE  WholeKopecks(sum)
<1> DEFINE k == sum.exp + Places
           Powers(power) ==
             [i \in 0 .. k |-> IF i = 0 THEN 1 ELSE 10 * power[i - 1]]
           powers == CHOOSE power : power = Powers(power)
<1>1. k \in Nat /\ k >= 2
  BY DEF Places, Kopecks
<1>2. \E power \in [0 .. k -> Int] : power = Powers(power)
  <2> HIDE DEF k
  <2>1. PICK g \in [0 .. k -> Int] :
           g[0] = 1 /\ \A i \in 1 .. k : g[i] = 10 * g[i - 1]
    BY <1>1, PowersExist
  <2>2. ASSUME NEW i \in 0 .. k
        PROVE  g[i] = Powers(g)[i]
    <3>1. CASE i = 0
      BY <2>1, <3>1
    <3>2. CASE i # 0
      <4>1. i \in 1 .. k
        BY <1>1, <3>2
      <4> QED
        BY <2>1, <3>2, <4>1
    <3> QED
      BY <3>1, <3>2
  <2>3. g = Powers(g)
    BY <2>2
  <2> QED
    BY <2>3
<1>3. powers = Powers(powers)
  <2> HIDE DEF Powers
  <2> QED
    BY <1>2
<1> HIDE DEF k, powers
<1>4. powers[0] = 1 /\ \A i \in 1 .. k : powers[i] = 10 * powers[i - 1]
  <2>1. \A i \in 0 .. k : powers[i] = Powers(powers)[i]
    BY <1>3
  <2>2. 0 \in 0 .. k /\ \A i \in 1 .. k : i \in 0 .. k /\ i # 0
    BY <1>1
  <2> QED
    BY <1>1, <2>1, <2>2
<1>5. \A i \in 0 .. k : powers[i] \in Int
  <2> DEFINE Wrong == {i \in 0 .. k : powers[i] \notin Int}
  <2> SUFFICES ASSUME Wrong # {} PROVE FALSE
    OBVIOUS
  <2>1. PICK i \in Wrong : \A j \in Wrong : ~(j < i)
    BY <1>1, LeastNumber, Wrong \subseteq Nat
  <2>2. i \in 1 .. k /\ i - 1 \in 0 .. k /\ i - 1 \notin Wrong
    BY <1>1, <1>4, <2>1
  <2>3. powers[i] = 10 * powers[i - 1] /\ powers[i - 1] \in Int
    BY <1>4, <2>2
  <2> QED
    BY <2>1, <2>3
<1>6. PICK p \in Int : powers[k] = 100 * p
  <2>1. k \in 1 .. k /\ k - 1 \in 1 .. k /\ k - 2 \in 0 .. k /\ k - 1 - 1 = k - 2
    BY <1>1
  <2>2. /\ powers[k] = 10 * powers[k - 1]
        /\ powers[k - 1] = 10 * powers[k - 2] /\ powers[k - 2] \in Int
    BY <1>4, <1>5, <2>1
  <2> QED
    BY <2>2
<1>7. PowerOfTen(k) = powers[k]
  BY DEF PowerOfTen, powers
<1>8. PICK q \in Int : sum.coef * PowerOfTen(k) = 100 * q
  <2>1. sum.coef * (100 * p) = 100 * (sum.coef * p) /\ sum.coef * p \in Int
    OBVIOUS
  <2> QED
    BY <1>6, <1>7, <2>1
<1>9. (100 * q) % 100 = 0
  OBVIOUS
<1> QED
  BY <1>8, <1>9 DEF WholeKopecks, k

(* What Trim leaves of a sequence is a sequence. *)
LEMMA TrimIs ==
    ASSUME NEW s \in Seq(0 .. 13)
    PROVE  Trim(s) \in Seq(0 .. 13)
<1> DEFINE solid == {i \in DOMAIN s : s[i] # Blank}
           first == CHOOSE i \in solid : \A j \in solid : i <= j
           last == CHOOSE i \in solid : \A j \in solid : j <= i
<1>1. CASE solid = {}
  BY <1>1 DEF Trim
<1>2. CASE solid # {}
  <2>1. solid \subseteq 1 .. Len(s) /\ Len(s) \in Nat
    OBVIOUS
  <2> HIDE DEF solid
  <2>2. \E i \in solid : \A j \in solid : i <= j
    <3>1. PICK i \in solid : \A j \in solid : ~(j < i)
      BY <1>2, <2>1, LeastNumber, solid \subseteq Nat
    <3> QED
      BY <2>1, <3>1
  <2>3. \E i \in solid : \A j \in solid : j <= i
    <3> DEFINE Behind == {Len(s) - i : i \in solid}
    <3>1. Behind \subseteq Nat /\ Behind # {}
      <4>1. \A i \in solid : Len(s) - i \in Nat
        BY <2>1
      <4> QED
        BY <1>2, <4>1
    <3>2. PICK b \in Behind : \A c \in Behind : ~(c < b)
      BY <3>1, LeastNumber
    <3>3. PICK i \in solid : b = Len(s) - i
      BY <3>2
    <3>4. ASSUME NEW j \in solid
          PROVE  j <= i
      <4>1. ~(Len(s) - j < Len(s) - i)
        BY <3>2, <3>3
      <4>2. i \in Int /\ j \in Int
        BY <2>1
      <4> QED
        BY <2>1, <4>1, <4>2
    <3> QED
      BY <3>4
  <2>4. first \in 1 .. Len(s) /\ last \in 1 .. Len(s)
    BY <2>1, <2>2, <2>3
  <2> HIDE DEF first, last
  <2>5. SubSeq(s, first, last) \in Seq(0 .. 13)
    BY <2>1, <2>4
  <2>6. Trim(s) = SubSeq(s, first, last)
    BY <1>2 DEF Trim, first, last, solid
  <2> QED
    BY <2>5, <2>6
<1> QED
  BY <1>1, <1>2

(* A request that reached the service was checked on its way, and no more was
   read than there was. *)
Vetted ==
    IF form.route = "upload" THEN IsValid(Trim(Payload))
    ELSE /\ Validates(form)
         /\ form.route = "withdraw" => IsValid(Trim(form.number))

Checked == read <= Len(form.body) /\ (Asks => Vetted)

LEMMA CheckedInit == Init => Checked
BY DEF Init, Checked, Asks

LEMMA CheckedStep == HandlersInv /\ Checked /\ [Next]_vars => Checked'
<1> SUFFICES ASSUME HandlersInv, Checked, [Next]_vars
             PROVE  Checked'
  OBVIOUS
<1>1. read' <= Len(form'.body)
  <2>1. CASE ReadSome
    BY <2>1 DEF ReadSome
  <2>2. CASE ~ReadSome
    <3>1. read' = read /\ form' = form
      BY <2>2 DEF Next, vars, Authorize, CheckType, ReadFills, ReadEnds,
                  ReadIsCut, ReadBreaks, CheckOrder, CheckForm, CallService,
                  Query, ScanRow, RowsEnd, RowsBreak, EndOfBody, OnlyPc
    <3> QED
      BY <3>1 DEF Checked
  <2> QED
    BY <2>1, <2>2
<1>2. SUFFICES ASSUME Asks' PROVE Vetted'
  BY <1>1 DEF Checked
<1>3. pc # "done" => result = "none"
  BY DEF HandlersInv
<1>4. CASE form' = form /\ Payload' = Payload /\ Asks
  BY <1>4 DEF Checked, Vetted, Validates
<1>5. CASE CheckOrder
  <2>1. /\ form.route = "upload" /\ IsValid(Trim(Payload))
        /\ form' = form /\ read' = read
    BY <1>2, <1>3, <1>5 DEF CheckOrder, OnlyPc, Asks, Answer, GoTo
  <2> QED
    BY <2>1 DEF Vetted, Payload
<1>6. CASE CheckForm
  <2>1. /\ form.route # "upload" /\ form' = form /\ Validates(form)
        /\ form.route = "withdraw" => IsValid(Trim(form.number))
    BY <1>2, <1>3, <1>6 DEF CheckForm, OnlyPc, Asks, Answer, GoTo
  <2> QED
    BY <2>1 DEF Vetted, Validates
<1>7. CASE CallService
  BY <1>2, <1>4, <1>7 DEF CallService, Asks, Payload
<1>8. CASE Authorize
  BY <1>2, <1>3, <1>8
  DEF Authorize, OnlyPc, Asks, Answer, GoTo, Bodied, Public, Lists
<1>9. CASE CheckType \/ ReadSome \/ ReadFills \/ ReadEnds \/ ReadIsCut
           \/ ReadBreaks \/ Query \/ ScanRow \/ RowsEnd \/ RowsBreak
  BY <1>2, <1>3, <1>9
  DEF CheckType, ReadSome, ReadFills, ReadEnds, ReadIsCut, ReadBreaks, Query,
      ScanRow, RowsEnd, RowsBreak, EndOfBody, OnlyPc, ShowList, Asks, Answer,
      GoTo
<1>10. CASE UNCHANGED vars
  BY <1>2, <1>4, <1>10 DEF vars, Asks, Payload
<1> QED
  BY <1>5, <1>6, <1>7, <1>8, <1>9, <1>10 DEF Next

(* Whatever is asked of the service has passed Luhn's check, as it is usually
   told, and asks for a positive sum of whole kopecks. *)
THEOREM AcceptedAreChecked == Spec => []AcceptedAreValid
<1>1. HandlersInv /\ Checked => AcceptedAreValid
  <2> SUFFICES ASSUME HandlersInv, Checked, Asks
               PROVE  AcceptedAreValid
    BY DEF AcceptedAreValid
  <2>1. /\ form \in Forms /\ form.number \in Seq(0 .. 13)
        /\ form.body \in Seq(0 .. 13)
        /\ form.sum.coef \in Int /\ form.sum.exp \in Int
    BY HandlersAssumption DEF HandlersInv
  <2>2. CASE form.route = "upload"
    <3>1. Payload \in Seq(0 .. 13)
      BY <2>1, FormIsKnown DEF Payload, Checked
    <3>2. PassesLuhn(Trim(Payload))
      BY <2>2, <3>1, TrimIs, LuhnAgrees DEF Checked, Vetted
    <3> QED
      BY <2>2, <3>2 DEF AcceptedAreValid
  <2>3. CASE form.route = "withdraw"
    <3>1. form.sum.exp >= Kopecks /\ form.sum.coef > 0
      BY <2>3 DEF Checked, Vetted, Validates
    <3>2. PassesLuhn(Trim(form.number))
      BY <2>1, <2>3, TrimIs, LuhnAgrees DEF Checked, Vetted
    <3>3. WholeKopecks(form.sum)
      BY <2>1, <3>1, WholeSum
    <3> QED
      BY <2>3, <3>1, <3>2, <3>3 DEF AcceptedAreValid
  <2>4. CASE form.route \notin {"upload", "withdraw"}
    BY <2>4 DEF Checked, Vetted, Validates, AcceptedAreValid
  <2> QED
    BY <2>2, <2>3, <2>4
<1> QED
  BY <1>1, CheckedInit, CheckedStep, HandlersSound, InitSound, NextSound, PTL
  DEF Spec
=============================================================================
