------------------------------ MODULE Handlers ------------------------------
(***************************************************************************)
(* One HTTP request on its way through the router and a handler of         *)
(* internal/handler: session cookie, content type, body, form, service,    *)
(* status.  A body is a sequence of symbols: digits, blanks, the two       *)
(* halves of a JSON document, and anything else.  It arrives in pieces of  *)
(* any size; the connection, or the gzip stream in it, may end early or    *)
(* break, and so may the rows of a query.                                  *)
(***************************************************************************)
EXTENDS Integers, Sequences, Functions

CONSTANTS
    MaxBodySize, \* size of the buffer, and limit of MaxBytesReader
    MaxRows,     \* rows a user may have, a bound
    Forms        \* requests of clients: route, session (the cookie has a valid
                 \* token), typed (the content type is the right one), body,
                 \* chunked (its length is not told in advance), number and
                 \* sum of a withdrawal, filled (a login and a password that
                 \* Sanitize leaves something of)

Digits == 0 .. 9
Blank == 10 \* white space
Other == 11 \* neither of these
Opening == 12 \* a JSON document up to any place inside of it
Closing == 13 \* the rest of it

Public == {"register", "login"}
Lists == {"orders", "withdrawals"}
Bodied == Public \union {"upload", "withdraw"} \* routes whose body is read
Routes == Bodied \union Lists \union {"balance"}

ASSUME HandlersAssumption ==
    /\ MaxBodySize \in Nat \ {0}
    /\ MaxRows \in Nat
    /\ \A f \in Forms :
          /\ f.route \in Routes
          /\ f.body \in Seq(0 .. 13) /\ f.number \in Seq(0 .. 13)
          /\ f.sum.coef \in Int /\ f.sum.exp \in Int

VARIABLES
    pc,     \* what the handler does next
    form,   \* the request
    read,   \* symbols of the body that are in the buffer
    ending, \* how the reading of the body ended
    rows,   \* rows the user has
    shown,  \* rows that were scanned
    result, \* what the service returned
    status  \* the answer; 0 as long as there is none

vars == <<pc, form, read, ending, rows, shown, result, status>>
-----------------------------------------------------------------------------
Kopecks == -2 \* the exponent of the smallest amount

(* A payload without the blanks around it. *)
Trim(s) ==
    LET solid == {i \in DOMAIN s : s[i] # Blank} IN
    IF solid = {} THEN << >>
    ELSE LET first == CHOOSE i \in solid : \A j \in solid : i <= j
             last == CHOOSE i \in solid : \A j \in solid : j <= i
         IN  SubSeq(s, first, last)

Payload == SubSeq(form.body, 1, read)

Doubled(d) == IF 2 * d > 9 THEN 2 * d - 9 ELSE 2 * d

(* A slip for the properties to catch: the parity of an even length only. *)
IsValidEven(number) ==
    LET sum[i \in 0 .. Len(number)] ==
          IF i = 0 THEN 0
          ELSE sum[i - 1] + (IF (i - 1) % 2 = 0 THEN Doubled(number[i])
                             ELSE number[i])
    IN  /\ number # << >>
        /\ \A i \in DOMAIN number : number[i] \in Digits
        /\ sum[Len(number)] % 10 = 0

(* luhn.IsValid: from the left, every digit whose index has the parity of the
   length is doubled. *)
IsValid(number) ==
    LET parity == Len(number) % 2
        sum[i \in 0 .. Len(number)] ==
          IF i = 0 THEN 0
          ELSE sum[i - 1] + (IF (i - 1) % 2 = parity THEN Doubled(number[i])
                             ELSE number[i])
    IN  /\ number # << >>
        /\ \A i \in DOMAIN number : number[i] \in Digits
        /\ sum[Len(number)] % 10 = 0

Parses(payload) == Trim(payload) = <<Opening, Closing>>

(* A slip for the properties to catch: only the sign of the sum is looked at. *)
ValidatesAnySum(f) ==
    IF f.route = "withdraw" THEN f.sum.coef > 0 /\ Trim(f.number) # << >>
    ELSE f.filled

(* Validate of WithdrawRequest and RegisterRequest. *)
Validates(f) ==
    IF f.route = "withdraw"
    THEN f.sum.exp >= Kopecks /\ f.sum.coef > 0 /\ Trim(f.number) # << >>
    ELSE f.filled

(* What a service call may return. *)
Results(route) ==
    CASE route = "register" -> {"ok", "conflict", "error"}
      [] route = "login" -> {"ok", "invalid", "error"}
      [] route = "upload" -> {"ok", "same_user", "other_user", "error"}
      [] route = "withdraw" -> {"ok", "insufficient", "duplicate", "error"}
      [] OTHER -> {"ok", "error"}

(* The statuses the handlers make of it. *)
RegisterStatus(r) ==
    CASE r = "ok" -> 200 [] r = "conflict" -> 409 [] OTHER -> 500

LoginStatus(r) ==
    CASE r = "ok" -> 200 [] r = "invalid" -> 401 [] OTHER -> 500

(* A slip for the properties to catch: "same_user" falls through to 202. *)
AcceptedTwice(r) ==
    CASE r \in {"ok", "same_user"} -> 202
      [] r = "other_user" -> 409
      [] OTHER -> 500

UploadStatus(r) ==
    CASE r = "ok" -> 202
      [] r = "same_user" -> 200
      [] r = "other_user" -> 409
      [] OTHER -> 500

WithdrawStatus(r) ==
    CASE r = "ok" -> 200
      [] r = "insufficient" -> 402
      [] r = "duplicate" -> 409
      [] OTHER -> 500

BalanceStatus(r) == IF r = "ok" THEN 200 ELSE 500

StatusOf(route, r) ==
    CASE route = "register" -> RegisterStatus(r)
      [] route = "login" -> LoginStatus(r)
      [] route = "upload" -> UploadStatus(r)
      [] route = "withdraw" -> WithdrawStatus(r)
      [] OTHER -> BalanceStatus(r)

GoTo(s) == pc' = s /\ UNCHANGED status

Answer(code) == pc' = "done" /\ status' = code

OnlyPc == UNCHANGED <<form, read, ending, rows, shown, result>>
-----------------------------------------------------------------------------
Init ==
    /\ form \in Forms
    /\ pc = IF form.route \in Public THEN "type" ELSE "auth"
    /\ read = 0 /\ ending = "none"
    /\ rows \in IF form.route \in Lists THEN 0 .. MaxRows ELSE {0}
    /\ shown = 0 /\ result = "none" /\ status = 0

(* AuthMiddleware: "session" is a cookie with a token that ValidateToken
   accepts. *)
Authorize ==
    /\ pc = "auth"
    /\ IF ~form.session THEN Answer(401)
       ELSE GoTo(CASE form.route \in Lists -> "query"
                   [] form.route = "balance" -> "service"
                   [] OTHER -> "type")
    /\ OnlyPc

(* chi's AllowContentType lets a request pass whose ContentLength is 0, which
   it is not if the end of an empty body is still to come. *)
CheckType ==
    /\ pc = "type"
    /\ IF form.typed \/ (form.body = << >> /\ ~form.chunked) THEN GoTo("read")
       ELSE Answer(415)
    /\ OnlyPc

(* A slip for the properties to catch: all of the body is read. *)
ReadAll ==
    /\ pc = "read"
    /\ \E n \in read + 1 .. Len(form.body) : read' = n
    /\ UNCHANGED <<pc, form, ending, rows, shown, result, status>>

(* io.ReadFull, one Read after another.  MaxBytesReader allows as many bytes
   as the buffer has, so its error is never seen. *)
ReadSome ==
    /\ pc = "read"
    /\ \E n \in read + 1 .. MaxBodySize :
          n <= Len(form.body) /\ read' = n
    /\ UNCHANGED <<pc, form, ending, rows, shown, result, status>>

EndOfBody(e) ==
    /\ pc = "read"
    /\ ending' = e
    /\ UNCHANGED <<form, read, rows, shown, result>>

(* The buffer is full: whatever follows is not looked at. *)
ReadFills == EndOfBody("full") /\ read = MaxBodySize /\ GoTo("process")

(* A body that is shorter than the buffer ends. *)
ReadEnds ==
    /\ EndOfBody("eof")
    /\ read = Len(form.body) /\ read < MaxBodySize
    /\ IF read = 0 THEN Answer(400) ELSE GoTo("process")

(* A slip for the properties to catch: any error after the first byte is an
   end of the body. *)
BreakIsEnd ==
    /\ EndOfBody("broken")
    /\ read < MaxBodySize
    /\ IF read = 0 THEN Answer(400) ELSE GoTo("process")

(* The stream ends too early, which net/http and gzip call ErrUnexpectedEOF,
   as ReadFull calls the end of a short body. *)
ReadIsCut ==
    /\ EndOfBody("cut")
    /\ read < MaxBodySize
    /\ IF read = 0 THEN Answer(400) ELSE GoTo("process")

(* A timeout, a reset connection, a bad checksum. *)
ReadBreaks ==
    /\ EndOfBody("broken")
    /\ read < MaxBodySize
    /\ Answer(400)

(* The callback of UploadOrder.  A blank payload ends the handler without an
   answer: net/http sends 200 in its place. *)
CheckOrder ==
    /\ pc = "process" /\ form.route = "upload"
    /\ CASE Trim(Payload) = << >> -> Answer(0)
         [] Trim(Payload) # << >> /\ ~IsValid(Trim(Payload)) -> Answer(422)
         [] OTHER -> GoTo("service")
    /\ OnlyPc

(* ReadJSONOptimized and Validate; LoyaltyService.Withdraw checks the number
   before it calls the repository. *)
CheckForm ==
    /\ pc = "process" /\ form.route # "upload"
    /\ CASE ~Parses(Payload) \/ ~Validates(form) -> Answer(400)
         [] /\ Parses(Payload) /\ Validates(form)
            /\ form.route = "withdraw" /\ ~IsValid(Trim(form.number)) ->
              Answer(422)
         [] OTHER -> GoTo("service")
    /\ OnlyPc

CallService ==
    /\ pc = "service"
    /\ \E r \in Results(form.route) :
          result' = r /\ Answer(StatusOf(form.route, r))
    /\ UNCHANGED <<form, read, ending, rows, shown>>

(* GetOrdersByUserID and GetWithdrawals begin their query. *)
Query ==
    /\ pc = "query"
    /\ GoTo("rows") \/ Answer(500)
    /\ OnlyPc

ScanRow ==
    /\ pc = "rows" /\ shown < rows
    /\ \/ /\ shown' = shown + 1
          /\ GoTo("rows")
       \/ /\ Answer(500)
          /\ UNCHANGED shown
    /\ UNCHANGED <<form, read, ending, rows, result>>

ShowList == Answer(IF shown = 0 THEN 204 ELSE 200)

RowsEnd == pc = "rows" /\ shown = rows /\ ShowList /\ OnlyPc

(* A slip for the properties to catch: nobody asks rows.Err(). *)
NobodyAsksErr == pc = "rows" /\ shown < rows /\ ShowList /\ OnlyPc

(* The connection breaks between two rows: rows.Next returns false.  Only
   GetOrdersByUserID asks rows.Err() why. *)
RowsBreak ==
    /\ pc = "rows" /\ shown < rows
    /\ IF form.route = "orders" THEN Answer(500) ELSE ShowList
    /\ OnlyPc

Next ==
    \/ Authorize \/ CheckType
    \/ ReadSome \/ ReadFills \/ ReadEnds \/ ReadIsCut \/ ReadBreaks
    \/ CheckOrder \/ CheckForm \/ CallService
    \/ Query \/ ScanRow \/ RowsEnd \/ RowsBreak

Spec == Init /\ [][Next]_vars
-----------------------------------------------------------------------------
(* The shape of the state; at most MaxBodySize symbols of a body are in the
   buffer of bytesBufferPool. *)
HandlersTypeOK ==
    /\ pc \in {"auth", "type", "read", "process", "service", "query", "rows",
               "done"}
    /\ form.route \in Routes
    /\ read \in 0 .. MaxBodySize
    /\ ending \in {"none", "full", "eof", "cut", "broken"}
    /\ rows \in 0 .. MaxRows /\ shown \in 0 .. rows
    /\ result \in {"none", "ok", "conflict", "invalid", "same_user",
                   "other_user", "insufficient", "duplicate", "error"}
    /\ status \in {0, 200, 202, 204, 400, 401, 402, 409, 415, 422, 500}

(* The handler of a route with a body calls, or called, the service. *)
Asks ==
    /\ form.route \in Bodied
    /\ pc = "service" \/ result # "none"

(* The service is asked for what the client sent: http_server.go promises that
   a longer body is refused, and helper.go that a connection that breaks is.
   The code does not keep this, see ActsOnWhatWasSent. *)
ActsOnTheWholeBody == Asks => Trim(Payload) = Trim(form.body)

(* What the code does keep.  The service is asked for less than the client sent
   in three cases only: what is behind MaxBodySize is not looked at; the stream
   of an upload ended too early, and the digits that came are taken for the
   number; the stream of a JSON body ended too early that was no document as a
   whole, but begins with one.  A document that is cut off never passes for a
   document, and a body whose reading failed in any other way never passes. *)
ActsOnWhatWasSent ==
    Asks => \/ Trim(Payload) = Trim(form.body)
            \/ read = MaxBodySize
            \/ ending = "cut" /\ form.route = "upload"
            \/ ending = "cut" /\ ~Parses(form.body)

(* Luhn's check as it is usually told: from the right, every second digit is
   doubled, and the digits of the results are summed up. *)
PassesLuhn(number) ==
    LET Weight(d) == ((2 * d) \div 10) + ((2 * d) % 10)
        Value(i) == IF (Len(number) - i) % 2 = 0 THEN number[i]
                    ELSE Weight(number[i])
    IN  /\ number # << >>
        /\ \A i \in DOMAIN number : number[i] \in Digits
        /\ SumFunction([i \in DOMAIN number |-> Value(i)]) % 10 = 0

(* A sum counted in hundredths of a kopeck; Places is the finest exponent that
   the forms of an instance use. *)
Places == 4

PowerOfTen(k) ==
    LET power[i \in 0 .. k] == IF i = 0 THEN 1 ELSE 10 * power[i - 1]
    IN  power[k]

WholeKopecks(sum) == (sum.coef * PowerOfTen(sum.exp + Places)) % 100 = 0

(* The service sees numbers only that pass Luhn's check, and withdrawals only
   of a positive sum of whole kopecks: luhn.go sums from the left and
   contract.go compares an exponent. *)
AcceptedAreValid ==
    Asks => CASE form.route = "upload" -> PassesLuhn(Trim(Payload))
              [] form.route = "withdraw" ->
                   /\ PassesLuhn(Trim(form.number))
                   /\ form.sum.coef > 0 /\ WholeKopecks(form.sum)
              [] OTHER -> form.filled

(* What the client sees: net/http answers 200 if the handler does not. *)
Wire == IF status = 0 THEN 200 ELSE status

(* Success is answered only if the service did, or had done, what is asked for:
   a handler that gives up has sent an error.  UploadOrder does not keep this,
   see AnswersFit. *)
SuccessMeansDone ==
    pc = "done" /\ form.route \notin Lists /\ Wire < 300 =>
        result \in {"ok", "same_user"}

(* What the code does keep.  The client of a service call is told of success
   exactly if the service did, or had done, what it asks for; 202 tells of an
   order that is new, and of nothing else; and a handler that reads JSON sends
   an error before it gives up. *)
AnswersFit ==
    pc = "done" /\ form.route \notin Lists =>
        /\ result # "none" => (Wire < 300 <=> result \in {"ok", "same_user"})
        /\ Wire = 202 <=> form.route = "upload" /\ result = "ok"
        /\ form.route # "upload" /\ Wire < 300 => result = "ok"

(* A list of orders that is answered with success has all the orders of the
   user: rows.Err tells an end from a break. *)
OrdersListIsWhole ==
    pc = "done" /\ status \in {200, 204} /\ form.route = "orders" => shown = rows

(* The same of every list.  GetWithdrawals does not ask rows.Err. *)
ListIsWhole ==
    pc = "done" /\ status \in {200, 204} /\ form.route \in Lists => shown = rows
=============================================================================
