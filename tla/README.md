# Verification of gofermart

gofermart is a loyalty service: clients upload order numbers, a worker asks an
external accrual system for the points of each order, and clients spend the
points. These modules model the parts of it in which something can go wrong
between two steps: the transactions on PostgreSQL, the accrual worker, the life
of the process, accounts on pods that are still migrating, the way of a request
through its handler, and the pooled objects it uses. TLC checks small instances;
TLAPS proves every safety property the passing runs check for every instance.
Liveness is model-checked.

## Inventory

| Component | State | Operations | What is hard | What makes it correct |
|---|---|---|---|---|
| Ledger (`internal/repository/postgres`: `order.go`, `order_accrual.go`, `balance.go`) | tables `users`, `orders`, `withdrawals` | `CreateOrder`, `UpdateOrderAndBalance`, `WithdrawPoints`, queries | transactions of handlers, worker and other pods interleave; rollback, lost acknowledgement of a commit, unique keys, row locks, column width | money is conserved; a verdict is final; answers stay true; refused calls leave nothing; every call returns |
| Service (`internal/service/loyalty.go`) | none of its own; `OrderChan` | `UploadOrder`, `Withdraw`, `Register`, `Authenticate`, `ValidateToken`, reads | insert and channel send are two steps; the buffer may be full | an accepted order is processed in the end |
| Accrual worker (`internal/worker/accrual`) | `OrderChan`, ticker, `blockedUntil`, `processing`, running calls | `Start`, `processUnprocessedOrders`, `ProcessOrder`, `Block`, `IsBlocked`, `CheckOrder` | two sources of the same order, 429 in the middle of everything, stale copies, panics, other pods | one call per order, no leaked key, a ban is respected, a verdict is not taken back, every order settles |
| Process (`cmd/gophermart/main.go`, `internal/router/http_server.go`) | contexts, errgroup, server, channel closed or not | start, signal, shutdown with a deadline, close, wait, `pool.Close` | the deadline passes, the context ends before the channel is closed, a handler keeps a connection, crashes | shutdown ends, nobody uses what is closed, the database is enough to start again |
| Request pools (`pkg/gzip`, `internal/handler/helper.go`, `contract.go`) | `sync.Pool`s of readers, writers, buffers, forms | `Get`, `Put`, `Reset`, `Close` | objects shared by concurrent requests, several exits, `Close` called twice | an object has one user and carries nobody else's data |
| Handlers and router (`internal/handler`, `http_server.go`) | none between requests | session, content type, body, form, service, status | bodies that are cut, broken, blank or too long; lists that break off | the service is asked for what was sent; success is answered exactly if there was one; a list is whole |
| Accounts (`user.go`, JWT in the service) | table `users`, tokens | register, login, validate | check-then-insert, lost answers, spellings of a login, errors hidden as "not found" | one account per login; a token names the user who logged in |
| Migrations (`postgres.go`) | schema version, two advisory locks | `RunMigrations` | several pods start at once, a leader is killed or loses its lock, a follower does not look again | the version table tells the truth; a pod that led serves on the whole schema |
| Luhn (`pkg/luhn`) | none | `IsValid` | parity of the length | equals the definition |
| Configuration, mocks, benchmarks | none | | | not modelled: no behaviour of their own |

They interact like this. A handler takes a form and a buffer from the pools,
calls the service, and the service calls a repository. `UploadOrder` inserts the
order and then sends it, without blocking, into `OrderChan`. The dispatcher of
the worker takes orders from the channel, and every five seconds from the
database; each of them goes through `ProcessOrder`, which asks the accrual
system and calls `UpdateOrderAndBalance`. Several pods run against one database.
`main` starts server and worker and takes them down in turn.

## Modules

| Module | Role |
|---|---|
| `Ledger` | abstract specification: three atomic operations on the tables |
| `LedgerTx` | the same operations as SQL statements of concurrent sessions; implements `Ledger` |
| `LedgerTxProofs` | theorems about `LedgerTx` |
| `AccrualWorker` | the worker of one pod with what feeds it |
| `AccrualWorkerProofs` | theorems about `AccrualWorker` |
| `Lifecycle` | `AccrualWorker` inside a process that is started, stopped and killed |
| `LifecycleProofs` | theorems about `Lifecycle`, from those about the worker |
| `RequestPools` | the pooled objects of concurrent withdrawal requests |
| `RequestPoolsProofs` | theorems about `RequestPools` |
| `Migrations` | `RunMigrations` of pods that start on one database |
| `AccountBook` | abstract specification: an account is opened once, a session needs its password |
| `Accounts` | `Migrations` with registration, login and session check on the pods that serve; implements `AccountBook` |
| `AccountsProofs` | theorems about `Accounts` and `Migrations` |
| `Handlers` | one request through router, handler and service, with the Luhn check |
| `HandlersProofs` | theorems about `Handlers` |
| `SumProofs` | lemmas about sums over finite sets and running sums, for the ledger and the Luhn check |
| `MC...` | sets a `.cfg` cannot write, and symmetry |

`PROJECT.json` maps every definition to the lines it models. Definitions whose
comment begins "A slip for the properties to catch" are wrong variants of the
definition that follows; nothing uses them, and each property is shown to fail
when one of them takes the place of the definition.

### Ledger and LedgerTx

`users[u]` is the pair `balance`, `withdrawn`; `orders[n]` and `withdrawals[n]`
are the rows with that key or `NoRow`. Amounts are integers (kopecks), because
every amount column is `NUMERIC(12,2)`; `MaxNumeric` is the largest value of such
a column. A user row exists from the beginning: no code deletes one, and a
session only acts for a user who was registered. Rounding of an accrual with
more than two decimals by the column is not modelled.

In `LedgerTx` a session is one call of a repository on a connection of its own.
`pc` is the statement to run next, `call` its arguments, `reply` what it returned,
and the `dirty...` variables are its uncommitted row versions. PostgreSQL is
modelled at READ COMMITTED, the level `Begin(ctx)` takes: a statement sees
committed rows, waits for the lock of a row or unique key another open
transaction holds, and then evaluates the row again. `Abort` stands for every
loss before the commit (connection, context, crash), and a commit or an
autocommitted insert may be executed while its caller is told "failed".
`CreditUser` fails on overflow, `DebitUser` on overflow (an error) and on
`check_balance_non_negative` (insufficient funds), as the database does.

A session that settles an order may hold any copy of it: only number and owner
are taken from a committed row, which is all that stays true of a row that was
read earlier. This covers the channel, the ticker, and other pods.

### AccrualWorker

The dispatcher is the goroutine of `Start`; `pc` is its control: `top` (choosing
`activeChan`, kept in `armed`), `select`, `wait` (limiter), `fetch`, `scan`,
`scan_wait`, `scan_call` (the loop of `processUnprocessedOrders`), `drain`
(`wg.Wait`) and `stopped`. `lane[l]` is a call of `ProcessOrder`: the lane `Ticker`
is run by the dispatcher itself, the lanes `Slots` are its goroutines. A call is
at `begin` (before `LoadOrStore`), `request`, `sync` (an answer in hand),
`unlock` (the deferred `Delete`), or `unwind` (after a panic ran the first
deferred `Delete`, before the recover runs the second). It carries the copy of
the order it was started with. `ban` is the time left until `blockedUntil`, in
seconds; `Second` lets it run out. The limiter is a wait of any length that
fails when the context is done.

The environment is the upload (`Insert`, then `Send`), the accrual system, whose
view of an order only moves forward (`Advance`), other pods (`OtherPod`), the
ticker and the clock. `UpdateOrderAndBalance` is one step here, and the two
failures `LedgerTx` gives it (refused, or nothing done) are `SetStatus` on a final
order and `SyncFails`. That this is enough is what `RefinesLedger` says. A commit
whose acknowledgement is lost looks to the worker like `Applies`, as the error is
only logged.

### Lifecycle

`main` goes from `serving` by `Signal` (a signal, or an error in the errgroup) to
`stopping`, from there with or without the deadline to `closing`, closes the
channel, is `waiting` for the worker and then `draining` in its deferred
`pool.Close()`, and `down`. An upload request is in `inflight` while its handler has
no connection (parsing, or waiting for one), in `connected` while its `INSERT` runs
on a connection of the pool, and in `sending` (of `AccrualWorker`) before the send.
`Reject` is a handler that ends before it has a connection, as all do that ask a
closed pool for one. `DatabaseCall` returns the connection: the row was stored
(`Save`), was not (`SaveFails`), or was while the answer is lost (`SaveUnheard`).
`PoolClosed` waits until `connected` is empty, without a deadline, and for no other
handler: those are gone with the process. `Crash` may come in any state. `Start`
begins anew with everything but the database. `Worker` is the whole
`AccrualWorker`.

### RequestPools

A request is a goroutine through `gzip.Middleware`, `Withdraw`,
`ReadBodyOptimized` and back. `pooled[x]` counts how often an object is in its
pool, as a `sync.Pool` does not notice a pointer put twice; `data[x]` is the
request whose data the object holds, or for a reader the request whose body it is
bound to. A request may or may not accept gzip; the router may refuse it before
the handler; reading, parsing, validation and the closing of the body may fail. A
reading that fails may have filled a part of the buffer by then (`ReadFails`).

### Migrations

`pod[p]` is the place in `RunMigrations`: `probe` (`pg_try_advisory_lock`), `pause`
(the second of sleep), `open` (`Up` before its lock), `mark`, `run`, `clean` (the
dirty version is written, the body is run, the version is written as clean),
`unlock`, and `led` or `followed` for a pod that serves. `advisory` is the holder
of the lock 1777 and `migrator` the holder of the lock golang-migrate takes
itself; `ran[i]` counts how often a body was run to its end. A pod may be killed
or give up at any place (`Exit`), and the session of the first lock may break
without the pod noticing (`LoseSession`), as `database/sql` takes any connection
of its pool for the unlock. golang-migrate is external and modelled by the calls
it makes; a body is one query, which PostgreSQL runs whole or not at all.

### AccountBook and Accounts

A request is a goroutine of a pod that serves. `step` is its next statement, `user`
the id it goes on with, `answer` what the client is told, `token` the `user_id` in
its cookie. A form is a login and a password, each by what `Sanitize` looks at: a
name, what stands at its edges (a space makes it trim all white space, a tab does
not), and whether it has capitals. A row of `users` is the id (the request that
inserted it) and the password; equal hashes are equal passwords. A statement
needs the migration that creates its table or column and fails without it; it may
fail anyway, or take effect and lose its answer, and the pod may exit. `Visit`
sends the cookie of an earlier answer to `/balance`, before or after it expired.

`AccountBook` has two operations on the map from logins to passwords. `Accounts`
implements it with the committed rows as the book and the signed tokens as the
admissions.

### Handlers

`pc` follows a request: `auth`, `type` (content type), `read`, `process` (callback,
JSON, validation, Luhn), `service`, and for the lists `query` and `rows`. A body is
a sequence of digits, blanks, the two halves of a JSON document and anything
else. `ReadSome` fills the buffer in pieces of any size; `ReadFills`, `ReadEnds`,
`ReadIsCut` and `ReadBreaks` are the ways `io.ReadFull` returns. `MaxBytesReader` has
the limit the buffer has, so its error is never seen. The fields of a form are
given beside the body: parsing either succeeds and yields them or fails. What a
service call returns is any of the errors it is able to return, and each handler has
its own table of statuses (`UploadStatus`, `WithdrawStatus` and so on); that a call
changes the tables as it says is the matter of `LedgerTx` and `Accounts`. `status`
is 0 for a handler that ends without an answer. A request may be `chunked`: the
router then looks at its content type even if its body is empty.

## Runs

| Run | Instance | Shows |
|---|---|---|
| `ledger_tx` | 2 users, 2 numbers, 2 sessions, accruals -1, 2, sum 1, maximum 3 | conservation, range of the columns, finality of verdicts, no earned point disappears, answers stay true, refusals leave no trace, the statements implement `Ledger` |
| `ledger_tx_rivals` | 1 user, 1 number, 3 sessions, accrual 2, sum 1, maximum 3 | the inductive invariant, with no lost update among its parts; no call waits for ever |
| `accrual_worker` | 2 orders, buffer of 1, 1 goroutine and the ticker, verdict PROCESSED, Retry-After 1 and negative, panics of one order | one call for the order that does not panic, no leaked key, one slip at most, and every order settles when orders compete for buffer and lanes and bans are renewed |
| `lifecycle` | 1 order, 2 starts, PROCESSING and PROCESSED, 429, panics | shutdown ends, nothing outlives the worker, no verdict is taken back, the order settles after panic, crash or shutdown |
| `request_pools` | 4 requests, three compressed, 1 reader, 1 writer, 2 buffers, 2 forms | one user per object, nothing left behind in a pool, no amount reaches a plain request or comes from one |
| `accounts` | 2 pods, 3 migrations, 3 requests, 5 forms: two registrations of one name in two spellings, logins with the right and the wrong password, a blank login | the version table is right, leaders serve on the whole schema, one welcome per login, tokens name their owner, the statements implement `AccountBook` |
| `handlers` | a buffer of 4, every upload of up to 5 symbols of `0 1 8 blank other`, every document of up to 5 symbols, numbers of up to 3 with sums from 0.0001 to 10000, lists of up to 2 rows | the service is asked for what was sent, only valid numbers and whole kopecks get through, answers fit what the service did, lists of orders are whole |
| `accrual_worker_panic`, `request_pools_shared`, `handlers_rows`, `handlers_body`, `handlers_blank` | | fail, one for each of the findings below |

Why the bounds are enough. Two sessions show every conflict of a pair; the third
one of `ledger_tx_rivals` waits while a rival rolls back and another one takes
the lock. Two users and two numbers give calls of different users on one number
and of one user on two numbers. The maximum of 3 is passed by two credits,
so overflow is exercised. One goroutine lane beside the ticker lane gives the two
concurrent calls that all properties of the worker are about, and further
goroutines are exercised in sequence; a buffer of 1 is full at once with two
orders. A Retry-After of 1 begins or renews a ban, and a negative one ends it early;
one that is missing is in `lifecycle`. The two orders of `accrual_worker` go from REGISTERED to
PROCESSED; the way through PROCESSING, where a late answer on a stale copy could
take a verdict back, is in `lifecycle`, which has panics too. One order is enough
there: orders meet in the channel, the lanes and the lists, not in the shutdown.

In `accounts` the second pod leads, follows, or takes over from a leader that was
killed; three migrations have a first, a last and one between. Three requests give
two racing registrations and a login, or a registration, a login and a visit. In
`handlers` a buffer of 4 makes bodies of 5 symbols too long and bodies of 4 fill it
exactly; numbers of even and odd length pass and fail the Luhn check. A request
does not see another one in this module, so one is enough.

`CHECK_DEADLOCK FALSE` is set in the runs of `RequestPools` and `Handlers`, which end
when all requests are done.

In `request_pools` three compressed requests share their reader as in
`request_pools_shared`: the first puts it twice, and the other two read through it.
The service is then asked for the withdrawal of the wrong one (`OwnDataOnly`), and
`DataFromSources` says how far this reaches: never to a plain request, which is the
fourth, and never from one. The one reader and the one writer are what the requests
compete for; two buffers and two forms make the third request wait or take over
what the others put back.

## Fairness

`LedgerTx`: PostgreSQL runs statements and grants row locks to waiters in turn
(`SF` of a session's statement). `Abort` has no fairness: a call returns by itself.

`AccrualWorker`: the Go scheduler runs dispatcher and calls (`WF`), time and ticks go
on (`WF`). Nothing is assumed of the choices of `select`, of the limiter, or of the
order in which handlers send. Of the outside we assume what the property cannot do
without: the accrual system comes to a verdict on every order (`WF` of `Advance`), it
does not fail or refuse every request of those that are made again and again (`SF`
of `Answer`, in whatever lane and for whatever order), and the database does not
fail every list or every update (`SF` of `Fetch` and of `Applies`).

`Lifecycle`: the same while the process is up, a `select` that is reached again and
again with the context done takes that case in the end (`SF` of `SelectDone`: `select`
chooses at random among the ready cases), `main` goes through its shutdown, and a
process that is down is started again. Neither signals nor crashes are assumed to
come. A handler may hang for ever before its database call; a database call that
was begun returns (`WF` of `DatabaseCall`). This last one is not the code's doing: the
call has the context of the request and no timeout. Without it `ShutdownEnds` is
false, as `pool.Close` has no deadline either.

`Accounts` and `Handlers` state no liveness: nothing in the code retries a
request, and a pod that is refused exits.

## Proofs

`LedgerTxProofs` proves about `TxSpec`, for any sets of users, numbers, sessions,
sums and accruals, from the assumptions `LedgerAssumption` (amounts are integers,
sums are positive, `NoRow` is not a row) and `CallAssumption` (`NoCall` is no call):

- `TypeCorrect`: `[]TxTypeOK`;
- `TransactionsSound`: the inductive invariant `TxInv`;
- `UpdatesAreNotLost` (`NoLostUpdate`), `BalancesStayInRange`: its consequences;
- `TransactionsRefineLedger`: `TxSpec => Abstract!Spec`;
- `FinalOrdersStayFinal`, `EarningsAreKept`: the action properties of `Ledger`, of the
  interleaved statements;
- `AnswersAreKept`: `[]AnswersStayTrue`; `RefusalsAreTraceless`: the action property
  `RefusalsLeaveNoTrace`.

`BalanceInRange` is not inductive: `Commit` writes a version that was computed
earlier. `TxInv` therefore says, for every session, which versions it holds at its
statement (`PhaseInv`), and that each was computed from the committed row as it
is now, is in range, and is held by no other session (`UserInv`, `OrderInv`,
`WithdrawalInv`). The locks make this inductive: who computes a version holds no
rival's lock, and a commit changes only rows its session holds. With it, the
insert of an order is `Upload`, a commit is `Settle` or `Withdraw`, and every other
step leaves the committed tables alone. There is one lemma per action, and one
step in it per part of the invariant.

`AnswersStayTrue` needs more (`Answers`): a reply belongs to a call that has ended, and
the row it speaks of exists. A session that does not move keeps its answer
because rows only mature (`RowsOnlyMature`, which the refinement gives for every
step); the session that answers has just written, or read, the row.

`AccountsProofs` proves about `Spec` of `Accounts`, for any sets of pods, requests and
forms and any number of migrations, from `MigrationsAssumption` and
`AccountsAssumption`: `AccountsTyped`, `SchemaStaysConsistent`, `LeadersServeWhole`,
`WelcomesStay`, `TokensNameTheirOwner` and `AccountsKeepTheBook`
(`Spec => Book!BookSpec`). Two inductive invariants carry them (`AccountsSound`).
`MigratorInv`: whoever is between two writes of the version table holds the lock
of golang-migrate, and what it does next tells whether the version is dirty and
whether its body ran. The advisory lock does not occur in it, which is why losing
its session does no harm. `RequestInv`: an id that a request carries is that of
the row of its login, and a request that is welcomed has that row. It is inductive
because a row is never changed. A step that inserts a row opens an account in the
book, the signing of a token admits, and every other step leaves the book alone.

`HandlersProofs` proves about `Spec` of `Handlers`, for any size of buffer and list
and any set of requests, from `HandlersAssumption`: `HandlersTyped`,
`RequestsAreAsSent`, `AnswersAreTrue`, `OrdersAreShownWhole` and `AcceptedAreChecked`.
The invariant `HandlersInv` remembers what no variable says at the end: that a body
which is processed was read to its end, to the end of the buffer, or was cut; that a
document was parsed; and that nobody has answered the request yet.
`RequestsAreAsSent` and `AnswersAreTrue` are about the weaker ones of two pairs of
properties: `ActsOnTheWholeBody` and `SuccessMeansDone`, which the comments promise,
are false (see below).
`AcceptedAreChecked` adds that what is asked of the service was `Vetted`, and the
lemma `LuhnAgrees`: the running sum of `IsValid`, which goes from left to right and
finds the doubled digits by the parity of the length, is the sum of the usual
definition, which counts from the right.

`LedgerTxProofs` also proves `MoneyIsConserved`: `[]Conservation`. Orders and
withdrawals may be infinitely many, so the sums are over finite sets only because
few rows exist (`FewRows`: finitely many rows in every reachable state). A step of
`Ledger` moves one member into one of these sets, and the sums change by its amount
(`StepConserves`); the refinement carries this to every SQL statement.

`AccrualWorkerProofs` proves about `Spec` of `AccrualWorker`, for any set of orders, any
capacity of the channel and any number of goroutines, from `WorkerAssumption`:

- `WorkerTyped`. `WorkerTypeOK` is not inductive: an answer sets the status of its
  order, and would make a row of one that was never uploaded. `WorkerInv` adds that
  every copy, in the channel, in a list or in a call, is of an uploaded order
  (`OnlyUploaded`).
- `VerdictsStayForever`: the action property `VerdictsStay`, from `WorkerInv` alone.
- `OneCallForEachOrder` and `LocksAreTheCalls`. `Panicky` are the orders whose processing
  may panic, any set of them. For such an order `OneCallPerOrder` is false, which is the
  first finding below; for every other one it holds whatever the panicky ones do
  (`OneCallPerCalmOrder`), and so does `LocksMatchCalls`. They are inductive together,
  with `TickerWaits` (the ticker's lane is busy only while the dispatcher waits for it)
  and with `OnlyPanickyUnwind`: who is between the two `Delete`s will delete the key of a
  panicky order.
- `NoKeyStaysBehind`: what remains for panicky orders. A key in the map always belongs
  to a call that is inside and is going to delete it, so that no order is shut out.
- `OneSlipAtMost`: `AtMostOneSlips`, with `SlipInv`: after a call slipped through, the
  dispatcher is not `Committed`, that is, not between its look at the throttler and a
  call, as long as the ban runs.

`LifecycleProofs` proves the same about `LifeSpec`, through any number of shutdowns,
crashes and starts (`LifeTyped`, `LocksThroughRestarts`, `OneSlipThroughRestarts`,
`VerdictsThroughRestarts`), and `CallsEndBeforeStart`. For that, the lemmas about the
worker are stated of its steps and of the dispatcher's ways out (`WindDown`), which
only a process that ends takes. `NoCallOutlivesStart` is inductive with
`TickerWaits`: the `WaitGroup` counts the goroutines but not the ticker's call, which
has ended because the dispatcher itself ran it.

`RequestPoolsProofs` proves about `Spec` of `RequestPools`, for any sets of requests and
objects, from `PoolAssumption` (no object is of two kinds): `PoolsTyped`,
`ObjectsUsedByOne`, `PoolsAreClean` and `NoLeakFromPlain`.
`PoolsInv` says where a request has which object (`HoldsInv`), that a writer, a
buffer or a form is new, or once in its pool, or with one request (`OnceInv`), and
whose data an object may hold (`DataInv`). The readers are left out of `OnceInv`, as
`io.go` puts them back twice. `NoLeakFromPlain` is `DataFromSources`: with any number
of compressed requests a plain request gets only its own data. That a compressed
one does, too, is false (`OwnDataOnly`).

`SumProofs` has no induction: a least number (`LeastNumber`, from the
well-foundedness of the numbers, which takes a set and not an operator) does in its
place.

Only model-checked: the liveness properties `CallsReturn`, `EveryOrderSettles` and
`ShutdownEnds`, which need fairness and `ENABLED`, out of this prover's reach. Every
invariant and action property of a passing run is stated by a theorem. What the
five failing runs check is false.

## Findings

Each of these has a run that fails with a behaviour of the code.

1. `service.go:38`: the key of an order whose processing panics is deleted twice;
   between the two another call may have stored it (`OneCallPerOrder`;
   `OneCallPerCalmOrder` is what holds).
2. `pkg/gzip/io.go:102`: a compressed request puts its reader into the pool twice,
   two later requests read through the same one, and the service is asked for the
   sum of the wrong request, which `contract.go:73` says the pools exclude
   (`OwnDataOnly`; `DataFromSources` is what holds).
3. `postgres/balance.go:113`: `GetWithdrawals` does not ask `rows.Err`. When the
   connection breaks between two rows the client gets a part of the list with 200,
   or 204 (`ListIsWhole`); for orders, where the check is there, the same property
   holds (`OrdersListIsWhole`).
4. `helper.go:45`: the buffer is as large as the limit of `MaxBytesReader`, so a
   longer body is processed without its end where `http_server.go:103` and the test
   `MaxBytesMiddleware_TooLarge` have 413; and a body that is cut by the connection
   or the gzip stream counts as a whole one (`helper.go:49`), where `helper.go:69` has
   400 (`ActsOnTheWholeBody`). An order number may lose its last digits this way and
   still pass the Luhn check. `ActsOnWhatWasSent` is what holds: nothing else passes;
   a JSON document that is cut off does not.
5. `order.go:32`: an upload of blanks is not answered by the handler, and net/http
   answers 200, which tells the client that the order was uploaded before
   (`SuccessMeansDone`). `AnswersFit` is what holds: the answer to a service call is
   true, and the handlers that read JSON send an error before they give up.

Other places where code and comments differ. The properties that pass are stated
so that they say what holds all the same.

- `worker.go:64`: the channel is armed before the select parks, so an order may be
  read from it after a ban began. `AtMostOneSlips` shows that it is one call and no
  more.
- `main.go:142`: the channel is closed although the shutdown of the server may have
  timed out with a handler before its send, which then panics. The order is stored
  and settles later (`EveryOrderSettles` of `lifecycle`).
- `main.go:145`, `worker.go:70`: the channel is not read to its bottom at shutdown;
  the orders settle after the next start.
- `user.go:59`: an outage of the database at login is answered 401.
- `postgres.go:43`: a pod that found the lock taken serves after a second, whether
  the schema is there or not; its statements then fail.
- `repository.go:39` and `loyalty.go:260` promise orders from old to new, `handler.go:48`
  from new to old; the query is from new to old.

## Not modelled

The order of the rows of a list, the text of answers, headers and JSON encoding;
logging, tracing and the recovery middleware; bcrypt and the signature of tokens
(taken to be perfect, and the secret to be the same on all pods); roundings of an
accrual with more than two decimals; the limits of the pgx pool, which delay a
call but cannot block one for ever, as no call holds two connections;
configuration, wiring, mocks and benchmarks, which have no behaviour of their own;
HTTP itself. A quota of requests at the accrual system (hazard at `worker.go:126`)
has no property: whether every order is reached depends on how the quota relates
to the number of orders, of which the code says nothing.

## Order of the work

The parts above the line are done; those below are left open.

1. `Ledger`, `LedgerTx`, `LedgerTxProofs`; 2. `AccrualWorker`; 3. `Lifecycle`;
4. `RequestPools`; 5. `Migrations`, `AccountBook`, `Accounts`, `AccountsProofs`;
6. `Handlers` with the Luhn check and the amounts, `HandlersProofs`;
7. `AccrualWorkerProofs`, `LifecycleProofs`, `RequestPoolsProofs`, `SumProofs`.

---

8. That the worker, with the uploads and the other pods, implements an abstract
   order life cycle, and `LedgerTx` the steps of it that it takes.
9. `AccrualQuota`: the scan with a quota of requests at the accrual system, to
   settle when every order is reached.
