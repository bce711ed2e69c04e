# Formal specifications of the wallet service

TLA+ specifications of the Go wallet service in `src/`: members, their balances
and their statements in MongoDB, changed by deposit, withdraw and add-member
requests that arrive over HTTP or through RabbitMQ, Redis streams or Kafka.
TLC checks the specifications on small instances, TLAPS proves theorems about
them for every instance.

File names below are short: `usecase` is
`internal/application/usecases/wallet_usecase.go`, `service` is
`internal/domain/services/wallet_service.go`, `mongo` is
`internal/infrastructure/adapters/db/mongo_adapter.go`, and `rabbitmq`, `redis`
and `kafka` are the `adapter.go` of that name under
`internal/infrastructure/adapters/queue/`.

## 1. The system

    HTTP handlers (web) ──► WalletUseCase ◄── consumer process
        │                        │                 ▲
        │ queuePort              ▼                 │ StartConsumer(handler)
        └──► queue adapter   MongoAdapter      queue adapter
                 │               │                 ▲
                 ▼               ▼                 │
             broker ◄─── requests and responses ───┘      MongoDB replica set

| Component | State | Operations | Interacts with |
|---|---|---|---|
| Wallet use cases (`usecase`, `service`) | none of its own; everything is in MongoDB | HandleDeposit, HandleWithdraw, HandleCreateMember, HandleBalanceCheck, GetMultipleBalances | called by HTTP handlers and by the queue consumers, concurrently and in many processes; calls the repository |
| Wallet repository (`mongo`) | collections users, account balances, wallet statements; one session per transaction | find and insert documents, update a balance, start, commit and abort a transaction | MongoDB: snapshots, write conflicts, unique indexes, transaction lifetime |
| Balance cache (`usecase:447`) | entries that live 5 minutes | read through | optional; `main` never installs one |
| RabbitMQ adapter | one channel, `closed`; the broker's queue, one response queue per call | PublishTransaction (RPC, 60 s), fire and forget, StartConsumer, StopConsumer, Close | the broker, the handler |
| Redis adapter | client, `closed`, one consumer; the stream, its group, the pending entries, the response lists | PublishTransaction (XADD, BLPOP), StartConsumer, Close | the broker, the handler |
| Kafka adapter | writer, reader, `closed`; log, committed offsets, the response topics | PublishTransaction with a listener goroutine, StartConsumer, Close | the brokers, the handler |
| Load tests (`web/test_*.go`, `handlers.go:90`) | channels `jobs`, `done`, shared counters | senders, workers, monitors | the adapters |
| Processes (`cmd/`) | `closed`, the consumer goroutine | start, signal, Close | all of the above |
| Factory, configuration, ports, utilities | none that changes | constructors, environment, formatting | |

What makes each correct:

- **Use cases over the repository.** Statements and balance of an account agree;
  no two requests work on the same balance; no balance is negative; a request
  takes effect at most once, and the answer tells what happened; every request
  ends, whatever a dead one has left open; of two creations of
  one member one succeeds; a member is created in both collections or in none.
- **Queue adapters.** A caller gets the answer to its own request or an error; a
  request is handled at least once if the broker accepted it and some consumer
  lives, and at most once if nothing dies; consumers do not stop for good when
  something fails; response queues and keys do not pile up.
- **Load tests.** They report counters that account for every job, and no goroutine
  sends on a closed channel, which would end the server. That every test reports is what
  they are for, and holds of Kafka's only: two findings are about the others.
- **Processes.** Shutdown leaves no message half handled and ends.

What is hard: any number of handlers interleave at every database call; MongoDB
decides their races by write conflicts and by unique indexes; a driver's error
does not tell whether the call took effect; processes die between a commit, the
answer and the acknowledgement; brokers deliver again, late or never; clocks of
hosts differ, and dates order the statements. `PROJECT.json` lists each of these
hazards at its line, with the properties that watch it.

## 2. Modules

| Module | What it is |
|---|---|
| `WalletLedger` | Abstract: requests are posted to accounts one at a time, each at most once, never below zero, and acknowledged or refused truthfully. |
| `WalletUseCase` | The three handlers that change state, step by step, over MongoDB. Implements `WalletLedger`. |
| `WalletUseCaseProofs` | The theorems about it. |
| `QueuePort` | Abstract: what every queue adapter promises its callers. A refused call is never run, an answer is the result of a run of the caller's own call. |
| `RabbitQueue` | The RabbitMQ adapter on both sides of the broker. Implements `QueuePort`. |
| `RedisQueue` | The Redis adapter: stream, group, pending entries, response lists. Implements `QueuePort`. |
| `KafkaQueue` | The Kafka adapter from the topic to the response: log, group, commits. |
| `KafkaRPC` | The Kafka adapter at the caller: PublishTransaction, its listener goroutine, their channels. Implements `QueuePort` for one call. |
| `LoadTest` | The goroutines and channels of the web server's load tests, for the three brokers. |
| `Lifecycle` | A consumer process from its start to the end of its shutdown, with each adapter. |
| `BalanceCache` | Balance queries, with and without a cache, while the balance changes. |
| `HttpCall` | HTTP handlers over a use case or over `QueuePort`, with the server's write timeout. |
| `RabbitQueueProofs`, `RedisQueueProofs`, `KafkaQueueProofs`, `LoadTestProofs`, `LifecycleProofs`, `BalanceCacheProofs`, `HttpCallProofs` | The theorems about these modules; those about `KafkaRPC` are in `KafkaQueueProofs`. |
| `MC...` | The instances of each module for TLC: model values and symmetry. |

The modules meet at their abstractions. `WalletUseCase` has the inside of a run of the
handler, which is one step in the queue modules; `QueuePort` is what the queue modules
implement and what `HttpCall` builds on, stepping its instance of the port for every
queued call; `KafkaQueue` produces the responses that `KafkaRPC` takes as given;
`Lifecycle` has the shutdown that the consumers of the queue modules see as a stop.

### WalletUseCase

A request `r` is one call of a handler, in whatever process. `pc[r]` is the next
call its handler makes, `answer[r]` the response it has decided on, `draft[r]`
what its transaction has read and computed. The database is `userDocs`,
`balanceDocs` (which accounts have a document), `balance` and `statements` (what
is committed), and `writers`, the open transactions with an uncommitted update of
a balance.

| Action | Code |
|---|---|
| `ValidateDeposit`, `CheckWithdraw` | the part of HandleDeposit and HandleWithdraw before the transaction (`usecase:47`, `:86`) |
| `ReadWallet` | the three reads of processDeposit and processWithdraw, from one snapshot, and the consistency check (`usecase:291-327`) |
| `RecordStatement` | CreateDepositStatement, CreateWithdrawStatement, the insert (`service:63`, `:94`) |
| `UpdateBalance` | UpdateAccountBalance (`mongo:289`), or its write conflict |
| `SendCommit`, `ServerCommit`, `CommitReturns`, `CommitFails` | the commit: sent, applied by the server, and what the client hears of it (`usecase:71-77`) |
| `Abort`, `Expire` | the abort, whose error is ignored, and the server's limit on the life of a transaction |
| `CheckMember`, `InsertUser`, `InsertBalance` | HandleCreateMember (`usecase:142`) |
| `LookupFails`, `TransactionFails`, `InsertFails`, `Crash` | the error branch of every repository call, and the death of the process |

The three reads of a transaction are one action: they see one snapshot, so
nothing another request does between them can be seen. Everything else another
request can see is a step of its own.

Amounts are natural numbers in tenths of 10^-8, so that a request can ask for more
digits than are stored: `Units` rounds as `"%.8f"` does. A non-positive amount is
0. An amount half way between two units rounds by its binary expansion and is
left out (`RequestAssumption`). Float addition is exact in the model; in the code
it is exact up to about 10^7. `Compare` keeps the epsilon of the comparison.

Assumed of MongoDB: snapshot isolation of a transaction on a replica set, a write
conflict for the second of two concurrent updates of a document, atomic commit,
and that the unique indexes exist (`createIndexes` only logs its failure,
`mongo:80`; the mutant `NoUniqueIndex` shows what depends on them). A failed insert
of a member creation takes effect at once or not at all.

### RabbitQueue

A call `m` is one of `PublishTransaction` (`Rpc`) or of
`PublishTransactionFireAndForget` (`Fire`) in the web server; what it asks for and
what the handler does are not told apart, only that a run has a result.
`caller[m]` is where the call is, `reply[m]` what is in its response queue, `done[m]`
the results of the handler's runs for it. `queue` and `declared` are the broker's
queue, `status[c]`, `inHand[c]` and `stage[c]` a consumer process and the message its
goroutine is working on; `acked`, `gone` and `interrupted` are history. `wire` has the publications that the
server has written and the broker has not read.

| Action | Code |
|---|---|
| `Declare`, `Publish`, `Take`, `GiveUp`, `Reject` | PublishTransaction (`rabbitmq:107`): the response queue, the publication, the three cases of the select, the errors before the message is out; `Publish` also fire and forget (`:199`) |
| `Connect`, `Subscribe` | NewAdapter with connect and setupQueue (`:39`), StartConsumer (`:256`) |
| `Deliver`, `Handle`, `Respond`, `Ack` | the range over the deliveries and handleMessage (`:277`, `:286`), sendResponse (`:325`) |
| `LoseConnection`, `Exit` | a lost connection, or a signal with the deferred Close, which to the broker is the same; the end of the process (`cmd/consumer/main.go:42-63`) |
| `LoseServer`, `Arrive`, `LoseOnWire`, `Expire` | the environment: the server's lost connection; a publication that the broker reads, or that is lost with the connection; the expiration set at `:171` |

A consumer whose connection is gone is `deaf`: its goroutine finishes the message in
hand, the response and the acknowledgement fail unnoticed, and no delivery comes
again until the process is restarted. Of the broker the model takes what the code
asks of it: the queue is deleted with its last consumer (`:94`, "delete when unused"),
a lost consumer's message returns to the head, a message no queue takes is dropped
(`mandatory` is false), and a response queue lives as long as its caller listens.
The channel is not in confirm mode: a publication without an error says only that the
message was written, so `Publish` puts it on the `wire`, and it may be lost there once the
connection is. A response or an acknowledgement that is lost on its way is the step of a
consumer that is already deaf. `Reject` includes what amqp091-go does when synchronous calls of several goroutines
meet on one channel: a reply may reach the wrong one of them and fail it. The broker
itself does not crash. Every message the service publishes has a valid body, so the
branch for a malformed one is not reached.

### RedisQueue

A call `m` of PublishTransaction is at `caller[m]`, was told `answer[m]`, and has the
list `list[m]` under its key, which has a time to live if `m` is in `expires`. The
`stream` keeps all entries; its group has handed out the first `last` of them, of which
`pending` are not acknowledged. A consumer process `c` is `off`, `running` or
`stopping`, and its goroutine is at `stage[c]` with the entry `inHand[c]`.

| Action | Code |
|---|---|
| `Publish`, `Reject` | the XADD of PublishTransaction (`redis:122-158`) |
| `Take`, `GiveUp`, `Vanish` | BLPOP and its two errors (`:160-182`); the expiry of a key |
| `Start` | NewAdapter with ensureConsumerGroup, which adds an `init` entry each time, and StartConsumer (`:59-119`, `:204`) |
| `Read`, `ReadNothing`, `Fetch`, `Finish` | the loop of consumeMessages (`:229-257`) |
| `Handle`, `Push`, `Expire`, `Ack` | handleMessage, the RPUSH and the EXPIRE of sendResponse, the XACK (`:259-322`) |
| `Stop`, `Crash` | StopConsumer, which waits (`:338`); the death of a process |

A group hands an entry out once under `">"`. The adapter never asks for pending entries
and takes a new consumer name at each start, so what a dead consumer had in hand is
never run again: a crash loses a request here and repeats it under RabbitMQ. The client
library executes a command again when its reply is lost, and the adapter leaves that on;
a `Fault` is a reply lost, whether or not the command had its effect (that of `Start` may
add a second `init` entry). So a request may
be in the stream twice, and an error of the XADD does not say that it is not there: in
the refinement such a caller has given up, it was not refused. A key outlives its
caller's 30 seconds by its 5 minutes, which is why `Vanish` waits for the caller.

### KafkaQueue and KafkaRPC

`KafkaQueue` has a `log` per partition, its `owner`, the position `pos` up to which the
owner was handed messages, and the group's `committed` offset. `generation` counts
assignments; `fetchedIn[c]` is the one in which `c` fetched what it has in hand. `runs`
and `rewound` are history: how often each entry was handled, and how often an assignment
went back before it.

| Action | Code |
|---|---|
| `Publish`, `Reject`, `WriteLate` | the write of the request (`kafka:205-239`, `:182-192`), to any partition: the writer balances by bytes, not by the key; it ends with an error when the client's context does, and the batch may be written later all the same |
| `Rebalance` | the response reader of a call joins or leaves the group (`:88-99`, `:125`): it has the group of the consumers |
| `Start`, `Stop`, `Finish`, `Crash` | StartConsumer (`:271`), StopConsumer (`:438`), the death of a process; each start and end assigns the partitions anew |
| `Loop`, `Fetch`, `FetchCancelled`, `Handle`, `Respond`, `Commit` | consumeMessages, handleMessage, sendResponse (`:300-416`) |

An assignment resumes at the committed offsets, or at the first message (`FirstOffset`).
The consumer that loses a partition is not told and goes on with what it has in hand; its
commit may fail with its generation, or come late and set the offset back. A commit
with the context that the shutdown has cancelled may fail as well.

`KafkaRPC` is one call: `caller`, the `listener` goroutine, the contents of
`responseChan` and `errorChan` and which of them are `closed`, the call's own context
(`ended`) and `responseCtx` (`deadline`). Publish starts the listener before it writes
the request, and the 30 seconds run from then. The request may reach the log
after the write has returned an error, so a failed call has given up, in the refinement of
the port, and was not refused. The deferred calls close `errorChan`
first, then `responseChan`, in two steps. A `select` takes any ready case; a closed
channel is ready with the zero value. `EndEarly` says whether a context may end before
the caller has come to its select. Where it may, the call may return the zero response
and no error: see the run `rpc_late`.

### LoadTest

One load test of one `broker`: `handler`, `sender`, `worker[w]` and `monitor` over the
channels `jobs` and `done`. RabbitMQ's test is in `web/handlers.go:90` and
`web/test_rabbitmq.go`, the others in `web/test_redis.go` and `web/test_kafka.go`.

| Action | Code |
|---|---|
| `NextBatch`, `SendJob`, `Signal` | sendJobsBatched and its copies, to the end of the batch, the jobs or the time |
| `Take`, `Count` | publishWorker and its copies; a publication succeeds or fails, both are counted |
| `EndMonitor` | the monitors' receive from `done` |
| `SenderDone`, `TimeOut`, `CloseJobs`, `Join`, `StopMonitor` | the handler of the request |

`Tick` is the end of the test's duration, and then ten seconds more, the slack of the
RabbitMQ test's timeout. The model takes these ten seconds to be enough for the
sender, which looks at the time in every select and pauses for a second at most, to end, and
for a goroutine that waits for its value to receive it: that the timeout does not come upon a
sender at work, half of `NoCrash`, rests on this. In the RabbitMQ test the monitor may take
the value meant for the handler: the handler then times out, closes `done` twice and
panics, which the server recovers from (`load_report`). In the Redis test there is one value for
handler and monitor, and if the monitor takes it the handler waits for ever (`load_report`);
if the handler does, the monitor is left behind. `KafkaEnds` says that the third test has
neither fault.

### Lifecycle

`main`, `starter` (the goroutine that calls StartConsumer) and `goroutine` (the
consumer's) of `cmd/consumer/main.go`, with an adapter of `kind` RabbitMQ, Redis or
Kafka. `closed`, `consumer`, `cancelled` and `waiters` are the adapter's fields, `broker`
and `database` its two connections; `early` remembers a signal that came before
StartConsumer had returned.

| Action | Code |
|---|---|
| `Start` | StartConsumer in its steps: the check of `closed`, the consumer set, the wait group, the goroutine (`kafka:271-297`, `redis:204-226`, `rabbitmq:256`) |
| `Loop`, `Fetch`, `Handle`, `Settle` | consumeMessages; RabbitMQ's range over the deliveries |
| `Signal`, `StopConsumer`, `Wait`, `CloseQueue`, `CloseDatabase`, `Exit` | the signal and the deferred calls of main: Close of the adapter (`kafka:456`), then of the database (`mongo:487`) |

RabbitMQ's Close waits for nobody, and its handler may meet a closed database; its
message is then not acknowledged, since the channel was closed before. Kafka's consumer
reads by a connection of its own: one that StartConsumer sets after StopConsumer has
looked for it is stopped by nobody, and commits messages whose runs failed on the closed
database. `NothingRefused` names that exception.

### BalanceCache

Balances are told by their version. `cache` is the one entry, `query[q]` a call of
HandleBalanceCheck or, if in `Multi`, of GetMultipleBalances; `Cached` are the queries in
processes where SetCacheRepository has been called. `Look`, `Read`, `Store` are the three
steps of getAccountBalanceWithCache (`usecase:447-471`), `Change` any commit of a deposit
or withdrawal. An entry lives `TTL`, in the code 300 seconds. `FillTime`, between a query's
read of the database and its store, is an assumption about the environment: the code sets
no limit, and how old an answer can be depends on it. `main` installs no cache, so in
the program as it stands only `FreshRead` matters.

### HttpCall

A request is `Direct` (a handler that calls a use case in the server) or `Queued`
(QueueDepositHandler, `web/handlers.go:66`). `pc[r]` is where its handler is, `age[r]` the
time since its headers were read, `status[r]` what the handler has decided and `told[r]` what
the client got. `Check`, `UseCase`, `Publish`, `Answered`, `GiveUp` and `Write` are the
handler; the port's state is moved by the actions of `QueuePort` only. WriteTimeout is the
15 seconds of `web/server.go:105` (the configuration's SERVER_WRITE_TIMEOUT is never
read), RequestTimeout the 60, 30 and 30 seconds of the adapters. `WriteTimeout` is the
shorter one, so a client is not told of the timeout of a call that may still run: its
connection just closes. An earlier error of a call comes, in `GiveUp`, from a client that has
gone or from a connection lost for good. A write to Redis or Kafka that fails for a moment
and has had its effect all the same (it is in `RedisQueue` and `KafkaQueue`) falls under the
second only, so `FailureIsFinal`, which holds while the connection lasts, does not speak of it.

### Plan for what is left

All components with state are modelled, and every invariant and every refinement that a run
checks is proved. What is left:

| Order | Module | Theorems | Argument |
|---|---|---|---|
| 1 | `KafkaQueueProofs` (`KafkaRPC`) | the safety half of `BothEnd`: a caller that is blocked has a listener still to tell it, with contexts that end at any step | which channels are closed and full, by the listener's place |
| 2 | `LifecycleProofs` | the safety half of `SignalEnds`: a shutdown that waits has told the goroutine it waits for | the order of StopConsumer's steps |
| 3 | `HttpCallProofs` | `Spec => Port!Spec`, and an answer that is told is the port's | the handler moves the port by its actions only |
| 4 | `RabbitQueueProofs` | a message is lost at most once, and never one that was acknowledged | `OnePlace` |

## 3. Runs

| Run | Instance | What it shows |
|---|---|---|
| `ledger` | 3 requests of all kinds on two accounts, one of them not yet a member, amounts of 1 and 2 units (asked as 0.6 and 1.6) and none, clocks 1 ms apart, commits of 3 ms | types and no negative balance, `LedgerBalanced`, `AnswersTruthful`, that the handlers implement `WalletLedger`; `LastIsMostRecent` and `NeverInconsistent`: no false alarm of the consistency check while a commit takes more than twice the skew; `OneWinner`, `NoNilUser`; `NobodyWaits`: every handler can go on, also next to one that died with the account's write |
| `skew` | 3 deposits and withdrawals on one account, amounts of 0.4 and 1.6 units and commits of 1 ms | the comment "retrieves the most recent wallet statement" (`mongo:318`) does not hold: found violated |
| `rabbit` | 2 RPC calls and a fire-and-forget call, 2 consumers, one of them lost or stopped at any step, the server's loss of its own connection, with what is on it, fairness | `AckedIsServed`, `RepeatsAccounted`, `LostOnlyUnconsumed`, the refinement of `QueuePort`, and `Drained`: a connected consumer empties the queue |
| `redis` | 2 RPC calls, 2 consumers, a crash, stops at any step, a reply lost at any command | `RunsAccounted`, `SettledWasServed`, `NothingAbandoned`, `KeysExpire`, the refinement of `QueuePort` |
| `kafka` | an RPC call and a fire-and-forget call on a partition, 2 consumers, a crash, 2 rebalances by response readers, a failed write or commit, writes after their caller has gone | `CommittedWasHandled`, `CommittedWasAnswered`, `NothingSkipped`, `RepeatsAccounted` |
| `rpc` | one call, up to 2 runs of it with different results, no context ends before the caller waits, fairness | the refinement of `QueuePort`; `BothEnd`: neither caller nor listener waits for the other for ever |
| `rpc_late` | as `rpc`, but contexts end at any step | "waits for response" (`kafka:101`): the call may return an empty response and no error, found violated |
| `load` | each broker's test, 2 workers, 5 jobs in batches of 2, fairness | `EveryJobCounted`, `NoCrash`, and `KafkaEnds`: Kafka's test reports and leaves no goroutine |
| `load_report` | RabbitMQ's and Redis's test of `load` | the result that `README.md:403` shows and "Calculate and display final stats" (`web/test_redis.go:76`) need not come: the handler panics, or waits for ever, instead of `Reported`, found violated. TLC stops at RabbitMQ's; with `"redis"` alone in `Brokers` it finds the other |
| `life` | each adapter, up to 4 messages, a signal at any step, fairness | `NothingRefused`, `ClosedIdle`, `SignalEnds` |
| `cache` | 3 queries through the cache and one for several users, 2 changes, entries that live 2 ticks | `FreshRead`, `StaleBounded` |
| `http` | a direct and a queued deposit, WriteTimeout 1, RequestTimeout 4, two results, fairness | `ToldTruly`, `FailureIsFinal`, `HandlersEnd` |

**Bounds of the use cases.** Three requests on one account are two that race and one that
made or takes the money they race for: a withdrawal that passes its first check and finds
the money gone needs a deposit and two withdrawals. Requests on different accounts
share no document; the second account is there for creations, two of which may be of the
same member, and for money that comes before, between and after the writes of one. Amounts of 1 and 2 units give balances one apart, which the
comparison may take for equal, and two apart, which it may not. `MaxTime` bounds only the
time that passes by itself; a commit takes its three ticks besides.

**Bounds of the queues.** Two RPC calls are what it takes for an answer to go astray or
for two calls to meet on the channel; two consumers are one that fails and one that is
given what it left. `MaxLosses`, `MaxCrashes`, `MaxRebalances`, `MaxFaults` and
`MaxStarts` say how often something happens, never when. One loss under RabbitMQ makes a
message run twice. In `redis` the two starts may be of one consumer that comes back after
its crash or of two at once. In `kafka` two rebalances are one that takes a partition
from a consumer with a message in hand, and one that comes back behind its late commit;
partitions are independent, so one suffices.

**Bounds of the rest.** In `rpc` two runs are the answer and a later response that must
not disturb it. In `load` five jobs in batches of two end in the middle of a batch, and
two workers race for the last job; Kafka's channel of jobs has room for four, so a sender
waits for the workers. In `life` four messages are enough for some before the signal, some
while each step of the shutdown is taken, and some after it.
In `cache` two ticks of life and one of filling let an entry expire, and a slow query store
what it read before a faster one; in `http` the timeouts keep their order.

The cached queries, the calls and consumers of `redis`, the consumers of `kafka` and the
requests of `ledger` and `skew` are interchangeable, in the specifications and in the
properties: those runs use symmetry. Runs with a liveness property do not. `ledger` also
compares states by a view (`View` in `MCWalletUseCase`) that forgets what no later step and
no property reads, `TypeOK` apart: the amount of a request that is over, by which of the
refusals `Invalid`, `NotFound` and `Failed` it ended, the draft of a transaction that is over,
and whether its commit was sent. No run checks for deadlock: requests, jobs and messages are
finite, and when all have ended nothing is left to do; what must end is stated by
liveness properties where fairness is assumed.

**Fairness.** A goroutine that can take its next step takes it, since nothing but a
crash stops one, and time passes: that is all the fairness there is. In detail: a
connected RabbitMQ consumer gets deliveries and works them off; a
waiting caller ends by its answer or its timeout; a Kafka write returns; the load test's
and the call's time ends. No failure is fair and none is ruled out, and no restart is
fair, since nobody in the code does it. Redis and Kafka consumers are checked without
fairness: their invariants say where a request is, and a crash may leave it there for ever.
The handlers of `WalletUseCase` need none: each is a few steps without a loop, so that it ends
if it can always take the next one, which is `NobodyWaits`.

**Known limits of the code that no run singles out.** They are in the models, as behaviours the
properties allow for:

- A failed second insert of HandleCreateMember leaves a user without a balance
  (`usecase:212`), although `README.md:605` speaks of automatic rollbacks;
  `NoNilUser` shows that the reverse half cannot be.
- RabbitMQ's queue is deleted with its last consumer (`rabbitmq:94`), messages and all, and
  nothing confirms a publication (`:211`); `LostOnlyUnconsumed` shows that a fire-and-forget
  call is lost on the server's lost connection or while no consumer is subscribed, and in
  no other way.
- A handler that dies with an uncommitted update closes its account for as long as MongoDB
  keeps the transaction (`usecase:346`). The code has no part in its end, so no property
  speaks of it; those who meet the write are refused and go on (`NobodyWaits`).
- A balance one unit off its last statement may pass as equal (`pkg/utils/decimal_utils.go:70`).
  `Compare` lets it; a statement starts from the balance, so the chain does not break.
- A signal to a RabbitMQ consumer repeats a message whose handler has run; `RepeatsAccounted`
  counts it.
- A crash of a Redis consumer leaves its entry pending for ever.

## 4. Proofs

`WalletUseCaseProofs` proves, for any sets of requests and accounts, any amounts,
any skew and any duration of commits, assuming only the `ASSUME`s of
`WalletUseCase`:

- `TypeCorrect`: `Spec => []TypeOK`; balances are natural numbers, so there is no overdraft.
- `LedgerCorrect`, `AnswersCorrect`, `NilUserCorrect`: the invariants of the runs.
- `Refinement`: `Spec => LedgerSpec`, every behaviour of the handlers is one of `WalletLedger`.
- `MembersCorrect`: `Spec => []OneWinner`, of all creations of one member one wins.
- `DatesCorrect`, `NoFalseAlarm`: if `CommitTicks > 2 * Skew`, the statement with the
  latest date is the one committed last, and the consistency check never refuses a
  request wrongly. The run `ledger` keeps the condition; `skew` breaks it and finds
  the first untrue. The invariant is `Dated`: statements are in the order of their dates;
  a committed one was dated a commit's time ago at least (`DatePast`), so its date is below
  any that a clock can give now; and a draft dated before a commit it did not see is going
  to conflict (`DraftDate`).

None of these invariants is inductive. `Inv` adds what they rest on: `Phase` (where a request is
in its handler against whether it holds a write or has sent its commit), `Snapshot`
(a transaction that has not yet written has read what is still committed, or the
version it saw is old and its update will conflict; one that has written is ready to
commit), `LocksExclusive` (two open transactions that have written are on different
accounts), and `Outcome` (only a request whose commit was sent is posted, and only
once). The proof that a step preserves `Inv` is one lemma per part, with a step per
action. The step that matters is `ServerCommit`: by `Ready` the new statement starts
at the current balance, and by `LocksExclusive` no other writer was ready on that
account. For the refinement a step of a handler is shown to acknowledge its own
request, to refuse it or to do neither (`HandlerAnswers`); that an acknowledged request
is posted and a refused one is not comes from `Inv` in the next state.

**The queue adapters.** `RabbitQueueProofs`, `RedisQueueProofs` and `KafkaQueueProofs` prove
every invariant of the runs `rabbit`, `redis` and `kafka`, and the first two that the
adapter implements `QueuePort`, for any sets of calls, consumers, partitions and results and
any bounds on losses, crashes, starts, rebalances and faults. They assume only the `ASSUME`s of the
modules: that the two kinds of call are apart, and that "nothing" is not a member of
the sets.

- `RabbitQueue`. `OnePlace`: a message is in the queue, with a consumer that has its
  connection, acknowledged or gone, and in one of these places once; only a deaf
  consumer may still work on a message that is back in the queue. `Counted` charges the
  runs of a call, with the runs that are still to come of it (a handler that has it in
  hand, its place in the queue), against its interruptions: a lost connection moves a run
  to come from the hand to the queue and pays for one that is over. `RepeatsCorrect`
  follows because a cardinality is not negative. `Served` says how far a response is when its
  message is acknowledged, and `Traceless`, that a call not published is nowhere, gives
  the refinement its `Run`. `LossCorrect` needs only that the queue exists while a consumer is
  subscribed (`Kept`): then what arrives is queued, and what a lost consumer had in hand goes
  back to a queue that another keeps.
- `RedisQueue`. `OneHand`: an entry is in one consumer's hand at the most. A call's
  runs are at most its entries that were handed out and are past the handler (`Spent`): the
  set grows by one when a hand goes past its handler, and by what is lost in a crash.
  `Served` follows an entry from its run by the push to the end of its pending; a
  response leaves its key only with its caller, or after it (`Take`, `Vanish`).
- `KafkaQueue`. What one owner was handed since the assignment is settled or in its hand
  (`HandedOut`), and what comes before the entry that any consumer has in hand, that of an
  earlier owner included, is settled (`Hand`). So a commit, which may come late and from
  an earlier generation, covers settled entries only (`Kept`), and an assignment that goes
  back to the commit passes over nothing. `Counted` is the count of RabbitMQ, with assignments
  that went back for its interruptions.
- `KafkaRPC`, at the end of `KafkaQueueProofs`, as the instance `RPC` with a state of its own.
  `CallRefinement` and `NoEmptyAnswerCorrect` have the hypothesis `~EndEarly`, that of
  the run `rpc`: no context ends before the caller waits. The run `rpc_late` shows that the
  second does not hold without it, and since the zero value is no run's result, neither
  does the first. The invariant `Waiting` is that a listener which has stopped while the
  caller was still to wait has left a response.

**The load tests, the processes, the cache, HTTP.**

- `LoadTestProofs`: `CountedCorrect` and `NoCrashCorrect`, for any number of workers, jobs
  and jobs per batch. A job is in the channel, at a worker or counted (`Conserved`), and
  whatever ends the handler's wait comes after the sender's end (`SenderFirst`).
- `LifecycleProofs`: `ClosedIdleCorrect` and `NothingRefusedCorrect`, for any adapters and
  any number of messages. The wait group counts the goroutine from before its start to its
  end (`Started`), and only a closed database spoils a run (`Stopped`).
- `BalanceCacheProofs`: `FreshReadCorrect` and `StaleBoundedCorrect`, for any queries, any
  life of an entry and any time to fill it. `Entry` dates the version in the cache from the
  end of its life backwards: it was current at most `TTL + FillTime` before that.
- `HttpCallProofs`: `ToldCorrect`, and `FailureCorrect` under the hypothesis
  `WriteTimeout <= RequestTimeout`, which the constants of the code satisfy (15 seconds
  against 60, 30 and 30). `Final` is the argument: a handler that gave up at its limit
  writes too late, and one that did not has a caller or a connection that is gone.

The type invariants of these four modules are proved as well, although no run checks them.

**Only model-checked.** Liveness (`Drained`, `BothEnd`,
`KafkaEnds`, `SignalEnds`, `HandlersEnd`) and `NobodyWaits` stay with TLC: TLAPS cannot reason about
fairness and ENABLED. So do the four findings, which are counterexamples. Everything else
that a run checks is a theorem.

## 5. Not modelled

- No caller in the repository: PublishMessage of the three adapters, RabbitMQ's StopConsumer,
  Kafka's map of readers, UpdateUser, GetWalletStatements, ClearOldStatements,
  CreateAllAdapters, CreateParentWithdrawStatement, CalculateNewBalance,
  SubtractDecimal128 and the other decimal helpers without a use, startPublisher,
  startKafkaPublisher, the server's Shutdown. ClearOldStatements would lose a statement
  inserted between its find and its delete (`mongo:396`), once something called it.
- No state: PublishTransactionFireAndForget of the Redis adapter is a stub that returns
  nil without publishing; IsConnected, GetStreamInfo, GetConsumerGroupInfo and HealthCheck
  only look; the health, metrics and history handlers answer constants; the handlers of
  balance queries pass on what `BalanceCache` models.
- What float64 loses of large sums (`pkg/utils/decimal_utils.go:37`): amounts are natural
  numbers here, and exact. In the code a sum of amounts with 8 decimals is exact up to
  2^51 units, about 22.5 million; above that it rounds, by more than the comparison's
  epsilon in the end. The property would be one of binary arithmetic, at sizes no instance
  of the handlers reaches.
- Configuration, factory, formatting utilities, generated identifiers, the statistics of the
  load tests: read once, pure, or never read. Identifiers are taken to be unique.
- The brokers, MongoDB and the client libraries, beyond what the code uses of them; each
  module's subsection says what that is.
