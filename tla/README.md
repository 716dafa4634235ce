# Specifications of padosme-be-common

TLA+ models of the shared Go packages under `src/pkg`, model-checked with TLC,
and theorems about every one of the models, checked with TLAPS. Everything is
translated from the code; what the AMQP library, RabbitMQ, gin, the Go runtime
and the application do is *external* and modelled as the code relies on it.

    tlc -config supervisor_safety.cfg MCSupervisor           # one run
    for m in *Proofs.tla; do tlapm $m; done                  # the proofs

## 1. The system

The repository is a library. A service built on it runs the parts together in
one process: a `worker.Supervisor` runs `rabbitmq.Consumer.Run`,
`config.Watcher.Start` and `config.Watcher.SubscribeRabbitMQ` as workers and
restarts them when they fail; handlers publish through a `rabbitmq.Publisher`;
a `probe.Manager` polls the dependencies in the background and feeds
`health.Handler`; HTTP requests pass through a chain of `middleware` and `auth`,
and services call each other through `internalclient`. Around all this, `main`
loads a `.env` file (`config`), makes the `telemetry` it shuts down at the end,
and connects to MongoDB (`mongo`) under a context the signal cancels.

| part | source | state | operations | what is hard |
|---|---|---|---|---|
| worker supervisor | `worker/supervisor.go` | `workers`, `restartCh` (10), `stopCh`, `wg`, the handler's `restartTimestamps`, one goroutine per worker and one handler | AddWorker, Start, Stop; runWorker, runIntervalWorker, safeExecute, requestRestart, handleRestarts | a goroutine that fails, the channel, and the handler that sleeps and respawns run concurrently, and Stop and cancellation may come between any two steps; a sliding window with boundaries; a full channel |
| publisher | `rabbitmq/publisher.go` | `conn`, `ch`, `retCh`, `ackCh`, `closed` under `mu`; `pubMu` | Publish (publishOnce, reconnect, publishOnce), Close | confirms and returns arrive on two channels of one slot each, while sessions are replaced; timeouts; Close takes a different lock |
| consumer | `rabbitmq/consumer.go` | one connection and its deliveries per Run | Run, declareTopology, handleDelivery | lost connections with verdicts under way; panics of the handler; redelivery |
| config watcher | `config/client.go` | `values` under `mu` | Start and reload, SubscribeRabbitMQ and applyUpdate, Set, getters | two writers with answers of different age; failing loads; redelivery |
| probe manager and health endpoints | `probe/manager.go`, `health/handler.go` | `probes`, `status` records, `cancel`, `wg` | Register, RegisterWithHealthHandler, Start, Stop, IsHealthy; /health, /ready | the records are read by requests while they are written; restart of the manager; checks that hang |
| middleware and authentication | `middleware/*.go`, `auth/jwt.go` | the gin context of one request; two counters | RequestID, Logger, Recovery, RequireAuth, RequireUserType, ServiceAuth, ServiceAuthMulti | the order of the chain is the application's; aborts and panics cut it short |
| internal HTTP client | `internalclient/client.go` | none of its own | DoJSON, WithRequestID | a call given up goes on in the other service; what each error allows the caller to conclude |
| env-file loader | `config/loader.go` | the process environment | LoadEnvFile, GetEnv, MustGetEnv | a load that ends half-way; variables that are set and empty |
| telemetry | `telemetry/telemetry.go` | three providers and the globals | DefaultConfig, New, Shutdown | a provider fails half-way in New or in Shutdown; the context of Shutdown |
| MongoDB client | `mongo/mongo.go` | one client | Connect with retries and backoff, Disconnect | a failed attempt's client; a signal during the backoff |

`PROJECT.json` lists every part, also those without a module, and the hazards
with their lines.

What makes the parts correct:

- *Supervisor*: a worker has one instance; a failure is answered; the sliding
  window is kept; a permanent stop is final; Stop leaves nothing running.
- *Publisher*: nil means the broker has queued the message; no connection is
  leaked; a message is queued at most twice; calls return.
- *Consumer under a Supervisor*: no message is lost or doubled, and each leaves
  the queue only on its handler's verdict, in the end, unless a poison message
  uses up the restarts first or a panic is mistaken for a cancellation.
- *Watcher*: it converges to the source on watched keys and, while it may be
  restarted, to the last push that came into its queue on the others.
- *Probes*: answers are honest; status follows the dependencies; Stop leaves
  nothing running.
- *Middleware and client*: no guard is passed by a request it does not admit; a
  request a guard refuses has one answer, any other what its handler has left,
  and each is counted as answered; what the caller concludes from DoJSON is true
  of the other service; one identifier names the request on both sides.
- *Service*: what the file leaves in the environment is a function of both; New
  makes all providers or none; a nil from Shutdown means all is exported;
  Connect keeps its promise of attempts; a signal always ends the process.

## 2. Modules

For a component X there are `X.tla` (state, one action per operation or step,
fairness), `XProps.tla` (type invariant, safety, action and liveness
properties), `MCX.tla` (instances for TLC) and `XProofs.tla` (theorems). Where
components are composed, the composition has the properties, the instances and
the theorems: `SupervisedConsumer` extends `Consumer` (its instances and
theorems are in `MCConsumer` and `ConsumerProofs`), `Mesh` extends `Pipeline`,
and `Service` extends `EnvFile`, `Telemetry` and `MongoConnect`, which share
`Process`.

| module | models | an action is |
|---|---|---|
| `RestartLimiter` | the abstract promise of the restart handler: a sliding window per worker, with no goroutine, channel or timer | a grant, a denial, a tick |
| `Supervisor` | `supervisor.go` | what one goroutine does up to its next visible effect: a channel operation, a WaitGroup update, a spawn |
| `Publisher` | `publisher.go`, with the library's reader and the broker | a piece of Publish or Close between two lock or channel operations; a frame handled |
| `Consumer` | `consumer.go`, with broker, queue and network | a step of Run; a delivery; a verdict read by the broker |
| `WorkQueue` | the abstract promise of a consumer: a queue without connections, channels or restarts | a message arrives, is handed out, answered, settled or taken back |
| `SupervisedConsumer` | a consumer and what `supervisor.go` does with its worker | a step of Consumer; a grant, a denial, the call of Run again; the window slides |
| `ConfigWatcher` | `client.go`, with service and broker | a load, its answer, its application; a message; an Ack |
| `ProbeManager` | `manager.go` and `handler.go` | a step of a probe goroutine; a field read by a request |
| `Pipeline` | `middleware/*.go`, `jwt.go` | one middleware on the way down; one return, unwinding or recovery on the way up |
| `Mesh` | `internalclient/client.go` in front of a pipeline | a step of DoJSON; the arrival of its request; a step of the pipeline |
| `Process` | the environment and the signal context | the signal |
| `EnvFile` | `loader.go` | a line |
| `Telemetry` | `telemetry.go` | a provider made, failed, or shut down |
| `MongoConnect` | `mongo.go` | a client made, a ping, a backoff |
| `Service` | `main`, as the READMEs of `pkg` and `pkg/config` write it | a step of the call main has made |

How the state corresponds to the code:

- **Supervisor.** A goroutine is `<<w, k>>`, the k-th incarnation of worker `w`;
  `pc` says where it is ("fn" in Fn, "idle" in the interval select, "req" in
  requestRestart, "exit" before its deferred Done). `restartCh`, `wg`,
  `restartTimestamps` are the code's; `pending` and `wakeAt` are the handler's
  sleep of RestartWait. `now` is a clock in ticks. `fate` and `grants` are
  history. A panic of Fn is an error return, which is what safeExecute makes of
  it; the outer recover of runWorker is unreachable behind it and left out.
  The handler stamps a restart by its incarnation and time: `time.Now()` twice
  yields two entries of the slice, which a set of bare ticks would merge.
- **Publisher.** `conn`, `ch`, `retCh`, `ackCh` change together and are one
  *session* number, 0 for nil. A call is named by its message. `pubMu` is held
  from PublishCall to Return (`PubMuFree`); `mu` is explicit where it is held
  over a blocking call (reconnect, Close). The library's reader hands frames on
  in order and blocks on a full channel (`Blocked`), and closing waits for it
  (`CanClose`).
- **Consumer.** `msgs` is the library's delivery channel, `sent` the verdicts
  not yet read by the broker, `unacked` what the broker counts as delivered.
  `losses` bounds lost and refused connections and panics of messages that are
  not poison; the handler of a `Poison` message panics every time, without a
  bound. `Ahead` and `AutoAck` are what Run tells Qos and Consume.
- **SupervisedConsumer.** `worker` is where the worker's token is (module
  Supervisor) when there is this worker only: in Fn, requested, waiting for
  RestartWait, denied, or "mistaken". The last is what becomes of a handler that
  panics with the error of a context, a database timeout for example: safeExecute
  returns such an error as it is (`supervisor.go:225-227`), and runWorker takes it
  for a cancellation (`:162`) and ends the worker without a request (`abandon` in
  Consumer). `recent` counts its restarts in the window that ends now
  and may fall at any time, which includes every timing. What crosses the
  boundary is the return of Run: nil, an error, a panic.
- **WorkQueue.** `place` is a function of the consumer's `queue`, `unacked`,
  `acked`, `dead` and `dropped`. The refinement says that nothing a connection,
  a call of Run or a restart does is visible from outside except as *TakeBack*.
- **ConfigWatcher.** A value is the number of the change that made it, 0 an
  absent key. `loop` and `loaded` are Start with a load under way; `sub`,
  `taken` and `held` the subscription. `Text` is what a getter can tell of the
  text of a change, and `Answered` the keys the source answers, which may be
  more than `Watched`, the keys it is asked. `bound` becomes true at the first
  subscription, which declares the queue and binds it; what is published before
  that is lost. A subscription that fails is restarted within the budget of the
  Supervisor (`recent`, as in SupervisedConsumer), or "denied" for good.
- **ProbeManager.** A goroutine is `<<start, probe>>`. executeProbe's writes of
  Healthy and LastError are two steps under `m.mu`, because a request reads
  them after it has given the lock back (`torn`). `Mute` are the probes whose
  error may have an empty text, which the record cannot tell from no error.
- **Pipeline.** `at` is the position in the chain, `mode` the direction;
  statuses, context keys and counters are the code's. A bearer token is the
  verdict ParseToken reaches on it, a service token the set of the stages that
  know it. The handler of the route is the application's: it leaves any status of
  `Codes`, a guard's 401 or 403 and Recovery's 500 included, sent or not, with a
  document or without, with the request_id in it or not (`Answers`), and may
  panic behind that. It is assumed to leave the context keys and the response
  header to the middleware and to write one document at most; 204, which forbids
  a body, and redirects, which net/http follows, are left out. Every middleware here calls Next once or aborts, so the stack of
  calls is the positions before `at`.
- **Mesh.** A request of Pipeline comes either from elsewhere or from a DoJSON,
  which can set three headers and no Authorization. `arrived` and `call` are
  apart because hc.Do may give up before, while or after the pipeline works. The
  body of an answer may fail to arrive once its head was sent (ReadFails); an
  empty one is nil to every caller of a 2xx (`client.go:91`).
- **Service.** `main` is external; it makes the calls in the order of the
  READMEs and drops the error of LoadEnvFile as they do. `fresh` says whether it
  gives Shutdown a context of its own (`examples/instrumentation-example.go`)
  or the signal's (`pkg/README.md`). A line of a file is what parseLine makes of
  it; a provider whose Shutdown failed is "failed", which is not "up": it takes
  nothing in any more, but what it held may be lost.

A definition whose comment begins with "Bug:" is a plausible mistake in the
definition after it (a dropped return, an off-by-one, a missing reset). It is no
part of the model: put in place of that definition, it makes TLC find the
property named with it in `PROJECT.json` violated.

## 3. Runs

| run | checks | instance and bounds |
|---|---|---|
| `supervisor_safety` | OneInstance, NothingForgotten, WaitGroupExact, StopQuiescent, Budget, NoDropWhenSmall, DeniedIsFinal, PerWorkerLimit (the refinement of RestartLimiter) | two workers with own names and an interval worker, MaxRestarts 1, window 2 ticks, channel of 2, failures until tick 4 |
| `supervisor_live` | TypeOK, FailureAnswered, StopAfterCancel | one-shot, continuous and interval worker that share a name, channel of 1 |
| `publisher_main` | TruthfulSuccess, CleanSession, CallsReturn | three overlapping calls, routable messages, no confirm timeout, lost connections, nacks, failing dials, Close |
| `publisher_rough` | NoLeakedSession, AtMostTwice | one of three messages unroutable, confirms may time out |
| `publisher_nil_channel`, `publisher_false_success` | refute NeverPanics, TruthfulSuccess | two calls; one unroutable message |
| `consumer_main` | TypeOK, Conserved, ImplementsQueue (the refinement of WorkQueue), WithinPrefetch, SettledOrStopped, StopsOnCancel | four messages, one of them poison, prefetch 2, a dead-letter exchange, two losses or panics of the others, MaxRestarts 2 |
| `config_main` | TypeOK, CaughtUp, Converges | one watched key that is also Set, one that is only pushed, two changes, a queue not bound at first, MaxRestarts 1 |
| `probe_safety` | TypeOK, AnswerHonest | a critical and another probe, requests all along, errors that have a text |
| `probe_live` | StopQuiescent, StatusConverges, StopReturns | one probe, Start and Stop twice |
| `pipeline_main` | HandlerGuarded, OneAnswer, CountedAsAnswered, Correlated, CallHonest | every chain of at most four different stages, every kind of request or DoJSON, handlers that leave 200, 401 or 500, sent or not, with or without a document, and may panic |
| `service_main` | TypeOK, EnvAsReference, TelemetryHonest, ConnectHonest, Ends | every file of at most two lines over every environment of two variables, seven attempts to connect, the signal at any moment |

The type invariants of `PublisherProps` and `MeshProps` are in no run: they are
theorems.

Why the bounds are enough for the cases that matter:

- *Supervisor*: MaxRestarts 1 makes a grant, a denial and, with window 2 and
  failures until tick 4, the expiry of a grant and a grant after it reachable;
  two workers compete for handler and channel. `supervisor_live` has a channel
  that overflows and a name that is shared. Both start Stop after Start;
  Stop before or during Start is covered by the proofs, which hold for
  `EarlyStop = TRUE` as well.
- *Publisher*: three calls are one that fails, one that reconnects and one that
  finds what they left; each dials at most once, so four sessions are all there
  can be. `publisher_rough` allows TLC to meet states in which nothing can go
  on, because that is what a blocked reader comes to (see `publisher_stuck`
  below); every other passing run checks deadlock.
- *Consumer*: four messages are one in hand, one prefetched, and one on either
  side of the poison message in the queue; two losses put a message through two
  redeliveries, and MaxRestarts 2 lets the worker be restarted, denied, and
  restarted again after the window has slid. A panic has the error of a context
  or another.
- *ConfigWatcher*: two changes suffice for an older and a newer value in the
  two paths; three have been checked for the safety
  properties as well (889,458 states).
- *ProbeManager*: one critical and one other probe are the two kinds; two Starts
  are what it takes for one to outlive the other. No time is modelled: a ticker
  may fire whenever its goroutine waits, which includes every timing.
- *Mesh*: requests share only counters that commute, so one is enough; every
  property is about a handler and at most two stages around it, and four stages
  leave room for two more anywhere. The three statuses are a success, the one a
  guard gives and the one Recovery gives; 404 beside them has been checked as well
  (6,784,424 states). Only user types an application may name
  (`Allowed \subseteq UserTypes`) are given to RequireUserType. A DoJSON is one
  request and keeps nothing for the next.
- *Service*: two lines are a line that sets something before or behind one that
  ends the load, or two that set the same variable; one variable is the
  required one and the other decides whether there is telemetry. Seven attempts
  are what it takes for the wait to reach 32 seconds and stay there.

### Fairness

The scheduler runs every goroutine that can run (WF). Where a Go `select` has
two cases that stay ready it picks uniformly, so that neither loses for ever
(SF); a mutex starves nobody (SF). Tickers fire and time passes. A broker
answers, a source that is asked again and again answers in the end, and a
connection dialled again and again stays up in the end. The Supervisor dials
again only within its budget: Converges promises nothing of pushes to a
subscription that was denied. Fn returns, except that
a Continuous worker (a consumer, say) owes a return only once its context is
done. Nothing obliges the application to call Publish, Stop, Close or to cancel,
nor the network or a dependency to fail. A handler that asks for a requeue again
and again settles in the end: that is what ErrRequeue is for, and without it no
consumer could promise anything. (It is asked of the messages that are not
poison only.) Nor need the restart window slide, or stop sliding: a worker that
fails seldom enough is restarted for ever, and SettledOrStopped says so. The
goroutine of `main` goes on, and each call it makes takes steps; nothing obliges
a file to be there, a provider to succeed or MongoDB to answer.

## 4. What is proved

Every safety property of the passing runs is a theorem: of the specification
the run checks without its fairness, for every value of the constants that
satisfies the assumptions stated with them (`ASSUME` in the module that declares
the constant), and for every number of steps. The theorems with hypotheses of
their own are marked; TLC runs an instance that satisfies each hypothesis, and
for the supervisor's, the publisher's and the probe manager's one that does not and
breaks the property.

| module | theorem: property |
|---|---|
| `SupervisorProofs` | TypeCorrect: TypeOK; OneInstanceHolds: OneInstance; WaitGroupHolds: WaitGroupExact; StopQuiescentHolds: StopQuiescent; BudgetHolds: Budget; NothingForgottenHolds: NothingForgotten; DeniedIsFinalHolds: DeniedIsFinal (an action property); NoDropHolds: NoDropWhenSmall; PerWorkerLimitHolds: PerWorkerLimit, the refinement of `RestartLimiter` (*no two workers share a name*) |
| `PublisherProofs` | TypeCorrect: TypeOK; NoLeak: NoLeakedSession; AtMostTwiceHolds: AtMostTwice; CleanSessionHolds: CleanSession and TruthfulSuccessHolds: TruthfulSuccess (*no message is unroutable, no confirm times out*) |
| `ConsumerProofs` | TypeCorrect: TypeOK; ConservedHolds: Conserved; WithinPrefetchHolds: WithinPrefetch; ImplementsQueueHolds: ImplementsQueue, the refinement of `WorkQueue` |
| `ConfigWatcherProofs` | TypeCorrect: TypeOK; CaughtUpHolds: CaughtUp |
| `ProbeManagerProofs` | TypeCorrect: TypeOK; StopQuiescentHolds: StopQuiescent; AnswerHonestHolds: AnswerHonest (*no error has an empty text*) |
| `MeshProofs` | TypeCorrect: TypeOK; HandlerIsGuarded: HandlerGuarded; OneAnswerHolds: OneAnswer; CorrelatedHolds: Correlated; CallHonestHolds: CallHonest; CountedAsAnsweredHolds: CountedAsAnswered (*a chain has at most one Logger*) |
| `ServiceProofs` | TypeCorrect: TypeOK; EnvAsReferenceHolds: EnvAsReference; TelemetryHonestHolds: TelemetryHonest; ConnectHonestHolds: ConnectHonest |

So the bounds of section 3 (messages, losses, calls, keys, probes, starts, lines,
attempts, the length of a chain, the clock) are any number in the theorems. None
of the properties is inductive by itself; the invariants that are:

**Supervisor**, for every finite set of workers, names shared or not, every
capacity and configuration, Stop at any time. The layers are preserved each with
the help of those before it:

1. *TypeOK*: shape.
2. *TokenInv*: every worker has at most one *token*, which is a goroutine in Fn or
   requestRestart, a request in the channel or a request with the handler, and
   the token is its latest incarnation. Failing, requesting, taking and
   respawning hand it on. OneInstance alone is not inductive: nothing in it
   forbids a stale incarnation in the channel to be revived.
3. *CountInv*: `wg` is the number of goroutines that owe a Done, handler included;
   the step that needs care is the handler's Add for a restart, which happens
   while the handler itself is counted.
4. *StopInv*: Stop is called after Start has returned, and when it is done no
   goroutine and no handler is alive. CountInv gives the step from `wg = 0`, and
   nobody but a live goroutine spawns another.
5. *StampInv*: no grant lies in the future, and one that is missing from
   `restartTimestamps` is older than the window, so that counting the stamps
   counts the grants; a grant is added only where the stamps, the new one
   included, are at most MaxRestarts, which is Budget.
6. *FateInv*: where the token is is what `fate` says; a denied worker has no
   token, so nothing can revive it.
7. *RoomInv*: tokens of restartable workers are pairwise different, so that the
   channel cannot be full while one of them still has a goroutine, if it has room
   for all of them.
8. *LimitInv*, for the refinement: the handler counts stamps, RestartLimiter
   counts times. Two grants never have the same time, because the handler sleeps
   RestartWait, which is never zero, between them; and the stamps kept for a
   worker that may still ask are grants of its own, if no other worker has its
   name. (A denial leaves its stamp behind as well, but the denied worker never
   asks again, which is FateInv.) With StampInv the kept stamps within the window
   and the abstract window have the same size (`CountsWindow`), so that a grant
   maps to Grant, a denial to Deny, a tick to Advance and the rest to stutters.

**Publisher**, for any finite set of messages. `Shape`: `pubMu` admits one call
at a time; a call reconnects in its first attempt only, so that a call dials once
and there are never more sessions than calls; `mu` is held exactly by a reconnect
that closes or a Close under way. NoLeakedSession is inductive with it.
*SendInv*: what the broker has to read lies in the current session and each
message is sent once per attempt, so what has been queued of it is never more
than what was sent. *CalmInv*, under the two hypotheses: an open session holds
nothing when no call waits, and while one waits it holds its publishing or its
confirm, but not both (`One`); an ack is of a message that has been queued
(`Sound`). Without the hypotheses a return or a late confirm of an earlier call
stays in the session, which is the finding `publisher_false_success`.

**Consumer under the Supervisor**, for any number of messages, poison or not, any
prefetch count, losses and restarts. `Apart`: every published message is in one
place, once. `InOrder`: on a live connection the broker's list of unacked
deliveries is the verdicts under way, then the delivery in hand, then those
nobody has taken, in this order; so the verdict the broker reads next is of its
first unacked delivery. On a lost one all of it is back in the queue.
`LastWord`: a verdict under way is what the handler returned last. ImplementsQueue
follows step by step: BrokerSettles is Settle because of InOrder and LastWord,
Deliver is Hand because the prefetch count is not reached, the end of a
connection is TakeBack, HandlerReturns is Answer also on a lost connection, and
all steps of Run and of the supervisor stutter.

**ConfigWatcher**, for any keys, watched, answered or settable, and any number of
changes and restarts. CaughtUp speaks of a moment at which the queue is empty; "the right value" of a
key that is only pushed is the last one that came into the queue, which is
nothing before it is bound. What holds at every moment is *Caught*: a key has the right value, or a message for it is still
to be applied, and the last one of these has it (`Newest`); an answer under way
is right for every key that has not changed since it was given (`Fresh`).

**ProbeManager**, for all probes, named and critical in any way, and every number
of starts. *TypeInv* has `wg` count the goroutines alive. *StatusInv*: under
`m.mu` at most one record is half written, and any other has an error exactly if
it fails. *Seen*: what a request has seen of a probe includes what is recorded
now, so that what it has read so far was recorded at some moment of the request,
unless it was torn. An error with an empty text would be read as no error, hence
the hypothesis of AnswerHonest.

**Mesh**, for every set of chains of any length and order and every set of
statuses the handler may answer. HandlerGuarded says
nothing of a request that has not reached the handler: *GuardInv* says that on the
way down every stage before `at` has admitted the request, and that a user type
in the context is the bearer's and was put there by a RequireAuth before `at`,
which is what makes RequireUserType mean anything. *AnswerInv*, *IdInv* and
*CountInv* say what holds on the way down, up, and while a panic unwinds (no
Recovery inside of `at`; the Logger at `l` has counted once the request is
outside of `l`). *ReplyInv*: what DoJSON has read is the answer, and nothing has
arrived that was not sent. The lemma `Kinds` reduces the stages to eight kinds of
step, so that each invariant is proved per kind. A second Logger would count each
answer again, hence the hypothesis of CountedAsAnswered.

**Service**, for every environment, every file of any length and any number of
retries. *LoadInv*: every line before the one scanned next has done what it does,
and only the last of them can have ended the load. *MainInv*, *NewInv*, *DownInv*
and *RetryInv* say how far main, New, Shutdown and Connect have come and what
they leave behind at each point; TelemetryHonest and ConnectHonest are what is
left of them at the end.

Each of these invariants was checked by TLC on the instance of its component's
run before it was proved. Only model-checked are:

- the liveness properties (FailureAnswered, StopAfterCancel, CallsReturn,
  SettledOrStopped, StopsOnCancel, Converges, StatusConverges, StopReturns, Ends):
  fairness and ENABLED are out of the prover's reach;
- that nothing deadlocks, for the same reason.

## 5. What the models show about the code

The listed findings are in `PROJECT.json`, with the lines they contradict:

- `publisher_nil_channel`: a failed reconnect leaves `p.ch` nil and the next
  Publish panics (`publisher.go:94`).
- `publisher_false_success`: for an unroutable message the ack may win the
  select, and Publish returns nil (`publisher.go:116`).

Further configurations refute what a comment or a document says; each is
reproduced by the command at the top (TLC stops at the first property it finds
violated: where a configuration lists several, keep one of them at a time; four
rows name a run whose properties are to be replaced):

| configuration | module | refutes | because |
|---|---|---|---|
| `supervisor_stop_hangs` | MCSupervisor | StopReturns ("Stop stops all workers gracefully", `supervisor.go:121`) | Stop waits for its workers but does not cancel their context (`:126`): one that only watches its context keeps it waiting |
| `supervisor_refuted` | MCSupervisor | EveryFailureServed ("Automatic restart on panic/error (up to MaxRestarts)", `pkg/README.md:79`) | a full `restartCh` drops the request for good (`supervisor.go:244`); the capacity is scaled from 10 to 1 |
| `supervisor_refuted` | MCSupervisor | CancelledMeansCancelled (`supervisor.go:159-160`) | an error of a context Fn derived itself is taken for shutdown (`:162`) |
| `supervisor_shared_limit` | MCSupervisor | PerWorkerLimit ("Per-worker restart limits", `pkg/README.md:50`) | restarts are counted by name, and names need not differ (`:273`) |
| `publisher_nil_channel`, with ClosedForGood as its INVARIANT | MCPublisher | ClosedForGood ("Close shuts down the channel and connection gracefully", `publisher.go:144`) | connect installs a session after Close (`:196`) |
| `publisher_stuck` | MCPublisher | CallsReturn with unroutable messages | an unread confirm fills `ackCh`, the reader blocks, and ch.Close waits for the reader with `mu` held (`:208`) |
| `consumer_main`, with NoTakeAfterCancel as its only PROPERTY | MCConsumer | NoTakeAfterCancel ("until ctx is cancelled or the connection is lost", `consumer.go:61-62`) | the select may prefer a waiting delivery (`:107`) |
| `config_refuted` | MCConfigWatcher | NoRegress ("real-time push updates", `client.go:24-26`) | a load answered before a push is applied after it (`:156`), and a late push after a newer load (`:143`) |
| `config_refuted` | MCConfigWatcher | FailureReported ("Non-nil errors are rare (only on source failure with no previous values)", `client.go:53-54`) | a failed first load is only logged (`:56`) |
| `consumer_main`, with FailureRequested as its only INVARIANT | MCConsumer | FailureRequested ("If execution fails before supervisor shutdown/cancel, request restart", `supervisor.go:159-160`) | a panic of the handler with the error of a context is returned as it is (`:225-227`) and taken for a cancellation (`:162`): the consumer is gone with its messages unsettled |
| `config_main`, with PushesArrive as its only PROPERTY | MCConfigWatcher | PushesArrive ("real-time push updates", `client.go:24-26`) | what is published before the first subscription has bound the queue (`:97-102`) is lost |
| `config_refuted` | MCConfigWatcher | Disappears ("Remove keys that disappeared from the source", `client.go:161`) | a key the service answers without being asked is taken in (`:167`) and never removed |
| `config_refuted` | MCConfigWatcher | GetBoolFallsBack ("Returns def on absence or unrecognised value", `client.go:214`) | an unrecognised value reads as false, whatever the default (`:220`) |
| `probe_refuted` | MCProbeManager | ReadyMeansPassing ("Returns HTTP 200 when all critical probes pass, HTTP 503 otherwise", `handler.go:97`) | no LastError yet is taken for healthy (`manager.go:152`) |
| `probe_refuted` | MCProbeManager | ProtectedByMu ("protected by mu", `manager.go:42`) | the closure reads the record after RUnlock (`:152`) |
| `probe_same_name` | MCProbeManager | IsHealthyOnlyIfPassing (`manager.go:104`) | two probes of one name write one record (`:79`) |
| `probe_same_name`, with AnswerHonest as its only INVARIANT | MCProbeManager | AnswerHonest for an error whose text is empty | the closure reports a failure only if LastError has a text (`manager.go:152`, `:201`) |
| `probe_refuted` | MCProbeManager | StatusConverges with a check that ignores its context ("Per-check timeout", `manager.go:35`) | executeProbe waits for the check whatever Timeout says (`:191`) |
| `probe_start_twice` | MCProbeManager | StopReturns after two Starts ("Call Stop() to shut them all down", `manager.go:86`) | the second Start overwrites `m.cancel` (`:87`) |
| `pipeline_panic_uncounted` | MCMesh | EveryRequestCounted ("Total HTTP requests received", `logger.go:31`) | with Recovery outside of Logger, as `pkg/README.md:101-102` shows, a panic passes Logger by (`logger.go:62`) |
| `service_refuted` | MCService | ShutsDownAll ("gracefully shuts down all telemetry providers", `telemetry.go:125`) | Shutdown returns at the first provider that fails (`:133`), and under the context of the signal, which `pkg/README.md` defers it with, the first one does |
| `service_refuted` | MCService | NoClientLeft ("following the same patterns as pkg/rabbitmq", `mongo.go:3`) | the client of a failed ping is not disconnected (`:50-54`) |
| `service_refuted` | MCService | PanicsOnlyIfNotSet ("It panics if the variable is not set", `loader.go:60-61`) | it panics as well when the variable is set and empty (`:64`), and the file does not mend that (`:41`) |
| `service_refuted` | MCService | NothingDropped (the load is "non-fatal if missing", `config/README.md:16-17`, and its error is dropped) | a malformed line, too, ends the load, with the lines behind it unread (`:37`) |

The passing runs say under which conditions the same promises hold: names that
differ, routable messages, checks that honour their context and errors that
have a text, one Start per Stop, Logger outside of Recovery, RequestID outside of
the guards, a context of its own for Shutdown. A hazard of `PROJECT.json` whose
going wrong only one of these configurations shows names that configuration in
its note, and no property of a passing run.

A caller of DoJSON learns little from a 401 or 403: a guard that turned it away
and a handler that ran and answered so (`errors.Unauthorized`) look the same, and
CallHonest promises nothing of them. An *Error with a 500 is the handler's own
answer or its panic's.

Two things the composition of consumer and supervisor shows, which no comment
contradicts: a poison message comes back in front of the queue each time, so
that nothing behind it is handled before the consumer is stopped for good; and
panics that lie further apart than RestartWindow never use the budget up, so
that a handler which takes long to panic keeps the consumer in that loop for
ever.

## 6. Not modelled, and why

- `rabbitmq/propagation.go`, `probe/probes.go`, `errors`, `events`, `models`:
  stateless adapters, single calls or data types. Probe checks appear as the
  external dependency of ProbeManager.
- `health` /live, which always answers 200, and Register for functions other
  than a manager's; JSON bodies.
- `mongo` IsConnected, Database and MongoClient, which change nothing.
- `telemetry` createLogger and the options of the exporters.
- net/http's own repetition of an idempotent request on a connection that was
  closed while idle: DoJSON sends once here.
- Metrics and logs, except the two counters Pipeline is about; trace spans.
- Real time: durations are ticks (Supervisor), seconds of a backoff
  (MongoConnect) or left out (elsewhere, where a timeout or ticker may then fire
  at any moment).
- Examples and scripts, except for the order of calls Service takes from them.

## 7. Plan

Done: the concurrent components, the middleware and its client, the start and
end of a service; the compositions consumer with supervisor, client with
pipeline, and process; two abstract specifications and both refinements proved;
every invariant and every safety property of the runs proved. What is left:

1. The part of `SupervisedConsumer` that is the supervisor's (`worker`,
   `recent`), as a specification of its own that `Supervisor` implements for each
   of its workers. It needs Stop on the side of the consumer, which is stopped
   by its context only.
2. An abstract "health at a moment" that ProbeManager implements while no
   request is torn.
3. A register per key that ConfigWatcher implements where no load overlaps a
   push, as the abstract side of CaughtUp.
4. The conditions of section 5 as theorems: no drop, no nil channel, no lost
   message where the documents' promises hold after all.
