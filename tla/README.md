# RivetKit in TLA+

This directory specifies and verifies the core of RivetKit, a library for
stateful actors: TLA+ modules translated from the TypeScript and Rust sources, TLC
configurations that check them on small instances, and TLAPS proofs of the most
important results for instances of every size. Paths below are relative to
`packages/rivetkit/src/` unless they start with `packages/` or `clients/`.

## The system

RivetKit keeps *actors*: named objects with a state that survives restarts, actions
clients call over HTTP, websockets or SSE, events they broadcast, and a schedule of
actions to run later. A *driver* gives an actor its storage, its alarm clock and its
life cycle (file system, memory, Rivet engine, Cloudflare). A *manager* routes
requests to actors. A *client* keeps connections to actors.

| Component | State | Operations | Interacts with |
|---|---|---|---|
| Promise queue (`utils.ts`) | queued operation, shared resolver, running drain loop | `enqueue`, turns of the drain loop | owned twice by each actor instance: persist writes and alarm writes |
| Instance: persistence (`actor/instance.ts`) | `#persist`, dirty flag, last save time, save timer, saved-promise | start, restore, state changes, throttled and immediate saves, `saveState`, `_stop` | write queue, driver storage |
| Instance: schedule | sorted `scheduledEvents` | `schedule.at/after`, `_onAlarm`, arming in `start()` | alarm queue, driver alarms, persistence |
| Instance: connections | `#connections`, `#subscriptionIndex`, liveness | `createConn`, `__removeConn`, subscribe, unsubscribe, broadcast, liveness check | connection drivers, persistence, sleep timer |
| Instance: sleep | sleep timer, active fetches and sockets | `#resetSleepTimer`, `#canSleep`, `_sleep`, `_stop` | driver `sleep` |
| File-system driver (`drivers/file-system/`) | map of entries, state files, alarm files, timers | create, load, start, sleep, write, set alarm, alarm callback, reload of alarms | instance, disk |
| Endpoints (`actor/router-endpoints.ts`) | per-connection closures | websocket and SSE connect, HTTP action, message | instance, connection drivers |
| Client connection (`client/actor-conn.ts`) | transport, message queue, actions in flight, event handlers | connect with retry, send, dispatch, dispose | endpoints |
| Client handles and drivers (`client/`, `inline-client-driver/`) | query of a handle, replaced once it is resolved | get, getOrCreate, create, action, connect, fetch, websocket; errors made from responses | manager endpoints, or a manager driver in process |
| Manager (`manager/`) | none of its own | validate, authenticate with intents, query, proxy | drivers, `onAuth` of an actor |
| Engine driver (`drivers/engine/`) | handlers with a start promise and cached data | lookups and creation through the API, runner callbacks | engine and runner (external) |
| Cloudflare driver (`packages/cloudflare-workers/`) | metadata in KV, durable-object storage, two promises per object | create, initialise, load, route, alarm | Workers runtime (external) |
| Rust client (`clients/rust/`) | connect loop, driver task, two bounded channels, five async locks | action, on_event, disconnect, reconnect with backoff | endpoints |
| In-process websockets, inspector, framework bindings, Python client, db adapters | see `PROJECT.json` | | |

### What is hard

JavaScript runs to completion between two awaits, so the hard behaviours are all
about what happens *across* an await, a timer or a process boundary:

* the dirty flag is cleared when a write starts, so a save requested while a write
  runs sees a flag that says "clean" although nothing is stored yet;
* saves come from four places (actions, `saveState`, the throttle timer, `_stop`) and
  share one coalescing queue and one promise that is never replaced;
* an alarm callback removes the alarm file, maybe wakes the actor, takes an event off
  the list, awaits another file write and only then runs the event, while other
  callbacks, user code, a sleep or a crash interleave; an entry that a sleep removes
  keeps its timer, so one actor can have several;
* a crash can fall between any two of these steps;
* a websocket is usable before its connection exists: between the opening of the socket
  and Init the client sends some messages and holds others back, and the server parks
  what arrives behind a promise while the socket may already be closing;
* whether an actor may sleep is decided when a timer is armed, from connections,
  requests and sockets that come and go by paths of their own;
* each driver guards the start of an instance by a promise that requests, starts, stops
  and evictions make, wait for and resolve in different orders;
* the Rust client runs on threads: its locks are held across awaits of other locks and
  of channels that can be full.

The `hazards` of `PROJECT.json` list these points at the lines where they bite.

## Modules

| Module | Models |
|---|---|
| `PromiseQueue` | the operations of class `SinglePromiseQueue` as functions on a queue record, used by every module that owns such a queue |
| `CoalescedExecution` | abstract: what such a queue promises its callers |
| `SinglePromiseQueue` | the class under arbitrary use |
| `ActorPersist`, `MCActorPersist` | how an instance keeps `#persist` in storage |
| `ActorSchedule`, `MCActorSchedule` | scheduled events of an instance composed with the alarms of the file-system driver |
| `ClientConn` | the websocket connection of the TypeScript client composed with the endpoint, the connections and the subscription index of the actor |
| `ActorConns` | what keeps an instance awake: websocket, SSE and HTTP connections, raw requests and sockets, liveness checks, the sleep timer, stop and restart |
| `Gateway`, `MCGateway` | a call on a handle from the client through one of three client drivers, the manager's endpoints, authentication and queries to the actor's router, and its answer or error back |
| `FileSystemDriver`, `EngineDriver`, `CloudflareDriver` | how each driver finds, creates, loads, starts, saves and stops one actor |
| `Drivers` | a deployment: one of the three |
| `RustClient` | the connection of the Rust client, composed with its driver task, a socket and an external server that speaks its protocol |
| `SinglePromiseQueueProofs`, `ActorPersistProofs`, `ActorScheduleProofs`, `ClientConnProofs`, `ActorConnsProofs`, `GatewayProofs`, `DriversProofs`, `RustClientProofs` | lemmas, theorems and proofs about the module in the name |

Every step is what the code does between two awaits that really wait. Where an
`await` only yields to continuations of the same turn of the event loop, they are
part of the step. Definitions called `...Early`, `...Nothing`, `...Unguarded` and so
on, introduced as "faulty variant", are plausible slips in the code; they are not part
of any specification and exist to confirm that each property can fail.

### PromiseQueue and SinglePromiseQueue

A queue is a record of `queuedOp` (empty or one operation), `pending` (the callers
that share the current resolver) and `loops` (the activations of `#drainLoop`, each
with its operation and the callers whose resolver it captured). `EnqueueOp` is
`enqueue`; `SettleOp` is everything `#drainLoop` does from the end of an operation to
its next await, rejections included, as the code swallows them. `loops` is a set, so
that the claim "at most one runs" is a property and not a convention of the model.

### ActorPersist

`state` and `aux` are version numbers of `#persist.state` and of the other persisted
fields; `durable` is what the driver has stored, `snapshot` what the running write
serialized when it started. `phase` follows `start()`, `pc[r]` each request
(`executeAction` and `handleFetch`; `handleWebSocket`), `stop` follows `_sleep` and
`_stop`. One action per piece of code between awaits: for instance
`SaveStateImmediate` is `saveState({ immediate: true })` up to the await of the cycle,
`SaveStateReturns` the rest of `#savePersistInner` and the return.
`WindowElapses` abstracts the clock: `inThrottleWindow` says whether less than
`stateSaveInterval` has passed since `#lastSaveTime`. `DetachedChange` stands for all
user code that no save follows: lifecycle hooks, scheduled events, callbacks.
`Crash` loses everything in memory; a write under way is applied or not, as the
drivers replace stored data atomically. `Released` is the driver dropping a stopped
instance, whatever still runs in it: `_stop` does not wait for actions in flight.
`leftover` has, for each dropped instance, the oldest data that such an action may still
write; `LateChange` makes it newer and `LateWrite` stores it, over what the next
instance has stored. `overwritten` remembers that what is stored comes from there. The
driver reads back what it has stored, as the file-system and the Cloudflare driver do;
the engine's driver does not (`EngineDriver`).

### ActorSchedule

`scheduled` is the sorted list in memory, `stored` the one on disk, `alarmQueue` the
alarm write queue, `alarmTimer[g]` the pending alarm of the driver entry of generation
`g` (a sleep removes the entry and starts a new generation, but the timer of the old
one stays), `alarmFile` the file on disk. `pc[a]` follows alarm callback `a`: removing
the file, waiting for the actor to start, waiting for the next alarm to be set.
`inst` follows `startActor`, `start()` and `sleepActor`. A callback that finds
`entry.actor` set calls `_onAlarm` whatever `inst` is, as the code does.

### ClientConn

The client's fields are variables of the same name; `retry` and `attempt` follow
`#connectWithRetry` and `#connectAndWait` (`#connecting` is `retry # "idle"`,
`#onOpenPromise` is defined while `attempt # "none"`). A socket has the client's
`ready` state and two FIFO channels; `Close` ends a channel, and `LinkLost` cuts both
at any place. `handlers[c]` is `handlersPromise` of the server's socket and what became
of the connection; `inbox[c]` are the messages and the close that wait for it.
`ConnCreated` does what happens in the turn in which it resolves, in the order the
promises impose: Init, the removal if the socket has closed, and only then the parked
messages, since they are parsed first. `todo` and `detached` follow `#dispatchEvent`
through its callbacks, which may call `on`, its unsubscribe function, `action` or
`dispose`; `detached` says that the set it works on was removed from the map meanwhile.
A refused socket is closed either silently or after an `Error` without an action
(`ConnRefused`), which the client takes for an error of the connection: it fails the
attempt and rejects every call in flight, also those whose request stays queued
(`ReceiveError`, `Rejected`). One assumption is made of time: a retry waits 250 ms or
more, and by then the close of the refused socket has been seen (`BackoffElapses` asks for
`transport = 0`). A later close event would reject the next attempt's promise and
forget its socket, which is outside the model.
Left out: the SSE transport, what `onAuth` decides, callbacks that throw, the in-process
websocket pair (whose events are not separate turns of the event loop), and sleeping
actors.

### ActorConns

`actor` is the instance: the connections it has and those whose `status` is connected,
those last seen too long ago, raw requests and sockets, the sleep timer and the flags of
`_sleep` and `_stop`. `registry` is what the generic connection drivers know of sockets,
which outlives an instance but not the process; `stored` the connections a restart
restores, which may lag behind (`SomeSave`) as `ActorPersist` shows in detail. `pc[e]`
follows the endpoint of each client, `gen[e]` the instance it has loaded: an endpoint
that awaits something may go on with an instance that has stopped meanwhile, as the
code does. `stop` is `_stop` up to its disconnects, `StopClearsTimer` its clearing of the
timers. Drivers call `_stop` because of `_sleep`; the engine's driver also without
it, and then a removal during the stop arms the sleep timer again, since
`#resetSleepTimer` looks at `#sleepCalled` only. The timer of a dropped instance may fire
later and ask the driver to stop the next one, which is one more `stop` without
`_sleep`. `createConn` and `removeConn` are whole turns: what they change, what they
save and the reset of the timer, in the order of the code. Time is abstracted; the
interval of the liveness check may fire at any moment.

### Gateway

`call[r]` passes the stages of a request, each up to an await: the client's driver
(`HttpAction`, `InlineAction`, `TestInlineCall`, ...), the endpoint (`handle...Request`),
`OnAuth`, `queryActor`, `ActorHandles`, and `Answer`. Other calls create actors and
resolve handles in between. An error is its code with the two questions the code asks of
it: is it an `ActorError`, is it public. `deconstructError`, `WrapProxyError`,
`handleRouteError` and `HttpCode` are what becomes of it on the way. `OnAuthAccepts` is
the one of the repository's fixture for intents (`intentAuthActor`); `RoleSeen` is what
an endpoint passes to it. `ActorThrows` tells an error that an endpoint reports from one
that `onWebSocket` throws: the socket is open by then, the call is neither awaited nor
caught, and the caller's view of the call is that it went well.

### FileSystemDriver, EngineDriver, CloudflareDriver and Drivers

Each models one actor; entries of different actors share nothing. In all three an
instance is followed from its start to its stop and its data is abstracted to who wrote
it, which is enough to tell stale data from the last.
`FileSystemDriver` has the generations of the entry in `#actors` (a sleep deletes it
only after `_stop`, and whoever holds the old one may still write through it), the
shared promises of loading and starting, and the two steps of a write, temporary file and
rename. `EngineDriver` has handlers apart from instances: a start makes the handler
(`runnerOnActorStart`) and later its instance, a request that finds no handler throws
(`loadActorHandler`), and a crashed runner loses both.
`CloudflareDriver` has the KV metadata apart from the object's storage, `#initialized`
and `#initializedPromise` of the object, and the second actor driver that `alarm()`
builds. Its storage reads and writes may fail (`StorageFails`) and its starts may throw
(`InstanceFails`); each leaves a promise pending that nobody resolves until the object is
evicted, and `WaitsForNothing` names the requests that come to wait for one. The engine, the runner library and the Workers platform are external and
modelled from their use: they start one generation at a time, and stop, crash or evict
whenever they like.

### RustClient

`pc` follows the task of `start_connection` through `try_connect`, `on_open` and
`on_message`; `sm[p]` each caller of `send_msg`; `lock` says who holds which async
mutex, and a step that needs one that is taken waits. `out` and `in` are the two
channels with their capacity (`Capacity`, 32 in the code), `holding` the message the
driver task cannot deliver. `transport` is either one; they differ in the handshake and
in the POST per message, which may fail by itself and whose response the task waits for
before it reads its stream again (`posting`, `PostEnds`). The server is external: one that takes this
client's requests, welcomes each socket and answers what reaches it. The endpoints of
this repository are not such a server; they refuse the client's handshake, a finding.
What the module says of the client's own control, its queue, locks, channels
and retries, does not depend on which server that is. Two ways in which the connection stops
for good are defined (`FlushDeadlock`, `ChannelDeadlock`), are reachable, and are findings; the
progress properties excuse exactly those.

## Runs

| Run | Bounds | Shows |
|---|---|---|
| `queue` | 9 calls | one operation at a time; a promise is resolved only after an operation of that call or a later one has run from beginning to end; nobody is forgotten; every call is answered; refinement of `CoalescedExecution` |
| `persist_safety` | 2 requests, 3 versions, 1 crash, 1 dropped instance that still runs something | the writes of an instance never overlap; an awaited immediate save is durable; `_stop` flushes; storage never regresses: the last three but for the late write of a dropped instance |
| `persist_progress` | 1 request, 3 versions, 1 other change, rejected writes | what an action changed before the flush of `_stop` reaches storage, unless the write that carried it was rejected |
| `schedule_safety` | 3 events, 2 callbacks, 2 instants, 1 sleep, 1 crash, timers early by 1 | list sorted; next event has a timer and a file whenever nothing is under way; no event in two hands |
| `schedule_progress` | 2 events, 2 callbacks, 1 sleep, rejected writes, failed starts | every event is run |
| `client_safety` | 2 calls, 1 listener, 1 fault, no dispose | no action is started twice; a client that is not disposed always has a socket or a pending attempt; subscriptions are restored; answers find their calls, unless an error of the connection rejected them; a listener has the event of an action before its answer, unless the request went out before Init |
| `client_progress` | 1 call, 1 one-time listener, 1 fault, dispose | a call settles unless its socket closes or the connection is disposed; listeners are subscribed again |
| `gateway` | 2 calls, 1 handle per client driver, 3 actor names | an actor made over HTTP was made by someone `onAuth` lets create it; a public error keeps its code to the caller, unless `onWebSocket` raised it |
| `conns` | 1 connection of each kind, 1 raw request or socket, 2 starts | until `_stop` the timer of an actor in use is not armed; again and again no dead connection is left; an abandoned actor sleeps |
| `drivers` | 2 requests, 3 entries, 2 generations, 3 instances | one instance at a time under the file-system driver; no request meets an uninitialised durable object; requests end under each driver, unless they wait for a promise that a failure left pending |
| `rust_client` | 1 call, 1 event, channels of 1, 2 faults | with a server that answers: requests are not duplicated; connections recover; calls settle; `disconnect` returns |
| `engine_restart_loses_state` | as `drivers` | violation: a restarted actor begins from empty data |

The bounds are the smallest that make the races happen: two requests are needed for a
save that joins another one's cycle, three versions for a change before, during and
after a write; two callbacks for one that overtakes another; three events for an
insertion in the middle; one sleep for an orphaned timer next to a current one. For the
client one fault gives two successive sockets, and two calls one that is queued or sent
before Init next to one that is sent after it. In `queue` nine calls let several cycles
follow each other. In `gateway` a second call changes the actor and the handle between
two stages of the first; in `conns` two starts give an endpoint that goes on with a
stopped instance and connections restored into the next; three entries give a request
that holds the first while a second is removed and a third made. In `rust_client` a
channel of one message is full as soon as one is in it, and two faults lose the socket
during the flush that follows a reconnection. All bounds are constants (`Max...`,
`May...`, and the sets such as `Requests`, `Events`, `Alarms`, `Listeners` and
`FsTasks`). `persist_progress` has no dropped instance that still runs something
(`MaxLeftover = 0`): its property excuses whatever one may overwrite. The safety runs of the actor and the gateway use symmetry in the sets; the
runs with temporal properties do not. Deadlock checking is off because an actor or a
client to which nothing happens may rest for ever.

## Findings

`findings` in `PROJECT.json` quotes the comment, test or declaration each one
contradicts. `engine_restart_loses_state` is the run of the gravest. These further
claims of comments and tests are stated in the modules and do not hold; putting the name
under `INVARIANTS` of the configuration shows the trace:

| Claim | Configuration | What happens |
|---|---|---|
| `SaveStateMeansSaved` (`ActorPersist`) | `ActorPersistSafety.cfg` | `saveState` returns while the write with its change still runs |
| `SavesStaySaved` (`ActorPersist`) | `ActorPersistSafety.cfg` | an action that outlives its instance saves old data over what the next instance has acknowledged |
| `LateActionsAreStored` (`ActorPersist`), under `PROPERTIES` | `ActorPersistProgress.cfg` | an action that returns after the flush of `_stop` finds the cleared save timer and its change is lost |
| `StopFlushesEverything` (`ActorPersist`) | the same with `MaxAux = 1` | a stop does not store connections, subscriptions and scheduled events |
| `EveryEventBeforeAnswer` (`ClientConn`) | `ClientConnSafety.cfg` | a request sent between the opening and Init overtakes the subscription made before it |
| `RejectedByOwnError` (`ClientConn`) | `ClientConnSafety.cfg` | the error of the first action rejects all calls in flight |
| `RemovedConnsAreForgotten` (`ClientConn`) | the same with `MayDispose = TRUE` | a removed connection enters the subscription index |
| `OneWriterAtATime` (`Drivers`) | `Drivers.cfg` | an alarm of a durable object starts a second instance, and both write |
| `AdminsMayConnect` (`Gateway`) | `Gateway.cfg` | the websocket endpoint passes `onAuth` the unparsed parameters |

Further findings are limits of properties that hold:

* a start that throws leaves requests of the engine and the Cloudflare driver waiting for
  ever, and so does a failed read of a durable object's storage
  (`EngineRequestsSettle` and `CloudflareRequestsSettle` excuse exactly these requests);
* an error of `onWebSocket` reaches nobody (`ErrorsKeepTheirCode` excuses it);
* an error of the connection rejects calls whose requests stay queued, run later and
  are answered to nobody (`AnswersFindTheirCall` excuses these answers);
* the calls whose socket closes after their request went out are never answered
  (`CallsSettle` excuses them);
* an action can outlive its connection, background promises do not keep an actor
  awake, and the sleep timer can be armed while the engine's driver stops an actor
  (`NoSleepInUse` speaks of open connections and raw requests, until `_stop`);
* the two deadlocks of the Rust client, and `disconnect()` during an attempt, which waits
  until that attempt's socket closes (`DisconnectReturns` starts from a connection with a
  driver);
* the Rust client does not speak the protocol of the endpoints beside it.

## Fairness

Writes and file operations settle (the operating system answers), timers fire, time
passes, the hooks of `start()` return, and `_stop` moves on because each of its waits
has a deadline (`onStopTimeout`, `waitUntilTimeout`, 1.5 s for the connections). For the
client: dials and handshakes end, messages arrive or the socket closes, connections are
created or refused, actions are answered (`actionTimeout` ends those that do not return)
and listeners' callbacks return. In `ActorConns` handlers of events that happened,
timers and the interval run, a peer answers a close, and `_sleep` makes the driver call
`_stop`; in the drivers storage, API calls, starts and stops end, well or not; in the
Rust client the executor runs a task that can run, and the server, of which no code is
here, welcomes each socket and answers what it receives. All are weak fairness: once such a step is possible it
stays possible. Nothing is assumed of what applications call, of the driver's wish to stop
an actor, of requests that would wake one, or of faults.

## Proofs

Every invariant that a run checks is a theorem for all values of the constants,
together with the action property `DurableNeverRegresses` and the step simulation of
`CoalescedExecution`. The assumptions are those stated with the constants in the
modules. They give types and bounds and say that sets of different things are disjoint
(`ConnsAssumption`: a connection is not a raw request; `RustClientAssumption`: an event
is neither a call nor the connect loop). None of them limits what faults may happen.

* `SinglePromiseQueueProofs`: from `MaxCalls \in Nat` alone. `IInv` says that the
  running operation is later than every settled one, that its cycle holds exactly the
  unanswered calls up to it, and that the later calls are pending with the last of
  them queued. The properties alone are not inductive: that a caller is answered by a
  later operation needs to know who is in which cycle. `QueueInvariant` gives
  `QueueTypeCorrect`, `OneOperationAtATime`, `AnswersAreCovered` and `CallersAreServed`;
  `QueueImplementsCoalescedExecution` maps initial states and steps to initial states
  and steps of the abstract specification.
* `ActorPersistProofs`: for all sets of requests and all bounds. `PersistInv` has four
  parts: the shape of the queue (`QueueInv`), where awaiters of a cycle are
  (`WaitInv`), the order of stored, serialized and current versions together with
  what a lowered dirty flag means (`VersionInv`), and that the version each awaiter
  asked for is covered by the write it waits for (`CoverInv`). The key fact is in
  `VersionInv`: while the flag is down, memory equals the snapshot of the running
  write, or storage if none runs. Since a dropped instance may write at any time, the
  versions stored are ordered only while `overwritten` is false, and an acknowledged
  version is `Kept`: in memory, in the running write and in storage, unless a write
  that carried it was rejected. From it follow `WritesNeverOverlap`,
  `AckedSavesSurvive`, `StopIsDurable` and `StorageNeverRegresses`.
* `ActorScheduleProofs`: for all sets of events and callbacks, any clock, any earliness
  of timers, any number of sleeps and crashes, and whether or not writes and starts
  fail (`ScheduleAssumption` only types the constants). `ScheduleInv` says that the
  alarm queue runs one operation at a time (`AlarmQueueInv`), that whoever waits for it
  is where that wait is awaited and holds events only there (`CallbackInv`), that the
  lists are sorted and disjoint from what callbacks hold (`ListInv`), and that the last
  alarm write queued is for the first event, or else that event is in a timer and in the
  alarm file or a callback is about to set it (`ArmedInv`). `NextEventIsArmed` alone is
  not inductive: it says nothing of the states in between, when the alarm is only in
  the queue or in the hands of a callback. The lemmas on `InsertAt`, `Insert` and
  `OnAlarm` show what insertion and removal do to a sorted list of any length. From it
  follow `ScheduleTypeCorrect`, `ScheduleAlwaysSorted`, `EventsTakenOnce`,
  `NextEventAlwaysArmed` and `NextEventAlwaysOnDisk`.
* `ClientConnProofs`: for any number of calls, listeners, sockets and faults, with and
  without `dispose`. The invariants build on each other.
  `SocketInv` (only the transport is alive) and `RetryInv` (the attempt dials without a
  transport and waits with one; `pRetry` follows it) give `ClientIsNeverStranded`.
  `GreetInv` says that where Init was sent the server has the connection, unless the
  client has closed; it is what lets the client rely on its subscription.
  `CallInv` says that a call is in one place at most, of the message queue, a channel,
  the server's inbox, the running actions and the answers under way, and only once
  there (`OnePlace`), that it has been started exactly from the running actions on
  (`StartInv`), and that wherever it is the client still waits for it, or an error of
  the connection, or one of action 0 taken for one, has rejected it (`AnswerInv`). From it follow `ActionsAreStartedOnce` and
  `AnswersFindCalls`, neither of which is inductive: each needs the absence of a copy in
  all other places. `SubsInv` gives `SubscriptionsAreRestored`. `EventInv`
  says of each call whose listeners still want its event that the request is behind a
  subscription no message revokes (`Covered`), that once the action runs the event is
  sent or the server holds the subscription, and that the event precedes the answer in
  the channel; with `IndexInv` (the subscription index of the actor agrees with its
  connections) it gives `EventsComeBeforeAnswers`.
* `ActorConnsProofs`: `AwakeInv` says that, until `_stop` is called, a connection in use
  has the status "connected" and a socket the driver finds (`UseInv`: without it a
  liveness check could drop the connection and arm the timer), and that an armed timer
  means no raw request and nothing in use (`TimerInv`). It does not depend on `_sleep`
  having been called before `_stop`. `NeverSleepsInUse` follows.
* `GatewayProofs`: `CallOK` follows one call: with what intents it reaches `onAuth`, what
  is known of the caller past it, and that a public error that is not unhandled is
  answered with its own code;
  `CreatorInv` keeps what was known of the request that made an actor. From them follow
  `CreatorsAreAdmins` and `CodesAreKept`.
* `DriversProofs`: `MapInv` (an entry whose instance lives, or may still get one, is the
  one in the map) and `StartInv` (who starts it is alone) give `OneInstanceAlive`; `CfInv`
  (what a task knows of the stored data and of the object at each point of its way) gives
  `ObjectsAreInitialised`. Steps of one driver leave the other drivers' variables alone.
* `RustClientProofs`: the request of a call is with its caller, in the message queue, in
  what the flush has taken out of it, in the channel or with the server, and only in
  one of them (`OnePlace`); while the flush waits inside `send_msg`, its message is still
  the head of what remains (`LoopInv`). `RequestsGoOutOnce` follows.

TLC finds no violation of any of these inductive invariants on the runs' instances. Three things in the models are written with their proofs in mind:
`Without` and `Remains` of `ClientConn` name positions of a sequence instead of
filtering it, counts of requests are cardinalities of sets of positions, and
records are built field by field where an `EXCEPT` would do.

Only model-checked: everything about eventuality (`EveryCallResolves`,
`ActionChangesReachStorage`, `EveryEventRuns`, `CallsSettle`, `Resubscribes`,
`AbandonedActorSleeps`, `DeadConnsAreRemoved`, the `...Settle` properties of the drivers,
`ConnectionRecovers`, `ActionsSettle`, `DisconnectReturns`, and the fairness part of the
refinement), as the proof system does not handle liveness under fairness.
`EngineDriver` has no theorem: what its run says of it is that requests settle, and that
a restart keeps the state, which it does not.

## Not modelled, and the plan

Not modelled at all: wording and encoding (BARE, CBOR), logging, configuration,
database adapters, rendering, release scripts, examples. Of the modelled parts, these are
left out:

* the SSE transport of the TypeScript client (its server side is in `ActorConns`, the
  same protocol from the Rust client in `RustClient`);
* the in-process websocket pair and the adapters between websocket interfaces: an opened
  websocket is one step of `Gateway`; their handshakes run in microtasks nobody else
  interleaves with;
* the two-sided websocket proxies of the engine and Cloudflare drivers, which forward
  messages to libraries that are not in the repository;
* inspector routes and views, which change nothing but through an immediate save;
* the stateless calls of the Rust client and the Python client that wraps it.

Next: safety of `EngineDriver` (one instance per generation of the record, handlers that
name the instance they serve, and which cached data a restart can meet) with its
theorem, a converse of `EventInv` (an event reaches only connections that subscribed), and
the order in which the Rust client resubscribes and flushes as a theorem.
