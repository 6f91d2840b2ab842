# A verification project for squidlet

Squidlet is a home automation platform in TypeScript: a host runs *drivers*
(pins, buses, connections), *devices* built on drivers, and *services*. Its
core is asynchronous single-threaded code: promises, timers and callbacks that
interleave at every `await`. What can go wrong is in those interleavings, and
that is what this project models.

* [1. The system](#1-the-system) — components, state, hard behaviours
* [2. The modules](#2-the-modules) — which module models what
* [3. The runs](#3-the-runs) — what TLC checks, with which bounds, and why they suffice
* [4. The proofs](#4-the-proofs) — what TLAPS proves, and along which argument
* [5. Findings](#5-findings) — where the code departs from what it says
* [6. Not modelled](#6-not-modelled) — what is left out, and why

## 1. The system

| Component | State it keeps | Operations | What makes it hard | What makes it correct |
|---|---|---|---|---|
| `system/lib/Queue.ts` | waiting jobs, the current job, its timer, listeners of start and end | `add`, `cancelJob`, `waitJobStart`, `waitJobFinished`, `waitCurrentJobFinished`, `onJobEndOnce`, `destroy` | callbacks that outlive their timeout, listeners that add jobs between two jobs, everything found by id only | one job at a time, in order; a job ends once and by its own doing; waiters are told how *their* job ended |
| `system/lib/ConsistentState.ts` | local state, the server's state before a write, the parameters being saved, the next write, a `Queue` | `init`, `load`, `write`, `setIncomeState`, `destroy` | events of the server during reads and writes, merged and postponed writes, failures, late answers | local state equals the server's when nothing is under way; what is being saved is not overwritten; a promise follows its values |
| `entities/drivers/BinaryOutput` | known level, writing flag, deferred level and promise, block timer | `handleGpioInit`, `write`, `cancel`, `poll` | requests during a write and between its promise reactions, failing writes, timers of earlier blocks | one write at a time; the driver knows the pin; the last request wins |
| `entities/drivers/ImpulseOutput` | timer of the impulse, promises of its start and end, deferred promise | `impulse`, `cancel` | an impulse that is over before its start is written, or is made longer meanwhile | a raised pin is lowered; every call is answered |
| `system/lib/QueueOverride.ts`, `debounceCall/` | the pending and the queued callback, one timer; a debounce timer and who waits for it | `add`, `stop`; `invoke`, `clear` | callbacks that outlive their timer; promises handed from one callback to the next | a promise tells of its own callback |
| `lib/logic/DigitalPortExpanderOutputLogic.ts` | buffer before and during writing, a debounce, a `QueueOverride` | `write`, `writeState`, `cancel` | writes that are given up on and return later | the last level of each pin is written |
| `entities/drivers/Pcf8574`, `lib/logic/InitIcLogic.ts`, `DigitalPortExpanderInputLogic.ts`, `lib/Polling.ts`, `lib/base/MasterSlaveBaseNodeDriver.ts` | one byte shared by writes, polls and the initialization; tries; polls under way; debounced pins | `initIc`, `write`, `writeState`, `read`, `pollOnce` | polls that overlap, fail and are restarted, during writes and retries | outputs are known; a polled change is taken over |
| `lib/remoteCall/` | requests that wait, callbacks by id, fake callbacks | `callMethod`, calls of callbacks, `incomeMessage`, `destroy` | responses matched by the name of the method, late and lost ones | an answer reaches its call; every call ends; no wait leaks its handler |
| `entities/drivers/WsServerSessions`, `lib/Sessions.ts`, `entities/drivers/WsClient` | active sessions, session to connection; connection, cookie, timer of reconnection, promise of the connection | connection, message and close events, `send`, `close`, `destroy` | a reconnection that overtakes the end of the old connection; restarts of the server | sessions stay with their client; a client comes back |
| `lib/IndexedEventEmitter.ts`, `lib/IndexedEvents.ts` | handlers by index; indexes by event | `addListener`, `once`, `removeListener`, `emit` | listeners that come and go while an event is emitted; see section 6 | — |
| `lib/Sender.ts`, `lib/base/NetworkDriverBase.ts` | requests by id; requests by number | `send`; `request` | see section 6 | — |
| `base/DeviceBase.ts`, `lib/logic/DeviceState.ts`, `System`, `managers/*` | status and config of a device, entities by id | `init`, `setStatus`; `start`, `destroy` | order of initialization | — |

How they interact: a device calls `write` or `load` of its `ConsistentState`;
that puts jobs named `"write"` and `"read"` into its `Queue` and adds itself as
an `onJobEndOnce` listener; the job's callback calls the *getter* or *setter*,
which goes over a driver to the hardware or the network; events of the driver
come back into `setIncomeState`. A `Relay` or `Switch` device calls
`BinaryOutput.write`, which calls the gpio device — of the board, or a pin of a
`Pcf8574`, which sends one byte for all pins and polls the chip for its inputs.
The API of a host is served by `RemoteCall` over `WsServerSessions`, and used
through `WsClientLogic` on the other end. Nothing is persisted by these parts,
so a restart loses their state; where the other end of a connection survives
it (`WsReconnect`) the restart is an action of the model.

`PROJECT.json` lists every component with its status, and under `hazards`
every behaviour a test would hardly reach, with the properties that cover it.

## 2. The modules

A step of every model is a synchronous run of the JavaScript engine: an API
call, a promise reaction, a timer callback, or a message that arrives.
Everything such a run does — the listeners it calls, the next job it starts —
is part of the step. Nothing runs in parallel; interleaving happens between
steps. `Queue` and `BinaryOutput` take each promise reaction as a step of its
own, since callers can come between two of them; promise reactions run before
timers and I/O (`NoReactionWaits`). In the others a step is a whole macrotask
with its reactions, because nothing else is queued that could come between.

| Module | Models | Composed of |
|---|---|---|
| `SerialQueue` | what the queue promises | |
| `Queue` | `system/lib/Queue.ts` | implements `SerialQueue` |
| `ConsistentState` | `system/lib/ConsistentState.ts` and a server | uses `SerialQueue` as its queue |
| `BinaryOutput` | the driver of one output pin over a gpio device | |
| `ImpulseOutput` | the driver of impulses over a gpio device | |
| `QueueOverride` | `system/lib/QueueOverride.ts` for one id | |
| `PortExpanderOutput` | the output logic of port expanders over a chip | extends `QueueOverride`, contains `DebounceCall` |
| `Pcf8574` | the chip driver: initialization, writes, polling, input logic | |
| `RemoteCall` | two instances of `RemoteCall` over a connection | |
| `WsSockets` | the websocket io of both ends | |
| `WsServerSessions`, `WsClientLogic` | the two drivers | extend `WsSockets` |
| `WsReconnect` | clients and a server | both |

`MCQueue`, `MCConsistentState`, `MCBinaryOutput` and `MCPortExpanderOutput`
give the constants that a `.cfg` cannot; each `…Proofs` module holds the
theorems about the module in its name.

### SerialQueue and Queue

`SerialQueue` keeps `[line, serving]`: the ids that wait and the id being
served. `Ask`, `Serve`, `Release`, `Withdraw` are operators, so that
`ConsistentState` can be built on the promise instead of on the implementation.
The specification says that the line is served in order, that an id is in it
once, that a listener of the end may ask again before the next is served, and
what cancelling does.

| `Queue.ts` | `Queue.tla` |
|---|---|
| `queue`, `currentJob`, `runningTimeout`, `unnamedJobIdCounter` | the variables of these names; a job is `[id, n, cb]` |
| `Job[canceled]` | `canceled`, a set of job numbers |
| timers the event loop holds | `armed`; `runningTimeout` is only the handle |
| a callback that was called | an element of `calls`: `pending`, then `ok` or `error`, then the reaction |
| `onJobEndOnce` handlers | `endHandler[id]`: a handler that adds a job of the same id, as `ConsistentState.handleWritingJobEnd` does |
| promises of `waitJob…` | `promise[c]`, one per client at a time |
| `add`, `cancelJob`, … | `Add`, `AddUnnamed`, `CancelJob`, `WaitJobStart`, `WaitJobFinished`, `WaitCurrentJobFinished`, `OnJobEndOnce`, `Destroy` |
| `startJob`'s timer and `.then/.catch` | `Timeout`, `ReactToCb`, both through `HandleCbFinished` |

`made`, `ended`, `thrown` and the number `n` of a job are for the properties:
the code tells jobs apart by id only, the numbers tell whether that works.
`IndexedEventEmitter.emit` iterates over a copy, so a handler added during an
emission is not called by it. The timer of a job fires in its own step, and
only when no reaction waits.

### ConsistentState

The fields keep their names; a dictionary is a function on some of `Params`.
The queue is the record `q` with the operators of `SerialQueue`; `job`
numbers the jobs it starts, so that a late answer is told from a live one.
`outbox` and `inbox` are the connection to the device on the `server`, in
order; the server answers in the step that executes a request, refuses it, or
changes by itself and tells so. `ready` is a writing job with nothing to send.
`init()` is two steps, because `doInitialize` goes on one reaction after the
reading job has ended. Two constants say what a run may do beyond that:
`CallsDuringInit` (callers do not wait for `init()`; `DeviceBase` does) and
`Timeouts` (jobs run into their timeout). `Modes` says which of the callbacks
`initialize`, `getter` and `setter` were given. `unheard` is history: the
parameters whose last event was dropped.

### BinaryOutput

One run of `doWrite` is an element of `ops` that passes through the stages
`io` (gpio has it), `ok` or `error` (gpio's promise is settled), `returned`
(`writing` is false and `write()` or the reaction of `startDeferred` has not
gone on yet). `block` timers are numbered: `blockTimeout` is the handle,
`armed` what the event loop holds. The gpio device executes a write or fails;
it sets the pin up first. With `Careful = TRUE` the user of the driver does
not call `cancel()` during a write, does not overlap `poll()` with a write and
does not call between two reactions of one write; the code guards against none
of these.

### ImpulseOutput

`starting` and `writingEnd` are the promises `writingStartPromise` (with the
calls that wait for it) and `writingEndPromise`; `impulseTimeout` the timer;
`awaiting` the runs of `impulseFinished()` that wait for the start to be
written. `cut` is history: the cycle was cancelled, or a write of it failed,
so that its end may not come (`"yes"`), and `"early"` if that was before its
start was written: then `isInProgress()` stays true for a while, calls are still
deferred to the end of this cycle, and it need not come. `startBlocking` never stores
the handle of its timer (`ImpulseOutput.ts:280`), so `isBlocked()` is always
false and `cancel()` leaves such timers alone: the model has their number
(`blocks`) and nothing else.

### QueueOverride and PortExpanderOutput

`QueueOverride` is a record with the operators of the class; its only user has
one id, so the hazard of one `runningTimeout` shared by all ids does not arise
(that of a callback which outlives its timeout does, and is modelled).
`PortExpanderOutput` keeps the two buffers of the code, the debounce (armed or
not, and who waits for it), and the calls of `doWriteCb` that go on: `sent`,
then `taken` by the chip. A chip may refuse a write or never answer. `asked`
and `givenUp` are history: the levels last asked for, and whether a write was
given up on; after that the code may lose levels (a late answer deletes the
buffer of a later write), and the properties say so.

### Pcf8574

`currentState` is shared by three parts: the output logic stores the byte it
has sent, polling hands over inputs that changed, and the initialization sends
it first. `step`, `tryTimer` and `initOn` are `InitIcLogic`; `writing`, `buffer`
and `queued` the output logic without debounce and timeouts (those are in
`PortExpanderOutput`); `interval`, `polls` and `pollLastData` are `Polling` and
`MasterSlaveBaseNodeDriver`. `pollOnce()` awaits `Polling.restart`, whose
promise wraps nothing: it is over before the bus can answer. A pin with a
debounce therefore looks at its level too early, and may never learn the one it
settles at; `InputsCatchUp` is stated for the other inputs. `reverted` is
history: inputs that the end of a write has set back to the levels of the byte
it sent, as `DigitalPortExpanderOutputLogic.ts:175` does.

### RemoteCall

An *ask* is one request that waits for a response: a call of a method, or of a
fake callback. A response carries the name of the method and not the number of
the request (`RemoteCall.ts:73`), so it is heard by every ask of that name:
`rivals` are, for each ask, the asks whose response it could hear. Messages
keep their order and may be lost. A message waits in `unsent` until the promise
of its `send()` settles, which it need not: `send()` waits for the connection
(`WsClientLogic.ts:115`), and `callMethod()` awaits it before the result
(`RemoteCall.ts:78`). `SendSettles` says how: the message leaves, is lost
unnoticed, fails, or is forgotten with the promise it waited for; it has no
fairness. A message is taken to leave in the step in which its `send()`
settles. `destroy()` of a side clears its handlers and leaves who waits on that side waiting, so the liveness
property is about sides in use.

### WsSockets, WsServerSessions, WsClientLogic, WsReconnect

A socket has two ends that learn of its end at different times, and two
sequences of messages that are lost when the link breaks. The server keeps
`mapped` (`sessionConnections`), the `active` sessions, the connections that
wait for `setCookie()` and the sessions that wait in `close()`; the client
its connection, cookie, reconnection timer and the state of `connectedPromise`.
`home` is history: the client a session was made for. A restart of the server
forgets sessions and ends all sockets. With the io of nodejs `reConnect()`
never fails, so `maxTries` is never used up and a client tries for ever;
`waitForShutDown()` of a session is called by nothing, so sessions never
expire. Each reconnection adds the same handlers once more
(`WsClientLogic.ts:281`); the repeats of the events that the model has change
nothing it follows. A client that closes its socket before it is open aborts the
handshake and is told nothing the server has sent (`EndedByClient`); a socket
that the other end closes so early still brings its open event, the cookie and
the close event, in this order. `closed` is history: `close()` was called. After
it the io knows no connection, and `destroy()` would leave the handlers
(`platforms/nodejs/ios/WebSocketClient.ts:76-79`); the model does not go there.

## 3. The runs

| Run | Instance | Shows |
|---|---|---|
| `queue` | 1 named id, 2 unnamed jobs, 3 callbacks, 1 client | one live callback and one timer, `EndsByItself`, `PromiseTellsOfItsJob`, refinement of `SerialQueue`, `PromisesSettle` |
| `consistent_state` | 2 parameters, 2 values, 3 users, 3 writes, 1 load beside `init`, 1 event; all callbacks given, no timeouts; symmetric | promises, what is being saved, agreement with the server |
| `consistent_state_live` | 1 parameter, 2 users, 3 writes, 1 load; combinations of missing callbacks, timeouts, calls during init | the cycle matches the queue, `PromisesSettle` |
| `init_overlap` | 2 parameters, 1 write during init | **violated**: `Consistent` |
| `binary_output` | both block modes, with and without block time and inversion; 4 requests, 1 cancel, 1 poll | one write at a time, the driver knows the pin, promises, liveness |
| `binary_defer` | defer mode without block time, 3 requests | **violated**: `LastRequestWins` |
| `impulse_output` | 3 modes, with and without block time, 5 requests, 2 cancels, 2 failed writes | a raised pin is lowered, deferred calls are served, calls settle; each but for cycles that were cut |
| `port_expander_output` | 2 pins, 2 users, 3 requests, 1 cancel, every outcome of each write | timers, no level is lost until a write is given up on, promises, liveness |
| `pcf8574` | inputs with and without debounce, 1 output, 2 polls at once, 1 `initIc`, 1 write, 1 read, 1 change of an input, 2 failures | outputs known, polls followed, liveness |
| `remote_call` | 2 methods, one with a callback; client calls, 3 asks, 1 loss, destruction of either side | handlers, answers, silence after `destroy`, liveness |
| `ws_reconnect` | 2 clients, 1 death (a broken link, a close, a restart …), 1 message | sessions, connections, reconnection |
| `connected_promise` | 1 client, 1 death, 1 message | **violated**: `ConnectedPromiseResolves` |

*Bounds.* Every bound is a constant named `Max…` in a guard. The safety
properties that section 4 lists are proved for every value of the bounds; the
bounds matter for what is only model-checked.
`queue`: three callbacks are a current job, one that waits and one that
replaces it or is added by a listener. `consistent_state`: three writes are
one that is sent, one postponed and one merged into it (by three users, since
a user waits for its promise), or one in each of three cycles; two parameters
tell "saved" from "not saved". `binary_output`: four requests are one written,
two deferred (the second replaces the first), and one directly after.
`impulse_output`: five requests are an impulse, two that are deferred together
or make it longer, and two more in the next cycle. `port_expander_output`:
three requests are one under way, one queued and one that replaces it, on two
pins so that one can be left alone. `pcf8574`: two polls at once are one that
waits for the bus and the one that `restart` adds. `remote_call`: three asks
are two of one name and one more, or a call of a method and two of its
callback. `ws_reconnect`: one death lets either end or the server fail at any
moment, with all that is under way, and the client return; two clients are
needed to mix sessions up. `CHECK_DEADLOCK` is off everywhere: with its callers
done the system rests.

*Fairness.* Promise reactions and timers: weak, since the engine runs every
queued reaction and the event loop reaches its timers. The timer of a queue
job, the interval of polling and the debounce of an input: strong, since
between two moments when they are due something else may run, or restart
them, and the event loop does reach them. Callers, callbacks given to the
queue, methods called remotely, the server of `ConsistentState` and the chip
of a port expander get no fairness: the code has timeouts for them, and must do
without their help. So does `send()` of `RemoteCall`, for which it has none: its
`CallsSettle` speaks of calls whose message has left or failed. In `BinaryOutput`, `ImpulseOutput` and `Pcf8574` the
device answers or fails, because nothing in these drivers would end a
write that it never answers. Messages need not arrive in `RemoteCall`; in
`WsReconnect` a link that is not broken delivers.

*Refinement.* `Queue!ServesInOrder` is `SerialQueue!Spec` under the mapping
`line` = ids of `queue`, `serving` = id of `currentJob` (`serialView`);
`ConsistentState` is built on `SerialQueue`'s operators. TLC checks the
refinement, and `QueueServesInOrder` proves it.

*Mutants.* Every property is shown to notice a plausible mistake in the code:
definitions commented "A mutant" stand before the definition they would
replace, and are used nowhere else.

## 4. The proofs

Eight modules hold theorems; the ones that state a property of a run are these.
They hold for all sets, modes and bounds that the constants allow.

| Module | Proved: `Spec => []…` or the action property |
|---|---|
| `QueueProofs` | `TypeOK`, `UniqueIds`, `TimerOfCurrentJob`, `OneLiveCallback`, `NoInternalError`, `EndsAtMostOnce`, `NobodyWaitsForNothing`, `EndsByItself`, `PromiseTellsOfItsJob`, and `Spec => ServesInOrder`, the refinement of `SerialQueue` |
| `ConsistentStateProofs` | `TypeOK`, `CycleMatchesQueue`, `PromiseFollowsItsWrite`; `SavingIsNotOverwritten` if nobody calls during init; `ConsistentIfHeard` and `ResolvedMeansSaved` if, besides, no job times out |
| `BinaryOutputProofs` | `TypeOK`, `PendingIsRemembered`; for careful users `OneWriteAtATime`, `BlockedUntilItsTimer`, `KnowsThePin`, `ResolvedMeansWritten` |
| `ImpulseOutputProofs` | `TypeOK`, `RaisedMeansEnds`, `DeferredAreServed` |
| `PortExpanderOutputProofs` | `TypeOK`, `ItemHasItsTimer`, `NothingIsLost`, `WriteFindsItsBuffer`, `ResolvedMeansWritten` |
| `Pcf8574Proofs` | `TypeOK`, `OutputsAreKnown`, `InputsFollowPolls` |
| `RemoteCallProofs` | `TypeOK`, `HandlersAreWaits`, `OwnOrRivalsAnswer`, `NoCallbackAfterDestroy` |
| `WsReconnectProofs` | `TypeOK`, `SessionsStayWithTheirClient`, `ConnectedMeansActive`, `OneWayBack`, `OpenMeansHeard`, and `Holders`: a cookie stays with its client |

*Assumptions.* Those of the modules, which TLC evaluates: bounds are naturals,
undefined is none of the values it stands beside, and the like. The four
theorems for careful users of `BinaryOutput` assume `Careful`,
`SavedAsWritten` assumes `~CallsDuringInit`: without these the code does
otherwise (the `init_overlap` run shows one way). `HeardIsConsistent` and
`ResolvedIsSaved` assume `~Timeouts` as well, the settings of the run
`consistent_state`: the getter and the setter cannot be aborted, so that after a
timeout a late request may still be executed.

*The arguments.* Each theorem is an inductive invariant, of which the property
is a conjunct or follows in one step. What each invariant adds:

* `Queue`: `handleCbFinished` finds a job by its id. That it never ends the
  wrong one rests on `OneLiveCallback`: a callback that is not cancelled belongs
  to the current job *itself*, not merely to one with the same id. That is not
  inductive: when a job starts, nothing in it says that no earlier, uncancelled
  call has its number. `NumbersTellJobsApart` adds it: numbers above `made` and
  those kept by a listener are fresh; a job that waits was neither called nor
  cancelled; a job is called once. The lemmas are about the operators on the
  job list first (`AddJob`, `RemoveJobFromQueue`, `StartNextJobIfNeed`,
  `EmitEndJob`), then about the two ways a step leaves it (`Proceed`,
  `ProceedAfterEnd`), then action by action. `PromisesKnowTheirJobs` does the
  same for the numbers that promises wait for. The refinement maps a job list
  to what a user sees of it (`Seen`), and shows for each of those operators
  which step of `SerialQueue` it is.
* `ConsistentState`: the queue has one of five shapes, since each of the two
  jobs is listed at most once; the fields of a cycle, the promises and the
  answers on their way (`Fits`: only one of the kind of the current job has
  its number) are tied to the shape. Agreement with the server needs a second
  invariant on top of it, `Follows`. At most one request or answer is under way,
  that of the current job (`OneRequest`, `OneReply`), and `init()` has the queue
  to itself (`InitAlone`). `Base`, what the local state would be if the
  cycle were given up now, is for each parameter what the last message about it
  that is on its way will make it (`Latest`), or else what the server holds
  (`Settled`), unless an event about it was dropped. `Spared` and `Unsent` say
  where the local state may differ from the one remembered before the cycle:
  only in what is being saved and has to be sent.
* `BinaryOutput`: `Turns` (one run of `doWrite` at a time, and never with a block
  or a poll), `Levels` (what is known of the pin at each stage) and `Asked` (each
  write, and the deferred value, has the level that the last of those who wait
  for it asked for). `PendingIsRemembered` needs none of that: it is inductive
  with the types, and says where a pending call is kept, not that its level is
  written; in defer mode it need not be (`binary_defer`, `MCBinaryOutputBlock.cfg`).
* `ImpulseOutput`: `StartHasItsEnd`: while the start of an impulse is being
  written, its timer is set or something waits for the start, unless the cycle
  was cut; `cut = "early"` is taken back only by the next start.
* `PortExpanderOutput`: until a write is given up on, exactly one call is under
  way while the queue has an item, it sends what was asked for unless another is
  queued (`Running`). That ends with the first write that is given up on.
  `ResolvedMeansWritten` holds beyond, and rests on an invariant of its own
  (`PInv`): the calls are numbered and the last one belongs to the pending item
  (`Numbered`, `SomeCall`), and whoever waits has asked for the level that is in
  the buffer, or that the last call sends (`Waits`, `Buffering`, `Sends`). A
  step that resolves a promise with no other call under way is then the answer
  to that very call.
* `Pcf8574`: a write that the chip has taken, and no other, is ahead of
  `currentState` (`Ahead`), and there is a buffer exactly during a write.
* `RemoteCall`: where the messages of an ask may be, sent or not (`Located`), and that all of
  one name that is under way while an ask waits was counted as its rival
  (`RivalsKnown`).
* `WsReconnect`: `Holders` follows the id of a session from the server into a
  message, the client's cookie and the headers of its next socket. The other
  two safety properties need more. `Ways`: only the last socket of a client is
  not closed. `Secrets`: until the cookie of a session has come, and when it
  was cut off, nobody has that id, so that `CookieFails` takes the connection
  from nobody else. `Born` and `Made` count: the sockets of a client are born at
  different deaths and sessions are made for different sockets, so that
  `MaxSockets` bounds both, which `TypeOK` needs.

*Only model-checked.* All liveness, which is out of the prover's reach. Every other property of the passing runs is stated by a
theorem. No module uses
`RECURSIVE`.

## 5. Findings

Three runs end in a violation and are meant to; `PROJECT.json` quotes the lines.

1. `init_overlap` — `init()` overwrites locally what was written while it read.
2. `binary_defer` — a deferred level that needs no write is left behind, and
   written later over a newer one.
3. `connected_promise` — a client that gets its session back is sent no cookie;
   its `connectedPromise` stays pending and `send()` waits.

Eight more configurations, each of a module of the runs, state what the source
says and end in a violation too. They are not among the listed runs; `tlc
-config X.cfg M` shows each within seconds. The properties of the passing runs
except these cases.

| Configuration | Module | Violated | What the code does, and where it says otherwise |
|---|---|---|---|
| `MCFailedRead.cfg` | `MCConsistentState` | `Consistent` | an event during a read is dropped (`ConsistentState.ts:108`) because the read "will return the full actual state" (109); it may fail |
| `MCUnsentParam.cfg` | `MCConsistentState` | `Consistent` | an event about a parameter of the write is dropped because it is "saving at the moment" (113-114), also if it had not changed and is not sent (340) |
| `MCBinaryOutputBlock.cfg` | `MCBinaryOutput` | `DeferredIsWritten` | in defer mode the end of the block time writes nothing (`BinaryOutput.ts:304`); the last value is to be written when it is finished (21) |
| `MCImpulseCancelled.cfg` | `ImpulseOutput` | `DeferredStart` | a call deferred after `cancel()`, while the start of the cancelled impulse is being written (`ImpulseOutput.ts:155-167`, 192), waits for an end that never comes; it is to make a new impulse (48) |
| `MCPortLateAnswer.cfg` | `MCPortExpanderOutput` | `LateAnswerIsIgnored` | the late answer of a write that was given up on resolves the promise of the next one (`QueueOverride.ts:157`); `add()` promises the end of its own callback (99) |
| `MCPcf8574Read.cfg` | `Pcf8574` | `ReadTellsTheLevel` | the end of a write sets back inputs polled meanwhile (`DigitalPortExpanderOutputLogic.ts:175`), and `read()`, which "asks IC" (`Pcf8574.ts:222`), goes on telling the old level |
| `MCClosedReconnects.cfg` | `WsReconnect` | `CloseIsFinal` | a client that was closed by `close()` reconnects (`WsClientLogic.ts:122`, 237-251); the class comment says that this takes a new instance (34) |
| `MCCloseOverlap.cfg` | `WsReconnect` | `OpenMeansActive` | `close()` of a session destroys it although its client has recovered it over a new connection meanwhile (`WsServerSessions.ts:115-119`); this takes an io set in another process, since with a local one the close of a connection is synchronous |

Met while modelling, and visible in the models, with no run of their own:

* `cancelJob` of a waiting job and `Queue.destroy` tell nobody: who waits for
  the end of the job goes on waiting, or is told of a later job of that id.
* `BinaryOutput.cancel()` during a write lets a second write begin, and `poll()`
  during a write may bring an older level (excluded by `Careful`).
* A promise of a buffered write to a port expander is resolved when the write
  starts, not when it is done (`DigitalPortExpanderOutputLogic.ts:113-125`), and
  never if a `cancel()` or `writeState()` comes first.
* An input of a `Pcf8574` with a debounce looks at its level before the poll it
  has asked for is over.
* The block time of `ImpulseOutput` blocks nothing but deferred impulses.
* Two calls of one remote method at a time may both take the first result;
  `RemoteCall.destroy()` leaves its callers waiting, and so does a `send()` that
  never settles, although the wait for the response has a timeout
  (`RemoteCall.ts:78`, `RemoteCallbacks.ts:145`).
* `IndexedEventEmitter.removeListener()` without the name of the event takes the
  wrong index out of its list (180). `WebSocketClient.removeListener()` calls it
  so: `destroy()` of one `WsClientLogic` makes the next event of another throw.

## 6. Not modelled

Parts that are left out as a whole:

* `Sender` (used by `I2cMaster` and `IoConnectionManager`): it resends until a
  timeout. Parameters given while a send is in flight are not sent if that send
  succeeds, although their caller is told it has (`Sender.ts:172`). The
  one user among the modelled parts, `I2cMaster`, gives each send an id of its
  own, so that requests never meet: a send that succeeds or fails in the end,
  as in `Pcf8574`.
* `IndexedEventEmitter` and `IndexedEvents`: lists of handlers. What the other
  models need of the two (once-handlers, iteration over a copy) is in `Queue`.
* `NetworkDriverBase` and its one user `SerialNetwork`: a response cannot arrive.
  `serializeResponse` sends `COMMANDS.request`, and `makeEventName` ignores the
  event it is given (`NetworkDriverBase.ts:149`), so a peer takes a response for
  a request and every request ends by its timeout: there is no protocol yet to
  state properties of.
* `BinaryInput`, `ImpulseInput`, `BinaryClick`: timers on one pin. Their hazards
  (debounce, block time) are those of `BinaryOutput` and `ImpulseOutput` without
  writes under way.
* `IoConnectionManager`: a wrapper of `Sender` for connections.
* Boot (`System`, `Main`, managers), `DeviceBase`, `DeviceState`: sequential
  `await`s in a fixed order. What they guarantee the parts above is an
  assumption of the models, named there (`CallsDuringInit`, `Careful`).
* HTTP routing, services, devices, the CLI, the builder of host environments,
  the io sets of platforms: pure functions, glue, or I/O. They are most of the
  repository's lines, which is why the modules map a small share of them.

Left out of what is modelled:

* Listeners of the queue that throw, and listeners of `startJob` that call back
  into the queue; ids of unnamed jobs that collide with a caller's.
* Nested dictionaries in a state (the class comment warns against them) and
  array values.
* After a job's timeout the agreement of `ConsistentState` with the server: the
  getter and the setter cannot be aborted, so a late request may still be
  executed. The run with timeouts checks the cycle and the promises only.
* Change listeners of the output drivers, and `read()` of `BinaryOutput`, which
  changes nothing; the setup of the pin of `ImpulseOutput`.
* `destroy()` of `QueueOverride` and `InitIcLogic`, `clearPin` and feedback by
  interrupts of `Pcf8574`, `ThrottleCall`.
* Clients without reconnection or without cookies; sessions of short
  connections and the storage of sessions, which nothing uses.
