# Formal models of TextRP-matrix-js-sdk

This directory holds TLA+ models of the repository's code, the TLC configurations
that model-check them, and TLAPS proofs about them. `PROJECT.json` lists the
components, runs, mutants, the map from definitions to source lines, findings,
hazards and theorems.

## 1. The system and its parts

The repository holds a slice of the Matrix JavaScript SDK:

| Part | Source | Kind of code |
|------|--------|--------------|
| MatrixScheduler | `src/src/scheduler.ts` | concurrent event-send queues with retries |
| GroupCall engine | only its tests: `src/spec/unit/webrtc/groupCall.spec.ts`, and spec.md §3-§8 | state machine: lifecycle, tie-break, incoming calls, mute, push-to-talk, screenshare |
| GroupCallStats | only its tests: `src/spec/unit/webrtc/stats/groupCallStats.spec.ts` | a set of collectors with one interval timer |
| E2EKeyResponder | `src/spec/test-utils/E2EKeyResponder.ts` | a test key server: key maps and a `/keys/query` handler |
| RustBackupManager | `src/src/rust-crypto/rust-backup.ts` | stubs returning constants |
| SecureKeyBackup | `src/src/crypto-api/keybackup.ts` | interface declarations |
| versions.js | `src/versions.js` | a static list of documentation versions |

**MatrixScheduler** is the only part with concurrency in this repository's
code. A client calls `queueEvent(event)` to send an event. The queue algorithm
(`QUEUE_MESSAGES`) puts room messages and events related to another event into
the `"message"` queue, and every other event into no queue at all. Each
non-empty queue has one asynchronous *processQueue chain*, which works as follows:

1. It peeks the head entry.
2. In the next microtask it calls the process function `procFn` (installed by `setProcessFunction`).
3. On success, it shifts the head off, resolves the entry's deferred and goes on.
4. On failure, it asks the retry algorithm (`RETRY_BACKOFF_RATELIMIT`), which either gives up or sets a timer.
   - On give-up, it shifts the head off, rejects the deferred and goes on.
   - When the timer fires, processQueue runs again.

`removeEventFromQueue(event)` splices an entry out at any time.

### State, operations and hard behaviours (scheduler)

- **State:**
  - `queues`: name → list of entries, each holding an event, a deferred and an attempt count;
  - `activeQueues`;
  - `procFn`.
- **Operations:** `queueEvent`, `removeEventFromQueue`, `setProcessFunction`, `getQueueForEvent` (read-only), and the internal steps of the chain.
- **Hard behaviours:**
  - The chain reads the head before an `await`, and `removeNextEvent` shifts off *whatever heads the queue afterwards*.
  - The caller may remove entries at any point between those steps.
  - Two callers start chains: `queueEvent` and `setProcessFunction`.
  - Timers fire on a queue that may have changed since they were set.
  - Rate-limit retries are not capped.

## 2. Modules

### `Scheduler.tla` — MatrixScheduler

**Event loop.** The JavaScript event loop is modelled by a bag `pending` of
continuations (`Task`):

- `"call"` is the microtask `Promise.resolve().then(() => procFn(obj.event))`;
- `"wait"` is a `procFn` promise in flight;
- `"timer"` is a pending `setTimeout(processQueue)`.

Each action is one task run to completion. The caller's API calls interleave
between any two of them.

**Data abstraction.**

- An entry is represented by its event, a model value. Each event is queued at most once, so `attempts` and `deferred` are kept per event.
- A MatrixError is a record of the four fields the retry algorithm reads.
- `procFnSet` records whether `procFn` is non-null.

**Actions**, with the lines of `scheduler.ts` each one models:

| Action | Code |
|--------|------|
| `queueEvent(e)` | 186-204, including the trailing `startProcessingQueues` |
| `setProcessFunction` | 175-178 |
| `removeEventFromQueue(e)` | 151-166: the first entry with the event's id is spliced out, and the deferred is left pending |
| `callProcFn(t)` | the microtask at 243-244 |
| `procFnResolved(t)` | 245-251: `removeNextEvent`, resolve, `processQueue` |
| `procFnRejectedGiveUp(t, err)` | 252-263 |
| `procFnRejectedRetry(t, err)` | 252-266: `setTimeout` |
| `retryTimerFires(t)` | 265, then `processQueue` 223-243 |

`processQueue` and `startProcessingQueues` are operators that the actions
include. They act on the queue state the action leaves behind, as the code
calls them last.

**History variables.** `removed`, `enqueued` and `settled` record history for the properties only.

**Bounds.** `MaxAttempts` bounds the failures the environment inflicts on one
event. It is an assumption about the server, not a bound in the code; see the
resource_bound hazard.

### `SendQueue.tla` — what the scheduler promises

An abstract specification of the scheduler's contract, without the event
loop. Each named queue is a FIFO of events; `Submit(e)` (queueEvent) appends a
fresh event and makes its deferred pending; `Cancel(e)` (removeEventFromQueue)
splices it out and leaves the deferred pending; `Start` (setProcessFunction)
installs the process function; `Deliver(q, o)` (the success and give-up
handlers) settles the head of a non-empty queue with outcome `o` and shifts
it off, only once started. `AFairSpec` adds weak fairness of delivery on
each queue.

`Scheduler.tla` instantiates it as `Abs == INSTANCE SendQueue WITH started
<- procFnSet`; the other names map to the variables and constants of the same
name. `callProcFn`, `procFnRejectedRetry` and `retryTimerFires` map to
stuttering steps. `ImplementsSendQueue == Abs!AFairSpec` is checked as a
PROPERTY.

**MC module.** `MCScheduler.tla` instantiates the model with:

- events `m1` and `m2` (room messages) and `r1` (a redaction), all mapped by `QUEUE_MESSAGES` to `"message"`;
- one error for each branch of `RETRY_BACKOFF_RATELIMIT`: 403, CORS rejected, M_TOO_LARGE, rate limit with a wait, rate limit without a wait, and 502.

## 3. Runs

| Run | cfg | Properties | Result |
|-----|-----|------------|--------|
| scheduler_safety | MCScheduler.cfg | TypeOK, OneChainPerQueue, FIFOSettlement, SendsOnlyPending | pass, 517,439 states, about 1 min |
| scheduler_liveness | MCSchedulerLive.cfg | NoLostEvent, EventuallySettled (under FairSpec) | pass |
| scheduler_lost_event | MCSchedulerLost.cfg | NoLostEvent | violation (finding) |
| scheduler_removed_sent | MCSchedulerRemoved.cfg | RemovedNotSent | violation (finding) |
| scheduler_refinement | MCSchedulerRefine.cfg | ImplementsSendQueue (under FairSpec) | pass, 37,952 states |
| scheduler_retry_cap | MCSchedulerRetries.cfg | RetriesBounded | violation (finding) |

### Properties

- **TypeOK.** Every variable stays in its set of values; in particular each queued entry's `attempts` is a number. `queueEvent` pushing an entry without `attempts: 0` (line 198) leaves it undefined and breaks it.
- **OneChainPerQueue.** At most one continuation is pending per queue, and the queue is in `activeQueues` exactly when one is. Without this, two entries of a queue would be sent concurrently.
- **FIFOSettlement.** In each queue, deferreds settle in the order their events were queued, across retries, give-ups and removals.
- **SendsOnlyPending** (action property). Every `procFn` call is for an entry whose deferred is still pending: once a promise is resolved or rejected, retries, timers and removals never make the scheduler send its event again. A dropped shift after success breaks it.
- **NoLostEvent.** An event whose deferred is pending is still queued, in flight, or was removed by the caller.
- **ImplementsSendQueue.** Without removals, the scheduler refines SendQueue: every step is a Submit, Start, Deliver of the head of its queue, or a stutter, and every non-empty queue is served. It fails with removals: the lost-event trace below is not a SendQueue behaviour, since the success handler shifts off an entry other than the one it settles.
- **RetriesBounded.** No event's procFn call fails more than five times, as the retry algorithm's documentation says (four retries, then give up).
- **EventuallySettled.** Once a process function is installed, every queued event is eventually resolved or rejected.

### Bounds

Three events in one queue are enough for the following cases:

- a removal of the head, of the middle entry, and of an entry whose retry timer is pending;
- a failure, a retry and a success on different entries in the same run.

`MaxAttempts = 6` lets the backoff reach `attempts > 4` and give up. Every
action fires in the safety run.

The liveness run uses two events and no removals. Removals are excluded because,
by design, a removed event never settles (issue 496 in the code).

### Fairness

`FairSpec` assumes weak fairness of each continuation:

- a queued microtask runs;
- a due timer fires;
- a `procFn` request eventually resolves or rejects.

The JavaScript event loop guarantees the first two. The third is the contract of
`processFn`. Caller operations are not assumed to happen.

### Findings

1. **NoLostEvent fails (a code bug).** The trace has five steps:
   1. queue `m1` and `m2`;
   2. install `procFn`;
   3. remove `m1` while its call is pending;
   4. the `procFn` request for `m1` succeeds;
   5. `removeNextEvent` shifts off `m2`.

   `m2` is never sent and its promise never settles. The give-up path (line 260) has the same flaw.
2. **RemovedNotSent fails.** An event removed during the microtask between the peek and the `procFn` call is still sent, although `removeEventFromQueue` returned true.
3. **RetriesBounded fails.** With one event and a server that answers `M_LIMIT_EXCEEDED` with `retry_after_ms > 0`, the sixth failure is still retried: the rate-limit branch (line 84) returns the wait before the `attempts > 4` check. A rate-limited event blocks its queue for as long as the server keeps limiting it.

## 4. Proofs (`SchedulerProofs.tla`, `SchedulerRefinementProofs.tla`, `SchedulerFIFOProofs.tla`)

Both theorems hold for every value of the constants that satisfies `ConstantsAssumption`.

- **`TypeCorrect`: `Spec => []TypeOK`.**
  - `TypeInit` and `TypeStep` prove it, with one step per action and, under each action, one step per primed variable.
  - Lemmas give the types of `removeElement`, `removeNextEvent`, the task constructors and `processQueue`.
- **`OneChainInvariant`: `Spec => []OneChainPerQueue`.**
  - `OneChainPerQueue` is inductive relative to `TypeOK`.
  - The step proof assumes `TypeOK /\ TypeOK' /\ OneChainPerQueue /\ [Next]_vars` and uses `TypeCorrect` to discharge the two type facts.
  - Three lemmas carry the argument:
    - `ChainRestart`: the chain ends by consuming its one continuation and spawning at most one new one, or by deactivating the queue;
    - `ChainHandOver`: `callProcFn` and `procFnRejectedRetry` swap one continuation for another;
    - `ChainStart`: `startProcessingQueues` spawns one call only for queues that had no chain and were inactive.

`SchedulerRefinementProofs.tla` proves two theorems under the hypothesis
`Cancellable = {}` (the caller removes nothing):

- **`RefinesSendQueue`: `Spec => Abs!ASpec`.** The invariant needed is
  `InFlightHead`: every live continuation implies `procFnSet`, and every
  call or wait task of a queue holds the event at its head. It is what makes
  `removeNextEvent` shift off exactly the entry the handler settles
  (`SettleIsDeliver`), so that each success or give-up is a `Deliver`.
  `InFlightHead` is not inductive alone: a chain restart needs
  `OneChainPerQueue` to know the consumed task was the queue's only one.
  Lemmas `HeadAppend`, `HeadHandOver`, `HeadStart` and `HeadRestart` cover
  appending, handing a continuation over, starting and restarting a chain.
- **`NoLostEventNoRemoval`: `Spec => []NoLostEvent`.** The strengthening
  `QueuedPending` says the queues hold exactly the pending events, each once
  and in the queue `QueueFor` names. Its step (`QueuedPendingStep`) rests on
  `QueuedPendingQueue` (queueEvent appends a fresh event) and
  `QueuedPendingSettle` (a handler settles and shifts off the head, which
  `InFlightHead` makes its own entry, and distinctness keeps the others
  pending).

With removals both fail, as TLC shows (findings 1 and 2).

`SchedulerFIFOProofs.tla` proves two theorems with removals allowed, for
every value of the constants:

- **`FIFOSettlementInvariant`: `Spec => []FIFOSettlement`.** The rank of an
  event is its `Position` in `enqueued[q]`. The strengthening `FIFOInv` has
  three parts:
  - `EnqueuedOnce`: `enqueued[q]` has no repetitions and only events with a
    deferred, so `queueEvent` appends a fresh event, which gets the highest rank;
  - `QueueOrder`: the queue and the settled list are each in rank order, and
    every settled event ranks below every queued one (`QueueOK`);
  - `WorkingOrder`: the entry a call or wait continuation works on ranks above
    everything settled and no higher than anything queued (`WorkOK`).

  `WorkingOrder` is what the induction needs: after a removal the handler's
  `removeNextEvent` may shift off a different event, but the entry it settles
  still ranks above everything settled before, and, because a queue in rank
  order can hold that entry only at its head, below everything left.
  Pure sequence lemmas carry each operation: `HeadWork` (processQueue peeks
  the head), `AppendOK` (queueEvent), `RemoveOK` (removeEventFromQueue, via
  `RemoveElementIndex`), `SettleOK` (the success and give-up handlers), with
  `PositionOf`, `PositionAppend` and `PositionRange` about `Position` on a
  sequence without repetitions. `StartWork`, `HandOverWork` and `RestartWork`
  lift them to the chain's steps; `RestartWork` needs `OneChainPerQueue`.
- **`SendsOnlyPendingHolds`: `Spec => SendsOnlyPending`.** With the extra
  invariant `SettledRecorded` (each queued event belongs to its queue, and each
  settled deferred is in its queue's settled list), `WorkingPending` shows the
  entry a continuation works on is not settled: it ranks above every settled
  event, so it is not one of them.

Only TLC checks the following:

- the liveness properties EventuallySettled and the fairness part of ImplementsSendQueue: liveness and ENABLED are beyond TLAPS;
- NoLostEvent, RemovedNotSent and RetriesBounded where they fail: they are findings, not theorems.

## 5. Not modelled

- **GroupCall engine and GroupCallStats.** Their code (`webrtc/groupCall.ts`, `webrtc/stats/`) is not in this repository; only their unit tests and spec.md are. A model built from those would check the prose, not the code.
- **E2EKeyResponder** is a test utility filled before each query and answering it in one synchronous step; a property of it would restate its assignments.
- **RustBackupManager** has stubs without state.
- **keybackup.ts** has interface declarations only.
- **versions.js** is static data.
- **getQueueForEvent** is a read-only copy.
- **Logging (`debuglog`)** is left out.

## 6. Plan

1. **Refinement with removals**: prove which SendQueue behaviours remain once `Cancel` of a queued, not in-flight, event is allowed.
2. **Removal-aware contract**: a SendQueue variant in which Cancel of the in-flight head is allowed, to state exactly which behaviours the scheduler adds with removals.
3. If the GroupCall code is added to the repository, model its lifecycle and tie-break and refine them against an abstract call set.
