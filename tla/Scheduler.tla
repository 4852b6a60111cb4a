----------------------------- MODULE Scheduler -----------------------------
(***************************************************************************)
(* MatrixScheduler (src/src/scheduler.ts): named FIFO queues of events,    *)
(* each drained by one asynchronous "processQueue" chain that sends the    *)
(* head through the process function, retries it after a timer or gives   *)
(* up according to the retry algorithm, and settles the event's deferred.  *)
(*                                                                         *)
(* The JavaScript event loop is modelled by the pending continuations of   *)
(* those chains, kept in the bag `pending`: a "call" is the microtask that *)
(* will invoke procFn on an entry, a "wait" is a procFn promise in flight, *)
(* a "timer" is a setTimeout(processQueue) not yet fired.  Every action    *)
(* is one macrotask or microtask, run to completion; the caller's API      *)
(* calls (queueEvent, removeEventFromQueue, setProcessFunction) may run    *)
(* between any two of them.                                                *)
(***************************************************************************)
EXTENDS Naturals, Integers, Sequences, FiniteSets

CONSTANTS
    Events,       \* the MatrixEvents the caller may queue (model values)
    QueueNames,   \* the queue names the queue algorithm can return
    NoQueue,      \* the queue algorithm's null: "send concurrently"
    NoEvent,      \* the entry field of a timer continuation
    QueueFor,     \* queueAlgorithm applied to each event
    Errors,       \* the MatrixErrors procFn may reject with
    Cancellable,  \* the events the caller may pass to removeEventFromQueue
    MaxAttempts   \* bound on the failures the environment inflicts per event

ErrorRecord == [httpStatus : Nat, cors : {"rejected", "none"},
                name : {"M_TOO_LARGE", "M_LIMIT_EXCEEDED", "M_UNKNOWN"},
                retryAfterMs : Nat]

ASSUME ConstantsAssumption ==
    /\ NoQueue \notin QueueNames
    /\ NoEvent \notin Events
    /\ QueueFor \in [Events -> QueueNames \cup {NoQueue}]
    /\ Errors \subseteq ErrorRecord
    /\ Cancellable \subseteq Events
    /\ MaxAttempts \in Nat

VARIABLES
    queues,        \* this.queues: queue name -> sequence of entries
    activeQueues,  \* this.activeQueues, a list without duplicates
    procFnSet,     \* this.procFn !== null
    attempts,      \* entry.attempts, per entry (one entry per event)
    deferred,      \* state of entry.defer: "none" before queueEvent
    pending,       \* bag of continuations: Task -> multiplicity
    \* history, kept for the properties only
    removed,       \* events removeEventFromQueue returned true for
    enqueued,      \* per queue, the events in the order they were queued
    settled        \* per queue, the events in the order they were settled

vars == <<queues, activeQueues, procFnSet, attempts, deferred, pending,
          removed, enqueued, settled>>

DeferredStates == {"none", "pending", "resolved", "rejected"}

Task == [q : QueueNames, kind : {"call", "wait"}, obj : Events]
        \cup [q : QueueNames, kind : {"timer"}, obj : {NoEvent}]

CallTask(q, e)  == [q |-> q, kind |-> "call", obj |-> e]
WaitTask(q, e)  == [q |-> q, kind |-> "wait", obj |-> e]
TimerTask(q)    == [q |-> q, kind |-> "timer", obj |-> NoEvent]

\* Adding and consuming one continuation of the bag.
Spawn(b, t)   == [b EXCEPT ![t] = @ + 1]
Consume(b, t) == [b EXCEPT ![t] = @ - 1]

SeqElems(s) == {s[i] : i \in 1 .. Len(s)}

-----------------------------------------------------------------------------
(***************************************************************************)
(* The retry and queue algorithms.                                         *)
(***************************************************************************)

\* RETRY_BACKOFF_RATELIMIT: client errors, a rejected CORS request and an
\* oversized event are never retried.
Fatal(err) ==
    \/ err.httpStatus \in {400, 403, 401}
    \/ err.cors = "rejected"
    \/ err.name = "M_TOO_LARGE"

RateLimitWait(err) ==
    IF err.name = "M_LIMIT_EXCEEDED" THEN err.retryAfterMs ELSE 0

RETRY_BACKOFF_RATELIMIT(n, err) ==
    IF Fatal(err) THEN -1
    ELSE IF RateLimitWait(err) > 0 THEN RateLimitWait(err)
    ELSE IF n > 4 THEN -1
    ELSE 1000 * 2^n

\* QUEUE_MESSAGES: room messages and events associated with another event
\* go to the "message" queue, everything else is sent concurrently.
QUEUE_MESSAGES(type, hasAssociation) ==
    IF type = "m.room.message" \/ hasAssociation THEN "message" ELSE NoQueue

-----------------------------------------------------------------------------
(***************************************************************************)
(* processQueue(q), run on the state the calling step leaves the queue in *)
(* (queues'): an empty queue is marked inactive and the chain stops,       *)
(* otherwise the head entry is peeked and procFn is called on it in a      *)
(* microtask.  `b` is the bag once the caller's own continuation is gone.  *)
(***************************************************************************)

\* Mutant: the head is taken from the wrong end of the queue.
peekLastEvent(s) == s[Len(s)]

\* peekNextEvent: queue[0].
peekNextEvent(s) == Head(s)

processQueue(q, b) ==
    IF queues'[q] = <<>>
    THEN /\ activeQueues' = activeQueues \ {q}
         /\ pending' = b
    ELSE /\ activeQueues' = activeQueues
         /\ pending' = Spawn(b, CallTask(q, peekNextEvent(queues'[q])))

\* startProcessingQueues: every inactive, non-empty queue is marked active
\* and gets a processQueue chain of its own.
\* Mutant: queues already being processed are started again.
StartableAll(qs) == {q \in QueueNames : qs[q] # <<>>}

Startable(qs) == {q \in QueueNames : q \notin activeQueues /\ qs[q] # <<>>}

startProcessingQueues(qs) ==
    IF procFnSet'
    THEN /\ activeQueues' = activeQueues \cup Startable(qs)
         /\ pending' = [t \in Task |->
                          IF t.kind = "call" /\ t.q \in Startable(qs)
                                             /\ t.obj = peekNextEvent(qs[t.q])
                          THEN pending[t] + 1 ELSE pending[t]]
    ELSE UNCHANGED <<activeQueues, pending>>

\* Mutant: the sent entry is left in the queue (the shift is dropped).
removeNextEventKept(s) == s

\* Mutant: the entry is taken off the tail (pop) instead of the head.
removeLastEvent(s) == IF s = <<>> THEN s ELSE SubSeq(s, 1, Len(s) - 1)

\* removeNextEvent: queue.shift(), which leaves an empty queue empty.
removeNextEvent(s) == IF s = <<>> THEN s ELSE Tail(s)

-----------------------------------------------------------------------------
Init ==
    /\ queues = [q \in QueueNames |-> <<>>]
    /\ activeQueues = {}
    /\ procFnSet = FALSE
    /\ attempts = [e \in Events |-> 0]
    /\ deferred = [e \in Events |-> "none"]
    /\ pending = [t \in Task |-> 0]
    /\ removed = {}
    /\ enqueued = [q \in QueueNames |-> <<>>]
    /\ settled = [q \in QueueNames |-> <<>>]

\* Mutant: the new entry is queued but the queues are not started.
queueEventNoStart(e) ==
    LET q == QueueFor[e] IN
    /\ deferred[e] = "none"
    /\ q # NoQueue
    /\ queues' = [queues EXCEPT ![q] = Append(@, e)]
    /\ deferred' = [deferred EXCEPT ![e] = "pending"]
    /\ attempts' = [attempts EXCEPT ![e] = 0]
    /\ enqueued' = [enqueued EXCEPT ![q] = Append(@, e)]
    /\ UNCHANGED <<procFnSet, activeQueues, pending, removed, settled>>

\* Mutant: the entry is pushed without its attempts field, so obj.attempts
\* is undefined (and attempts += 1 later gives NaN); the model value
\* NoEvent stands for undefined.
queueEventNoAttempts(e) ==
    LET q == QueueFor[e] IN
    /\ deferred[e] = "none"
    /\ q # NoQueue
    /\ queues' = [queues EXCEPT ![q] = Append(@, e)]
    /\ deferred' = [deferred EXCEPT ![e] = "pending"]
    /\ attempts' = [attempts EXCEPT ![e] = NoEvent]
    /\ enqueued' = [enqueued EXCEPT ![q] = Append(@, e)]
    /\ UNCHANGED procFnSet
    /\ startProcessingQueues(queues')
    /\ UNCHANGED <<removed, settled>>

\* queueEvent(e): an event the queue algorithm maps to null is not queued
\* (the early return); otherwise a fresh entry with attempts 0 is appended
\* to its queue, and the queues are started.
queueEvent(e) ==
    LET q == QueueFor[e] IN
    /\ deferred[e] = "none"
    /\ q # NoQueue
    /\ queues' = [queues EXCEPT ![q] = Append(@, e)]
    /\ deferred' = [deferred EXCEPT ![e] = "pending"]
    /\ attempts' = [attempts EXCEPT ![e] = 0]
    /\ enqueued' = [enqueued EXCEPT ![q] = Append(@, e)]
    /\ UNCHANGED procFnSet
    /\ startProcessingQueues(queues')
    /\ UNCHANGED <<removed, settled>>

\* setProcessFunction(fn): installs the process function and starts every
\* inactive queue that has entries.
setProcessFunction ==
    /\ procFnSet' = TRUE
    /\ startProcessingQueues(queues)
    /\ UNCHANGED <<queues, attempts, deferred, removed, enqueued, settled>>

\* utils.removeElement: splices out the first element the test matches.
removeElement(s, i) == SubSeq(s, 1, i - 1) \o SubSeq(s, i + 1, Len(s))

\* removeEventFromQueue(e): deletes the first entry with e's id from its queue,
\* whether or not a processQueue chain is working on it; the deferred is
\* left unsettled.  An event not in its queue returns false, changing
\* nothing (left out as a guard).
removeEventFromQueue(e) ==
    LET q == QueueFor[e] IN
    /\ e \in Cancellable
    /\ q # NoQueue
    /\ \E i \in 1 .. Len(queues[q]) :
          /\ queues[q][i] = e
          /\ \A j \in 1 .. i - 1 : queues[q][j] # e
          /\ queues' = [queues EXCEPT ![q] = removeElement(@, i)]
    /\ removed' = removed \cup {e}
    /\ UNCHANGED <<activeQueues, procFnSet, attempts, deferred, pending,
                   enqueued, settled>>

\* The microtask after Promise.resolve(): procFn(obj.event) is called on
\* the entry peeked earlier, whether or not it is still queued.
callProcFn(t) ==
    /\ t.kind = "call"
    /\ pending[t] > 0
    /\ pending' = Spawn(Consume(pending, t), WaitTask(t.q, t.obj))
    /\ UNCHANGED <<queues, activeQueues, procFnSet, attempts, deferred,
                   removed, enqueued, settled>>

\* Mutant: the chain stops after a success instead of processing on.
procFnResolvedStops(t) ==
    /\ t.kind = "wait"
    /\ pending[t] > 0
    /\ queues' = [queues EXCEPT ![t.q] = removeNextEvent(@)]
    /\ deferred' = [deferred EXCEPT ![t.obj] = "resolved"]
    /\ settled' = [settled EXCEPT ![t.q] = Append(@, t.obj)]
    /\ pending' = Consume(pending, t)
    /\ UNCHANGED <<activeQueues, procFnSet, attempts, removed, enqueued>>

\* procFn resolved: the queue's current head is shifted off, the entry's
\* deferred is resolved and the chain goes on with processQueue.
procFnResolved(t) ==
    /\ t.kind = "wait"
    /\ pending[t] > 0
    /\ queues' = [queues EXCEPT ![t.q] = removeNextEvent(@)]
    /\ deferred' = [deferred EXCEPT ![t.obj] = "resolved"]
    /\ settled' = [settled EXCEPT ![t.q] = Append(@, t.obj)]
    /\ processQueue(t.q, Consume(pending, t))
    /\ UNCHANGED <<procFnSet, attempts, removed, enqueued>>

\* procFn rejected with err and the retry algorithm gives up (-1): the
\* queue's current head is shifted off, the deferred rejected, and the
\* chain goes on with the next entry.
procFnRejectedGiveUp(t, err) ==
    /\ t.kind = "wait"
    /\ pending[t] > 0
    /\ attempts[t.obj] < MaxAttempts
    /\ RETRY_BACKOFF_RATELIMIT(attempts[t.obj] + 1, err) = -1
    /\ attempts' = [attempts EXCEPT ![t.obj] = @ + 1]
    /\ queues' = [queues EXCEPT ![t.q] = removeNextEvent(@)]
    /\ deferred' = [deferred EXCEPT ![t.obj] = "rejected"]
    /\ settled' = [settled EXCEPT ![t.q] = Append(@, t.obj)]
    /\ processQueue(t.q, Consume(pending, t))
    /\ UNCHANGED <<procFnSet, removed, enqueued>>

\* procFn rejected with err and the retry algorithm returns a wait time:
\* setTimeout(processQueue, waitTimeMs, queueName).
procFnRejectedRetry(t, err) ==
    /\ t.kind = "wait"
    /\ pending[t] > 0
    /\ attempts[t.obj] < MaxAttempts
    /\ RETRY_BACKOFF_RATELIMIT(attempts[t.obj] + 1, err) # -1
    /\ attempts' = [attempts EXCEPT ![t.obj] = @ + 1]
    /\ pending' = Spawn(Consume(pending, t), TimerTask(t.q))
    /\ UNCHANGED <<queues, activeQueues, procFnSet, deferred, removed,
                   enqueued, settled>>

\* The retry timer fires: processQueue(queueName) on the queue as it is now.
retryTimerFires(t) ==
    /\ t.kind = "timer"
    /\ pending[t] > 0
    /\ UNCHANGED queues
    /\ processQueue(t.q, Consume(pending, t))
    /\ UNCHANGED <<procFnSet, attempts, deferred, removed, enqueued,
                   settled>>

Next ==
    \/ \E e \in Events : queueEvent(e) \/ removeEventFromQueue(e)
    \/ setProcessFunction
    \/ \E t \in Task :
          \/ callProcFn(t)
          \/ procFnResolved(t)
          \/ retryTimerFires(t)
          \/ \E err \in Errors : procFnRejectedGiveUp(t, err)
                                 \/ procFnRejectedRetry(t, err)

\* The event loop runs every microtask and every due timer, and every
\* request procFn makes eventually settles; the caller's calls are not
\* assumed to happen.
Fairness ==
    \A t \in Task :
        /\ WF_vars(callProcFn(t))
        /\ WF_vars(retryTimerFires(t))
        /\ WF_vars(procFnResolved(t)
                   \/ \E err \in Errors : procFnRejectedGiveUp(t, err)
                                          \/ procFnRejectedRetry(t, err))

Spec == Init /\ [][Next]_vars

FairSpec == Spec /\ Fairness

-----------------------------------------------------------------------------
(***************************************************************************)
(* Properties                                                              *)
(***************************************************************************)

TypeOK ==
    /\ queues \in [QueueNames -> Seq(Events)]
    /\ activeQueues \subseteq QueueNames
    /\ procFnSet \in BOOLEAN
    /\ attempts \in [Events -> Nat]
    /\ deferred \in [Events -> DeferredStates]
    /\ pending \in [Task -> Nat]
    /\ removed \subseteq Events
    /\ enqueued \in [QueueNames -> Seq(Events)]
    /\ settled \in [QueueNames -> Seq(Events)]

\* startProcessingQueues, processQueue and the retry timer together keep
\* exactly one processQueue chain per active queue and none for an
\* inactive one: two chains on one queue would send two entries at once
\* and each shift the other's entry off.
SingleChain ==
    \A t1, t2 \in Task :
        (t1.q = t2.q /\ pending[t1] > 0 /\ pending[t2] > 0)
            => (t1 = t2 /\ pending[t1] = 1)

ActiveIffChain ==
    \A q \in QueueNames :
        q \in activeQueues <=> \E t \in Task : t.q = q /\ pending[t] > 0

OneChainPerQueue == SingleChain /\ ActiveIffChain

\* Within one queue, deferreds settle in the order their events were
\* queued, through retries, give-ups and removals (the FIFO service the
\* queueAlgorithm documentation promises).
Position(s, e) == CHOOSE i \in 1 .. Len(s) : s[i] = e

FIFOSettlement ==
    \A q \in QueueNames :
        \A i, j \in 1 .. Len(settled[q]) :
            i < j => Position(enqueued[q], settled[q][i])
                        < Position(enqueued[q], settled[q][j])

\* An entry in flight: a continuation of its queue's chain holds it.
InFlight(e) ==
    \E t \in Task : t.obj = e /\ t.kind \in {"call", "wait"} /\ pending[t] > 0

\* Every queued event whose deferred is still pending is in its queue, is
\* held by its queue's chain, or was removed by the caller: no event is
\* dropped from a queue without being settled (removeNextEvent assumes the
\* entry it shifts off is the one procFn was called on).
NoLostEvent ==
    \A e \in Events :
        deferred[e] = "pending" =>
            \/ e \in SeqElems(queues[QueueFor[e]])
            \/ InFlight(e)
            \/ e \in removed

\* RETRY_BACKOFF_RATELIMIT's documentation: events are retried up to 4
\* times and then given up, so no event's procFn call fails more than five
\* times (the first try and four retries).
RetriesBounded ==
    \A e \in Events : attempts[e] <= 5

\* removeEventFromQueue returning true means the event will not be sent:
\* no procFn call is still scheduled for a removed event.
RemovedNotSent ==
    \A e \in removed :
        QueueFor[e] \in QueueNames => pending[CallTask(QueueFor[e], e)] = 0

\* procFn is only ever called on an entry whose deferred is still pending:
\* once an event's promise has been resolved or rejected the scheduler
\* never sends it again, through retries, timers and removals.
SendsOnlyPending ==
    [][\A t \in Task : callProcFn(t) => deferred[t.obj] = "pending"]_vars

\* Once the process function is installed, every queued event is eventually
\* resolved or rejected.
EventuallySettled ==
    \A e \in Events :
        (deferred[e] = "pending" /\ procFnSet) ~> deferred[e] \in {"resolved", "rejected"}

-----------------------------------------------------------------------------
(***************************************************************************)
(* Refinement: the scheduler, its event loop hidden, is a SendQueue.  The  *)
(* abstract queues and deferreds are the scheduler's own; "started" is     *)
(* procFn !== null.                                                        *)
(***************************************************************************)
Abs == INSTANCE SendQueue WITH started <- procFnSet

\* The scheduler delivers only the head of a queue (the success and give-up
\* handlers shift off exactly the entry procFn was called on), only once a
\* process function is installed, and, under a fair event loop, serves every
\* non-empty queue until it is empty.
ImplementsSendQueue == Abs!AFairSpec

=============================================================================
