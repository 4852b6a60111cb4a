-------------------------- MODULE SchedulerProofs --------------------------
(***************************************************************************)
(* Proofs about the Scheduler model, for every value of the constants     *)
(* allowed by ConstantsAssumption.                                         *)
(***************************************************************************)
EXTENDS Scheduler, SequenceTheorems, TLAPS

\* Splicing one element out of a sequence of events leaves a sequence of
\* events (utils.removeElement as removeEventFromQueue uses it).
LEMMA RemoveElementType ==
    ASSUME NEW S, NEW s \in Seq(S), NEW i \in 1 .. Len(s)
    PROVE  removeElement(s, i) \in Seq(S)
BY SubSeqProperties, ConcatProperties DEF removeElement

\* queue.shift() leaves a sequence of events.
LEMMA RemoveNextEventType ==
    ASSUME NEW S, NEW s \in Seq(S)
    PROVE  removeNextEvent(s) \in Seq(S)
BY HeadTailProperties, EmptySeq DEF removeNextEvent

LEMMA TaskConstructors ==
    ASSUME NEW q \in QueueNames
    PROVE  /\ \A e \in Events : CallTask(q, e) \in Task
           /\ \A e \in Events : WaitTask(q, e) \in Task
           /\ TimerTask(q) \in Task
BY DEF CallTask, WaitTask, TimerTask, Task

\* A continuation names its queue, and a call or a wait names its entry.
LEMMA TaskFields ==
    ASSUME NEW t \in Task
    PROVE  /\ t.q \in QueueNames
           /\ t.kind \in {"call", "wait"} => t.obj \in Events
BY DEF Task

\* processQueue keeps the bag of continuations and the active list typed,
\* whichever state the calling step leaves the queue in.
LEMMA ProcessQueueType ==
    ASSUME NEW q \in QueueNames, NEW b \in [Task -> Nat],
           activeQueues \subseteq QueueNames,
           queues' \in [QueueNames -> Seq(Events)],
           processQueue(q, b)
    PROVE  pending' \in [Task -> Nat] /\ activeQueues' \subseteq QueueNames
<1>1. CASE queues'[q] = <<>>
  BY <1>1 DEF processQueue
<1>2. CASE queues'[q] # <<>>
  <2>1. peekNextEvent(queues'[q]) \in Events
    BY <1>2, HeadTailProperties DEF peekNextEvent
  <2>2. CallTask(q, peekNextEvent(queues'[q])) \in Task
    BY <2>1, TaskConstructors
  <2>3. QED
    BY <1>2, <2>2 DEF processQueue, Spawn
<1>3. QED
  BY <1>1, <1>2

\* Initially the type invariant holds.
LEMMA TypeInit == Init => TypeOK
<1> SUFFICES ASSUME Init PROVE TypeOK
  OBVIOUS
<1>1. <<>> \in Seq(Events)
  OBVIOUS
<1>2. queues \in [QueueNames -> Seq(Events)] /\ enqueued \in [QueueNames -> Seq(Events)]
      /\ settled \in [QueueNames -> Seq(Events)]
  BY <1>1 DEF Init
<1>3. pending \in [Task -> Nat] /\ attempts \in [Events -> Nat]
  BY DEF Init
<1>4. deferred \in [Events -> DeferredStates]
  BY DEF Init, DeferredStates
<1>5. QED
  BY <1>2, <1>3, <1>4 DEF Init, TypeOK

\* Every step preserves the type invariant.
LEMMA TypeStep == TypeOK /\ [Next]_vars => TypeOK'
<1> SUFFICES ASSUME TypeOK, [Next]_vars PROVE TypeOK'
  OBVIOUS
<1> USE ConstantsAssumption
<1>1. ASSUME NEW e \in Events, queueEvent(e) PROVE TypeOK'
  <2> DEFINE q == QueueFor[e]
  <2>1. q \in QueueNames
    BY <1>1 DEF queueEvent
  <2>2. queues' \in [QueueNames -> Seq(Events)]
    BY <1>1, <2>1, AppendProperties DEF queueEvent, TypeOK
  <2>3. enqueued' \in [QueueNames -> Seq(Events)]
    BY <1>1, <2>1, AppendProperties DEF queueEvent, TypeOK
  <2>4. pending' \in [Task -> Nat] /\ activeQueues' \subseteq QueueNames
    <3>1. CASE procFnSet
      <4>1. activeQueues' = activeQueues \cup Startable(queues')
        BY <1>1, <3>1 DEF queueEvent, startProcessingQueues
      <4>2. pending' = [u \in Task |->
                          IF u.kind = "call" /\ u.q \in Startable(queues')
                                             /\ u.obj = peekNextEvent(queues'[u.q])
                          THEN pending[u] + 1 ELSE pending[u]]
        BY <1>1, <3>1 DEF queueEvent, startProcessingQueues
      <4>3. QED
        BY <4>1, <4>2 DEF Startable, TypeOK
    <3>2. CASE ~procFnSet
      BY <1>1, <3>2 DEF queueEvent, startProcessingQueues, TypeOK
    <3>3. QED
      BY <3>1, <3>2
  <2>5. QED
    BY <1>1, <2>2, <2>3, <2>4 DEF queueEvent, TypeOK, DeferredStates
<1>2. ASSUME NEW e \in Events, removeEventFromQueue(e) PROVE TypeOK'
  <2> DEFINE q == QueueFor[e]
  <2>1. PICK i \in 1 .. Len(queues[q]) :
              queues' = [queues EXCEPT ![q] = removeElement(@, i)]
    BY <1>2 DEF removeEventFromQueue
  <2>2. q \in QueueNames
    BY <1>2 DEF removeEventFromQueue
  <2>3. removeElement(queues[q], i) \in Seq(Events)
    BY <2>2, RemoveElementType DEF TypeOK
  <2>4. QED
    BY <1>2, <2>1, <2>2, <2>3 DEF removeEventFromQueue, TypeOK
<1>3. CASE setProcessFunction
  BY <1>3 DEF setProcessFunction, startProcessingQueues, Startable, TypeOK
<1>4. ASSUME NEW t \in Task, callProcFn(t) PROVE TypeOK'
  <2>1. WaitTask(t.q, t.obj) \in Task
    BY <1>4, TaskFields, TaskConstructors DEF callProcFn
  <2>2. QED
    BY <1>4, <2>1 DEF callProcFn, Spawn, Consume, TypeOK
<1>5. ASSUME NEW t \in Task, procFnResolved(t) PROVE TypeOK'
  <2>1. t.q \in QueueNames /\ t.obj \in Events
    BY <1>5, TaskFields DEF procFnResolved
  <2>2. queues' \in [QueueNames -> Seq(Events)]
    BY <1>5, <2>1, RemoveNextEventType DEF procFnResolved, TypeOK
  <2>3. Consume(pending, t) \in [Task -> Nat]
    BY <1>5 DEF procFnResolved, Consume, TypeOK
  <2>5. pending' \in [Task -> Nat] /\ activeQueues' \subseteq QueueNames
    BY <1>5, <2>1, <2>2, <2>3, ProcessQueueType DEF procFnResolved, TypeOK
  <2>6. settled' \in [QueueNames -> Seq(Events)]
    BY <1>5, <2>1, AppendProperties DEF procFnResolved, TypeOK
  <2>7. deferred' \in [Events -> DeferredStates]
    BY <1>5, <2>1 DEF procFnResolved, TypeOK, DeferredStates
  <2>8. QED
    BY <1>5, <2>2, <2>5, <2>6, <2>7 DEF procFnResolved, TypeOK
<1>6. ASSUME NEW t \in Task, retryTimerFires(t) PROVE TypeOK'
  <2>1. t.q \in QueueNames
    BY TaskFields
  <2>2. Consume(pending, t) \in [Task -> Nat]
    BY <1>6 DEF retryTimerFires, Consume, TypeOK
  <2>3. pending' \in [Task -> Nat] /\ activeQueues' \subseteq QueueNames
    BY <1>6, <2>1, <2>2, ProcessQueueType DEF retryTimerFires, TypeOK
  <2>4. QED
    BY <1>6, <2>3 DEF retryTimerFires, TypeOK
<1>7. ASSUME NEW t \in Task, NEW err \in Errors, procFnRejectedGiveUp(t, err)
      PROVE TypeOK'
  <2>1. t.q \in QueueNames /\ t.obj \in Events
    BY <1>7, TaskFields DEF procFnRejectedGiveUp
  <2>2. queues' \in [QueueNames -> Seq(Events)]
    BY <1>7, <2>1, RemoveNextEventType DEF procFnRejectedGiveUp, TypeOK
  <2>3. Consume(pending, t) \in [Task -> Nat]
    BY <1>7 DEF procFnRejectedGiveUp, Consume, TypeOK
  <2>5. pending' \in [Task -> Nat] /\ activeQueues' \subseteq QueueNames
    BY <1>7, <2>1, <2>2, <2>3, ProcessQueueType DEF procFnRejectedGiveUp, TypeOK
  <2>6. attempts' \in [Events -> Nat]
    BY <1>7, <2>1 DEF procFnRejectedGiveUp, TypeOK
  <2>7. settled' \in [QueueNames -> Seq(Events)]
    BY <1>7, <2>1, AppendProperties DEF procFnRejectedGiveUp, TypeOK
  <2>8. deferred' \in [Events -> DeferredStates]
    BY <1>7, <2>1 DEF procFnRejectedGiveUp, TypeOK, DeferredStates
  <2>9. QED
    BY <1>7, <2>2, <2>5, <2>6, <2>7, <2>8 DEF procFnRejectedGiveUp, TypeOK
<1>8. ASSUME NEW t \in Task, NEW err \in Errors, procFnRejectedRetry(t, err)
      PROVE TypeOK'
  <2>1. TimerTask(t.q) \in Task
    BY TaskFields, TaskConstructors
  <2>2. attempts' \in [Events -> Nat]
    BY <1>8, TaskFields DEF procFnRejectedRetry, TypeOK
  <2>3. pending' \in [Task -> Nat]
    BY <1>8, <2>1 DEF procFnRejectedRetry, Spawn, Consume, TypeOK
  <2>4. QED
    BY <1>8, <2>2, <2>3 DEF procFnRejectedRetry, TypeOK
<1>9. CASE UNCHANGED vars
  BY <1>9 DEF vars, TypeOK
<1>10. QED
  BY <1>1, <1>2, <1>3, <1>4, <1>5, <1>6, <1>7, <1>8, <1>9 DEF Next

\* The type invariant holds in every reachable state.
THEOREM TypeCorrect == Spec => []TypeOK
BY TypeInit, TypeStep, PTL DEF Spec

-----------------------------------------------------------------------------
(***************************************************************************)
(* One processQueue chain per active queue.  OneChainPerQueue is inductive *)
(* together with TypeOK; the three lemmas below are the three ways a step  *)
(* touches the chains: a chain ends and processQueue restarts or stops it, *)
(* a chain hands over from one continuation to the next, and               *)
(* startProcessingQueues starts chains on idle queues.                     *)
(***************************************************************************)

IInv == TypeOK /\ OneChainPerQueue

\* A chain's continuation is consumed and processQueue runs on the queue.
LEMMA ChainRestart ==
    ASSUME TypeOK, OneChainPerQueue,
           NEW t \in Task, pending[t] > 0,
           queues' \in [QueueNames -> Seq(Events)],
           processQueue(t.q, Consume(pending, t))
    PROVE  OneChainPerQueue'
<1> DEFINE q == t.q
           b == Consume(pending, t)
<1>1. q \in QueueNames
  BY TaskFields
<1>2. \A u \in Task : u.q = q => b[u] = 0
  BY DEF OneChainPerQueue, SingleChain, Consume, TypeOK
<1>3. \A u \in Task : u.q # q => b[u] = pending[u]
  BY DEF Consume, TypeOK
<1>4. q \in activeQueues
  BY <1>1 DEF OneChainPerQueue, ActiveIffChain
<1>5. CASE queues'[q] = <<>>
  <2>1. pending' = b /\ activeQueues' = activeQueues \ {q}
    BY <1>5 DEF processQueue
  <2>2. \A u \in Task : pending'[u] = IF u.q = q THEN 0 ELSE pending[u]
    BY <2>1, <1>2, <1>3
  <2>3. SingleChain'
    BY <2>2 DEF OneChainPerQueue, SingleChain
  <2>4. ActiveIffChain'
    <3> SUFFICES ASSUME NEW r \in QueueNames
                 PROVE  r \in activeQueues' <=> \E u \in Task : u.q = r /\ pending'[u] > 0
      BY DEF ActiveIffChain
    <3>1. CASE r = q
      BY <3>1, <2>1, <2>2
    <3>2. CASE r # q
      BY <3>2, <2>1, <2>2 DEF OneChainPerQueue, ActiveIffChain
    <3>3. QED
      BY <3>1, <3>2
  <2>5. QED
    BY <2>3, <2>4 DEF OneChainPerQueue
<1>6. CASE queues'[q] # <<>>
  <2> DEFINE c == CallTask(q, peekNextEvent(queues'[q]))
  <2>1. c \in Task /\ c.q = q
    BY <1>1, <1>6, HeadTailProperties, TaskConstructors DEF peekNextEvent, CallTask
  <2>2. pending' = [b EXCEPT ![c] = @ + 1] /\ activeQueues' = activeQueues
    BY <1>6 DEF processQueue, Spawn
  <2>3. pending'[c] = 1 /\ \A u \in Task : u # c => pending'[u] = b[u]
    BY <2>1, <2>2, <1>2 DEF Consume, TypeOK
  <2>4. \A u \in Task : pending'[u] = IF u = c THEN 1
                                      ELSE IF u.q = q THEN 0 ELSE pending[u]
    BY <2>3, <1>2, <1>3
  <2>5. SingleChain'
    BY <2>1, <2>4 DEF OneChainPerQueue, SingleChain
  <2>6. ActiveIffChain'
    <3> SUFFICES ASSUME NEW r \in QueueNames
                 PROVE  r \in activeQueues' <=> \E u \in Task : u.q = r /\ pending'[u] > 0
      BY DEF ActiveIffChain
    <3>1. CASE r = q
      BY <3>1, <1>4, <2>1, <2>2, <2>4
    <3>2. CASE r # q
      BY <3>2, <2>1, <2>2, <2>4 DEF OneChainPerQueue, ActiveIffChain
    <3>3. QED
      BY <3>1, <3>2
  <2>7. QED
    BY <2>5, <2>6 DEF OneChainPerQueue
<1>7. QED
  BY <1>5, <1>6

\* A chain's continuation is replaced by the next one of the same queue.
LEMMA ChainHandOver ==
    ASSUME TypeOK, OneChainPerQueue,
           NEW t \in Task, pending[t] > 0,
           NEW u \in Task, u.q = t.q,
           pending' = Spawn(Consume(pending, t), u),
           activeQueues' = activeQueues
    PROVE  OneChainPerQueue'
<1> DEFINE b == Consume(pending, t)
<1>1. \A v \in Task : v.q = t.q => b[v] = 0
  BY DEF OneChainPerQueue, SingleChain, Consume, TypeOK
<1>2. \A v \in Task : v.q # t.q => b[v] = pending[v]
  BY DEF Consume, TypeOK
<1>3. pending'[u] = 1 /\ \A v \in Task : v # u => pending'[v] = b[v]
  BY <1>1 DEF Spawn, Consume, TypeOK
<1>4. SingleChain'
  BY <1>1, <1>2, <1>3 DEF OneChainPerQueue, SingleChain
<1>5. ActiveIffChain'
  BY <1>1, <1>2, <1>3, TaskFields DEF OneChainPerQueue, ActiveIffChain
<1>6. QED
  BY <1>4, <1>5 DEF OneChainPerQueue

\* startProcessingQueues gives each idle, non-empty queue one new chain.
LEMMA ChainStart ==
    ASSUME TypeOK, OneChainPerQueue,
           NEW qs \in [QueueNames -> Seq(Events)],
           startProcessingQueues(qs)
    PROVE  OneChainPerQueue'
<1>1. CASE ~procFnSet'
  BY <1>1 DEF startProcessingQueues, OneChainPerQueue, SingleChain, ActiveIffChain
<1>2. CASE procFnSet'
  <2> DEFINE St == Startable(qs)
             Starts(u) == u.kind = "call" /\ u.q \in St /\ u.obj = peekNextEvent(qs[u.q])
  <2>1. activeQueues' = activeQueues \cup St
        /\ pending' = [u \in Task |-> IF Starts(u) THEN pending[u] + 1 ELSE pending[u]]
    BY <1>2 DEF startProcessingQueues
  <2>2. \A u \in Task : u.q \in St => pending[u] = 0
    BY DEF Startable, OneChainPerQueue, ActiveIffChain, TypeOK
  <2>3. ASSUME NEW r \in St
        PROVE  /\ CallTask(r, peekNextEvent(qs[r])) \in Task
               /\ Starts(CallTask(r, peekNextEvent(qs[r])))
    <3>1. qs[r] # <<>> /\ r \in QueueNames
      BY DEF Startable
    <3>2. peekNextEvent(qs[r]) \in Events
      BY <3>1, HeadTailProperties DEF peekNextEvent
    <3>3. QED
      BY <3>1, <3>2, TaskConstructors DEF CallTask
  <2>4. \A u, v \in Task : Starts(u) /\ Starts(v) /\ u.q = v.q => u = v
    BY DEF Task
  <2>5. SingleChain'
    BY <2>1, <2>2, <2>4 DEF OneChainPerQueue, SingleChain, TypeOK
  <2>6. ActiveIffChain'
    <3> SUFFICES ASSUME NEW r \in QueueNames
                 PROVE  r \in activeQueues' <=> \E u \in Task : u.q = r /\ pending'[u] > 0
      BY DEF ActiveIffChain
    <3>1. CASE r \in St
      <4> DEFINE c == CallTask(r, peekNextEvent(qs[r]))
      <4>1. r \in activeQueues'
        BY <3>1, <2>1
      <4>2. c \in Task /\ c.q = r /\ pending'[c] > 0
        BY <3>1, <2>1, <2>3 DEF TypeOK, CallTask
      <4>3. QED
        BY <4>1, <4>2
    <3>2. CASE r \notin St
      BY <3>2, <2>1 DEF OneChainPerQueue, ActiveIffChain, TypeOK
    <3>3. QED
      BY <3>1, <3>2
  <2>7. QED
    BY <2>5, <2>6 DEF OneChainPerQueue
<1>3. QED
  BY <1>1, <1>2

\* Every step keeps one chain per active queue, given the type invariant
\* before and after the step.
LEMMA OneChainStep ==
    TypeOK /\ TypeOK' /\ OneChainPerQueue /\ [Next]_vars => OneChainPerQueue'
<1> SUFFICES ASSUME TypeOK, TypeOK', OneChainPerQueue, [Next]_vars
             PROVE  OneChainPerQueue'
  OBVIOUS
<1>1. ASSUME NEW e \in Events, queueEvent(e) PROVE OneChainPerQueue'
  BY <1>1, ChainStart DEF queueEvent, TypeOK
<1>2. ASSUME NEW e \in Events, removeEventFromQueue(e) PROVE OneChainPerQueue'
  BY <1>2 DEF removeEventFromQueue, OneChainPerQueue, SingleChain, ActiveIffChain
<1>3. CASE setProcessFunction
  BY <1>3, ChainStart DEF setProcessFunction, TypeOK
<1>4. ASSUME NEW t \in Task, callProcFn(t) PROVE OneChainPerQueue'
  <2>1. WaitTask(t.q, t.obj) \in Task /\ WaitTask(t.q, t.obj).q = t.q
    BY <1>4, TaskFields, TaskConstructors DEF callProcFn, WaitTask
  <2>2. QED
    BY <1>4, <2>1, ChainHandOver DEF callProcFn
<1>5. ASSUME NEW t \in Task, procFnResolved(t) PROVE OneChainPerQueue'
  BY <1>5, ChainRestart DEF procFnResolved, TypeOK
<1>6. ASSUME NEW t \in Task, retryTimerFires(t) PROVE OneChainPerQueue'
  BY <1>6, ChainRestart DEF retryTimerFires, TypeOK
<1>7. ASSUME NEW t \in Task, NEW err \in Errors, procFnRejectedGiveUp(t, err)
      PROVE OneChainPerQueue'
  BY <1>7, ChainRestart DEF procFnRejectedGiveUp, TypeOK
<1>8. ASSUME NEW t \in Task, NEW err \in Errors, procFnRejectedRetry(t, err)
      PROVE OneChainPerQueue'
  <2>1. TimerTask(t.q) \in Task /\ TimerTask(t.q).q = t.q
    BY TaskFields, TaskConstructors DEF TimerTask
  <2>2. QED
    BY <1>8, <2>1, ChainHandOver DEF procFnRejectedRetry
<1>9. CASE UNCHANGED vars
  BY <1>9 DEF vars, OneChainPerQueue, SingleChain, ActiveIffChain
<1>10. QED
  BY <1>1, <1>2, <1>3, <1>4, <1>5, <1>6, <1>7, <1>8, <1>9 DEF Next

\* No queue is ever drained by two processQueue chains at once, and a queue
\* is in activeQueues exactly while its chain is alive, for every set of
\* events, queues, errors and cancellable events.
THEOREM OneChainInvariant == Spec => []OneChainPerQueue
<1>1. Init => OneChainPerQueue
  BY DEF Init, OneChainPerQueue, SingleChain, ActiveIffChain
<1>2. TypeOK /\ TypeOK' /\ OneChainPerQueue /\ [Next]_vars => OneChainPerQueue'
  BY OneChainStep
<1>3. QED
  BY <1>1, <1>2, TypeCorrect, PTL DEF Spec

=============================================================================
