--------------------- MODULE SchedulerRefinementProofs ---------------------
(***************************************************************************)
(* Proofs that, when the caller never calls removeEventFromQueue, the     *)
(* scheduler implements the SendQueue specification and loses no event.  *)
(* Both rest on InFlightHead: the entry a "call" or "wait" continuation    *)
(* holds is still the head of its queue, so removeNextEvent in the        *)
(* success and give-up handlers shifts off exactly that entry.  The       *)
(* hypothesis is needed: scheduler_lost_event shows both fail with        *)
(* removals.                                                               *)
(***************************************************************************)
EXTENDS SchedulerProofs

\* Every live continuation belongs to a started scheduler, and a pending
\* procFn call or request holds the head of its queue.
InFlightHead ==
    \A t \in Task : pending[t] > 0 =>
        /\ procFnSet
        /\ t.kind \in {"call", "wait"} =>
              queues[t.q] # <<>> /\ Head(queues[t.q]) = t.obj

\* Appending keeps the head of a non-empty sequence.
LEMMA HeadAppend ==
    ASSUME NEW S, NEW s \in Seq(S), s # <<>>, NEW x \in S
    PROVE  Append(s, x) # <<>> /\ Head(Append(s, x)) = Head(s)
BY AppendProperties, HeadTailProperties

\* A step that keeps the queues and procFnSet and only hands a queue's
\* continuation t over to u, which holds t's entry or is a timer.
LEMMA HeadHandOver ==
    ASSUME TypeOK, InFlightHead,
           NEW t \in Task, pending[t] > 0,
           NEW u \in Task, u.q = t.q,
           u.kind = "timer" \/ (t.kind \in {"call", "wait"} /\ u.obj = t.obj),
           pending' = Spawn(Consume(pending, t), u),
           UNCHANGED <<queues, procFnSet>>
    PROVE  InFlightHead'
<1> SUFFICES ASSUME NEW v \in Task, pending'[v] > 0
             PROVE  /\ procFnSet'
                    /\ v.kind \in {"call", "wait"} =>
                          queues'[v.q] # <<>> /\ Head(queues'[v.q]) = v.obj
  BY DEF InFlightHead
<1>1. CASE v = u
  <2>1. procFnSet /\ (t.kind \in {"call", "wait"} =>
                        queues[t.q] # <<>> /\ Head(queues[t.q]) = t.obj)
    BY DEF InFlightHead
  <2>2. QED
    BY <1>1, <2>1
<1>2. CASE v # u
  <2>1. pending[v] > 0
    BY <1>2 DEF Spawn, Consume, TypeOK
  <2>2. QED
    BY <2>1 DEF InFlightHead
<1>3. QED
  BY <1>1, <1>2

\* startProcessingQueues(qs), run on the queues the step leaves (qs =
\* queues'), keeps the invariant when the old chains' heads are kept.
LEMMA HeadStart ==
    ASSUME TypeOK, InFlightHead,
           NEW qs \in [QueueNames -> Seq(Events)], queues' = qs,
           \A v \in Task : pending[v] > 0 /\ v.kind \in {"call", "wait"}
                 => qs[v.q] # <<>> /\ Head(qs[v.q]) = v.obj,
           procFnSet => procFnSet',
           startProcessingQueues(qs)
    PROVE  InFlightHead'
<1> SUFFICES ASSUME NEW v \in Task, pending'[v] > 0
             PROVE  /\ procFnSet'
                    /\ v.kind \in {"call", "wait"} =>
                          queues'[v.q] # <<>> /\ Head(queues'[v.q]) = v.obj
  BY DEF InFlightHead
<1>1. CASE procFnSet'
  <2>1. pending' = [w \in Task |->
                      IF w.kind = "call" /\ w.q \in Startable(qs)
                                         /\ w.obj = peekNextEvent(qs[w.q])
                      THEN pending[w] + 1 ELSE pending[w]]
    BY <1>1 DEF startProcessingQueues
  <2>2. CASE v.kind = "call" /\ v.q \in Startable(qs)
                             /\ v.obj = peekNextEvent(qs[v.q])
    BY <1>1, <2>2 DEF Startable, peekNextEvent
  <2>3. CASE ~(v.kind = "call" /\ v.q \in Startable(qs)
                               /\ v.obj = peekNextEvent(qs[v.q]))
    <3>1. pending[v] > 0
      BY <2>1, <2>3
    <3>2. QED
      BY <1>1, <3>1
  <2>4. QED
    BY <2>2, <2>3
<1>2. CASE ~procFnSet'
  <2>1. pending' = pending /\ pending[v] > 0
    BY <1>2 DEF startProcessingQueues
  <2>2. QED
    BY <1>2, <2>1 DEF InFlightHead
<1>3. QED
  BY <1>1, <1>2

\* A chain ends with its continuation t consumed and processQueue run on
\* the queue the step leaves; the other queues are kept.
LEMMA HeadRestart ==
    ASSUME TypeOK, OneChainPerQueue, InFlightHead,
           NEW t \in Task, pending[t] > 0,
           queues' \in [QueueNames -> Seq(Events)],
           \A r \in QueueNames : r # t.q => queues'[r] = queues[r],
           procFnSet' = procFnSet,
           processQueue(t.q, Consume(pending, t))
    PROVE  InFlightHead'
<1> DEFINE q == t.q
           b == Consume(pending, t)
<1>1. q \in QueueNames /\ procFnSet
  BY TaskFields DEF InFlightHead
<1>2. \A u \in Task : u.q = q => b[u] = 0
  BY DEF OneChainPerQueue, SingleChain, Consume, TypeOK
<1>3. \A u \in Task : u.q # q => b[u] = pending[u]
  BY DEF Consume, TypeOK
<1> SUFFICES ASSUME NEW v \in Task, pending'[v] > 0
             PROVE  /\ procFnSet'
                    /\ v.kind \in {"call", "wait"} =>
                          queues'[v.q] # <<>> /\ Head(queues'[v.q]) = v.obj
  BY DEF InFlightHead
<1>4. CASE queues'[q] = <<>>
  <2>1. pending' = b
    BY <1>4 DEF processQueue
  <2>2. v.q # q /\ pending[v] > 0
    BY <2>1, <1>2, <1>3
  <2>3. QED
    BY <1>1, <2>2, TaskFields DEF InFlightHead
<1>5. CASE queues'[q] # <<>>
  <2> DEFINE c == CallTask(q, peekNextEvent(queues'[q]))
  <2>1. c \in Task
    BY <1>1, <1>5, HeadTailProperties, TaskConstructors DEF peekNextEvent
  <2>2. pending' = [b EXCEPT ![c] = @ + 1]
    BY <1>5 DEF processQueue, Spawn
  <2>3. CASE v = c
    BY <1>1, <1>5, <2>3 DEF CallTask, peekNextEvent
  <2>4. CASE v # c
    <3>1. pending'[v] = b[v]
      BY <2>2, <2>4 DEF Consume, TypeOK
    <3>2. v.q # q /\ pending[v] > 0
      BY <3>1, <1>2, <1>3
    <3>3. QED
      BY <1>1, <3>2, TaskFields DEF InFlightHead
  <2>5. QED
    BY <2>3, <2>4
<1>6. QED
  BY <1>4, <1>5

\* Without removals, every step keeps the in-flight entries at the heads.
LEMMA InFlightHeadStep ==
    ASSUME Cancellable = {}, TypeOK, OneChainPerQueue, InFlightHead,
           [Next]_vars
    PROVE  InFlightHead'
<1> USE ConstantsAssumption
<1>1. ASSUME NEW e \in Events, queueEvent(e) PROVE InFlightHead'
  <2> DEFINE q == QueueFor[e]
  <2>1. q \in QueueNames /\ queues' = [queues EXCEPT ![q] = Append(@, e)]
    BY <1>1 DEF queueEvent
  <2>2. queues' \in [QueueNames -> Seq(Events)]
    BY <2>1, AppendProperties DEF TypeOK
  <2>3. ASSUME NEW v \in Task, pending[v] > 0, v.kind \in {"call", "wait"}
        PROVE  queues'[v.q] # <<>> /\ Head(queues'[v.q]) = v.obj
    <3>1. v.q \in QueueNames /\ queues[v.q] # <<>> /\ Head(queues[v.q]) = v.obj
      BY <2>3, TaskFields DEF InFlightHead
    <3>2. CASE v.q = q
      BY <2>1, <3>1, <3>2, HeadAppend DEF TypeOK
    <3>3. CASE v.q # q
      BY <2>1, <3>1, <3>3
    <3>4. QED
      BY <3>2, <3>3
  <2>4. QED
    BY <1>1, <2>2, <2>3, HeadStart DEF queueEvent
<1>2. ASSUME NEW e \in Events, removeEventFromQueue(e) PROVE InFlightHead'
  BY <1>2 DEF removeEventFromQueue
<1>3. CASE setProcessFunction
  BY <1>3, HeadStart DEF setProcessFunction, InFlightHead, TypeOK
<1>4. ASSUME NEW t \in Task, callProcFn(t) PROVE InFlightHead'
  <2>1. WaitTask(t.q, t.obj) \in Task
    BY <1>4, TaskFields, TaskConstructors DEF callProcFn
  <2>2. QED
    BY <1>4, <2>1, HeadHandOver DEF callProcFn, WaitTask
<1>5. ASSUME NEW t \in Task, NEW err \in Errors, procFnRejectedRetry(t, err)
      PROVE InFlightHead'
  <2>1. TimerTask(t.q) \in Task
    BY TaskFields, TaskConstructors
  <2>2. QED
    BY <1>5, <2>1, HeadHandOver DEF procFnRejectedRetry, TimerTask
<1>6. ASSUME NEW t \in Task, procFnResolved(t) PROVE InFlightHead'
  <2>1. t.q \in QueueNames
    BY TaskFields
  <2>2. queues' \in [QueueNames -> Seq(Events)]
    BY <1>6, <2>1, RemoveNextEventType DEF procFnResolved, TypeOK
  <2>3. QED
    BY <1>6, <2>2, HeadRestart DEF procFnResolved
<1>7. ASSUME NEW t \in Task, NEW err \in Errors, procFnRejectedGiveUp(t, err)
      PROVE InFlightHead'
  <2>1. t.q \in QueueNames
    BY TaskFields
  <2>2. queues' \in [QueueNames -> Seq(Events)]
    BY <1>7, <2>1, RemoveNextEventType DEF procFnRejectedGiveUp, TypeOK
  <2>3. QED
    BY <1>7, <2>2, HeadRestart DEF procFnRejectedGiveUp
<1>8. ASSUME NEW t \in Task, retryTimerFires(t) PROVE InFlightHead'
  BY <1>8, HeadRestart DEF retryTimerFires, TypeOK
<1>9. CASE UNCHANGED vars
  BY <1>9 DEF vars, InFlightHead
<1>10. QED
  BY <1>1, <1>2, <1>3, <1>4, <1>5, <1>6, <1>7, <1>8, <1>9 DEF Next

\* The success and give-up handlers are a Deliver of the queue's head.
LEMMA SettleIsDeliver ==
    ASSUME TypeOK, InFlightHead,
           NEW t \in Task, t.kind = "wait", pending[t] > 0,
           NEW o \in {"resolved", "rejected"},
           queues' = [queues EXCEPT ![t.q] = removeNextEvent(@)],
           deferred' = [deferred EXCEPT ![t.obj] = o],
           UNCHANGED procFnSet
    PROVE  Abs!Deliver(t.q, o)
<1>1. procFnSet /\ queues[t.q] # <<>> /\ Head(queues[t.q]) = t.obj
  BY DEF InFlightHead
<1>2. removeNextEvent(queues[t.q]) = Tail(queues[t.q])
  BY <1>1 DEF removeNextEvent
<1>3. queues' = [queues EXCEPT ![t.q] = Tail(@)]
  BY <1>2
<1>4. QED
  BY <1>1, <1>3 DEF Abs!Deliver

\* Without removals, every scheduler step is a SendQueue step or leaves the
\* queues, the deferreds and procFnSet unchanged.
LEMMA RefinementStep ==
    ASSUME Cancellable = {}, TypeOK, InFlightHead, [Next]_vars
    PROVE  [Abs!ANext]_Abs!avars
<1>1. ASSUME NEW e \in Events, queueEvent(e) PROVE Abs!Submit(e)
  BY <1>1 DEF queueEvent, Abs!Submit
<1>2. ASSUME NEW e \in Events, removeEventFromQueue(e) PROVE FALSE
  BY <1>2 DEF removeEventFromQueue
<1>3. setProcessFunction => Abs!Start
  BY DEF setProcessFunction, Abs!Start
<1>4. ASSUME NEW t \in Task, procFnResolved(t)
      PROVE  Abs!Deliver(t.q, "resolved")
  BY <1>4, SettleIsDeliver DEF procFnResolved
<1>5. ASSUME NEW t \in Task, NEW err \in Errors, procFnRejectedGiveUp(t, err)
      PROVE  Abs!Deliver(t.q, "rejected")
  BY <1>5, SettleIsDeliver DEF procFnRejectedGiveUp
<1>6. ASSUME NEW t \in Task,
             \/ callProcFn(t)
             \/ retryTimerFires(t)
             \/ \E err \in Errors : procFnRejectedRetry(t, err)
      PROVE  UNCHANGED Abs!avars
  BY <1>6 DEF callProcFn, retryTimerFires, procFnRejectedRetry, Abs!avars
<1>7. CASE UNCHANGED vars
  BY <1>7 DEF vars, Abs!avars
<1>8. QED
  <2>1. \A t \in Task : t.q \in QueueNames
    BY TaskFields
  <2>2. QED
    BY <1>1, <1>2, <1>3, <1>4, <1>5, <1>6, <1>7, <2>1 DEF Next, Abs!ANext

\* If the caller never removes queued events, every behaviour of the
\* scheduler, with its event loop, timers and retries hidden, is a behaviour
\* of the SendQueue specification: an entry is settled only from the head
\* of its queue, exactly once, and only after setProcessFunction.
THEOREM RefinesSendQueue ==
    ASSUME Cancellable = {}
    PROVE  Spec => Abs!ASpec
<1> DEFINE RInv == TypeOK /\ OneChainPerQueue /\ InFlightHead
<1>1. Init => InFlightHead
  BY DEF Init, InFlightHead
<1>2. Spec => []RInv
  <2>1. Init => RInv
    BY <1>1, TypeInit, OneChainInvariant DEF Init, OneChainPerQueue, SingleChain,
       ActiveIffChain
  <2>2. RInv /\ [Next]_vars => RInv'
    <3> SUFFICES ASSUME RInv, [Next]_vars PROVE RInv'
      OBVIOUS
    <3>1. TypeOK'
      BY TypeStep
    <3>2. OneChainPerQueue'
      BY <3>1, OneChainStep
    <3>3. InFlightHead'
      BY InFlightHeadStep
    <3>4. QED
      BY <3>1, <3>2, <3>3
  <2>3. QED
    BY <2>1, <2>2, PTL DEF Spec
<1>3. Init => Abs!AInit
  BY DEF Init, Abs!AInit
<1>4. RInv /\ [Next]_vars => [Abs!ANext]_Abs!avars
  BY RefinementStep
<1>5. QED
  BY <1>2, <1>3, <1>4, PTL DEF Spec, Abs!ASpec

-----------------------------------------------------------------------------
(***************************************************************************)
(* No lost event.  Without removals, the queues hold exactly the events   *)
(* whose deferreds are pending, each once and in its own queue; the       *)
(* handlers shift off the head, which InFlightHead makes the entry they    *)
(* settle.                                                                 *)
(***************************************************************************)

QueuedPending ==
    /\ \A q \in QueueNames : \A i \in 1 .. Len(queues[q]) :
          QueueFor[queues[q][i]] = q /\ deferred[queues[q][i]] = "pending"
    /\ \A q \in QueueNames : \A i, j \in 1 .. Len(queues[q]) :
          i # j => queues[q][i] # queues[q][j]
    /\ \A e \in Events : deferred[e] = "pending" =>
          QueueFor[e] \in QueueNames /\ e \in SeqElems(queues[QueueFor[e]])

\* queueEvent appends an event that was in no queue.
LEMMA QueuedPendingQueue ==
    ASSUME TypeOK, QueuedPending, NEW e \in Events, queueEvent(e)
    PROVE  QueuedPending'
<1> USE ConstantsAssumption
<1> DEFINE q == QueueFor[e]
<1>1. q \in QueueNames /\ deferred[e] = "none"
      /\ queues' = [queues EXCEPT ![q] = Append(@, e)]
      /\ deferred' = [deferred EXCEPT ![e] = "pending"]
  BY DEF queueEvent
<1>2. \A r \in QueueNames : \A i \in 1 .. Len(queues[r]) : queues[r][i] # e
  BY <1>1 DEF QueuedPending
<1>3. ASSUME NEW r \in QueueNames
      PROVE  /\ Len(queues'[r]) = IF r = q THEN Len(queues[r]) + 1 ELSE Len(queues[r])
             /\ \A i \in 1 .. Len(queues'[r]) :
                   queues'[r][i] = IF r = q /\ i = Len(queues[r]) + 1
                                   THEN e ELSE queues[r][i]
  BY <1>1, AppendProperties DEF TypeOK
<1>4. QueuedPending!1'
  <2> SUFFICES ASSUME NEW r \in QueueNames, NEW i \in 1 .. Len(queues'[r])
               PROVE  QueueFor[queues'[r][i]] = r
                      /\ deferred'[queues'[r][i]] = "pending"
    BY DEF QueuedPending
  <2>1. CASE r = q /\ i = Len(queues[r]) + 1
    BY <1>1, <1>3, <2>1 DEF TypeOK
  <2>2. CASE ~(r = q /\ i = Len(queues[r]) + 1)
    <3>1. i \in 1 .. Len(queues[r]) /\ queues'[r][i] = queues[r][i]
      BY <1>3, <2>2
    <3>2. queues[r][i] # e /\ queues[r][i] \in Events
      BY <1>2, <3>1 DEF TypeOK
    <3>3. QED
      BY <1>1, <3>1, <3>2 DEF QueuedPending, TypeOK
  <2>3. QED
    BY <2>1, <2>2
<1>5. QueuedPending!2'
  <2> SUFFICES ASSUME NEW r \in QueueNames, NEW i \in 1 .. Len(queues'[r]),
                      NEW j \in 1 .. Len(queues'[r]), i # j
               PROVE  queues'[r][i] # queues'[r][j]
    BY DEF QueuedPending
  <2>1. CASE r = q
    BY <1>2, <1>3, <2>1 DEF QueuedPending
  <2>2. CASE r # q
    BY <1>3, <2>2 DEF QueuedPending
  <2>3. QED
    BY <2>1, <2>2
<1>6. QueuedPending!3'
  <2> SUFFICES ASSUME NEW x \in Events, deferred'[x] = "pending"
               PROVE  QueueFor[x] \in QueueNames
                      /\ x \in SeqElems(queues'[QueueFor[x]])
    BY DEF QueuedPending
  <2>1. CASE x = e
    <3>1. Len(queues[q]) + 1 \in 1 .. Len(queues'[q])
          /\ queues'[q][Len(queues[q]) + 1] = e
      BY <1>1, <1>3 DEF TypeOK
    <3>2. QED
      BY <1>1, <2>1, <3>1 DEF SeqElems
  <2>2. CASE x # e
    <3>1. deferred[x] = "pending"
      BY <1>1, <2>2 DEF TypeOK
    <3>2. QueueFor[x] \in QueueNames
          /\ \E i \in 1 .. Len(queues[QueueFor[x]]) : queues[QueueFor[x]][i] = x
      BY <3>1 DEF QueuedPending, SeqElems
    <3>3. QED
      BY <1>3, <3>2 DEF SeqElems
  <2>3. QED
    BY <2>1, <2>2
<1>7. QED
  BY <1>4, <1>5, <1>6 DEF QueuedPending

\* A handler that settles the head entry t.obj with outcome o and shifts
\* it off keeps the queues equal to the pending events.
LEMMA QueuedPendingSettle ==
    ASSUME TypeOK, QueuedPending, InFlightHead,
           NEW t \in Task, t.kind = "wait", pending[t] > 0,
           NEW o \in {"resolved", "rejected"},
           queues' = [queues EXCEPT ![t.q] = removeNextEvent(@)],
           deferred' = [deferred EXCEPT ![t.obj] = o]
    PROVE  QueuedPending'
<1> USE ConstantsAssumption
<1> DEFINE q == t.q
           s == queues[q]
<1>1. q \in QueueNames /\ t.obj \in Events
  BY TaskFields
<1>2. s # <<>> /\ s[1] = t.obj /\ s \in Seq(Events)
  BY <1>1 DEF InFlightHead, TypeOK
<1>3. queues'[q] = Tail(s) /\ Len(Tail(s)) = Len(s) - 1
      /\ \A i \in 1 .. Len(s) - 1 : Tail(s)[i] = s[i + 1]
  BY <1>1, <1>2, HeadTailProperties DEF removeNextEvent, TypeOK
<1>4. \A r \in QueueNames : r # q => queues'[r] = queues[r]
  BY <1>1 DEF TypeOK
<1>5. \A i \in 2 .. Len(s) : s[i] # t.obj
  BY <1>1, <1>2 DEF QueuedPending
<1>6. QueuedPending!1'
  <2> SUFFICES ASSUME NEW r \in QueueNames, NEW i \in 1 .. Len(queues'[r])
               PROVE  QueueFor[queues'[r][i]] = r
                      /\ deferred'[queues'[r][i]] = "pending"
    BY DEF QueuedPending
  <2>1. CASE r = q
    <3>0. queues'[r] = Tail(s) /\ i \in 1 .. Len(s) - 1
      BY <1>3, <2>1
    <3>1. i + 1 \in 2 .. Len(s) /\ queues'[r][i] = s[i + 1]
      <4>1. i \in Nat /\ Len(s) \in Nat /\ i + 1 \in 2 .. Len(s)
        BY <1>2, <3>0
      <4>2. Tail(s)[i] = s[i + 1]
        BY <1>3, <3>0
      <4>3. QED
        BY <3>0, <4>1, <4>2
    <3>2. s[i + 1] # t.obj /\ s[i + 1] \in Events
      BY <1>2, <1>5, <3>1
    <3>3. QueueFor[s[i + 1]] = q /\ deferred[s[i + 1]] = "pending"
      BY <1>1, <3>1 DEF QueuedPending
    <3>4. deferred'[s[i + 1]] = deferred[s[i + 1]]
      BY <3>2 DEF TypeOK
    <3>5. QED
      BY <2>1, <3>1, <3>3, <3>4
  <2>2. CASE r # q
    <3>1. queues'[r] = queues[r]
      BY <1>4, <2>2
    <3>2. queues[r][i] # t.obj
      BY <1>1, <1>2, <2>2, <3>1 DEF QueuedPending
    <3>3. QED
      BY <3>1, <3>2 DEF QueuedPending, TypeOK
  <2>3. QED
    BY <2>1, <2>2
<1>7. QueuedPending!2'
  <2> SUFFICES ASSUME NEW r \in QueueNames, NEW i \in 1 .. Len(queues'[r]),
                      NEW j \in 1 .. Len(queues'[r]), i # j
               PROVE  queues'[r][i] # queues'[r][j]
    BY DEF QueuedPending
  <2>1. CASE r = q
    <3>1. i + 1 \in 1 .. Len(s) /\ j + 1 \in 1 .. Len(s) /\ i + 1 # j + 1
          /\ queues'[r][i] = s[i + 1] /\ queues'[r][j] = s[j + 1]
      <4>1. queues'[r] = Tail(s) /\ i \in 1 .. Len(s) - 1 /\ j \in 1 .. Len(s) - 1
        BY <1>3, <2>1
      <4>2. Tail(s)[i] = s[i + 1] /\ Tail(s)[j] = s[j + 1]
        BY <1>3, <4>1
      <4>3. i + 1 \in 1 .. Len(s) /\ j + 1 \in 1 .. Len(s) /\ i + 1 # j + 1
        BY <1>2, <4>1
      <4>4. QED
        BY <4>1, <4>2, <4>3
    <3>2. s[i + 1] # s[j + 1]
      BY <1>1, <3>1 DEF QueuedPending
    <3>3. QED
      BY <3>1, <3>2
  <2>2. CASE r # q
    BY <1>4, <2>2 DEF QueuedPending
  <2>3. QED
    BY <2>1, <2>2
<1>8. QueuedPending!3'
  <2> SUFFICES ASSUME NEW x \in Events, deferred'[x] = "pending"
               PROVE  QueueFor[x] \in QueueNames
                      /\ x \in SeqElems(queues'[QueueFor[x]])
    BY DEF QueuedPending
  <2>1. x # t.obj /\ deferred[x] = "pending"
    BY <1>1 DEF TypeOK
  <2>2. QueueFor[x] \in QueueNames
        /\ \E i \in 1 .. Len(queues[QueueFor[x]]) : queues[QueueFor[x]][i] = x
    BY <2>1 DEF QueuedPending, SeqElems
  <2>3. CASE QueueFor[x] = q
    <3>1. PICK i \in 1 .. Len(s) : s[i] = x
      BY <2>2, <2>3
    <3>2. i # 1 /\ i - 1 \in 1 .. Len(s) - 1 /\ Tail(s)[i - 1] = x
      BY <1>2, <1>3, <2>1, <3>1
    <3>3. i - 1 \in 1 .. Len(queues'[q]) /\ queues'[q][i - 1] = x
      BY <1>3, <3>2
    <3>4. QED
      BY <2>2, <2>3, <3>3 DEF SeqElems
  <2>4. CASE QueueFor[x] # q
    BY <1>4, <2>2, <2>4 DEF SeqElems
  <2>5. QED
    BY <2>3, <2>4
<1>9. QED
  BY <1>6, <1>7, <1>8 DEF QueuedPending


\* Without removals, every step keeps the queues equal to the pending events.
LEMMA QueuedPendingStep ==
    ASSUME Cancellable = {}, TypeOK, InFlightHead, QueuedPending, [Next]_vars
    PROVE  QueuedPending'
<1>1. ASSUME NEW e \in Events, queueEvent(e) PROVE QueuedPending'
  BY <1>1, QueuedPendingQueue
<1>2. ASSUME NEW e \in Events, removeEventFromQueue(e) PROVE FALSE
  BY <1>2 DEF removeEventFromQueue
<1>3. ASSUME NEW t \in Task, procFnResolved(t) PROVE QueuedPending'
  BY <1>3, QueuedPendingSettle DEF procFnResolved
<1>4. ASSUME NEW t \in Task, NEW err \in Errors, procFnRejectedGiveUp(t, err)
      PROVE  QueuedPending'
  BY <1>4, QueuedPendingSettle DEF procFnRejectedGiveUp
<1>5. ASSUME NEW t \in Task,
             \/ callProcFn(t)
             \/ retryTimerFires(t)
             \/ \E err \in Errors : procFnRejectedRetry(t, err)
      PROVE  QueuedPending'
  <2>1. UNCHANGED <<queues, deferred>>
    BY <1>5 DEF callProcFn, retryTimerFires, procFnRejectedRetry
  <2>2. QED
    BY <2>1 DEF QueuedPending
<1>6. ASSUME setProcessFunction \/ UNCHANGED vars PROVE QueuedPending'
  <2>1. UNCHANGED <<queues, deferred>>
    BY <1>6 DEF setProcessFunction, vars
  <2>2. QED
    BY <2>1 DEF QueuedPending
<1>7. QED
  BY <1>1, <1>2, <1>3, <1>4, <1>5, <1>6 DEF Next

\* If the caller never removes queued events, the scheduler never loses
\* one: an event whose deferred is pending is still in its queue, so the
\* removeNextEvent of a success or give-up handler never shifts off an
\* event other than the one it settles.
THEOREM NoLostEventNoRemoval ==
    ASSUME Cancellable = {}
    PROVE  Spec => []NoLostEvent
<1> DEFINE LInv == TypeOK /\ OneChainPerQueue /\ InFlightHead /\ QueuedPending
<1>1. Init => LInv
  BY TypeInit DEF Init, OneChainPerQueue, SingleChain, ActiveIffChain,
     InFlightHead, QueuedPending
<1>2. LInv /\ [Next]_vars => LInv'
  <2> SUFFICES ASSUME LInv, [Next]_vars PROVE LInv'
    OBVIOUS
  <2>1. TypeOK'
    BY TypeStep
  <2>2. OneChainPerQueue'
    BY <2>1, OneChainStep
  <2>3. InFlightHead'
    BY InFlightHeadStep
  <2>4. QueuedPending'
    BY QueuedPendingStep
  <2>5. QED
    BY <2>1, <2>2, <2>3, <2>4
<1>3. LInv => NoLostEvent
  BY DEF QueuedPending, NoLostEvent
<1>4. QED
  BY <1>1, <1>2, <1>3, PTL DEF Spec

=============================================================================
