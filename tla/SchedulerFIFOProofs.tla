------------------------- MODULE SchedulerFIFOProofs -------------------------
(***************************************************************************)
(* FIFO settlement.  Within one queue, deferreds settle in the order their *)
(* events were queued, with removals at any time, retries and give-ups.   *)
(* The rank of an event is its position in enqueued[q]; the proof keeps    *)
(* the queue, the settled list and the entry the chain is working on      *)
(* ordered by rank relative to each other.                                 *)
(***************************************************************************)
EXTENDS SchedulerProofs

\* No event occurs twice in s.
Distinct(s) == \A i, j \in 1 .. Len(s) : i # j => s[i] # s[j]

\* l lists events of the queueing order s in increasing position.
OrderedIn(s, l) ==
    \A i, j \in 1 .. Len(l) : i < j => Position(s, l[i]) < Position(s, l[j])

\* A queue l and its settled list st against its queueing order s: both
\* hold queued events in order, and all settled events come before all
\* events still queued.
QueueOK(s, l, st) ==
    /\ SeqElems(l) \cup SeqElems(st) \subseteq SeqElems(s)
    /\ OrderedIn(s, l)
    /\ OrderedIn(s, st)
    /\ \A x \in SeqElems(st), y \in SeqElems(l) : Position(s, x) < Position(s, y)

\* The entry w a chain works on comes after everything settled and no later
\* than anything still queued: it was the head when it was peeked.
WorkOK(s, l, st, w) ==
    /\ w \in SeqElems(s)
    /\ \A x \in SeqElems(st) : Position(s, x) < Position(s, w)
    /\ \A y \in SeqElems(l) : y = w \/ Position(s, w) < Position(s, y)

\* A continuation of a chain working on an entry: the microtask before
\* procFn, or the procFn request.
Working(t) == t.kind \in {"call", "wait"} /\ pending[t] > 0

\* Each event is queued at most once, and only once it has a deferred.
EnqueuedOnce ==
    \A q \in QueueNames :
        /\ Distinct(enqueued[q])
        /\ \A i \in 1 .. Len(enqueued[q]) : deferred[enqueued[q][i]] # "none"

QueueOrder ==
    \A q \in QueueNames : QueueOK(enqueued[q], queues[q], settled[q])

WorkingOrder ==
    \A t \in Task : Working(t) =>
        WorkOK(enqueued[t.q], queues[t.q], settled[t.q], t.obj)

FIFOInv == EnqueuedOnce /\ QueueOrder /\ WorkingOrder

\* Every queued event belongs to the queue the queue algorithm names, and
\* every settled deferred is in its queue's settled list.
SettledRecorded ==
    /\ \A q \in QueueNames : \A i \in 1 .. Len(enqueued[q]) :
          QueueFor[enqueued[q][i]] = q
    /\ \A e \in Events : deferred[e] \in {"resolved", "rejected"} =>
          QueueFor[e] \in QueueNames /\ e \in SeqElems(settled[QueueFor[e]])

-----------------------------------------------------------------------------
(***************************************************************************)
(* Positions in a sequence without repetitions.                           *)
(***************************************************************************)

\* The position of the i-th element is i.
LEMMA PositionOf ==
    ASSUME NEW s \in Seq(Events), Distinct(s), NEW i \in 1 .. Len(s)
    PROVE  Position(s, s[i]) = i
<1>1. Position(s, s[i]) \in 1 .. Len(s) /\ s[Position(s, s[i])] = s[i]
  BY DEF Position
<1>2. QED
  BY <1>1 DEF Distinct

\* Appending an event not yet in s keeps s without repetitions, keeps the
\* positions of the old elements and puts the new one last.
LEMMA PositionAppend ==
    ASSUME NEW s \in Seq(Events), Distinct(s),
           NEW e \in Events, e \notin SeqElems(s)
    PROVE  /\ Distinct(Append(s, e))
           /\ \A x \in SeqElems(s) : Position(Append(s, e), x) = Position(s, x)
           /\ \A x \in SeqElems(s) : Position(s, x) \in 1 .. Len(s)
           /\ Position(Append(s, e), e) = Len(s) + 1
           /\ SeqElems(Append(s, e)) = SeqElems(s) \cup {e}
<1> DEFINE a == Append(s, e)
<1>1. a \in Seq(Events) /\ Len(a) = Len(s) + 1 /\ a[Len(s) + 1] = e
      /\ \A k \in 1 .. Len(s) : a[k] = s[k]
  BY AppendProperties
<1>2. Distinct(a)
  BY <1>1 DEF Distinct, SeqElems
<1>3. ASSUME NEW x \in SeqElems(s)
      PROVE  Position(a, x) = Position(s, x) /\ Position(s, x) \in 1 .. Len(s)
  <2>1. PICK k \in 1 .. Len(s) : s[k] = x
    BY <1>3 DEF SeqElems
  <2>2. Position(s, x) = k
    BY <2>1, PositionOf
  <2>3. k \in 1 .. Len(a) /\ a[k] = x
    BY <1>1, <2>1
  <2>4. Position(a, a[k]) = k
    BY <1>1, <1>2, <2>3, PositionOf
  <2>5. QED
    BY <2>2, <2>3, <2>4
<1>4. Position(a, e) = Len(s) + 1
  <2>1. Len(s) + 1 \in 1 .. Len(a)
    BY <1>1
  <2>2. Position(a, a[Len(s) + 1]) = Len(s) + 1
    BY <1>1, <1>2, <2>1, PositionOf
  <2>3. QED
    BY <1>1, <2>2
<1>5. SeqElems(a) = SeqElems(s) \cup {e}
  BY <1>1 DEF SeqElems
<1>6. QED
  BY <1>2, <1>3, <1>4, <1>5

\* An element of s has a position in s.
LEMMA PositionRange ==
    ASSUME NEW s \in Seq(Events), NEW x \in SeqElems(s)
    PROVE  Position(s, x) \in 1 .. Len(s) /\ s[Position(s, x)] = x
BY DEF SeqElems, Position

-----------------------------------------------------------------------------
(***************************************************************************)
(* How the queue operations keep QueueOK and WorkOK.                       *)
(***************************************************************************)

\* processQueue peeks the head of an ordered queue: it comes after every
\* settled event and no later than every queued one.
LEMMA HeadWork ==
    ASSUME NEW s \in Seq(Events), NEW l \in Seq(Events), NEW st \in Seq(Events),
           QueueOK(s, l, st), l # <<>>
    PROVE  WorkOK(s, l, st, Head(l))
<1>1. Len(l) >= 1 /\ Head(l) = l[1] /\ Head(l) \in SeqElems(l)
  BY EmptySeq DEF SeqElems
<1>2. Head(l) \in SeqElems(s)
  BY <1>1 DEF QueueOK
<1>3. \A x \in SeqElems(st) : Position(s, x) < Position(s, Head(l))
  BY <1>1 DEF QueueOK
<1>4. ASSUME NEW y \in SeqElems(l), y # Head(l)
      PROVE  Position(s, Head(l)) < Position(s, y)
  <2>1. PICK k \in 1 .. Len(l) : l[k] = y
    BY <1>4 DEF SeqElems
  <2>2. k # 1 /\ 1 < k
    BY <1>1, <1>4, <2>1
  <2>3. QED
    BY <1>1, <2>1, <2>2 DEF QueueOK, OrderedIn
<1>5. QED
  BY <1>2, <1>3, <1>4 DEF WorkOK

\* queueEvent appends a fresh event to the queueing order and to the queue.
LEMMA AppendOK ==
    ASSUME NEW s \in Seq(Events), NEW l \in Seq(Events), NEW st \in Seq(Events),
           Distinct(s), NEW e \in Events, e \notin SeqElems(s),
           QueueOK(s, l, st)
    PROVE  /\ QueueOK(Append(s, e), Append(l, e), st)
           /\ \A w : WorkOK(s, l, st, w) => WorkOK(Append(s, e), Append(l, e), st, w)
<1> DEFINE a == Append(s, e)
           b == Append(l, e)
           P(x) == Position(s, x)
           PA(x) == Position(a, x)
<1>1. /\ \A x \in SeqElems(s) : PA(x) = P(x) /\ P(x) \in 1 .. Len(s)
      /\ PA(e) = Len(s) + 1
      /\ SeqElems(a) = SeqElems(s) \cup {e}
  BY PositionAppend
<1>2. b \in Seq(Events) /\ Len(b) = Len(l) + 1 /\ b[Len(l) + 1] = e
      /\ \A k \in 1 .. Len(l) : b[k] = l[k]
  BY AppendProperties
<1>3. SeqElems(b) = SeqElems(l) \cup {e}
  BY <1>2 DEF SeqElems
<1>4. SeqElems(l) \subseteq SeqElems(s) /\ SeqElems(st) \subseteq SeqElems(s)
  BY DEF QueueOK
<1>5. \A x \in SeqElems(s) : PA(x) < PA(e)
  BY <1>1
<1>6. OrderedIn(a, b)
  <2> SUFFICES ASSUME NEW i \in 1 .. Len(b), NEW j \in 1 .. Len(b), i < j
               PROVE  PA(b[i]) < PA(b[j])
    BY DEF OrderedIn
  <2>0. \A k \in 1 .. Len(l) : l[k] \in SeqElems(s)
    <3>1. \A k \in 1 .. Len(l) : l[k] \in SeqElems(l)
      BY DEF SeqElems
    <3>2. QED
      BY <3>1, <1>4
  <2>1. i \in 1 .. Len(l) /\ b[i] = l[i] /\ l[i] \in SeqElems(s)
    BY <1>2, <2>0
  <2>2. CASE j = Len(l) + 1
    BY <1>2, <1>5, <2>1, <2>2
  <2>3. CASE j # Len(l) + 1
    <3>1. j \in 1 .. Len(l) /\ b[j] = l[j] /\ l[j] \in SeqElems(s)
      BY <1>2, <2>0, <2>3
    <3>2. P(l[i]) < P(l[j])
      BY <2>1, <3>1 DEF QueueOK, OrderedIn
    <3>3. QED
      BY <1>1, <2>1, <3>1, <3>2
  <2>4. QED
    BY <2>2, <2>3
<1>7. OrderedIn(a, st)
  <2> SUFFICES ASSUME NEW i \in 1 .. Len(st), NEW j \in 1 .. Len(st), i < j
               PROVE  PA(st[i]) < PA(st[j])
    BY DEF OrderedIn
  <2>1. st[i] \in SeqElems(s) /\ st[j] \in SeqElems(s)
    <3>1. st[i] \in SeqElems(st) /\ st[j] \in SeqElems(st)
      BY DEF SeqElems
    <3>2. QED
      BY <3>1, <1>4
  <2>2. P(st[i]) < P(st[j])
    BY DEF QueueOK, OrderedIn
  <2>3. QED
    BY <1>1, <2>1, <2>2
<1>8. \A x \in SeqElems(st), y \in SeqElems(b) : PA(x) < PA(y)
  BY <1>1, <1>3, <1>4, <1>5 DEF QueueOK
<1>9. QueueOK(a, b, st)
  BY <1>1, <1>3, <1>4, <1>6, <1>7, <1>8 DEF QueueOK
<1>10. ASSUME NEW w, WorkOK(s, l, st, w) PROVE WorkOK(a, b, st, w)
  <2>1. w \in SeqElems(s)
    BY <1>10 DEF WorkOK
  <2>2. \A x \in SeqElems(st) : PA(x) < PA(w)
    BY <1>1, <1>4, <1>10, <2>1 DEF WorkOK
  <2>3. \A y \in SeqElems(b) : y = w \/ PA(w) < PA(y)
    BY <1>1, <1>3, <1>4, <1>5, <1>10, <2>1 DEF WorkOK
  <2>4. QED
    BY <1>1, <2>1, <2>2, <2>3 DEF WorkOK
<1>11. QED
  BY <1>9, <1>10

\* utils.removeElement splices out the i-th element: the ones before it
\* keep their index, the ones after it move down by one.
LEMMA RemoveElementIndex ==
    ASSUME NEW sq \in Seq(Events), NEW n \in 1 .. Len(sq)
    PROVE  /\ removeElement(sq, n) \in Seq(Events)
           /\ Len(removeElement(sq, n)) = Len(sq) - 1
           /\ \A k \in 1 .. Len(sq) - 1 :
                 removeElement(sq, n)[k] = IF k < n THEN sq[k] ELSE sq[k + 1]
<1> DEFINE u == SubSeq(sq, 1, n - 1)
           v == SubSeq(sq, n + 1, Len(sq))
<1> HIDE DEF u, v
<1>1. u \in Seq(Events) /\ Len(u) = n - 1 /\ \A k \in 1 .. n - 1 : u[k] = sq[k]
  BY SubSeqProperties DEF u
<1>2. v \in Seq(Events) /\ Len(v) = Len(sq) - n
      /\ \A k \in 1 .. Len(sq) - n : v[k] = sq[n + k]
  BY SubSeqProperties DEF v
<1>3. /\ u \o v \in Seq(Events)
      /\ Len(u \o v) = Len(u) + Len(v)
      /\ \A k \in 1 .. Len(u) + Len(v) :
            (u \o v)[k] = IF k <= Len(u) THEN u[k] ELSE v[k - Len(u)]
  BY <1>1, <1>2, ConcatProperties
<1>4. removeElement(sq, n) = u \o v /\ Len(u) + Len(v) = Len(sq) - 1
  <2>1. removeElement(sq, n) = u \o v
    BY DEF removeElement, u, v
  <2>2. Len(u) + Len(v) = Len(sq) - 1
    <3>1. Len(u) = n - 1 /\ Len(v) = Len(sq) - n /\ n \in Nat /\ Len(sq) \in Nat
      BY <1>1, <1>2
    <3>2. QED
      BY <3>1
  <2>3. QED
    BY <2>1, <2>2
<1>5. ASSUME NEW k \in 1 .. Len(sq) - 1
      PROVE  (u \o v)[k] = IF k < n THEN sq[k] ELSE sq[k + 1]
  <2>1. CASE k < n
    BY <1>1, <1>3, <1>4, <2>1
  <2>2. CASE ~(k < n)
    <3>1. ~(k <= Len(u)) /\ k - Len(u) \in 1 .. Len(sq) - n /\ n + (k - Len(u)) = k + 1
      BY <1>1, <2>2
    <3>2. QED
      BY <1>2, <1>3, <1>4, <3>1
  <2>3. QED
    BY <2>1, <2>2
<1>6. QED
  BY <1>3, <1>4, <1>5

\* removeEventFromQueue splices an entry out of the queue: the order of
\* what is left, and the chain's place in it, are kept.
LEMMA RemoveOK ==
    ASSUME NEW s \in Seq(Events), NEW l \in Seq(Events), NEW st \in Seq(Events),
           QueueOK(s, l, st), NEW i \in 1 .. Len(l)
    PROVE  /\ QueueOK(s, removeElement(l, i), st)
           /\ \A w : WorkOK(s, l, st, w) => WorkOK(s, removeElement(l, i), st, w)
<1> DEFINE r == removeElement(l, i)
           f(k) == IF k < i THEN k ELSE k + 1
<1>1. r \in Seq(Events) /\ Len(r) = Len(l) - 1
      /\ \A k \in 1 .. Len(r) : f(k) \in 1 .. Len(l) /\ r[k] = l[f(k)]
  <2>1. /\ r \in Seq(Events) /\ Len(r) = Len(l) - 1
        /\ \A k \in 1 .. Len(l) - 1 : r[k] = IF k < i THEN l[k] ELSE l[k + 1]
    BY RemoveElementIndex
  <2>2. QED
    BY <2>1
<1>2. \A k, m \in 1 .. Len(r) : k < m => f(k) < f(m)
  BY <1>1
<1>3. SeqElems(r) \subseteq SeqElems(l)
  <2> SUFFICES ASSUME NEW k \in 1 .. Len(r) PROVE r[k] \in SeqElems(l)
    BY DEF SeqElems
  <2>1. f(k) \in 1 .. Len(l) /\ r[k] = l[f(k)]
    BY <1>1
  <2>2. QED
    BY <2>1 DEF SeqElems
<1>4. OrderedIn(s, r)
  <2> SUFFICES ASSUME NEW k \in 1 .. Len(r), NEW m \in 1 .. Len(r), k < m
               PROVE  Position(s, r[k]) < Position(s, r[m])
    BY DEF OrderedIn
  <2>1. f(k) \in 1 .. Len(l) /\ f(m) \in 1 .. Len(l) /\ f(k) < f(m)
    BY <1>1, <1>2
  <2>2. Position(s, l[f(k)]) < Position(s, l[f(m)])
    BY <2>1 DEF QueueOK, OrderedIn
  <2>3. QED
    BY <1>1, <2>2
<1>5. QueueOK(s, r, st)
  BY <1>3, <1>4 DEF QueueOK
<1>6. QED
  BY <1>3, <1>5 DEF WorkOK

\* The success and give-up handlers shift the head off the queue and settle
\* the entry w the chain worked on.  Whether or not w is still the head
\* (the caller may have removed it), the settled list stays in order and
\* before every event still queued: w is not among them, since an ordered
\* queue holds w, if at all, only at its head.
LEMMA SettleOK ==
    ASSUME NEW s \in Seq(Events), NEW l \in Seq(Events), NEW st \in Seq(Events),
           QueueOK(s, l, st), NEW w \in Events, WorkOK(s, l, st, w)
    PROVE  QueueOK(s, removeNextEvent(l), Append(st, w))
<1> DEFINE t == removeNextEvent(l)
           P(x) == Position(s, x)
<1>0. \A x \in SeqElems(s) : P(x) \in Nat
  BY PositionRange
<1>1. SeqElems(l) \subseteq SeqElems(s) /\ SeqElems(st) \subseteq SeqElems(s)
      /\ w \in SeqElems(s)
  BY DEF QueueOK, WorkOK
<1>2. /\ t \in Seq(Events)
      /\ \A k \in 1 .. Len(t) : k + 1 \in 1 .. Len(l) /\ t[k] = l[k + 1]
  <2>1. CASE l = <<>>
    BY <2>1 DEF removeNextEvent
  <2>2. CASE l # <<>>
    BY <2>2, HeadTailProperties DEF removeNextEvent
  <2>3. QED
    BY <2>1, <2>2
<1>3. \A k \in 1 .. Len(l) : l[k] \in SeqElems(l)
  BY DEF SeqElems
<1>4. SeqElems(t) \subseteq SeqElems(l)
  BY <1>2, <1>3 DEF SeqElems
<1>5. ASSUME NEW y \in SeqElems(t) PROVE P(w) < P(y)
  <2>1. PICK k \in 1 .. Len(t) : t[k] = y
    BY <1>5 DEF SeqElems
  <2>2. k + 1 \in 1 .. Len(l) /\ y = l[k + 1] /\ 1 \in 1 .. Len(l) /\ 1 < k + 1
    BY <1>2, <2>1
  <2>3. P(l[1]) < P(y)
    BY <2>2 DEF QueueOK, OrderedIn
  <2>4. l[1] = w \/ P(w) < P(l[1])
    BY <1>3, <2>2 DEF WorkOK
  <2>5. y = w \/ P(w) < P(y)
    BY <1>3, <2>2 DEF WorkOK
  <2>6. P(l[1]) \in Nat /\ P(y) \in Nat /\ P(w) \in Nat
    BY <1>0, <1>1, <1>3, <2>2
  <2>7. QED
    BY <2>3, <2>4, <2>5, <2>6
<1>6. OrderedIn(s, t)
  <2> SUFFICES ASSUME NEW i \in 1 .. Len(t), NEW j \in 1 .. Len(t), i < j
               PROVE  P(t[i]) < P(t[j])
    BY DEF OrderedIn
  <2>1. i + 1 \in 1 .. Len(l) /\ j + 1 \in 1 .. Len(l) /\ i + 1 < j + 1
        /\ t[i] = l[i + 1] /\ t[j] = l[j + 1]
    BY <1>2
  <2>2. QED
    BY <2>1 DEF QueueOK, OrderedIn
<1>7. /\ Append(st, w) \in Seq(Events) /\ Len(Append(st, w)) = Len(st) + 1
      /\ Append(st, w)[Len(st) + 1] = w
      /\ \A k \in 1 .. Len(st) : Append(st, w)[k] = st[k]
  BY AppendProperties
<1>8. SeqElems(Append(st, w)) = SeqElems(st) \cup {w}
  BY <1>7 DEF SeqElems
<1>9. OrderedIn(s, Append(st, w))
  <2> SUFFICES ASSUME NEW i \in 1 .. Len(st) + 1, NEW j \in 1 .. Len(st) + 1,
                      i < j
               PROVE  P(Append(st, w)[i]) < P(Append(st, w)[j])
    BY <1>7 DEF OrderedIn
  <2>1. i \in 1 .. Len(st) /\ Append(st, w)[i] = st[i] /\ st[i] \in SeqElems(st)
    BY <1>7 DEF SeqElems
  <2>2. CASE j = Len(st) + 1
    BY <1>7, <2>1, <2>2 DEF WorkOK
  <2>3. CASE j # Len(st) + 1
    <3>1. j \in 1 .. Len(st) /\ Append(st, w)[j] = st[j]
      BY <1>7, <2>3
    <3>2. QED
      BY <2>1, <3>1 DEF QueueOK, OrderedIn
  <2>4. QED
    BY <2>2, <2>3
<1>10. \A x \in SeqElems(Append(st, w)), y \in SeqElems(t) : P(x) < P(y)
  BY <1>4, <1>5, <1>8 DEF QueueOK
<1>11. QED
  BY <1>1, <1>4, <1>6, <1>8, <1>9, <1>10 DEF QueueOK

-----------------------------------------------------------------------------
(***************************************************************************)
(* How the chain's steps keep WorkingOrder.                                *)
(***************************************************************************)

\* startProcessingQueues gives each queue it starts a call on its head.
LEMMA StartWork ==
    ASSUME TypeOK, queues' \in [QueueNames -> Seq(Events)],
           enqueued' \in [QueueNames -> Seq(Events)],
           settled' \in [QueueNames -> Seq(Events)],
           QueueOrder',
           \A t \in Task : Working(t) =>
              WorkOK(enqueued'[t.q], queues'[t.q], settled'[t.q], t.obj),
           startProcessingQueues(queues')
    PROVE  WorkingOrder'
<1> SUFFICES ASSUME NEW t \in Task, Working(t)'
             PROVE  WorkOK(enqueued'[t.q], queues'[t.q], settled'[t.q], t.obj)
  BY DEF WorkingOrder
<1>1. t.q \in QueueNames /\ t.kind \in {"call", "wait"} /\ pending'[t] > 0
  BY TaskFields DEF Working
<1>2. CASE procFnSet' /\ t.kind = "call" /\ t.q \in Startable(queues')
                      /\ t.obj = peekNextEvent(queues'[t.q])
  <2>1. queues'[t.q] # <<>> /\ t.obj = Head(queues'[t.q])
    BY <1>2 DEF Startable, peekNextEvent
  <2>2. QueueOK(enqueued'[t.q], queues'[t.q], settled'[t.q])
    BY <1>1 DEF QueueOrder
  <2>3. QED
    BY <1>1, <2>1, <2>2, HeadWork
<1>3. CASE ~(procFnSet' /\ t.kind = "call" /\ t.q \in Startable(queues')
                        /\ t.obj = peekNextEvent(queues'[t.q]))
  <2>1. pending'[t] = pending[t]
    BY <1>3 DEF startProcessingQueues
  <2>2. Working(t)
    BY <1>1, <2>1 DEF Working
  <2>3. QED
    BY <2>2
<1>4. QED
  BY <1>2, <1>3

\* A step that swaps t's continuation for u, where u is a timer or works on
\* t's entry, and leaves the queue state alone.
LEMMA HandOverWork ==
    ASSUME TypeOK, WorkingOrder,
           NEW t \in Task, pending[t] > 0,
           NEW u \in Task,
           u.kind = "timer" \/ (t.kind \in {"call", "wait"} /\ u.q = t.q /\ u.obj = t.obj),
           pending' = Spawn(Consume(pending, t), u),
           UNCHANGED <<queues, enqueued, settled>>
    PROVE  WorkingOrder'
<1> SUFFICES ASSUME NEW v \in Task, Working(v)'
             PROVE  WorkOK(enqueued'[v.q], queues'[v.q], settled'[v.q], v.obj)
  BY DEF WorkingOrder
<1>1. CASE v = u
  <2>1. u.kind \in {"call", "wait"}
    BY <1>1 DEF Working
  <2>2. Working(t)
    BY <2>1 DEF Working
  <2>3. QED
    BY <1>1, <2>1, <2>2 DEF WorkingOrder
<1>2. CASE v # u
  <2>1. Working(v)
    BY <1>2 DEF Working, Spawn, Consume, TypeOK
  <2>2. QED
    BY <2>1 DEF WorkingOrder
<1>3. QED
  BY <1>1, <1>2

\* A chain ends its step by consuming its one continuation t and running
\* processQueue on the queue the step leaves: the only new working
\* continuation is a call on that queue's head.
LEMMA RestartWork ==
    ASSUME TypeOK, OneChainPerQueue, WorkingOrder,
           NEW t \in Task, pending[t] > 0,
           queues' \in [QueueNames -> Seq(Events)],
           enqueued' \in [QueueNames -> Seq(Events)],
           settled' \in [QueueNames -> Seq(Events)],
           QueueOrder',
           \A r \in QueueNames : r # t.q =>
              /\ queues'[r] = queues[r]
              /\ enqueued'[r] = enqueued[r]
              /\ settled'[r] = settled[r],
           processQueue(t.q, Consume(pending, t))
    PROVE  WorkingOrder'
<1> DEFINE q == t.q
           b == Consume(pending, t)
<1>1. q \in QueueNames
  BY TaskFields
<1>2. \A u \in Task : u.q = q => b[u] = 0
  BY DEF OneChainPerQueue, SingleChain, Consume, TypeOK
<1>3. \A u \in Task : u.q # q => b[u] = pending[u]
  BY DEF Consume, TypeOK
<1> SUFFICES ASSUME NEW v \in Task, Working(v)'
             PROVE  WorkOK(enqueued'[v.q], queues'[v.q], settled'[v.q], v.obj)
  BY DEF WorkingOrder
<1>4. CASE v.q = q
  <2>1. queues'[q] # <<>> /\ v = CallTask(q, Head(queues'[q]))
    <3>1. CASE queues'[q] = <<>>
      BY <1>2, <3>1, <1>4 DEF processQueue, Working
    <3>2. CASE queues'[q] # <<>>
      <4>1. pending' = Spawn(b, CallTask(q, peekNextEvent(queues'[q])))
        BY <3>2 DEF processQueue
      <4>2. CallTask(q, Head(queues'[q])) \in Task
        BY <1>1, <3>2, HeadTailProperties, TaskConstructors
      <4>3. v # CallTask(q, Head(queues'[q])) => pending'[v] = b[v]
        BY <4>1, <4>2 DEF Spawn, Consume, TypeOK, peekNextEvent
      <4>4. b[v] = 0 /\ pending'[v] > 0
        BY <1>2, <1>4 DEF Working
      <4>5. QED
        BY <3>2, <4>3, <4>4
    <3>3. QED
      BY <3>1, <3>2
  <2>2. QueueOK(enqueued'[q], queues'[q], settled'[q])
    BY <1>1 DEF QueueOrder
  <2>3. QED
    BY <1>1, <2>1, <2>2, HeadWork DEF CallTask
<1>5. CASE v.q # q
  <2>1. pending'[v] = pending[v]
    <3>1. CASE queues'[q] = <<>>
      BY <1>3, <1>5, <3>1 DEF processQueue
    <3>2. CASE queues'[q] # <<>>
      BY <1>3, <1>5, <3>2 DEF processQueue, Spawn, CallTask, Consume, TypeOK
    <3>3. QED
      BY <3>1, <3>2
  <2>2. Working(v) /\ v.q \in QueueNames
    BY <2>1, TaskFields DEF Working
  <2>3. QED
    BY <1>5, <2>2 DEF WorkingOrder
<1>6. QED
  BY <1>4, <1>5

-----------------------------------------------------------------------------
(***************************************************************************)
(* FIFOInv is inductive.                                                   *)
(***************************************************************************)

\* A step that keeps the queueing order and gives no deferred back its
\* "none" keeps EnqueuedOnce.
LEMMA EnqueuedOnceKept ==
    ASSUME EnqueuedOnce, UNCHANGED enqueued,
           \A x \in Events : deferred[x] # "none" => deferred'[x] # "none",
           enqueued \in [QueueNames -> Seq(Events)]
    PROVE  EnqueuedOnce'
BY DEF EnqueuedOnce

\* The success and give-up handlers: the head is shifted off, t's entry
\* settled with outcome o, and processQueue runs on the queue left.
LEMMA SettleStep ==
    ASSUME TypeOK, TypeOK', OneChainPerQueue, FIFOInv,
           NEW t \in Task, t.kind = "wait", pending[t] > 0,
           NEW o \in {"resolved", "rejected"},
           queues' = [queues EXCEPT ![t.q] = removeNextEvent(@)],
           deferred' = [deferred EXCEPT ![t.obj] = o],
           settled' = [settled EXCEPT ![t.q] = Append(@, t.obj)],
           UNCHANGED enqueued,
           processQueue(t.q, Consume(pending, t))
    PROVE  FIFOInv'
<1> DEFINE q == t.q
<1>1. q \in QueueNames /\ t.obj \in Events
  BY TaskFields
<1>2. EnqueuedOnce'
  <2>1. \A x \in Events : deferred[x] # "none" => deferred'[x] # "none"
    BY <1>1 DEF TypeOK
  <2>2. QED
    BY <2>1, EnqueuedOnceKept DEF FIFOInv, TypeOK
<1>3. QueueOrder'
  <2> SUFFICES ASSUME NEW r \in QueueNames
               PROVE  QueueOK(enqueued'[r], queues'[r], settled'[r])
    BY DEF QueueOrder
  <2>1. CASE r = q
    <3>1. QueueOK(enqueued[q], queues[q], settled[q])
      BY <1>1 DEF FIFOInv, QueueOrder
    <3>2. WorkOK(enqueued[q], queues[q], settled[q], t.obj)
      BY DEF FIFOInv, WorkingOrder, Working
    <3>3. QueueOK(enqueued[q], removeNextEvent(queues[q]), Append(settled[q], t.obj))
      BY <1>1, <3>1, <3>2, SettleOK DEF TypeOK
    <3>4. QED
      BY <1>1, <2>1, <3>3 DEF TypeOK
  <2>2. CASE r # q
    BY <2>2 DEF FIFOInv, QueueOrder, TypeOK
  <2>3. QED
    BY <2>1, <2>2
<1>4. WorkingOrder'
  <2>1. \A r \in QueueNames : r # q =>
           /\ queues'[r] = queues[r]
           /\ enqueued'[r] = enqueued[r]
           /\ settled'[r] = settled[r]
    BY DEF TypeOK
  <2>2. QED
    BY <1>3, <2>1, RestartWork DEF FIFOInv, TypeOK
<1>5. QED
  BY <1>2, <1>3, <1>4 DEF FIFOInv

\* Every step of the scheduler, removals included, keeps FIFOInv.
LEMMA FIFOStep ==
    ASSUME TypeOK, TypeOK', OneChainPerQueue, FIFOInv, [Next]_vars
    PROVE  FIFOInv'
<1> USE ConstantsAssumption
<1>1. ASSUME NEW e \in Events, queueEvent(e) PROVE FIFOInv'
  <2> DEFINE q0 == QueueFor[e]
             s0 == enqueued[q0]
  <2>1. /\ q0 \in QueueNames /\ deferred[e] = "none"
        /\ queues' = [queues EXCEPT ![q0] = Append(@, e)]
        /\ enqueued' = [enqueued EXCEPT ![q0] = Append(@, e)]
        /\ deferred' = [deferred EXCEPT ![e] = "pending"]
        /\ settled' = settled
    BY <1>1 DEF queueEvent
  <2>2. s0 \in Seq(Events) /\ Distinct(s0) /\ e \notin SeqElems(s0)
    BY <2>1 DEF FIFOInv, EnqueuedOnce, SeqElems, TypeOK
  <2>3. /\ QueueOK(Append(s0, e), Append(queues[q0], e), settled[q0])
        /\ \A w : WorkOK(s0, queues[q0], settled[q0], w) =>
                    WorkOK(Append(s0, e), Append(queues[q0], e), settled[q0], w)
    BY <2>1, <2>2, AppendOK DEF FIFOInv, QueueOrder, TypeOK
  <2>4. EnqueuedOnce'
    <3> SUFFICES ASSUME NEW r \in QueueNames
                 PROVE  /\ Distinct(enqueued'[r])
                        /\ \A i \in 1 .. Len(enqueued'[r]) :
                              deferred'[enqueued'[r][i]] # "none"
      BY DEF EnqueuedOnce
    <3>1. \A x \in Events : deferred[x] # "none" \/ x = e => deferred'[x] # "none"
      BY <2>1 DEF TypeOK
    <3>2. CASE r = q0
      <4>1. Distinct(Append(s0, e))
        BY <2>2, PositionAppend
      <4>2. \A i \in 1 .. Len(Append(s0, e)) :
               \/ Append(s0, e)[i] = e
               \/ i \in 1 .. Len(s0) /\ Append(s0, e)[i] = s0[i]
        BY <2>2, AppendProperties
      <4>3. \A i \in 1 .. Len(s0) : deferred[s0[i]] # "none" /\ s0[i] \in Events
        BY <2>1, <2>2 DEF FIFOInv, EnqueuedOnce
      <4>4. QED
        BY <2>1, <3>1, <3>2, <4>1, <4>2, <4>3 DEF TypeOK
    <3>3. CASE r # q0
      <4>1. enqueued'[r] = enqueued[r] /\ enqueued[r] \in Seq(Events)
        BY <2>1, <3>3 DEF TypeOK
      <4>2. QED
        BY <3>1, <4>1 DEF FIFOInv, EnqueuedOnce
    <3>4. QED
      BY <3>2, <3>3
  <2>5. QueueOrder'
    <3> SUFFICES ASSUME NEW r \in QueueNames
                 PROVE  QueueOK(enqueued'[r], queues'[r], settled'[r])
      BY DEF QueueOrder
    <3>1. CASE r = q0
      BY <2>1, <2>3, <3>1 DEF TypeOK
    <3>2. CASE r # q0
      BY <2>1, <3>2 DEF FIFOInv, QueueOrder, TypeOK
    <3>3. QED
      BY <3>1, <3>2
  <2>6. \A t \in Task : Working(t) =>
           WorkOK(enqueued'[t.q], queues'[t.q], settled'[t.q], t.obj)
    <3> SUFFICES ASSUME NEW t \in Task, Working(t)
                 PROVE  WorkOK(enqueued'[t.q], queues'[t.q], settled'[t.q], t.obj)
      OBVIOUS
    <3>1. t.q \in QueueNames /\ WorkOK(enqueued[t.q], queues[t.q], settled[t.q], t.obj)
      BY TaskFields DEF FIFOInv, WorkingOrder
    <3>2. CASE t.q = q0
      BY <2>1, <2>3, <3>1, <3>2 DEF TypeOK
    <3>3. CASE t.q # q0
      BY <2>1, <3>1, <3>3 DEF TypeOK
    <3>4. QED
      BY <3>2, <3>3
  <2>7. WorkingOrder'
    BY <1>1, <2>5, <2>6, StartWork DEF queueEvent, TypeOK
  <2>8. QED
    BY <2>4, <2>5, <2>7 DEF FIFOInv
<1>2. ASSUME NEW e \in Events, removeEventFromQueue(e) PROVE FIFOInv'
  <2> DEFINE q0 == QueueFor[e]
  <2>1. PICK i \in 1 .. Len(queues[q0]) :
           /\ q0 \in QueueNames
           /\ queues' = [queues EXCEPT ![q0] = removeElement(@, i)]
           /\ UNCHANGED <<pending, enqueued, settled, deferred>>
    BY <1>2 DEF removeEventFromQueue
  <2>2. /\ QueueOK(enqueued[q0], removeElement(queues[q0], i), settled[q0])
        /\ \A w : WorkOK(enqueued[q0], queues[q0], settled[q0], w) =>
                    WorkOK(enqueued[q0], removeElement(queues[q0], i), settled[q0], w)
    BY <2>1, RemoveOK DEF FIFOInv, QueueOrder, TypeOK
  <2>3. EnqueuedOnce'
    BY <2>1 DEF FIFOInv, EnqueuedOnce
  <2>4. QueueOrder'
    BY <2>1, <2>2 DEF FIFOInv, QueueOrder, TypeOK
  <2>5. WorkingOrder'
    <3> SUFFICES ASSUME NEW t \in Task, Working(t)'
                 PROVE  WorkOK(enqueued'[t.q], queues'[t.q], settled'[t.q], t.obj)
      BY DEF WorkingOrder
    <3>1. t.q \in QueueNames /\ WorkOK(enqueued[t.q], queues[t.q], settled[t.q], t.obj)
      BY <2>1, TaskFields DEF FIFOInv, WorkingOrder, Working
    <3>2. QED
      BY <2>1, <2>2, <3>1 DEF TypeOK
  <2>6. QED
    BY <2>3, <2>4, <2>5 DEF FIFOInv
<1>3. CASE setProcessFunction
  <2>1. UNCHANGED <<queues, enqueued, settled, deferred>>
    BY <1>3 DEF setProcessFunction
  <2>2. WorkingOrder'
    BY <1>3, <2>1, StartWork DEF setProcessFunction, FIFOInv, QueueOrder,
       WorkingOrder, TypeOK
  <2>3. QED
    BY <2>1, <2>2 DEF FIFOInv, EnqueuedOnce, QueueOrder
<1>4. ASSUME NEW t \in Task, callProcFn(t) PROVE FIFOInv'
  <2>1. WaitTask(t.q, t.obj) \in Task
    BY <1>4, TaskFields, TaskConstructors DEF callProcFn
  <2>2. WorkingOrder'
    BY <1>4, <2>1, HandOverWork DEF callProcFn, WaitTask, FIFOInv
  <2>3. QED
    BY <1>4, <2>2 DEF callProcFn, FIFOInv, EnqueuedOnce, QueueOrder
<1>5. ASSUME NEW t \in Task, NEW err \in Errors, procFnRejectedRetry(t, err)
      PROVE  FIFOInv'
  <2>1. TimerTask(t.q) \in Task
    BY TaskFields, TaskConstructors
  <2>2. WorkingOrder'
    BY <1>5, <2>1, HandOverWork DEF procFnRejectedRetry, TimerTask, FIFOInv
  <2>3. QED
    BY <1>5, <2>2 DEF procFnRejectedRetry, FIFOInv, EnqueuedOnce, QueueOrder
<1>6. ASSUME NEW t \in Task, procFnResolved(t) PROVE FIFOInv'
  BY <1>6, SettleStep DEF procFnResolved
<1>7. ASSUME NEW t \in Task, NEW err \in Errors, procFnRejectedGiveUp(t, err)
      PROVE  FIFOInv'
  BY <1>7, SettleStep DEF procFnRejectedGiveUp
<1>8. ASSUME NEW t \in Task, retryTimerFires(t) PROVE FIFOInv'
  <2>1. UNCHANGED <<queues, enqueued, settled, deferred>>
    BY <1>8 DEF retryTimerFires
  <2>2. WorkingOrder'
    BY <1>8, <2>1, RestartWork DEF retryTimerFires, FIFOInv, QueueOrder, TypeOK
  <2>3. QED
    BY <2>1, <2>2 DEF FIFOInv, EnqueuedOnce, QueueOrder
<1>9. CASE UNCHANGED vars
  BY <1>9 DEF vars, FIFOInv, EnqueuedOnce, QueueOrder, WorkingOrder, Working
<1>10. QED
  BY <1>1, <1>2, <1>3, <1>4, <1>5, <1>6, <1>7, <1>8, <1>9 DEF Next

\* Within each queue, deferreds settle in the order their events were
\* queued, for every set of events, queues, errors and removals: retries,
\* give-ups, retry timers and removeEventFromQueue at any point never make
\* processQueue settle a later entry before an earlier one.
THEOREM FIFOSettlementInvariant == Spec => []FIFOSettlement
<1> DEFINE Inv == TypeOK /\ OneChainPerQueue /\ FIFOInv
<1>1. Init => FIFOInv
  BY DEF Init, FIFOInv, EnqueuedOnce, Distinct, QueueOrder, QueueOK, OrderedIn,
     SeqElems, WorkingOrder, WorkOK, Working
<1>2. Init => Inv
  BY <1>1, TypeInit DEF Init, OneChainPerQueue, SingleChain, ActiveIffChain
<1>3. Inv /\ [Next]_vars => Inv'
  <2> SUFFICES ASSUME Inv, [Next]_vars PROVE Inv'
    OBVIOUS
  <2>1. TypeOK'
    BY TypeStep
  <2>2. OneChainPerQueue'
    BY <2>1, OneChainStep
  <2>3. FIFOInv'
    BY <2>1, FIFOStep
  <2>4. QED
    BY <2>1, <2>2, <2>3
<1>4. Inv => FIFOSettlement
  BY DEF FIFOInv, QueueOrder, QueueOK, OrderedIn, FIFOSettlement
<1>5. QED
  BY <1>2, <1>3, <1>4, PTL DEF Spec

-----------------------------------------------------------------------------
(***************************************************************************)
(* No send after settlement.  The entry a chain works on ranks after      *)
(* every settled event of its queue, so it is not one of them; with       *)
(* SettledRecorded its deferred is therefore still pending.                *)
(***************************************************************************)

\* An entry a continuation works on has a pending deferred.
LEMMA WorkingPending ==
    ASSUME TypeOK, FIFOInv, SettledRecorded, NEW t \in Task, Working(t)
    PROVE  deferred[t.obj] = "pending"
<1> DEFINE q == t.q
           w == t.obj
<1>1. q \in QueueNames /\ w \in Events
  BY TaskFields DEF Working
<1>2. WorkOK(enqueued[q], queues[q], settled[q], w)
  BY DEF FIFOInv, WorkingOrder
<1>3. PICK i \in 1 .. Len(enqueued[q]) : enqueued[q][i] = w
  BY <1>2 DEF WorkOK, SeqElems
<1>4. QueueFor[w] = q /\ deferred[w] # "none"
  BY <1>1, <1>3 DEF SettledRecorded, FIFOInv, EnqueuedOnce
<1>5. deferred[w] \notin {"resolved", "rejected"}
  <2> SUFFICES ASSUME deferred[w] \in {"resolved", "rejected"} PROVE FALSE
    OBVIOUS
  <2>1. w \in SeqElems(settled[q])
    BY <1>1, <1>4 DEF SettledRecorded
  <2>2. Position(enqueued[q], w) < Position(enqueued[q], w)
    BY <1>2, <2>1 DEF WorkOK
  <2>3. Position(enqueued[q], w) \in Nat
    BY <1>1, <1>2, PositionRange DEF WorkOK, TypeOK
  <2>4. QED
    BY <2>2, <2>3
<1>6. QED
  BY <1>1, <1>4, <1>5 DEF TypeOK, DeferredStates

\* Every step keeps SettledRecorded.
LEMMA SettledRecordedStep ==
    ASSUME TypeOK, FIFOInv, SettledRecorded, [Next]_vars
    PROVE  SettledRecorded'
<1> USE ConstantsAssumption
<1>1. ASSUME NEW e \in Events, queueEvent(e) PROVE SettledRecorded'
  <2> DEFINE q0 == QueueFor[e]
  <2>1. /\ q0 \in QueueNames /\ deferred[e] = "none"
        /\ enqueued' = [enqueued EXCEPT ![q0] = Append(@, e)]
        /\ deferred' = [deferred EXCEPT ![e] = "pending"]
        /\ settled' = settled
    BY <1>1 DEF queueEvent
  <2>2. SettledRecorded!1'
    <3> SUFFICES ASSUME NEW r \in QueueNames, NEW i \in 1 .. Len(enqueued'[r])
                 PROVE  QueueFor[enqueued'[r][i]] = r
      OBVIOUS
    <3>1. CASE r = q0
      <4>0. enqueued'[r] = Append(enqueued[q0], e) /\ enqueued[q0] \in Seq(Events)
        BY <2>1, <3>1 DEF TypeOK
      <4>1. i = Len(enqueued[q0]) + 1 \/ (i \in 1 .. Len(enqueued[q0])
                                           /\ enqueued'[r][i] = enqueued[q0][i])
        BY <4>0, AppendProperties
      <4>2. i = Len(enqueued[q0]) + 1 => enqueued'[r][i] = e
        BY <4>0, AppendProperties
      <4>3. QED
        BY <3>1, <4>1, <4>2 DEF SettledRecorded
    <3>2. CASE r # q0
      BY <2>1, <3>2 DEF SettledRecorded, TypeOK
    <3>3. QED
      BY <3>1, <3>2
  <2>3. SettledRecorded!2'
    BY <2>1 DEF SettledRecorded, TypeOK
  <2>4. QED
    BY <2>2, <2>3 DEF SettledRecorded
<1>2. ASSUME NEW t \in Task, NEW o \in {"resolved", "rejected"},
             t.kind = "wait", pending[t] > 0,
             deferred' = [deferred EXCEPT ![t.obj] = o],
             settled' = [settled EXCEPT ![t.q] = Append(@, t.obj)],
             UNCHANGED enqueued
      PROVE  SettledRecorded'
  <2> DEFINE q == t.q
  <2>1. q \in QueueNames /\ t.obj \in Events
    BY <1>2, TaskFields
  <2>2. QueueFor[t.obj] = q
    <3>1. t.obj \in SeqElems(enqueued[q])
      BY <1>2 DEF FIFOInv, WorkingOrder, Working, WorkOK
    <3>2. PICK i \in 1 .. Len(enqueued[q]) : enqueued[q][i] = t.obj
      BY <3>1 DEF SeqElems
    <3>3. QED
      BY <2>1, <3>2 DEF SettledRecorded
  <2>3. \A r \in QueueNames : SeqElems(settled[r]) \subseteq SeqElems(settled'[r])
        /\ t.obj \in SeqElems(settled'[q])
    <3>1. settled'[q] = Append(settled[q], t.obj) /\ settled[q] \in Seq(Events)
      BY <1>2, <2>1 DEF TypeOK
    <3>2. /\ Len(settled'[q]) = Len(settled[q]) + 1
          /\ settled'[q][Len(settled[q]) + 1] = t.obj
          /\ \A k \in 1 .. Len(settled[q]) : settled'[q][k] = settled[q][k]
      BY <2>1, <3>1, AppendProperties
    <3>3. SeqElems(settled[q]) \subseteq SeqElems(settled'[q])
          /\ t.obj \in SeqElems(settled'[q])
      BY <3>2 DEF SeqElems
    <3>4. \A r \in QueueNames : r # q => settled'[r] = settled[r]
      BY <1>2 DEF TypeOK
    <3>5. QED
      BY <3>3, <3>4
  <2>4. QED
    BY <1>2, <2>1, <2>2, <2>3 DEF SettledRecorded, TypeOK
<1>3. QED
  <2>1. ASSUME NEW t \in Task, procFnResolved(t) PROVE SettledRecorded'
    BY <1>2, <2>1 DEF procFnResolved
  <2>2. ASSUME NEW t \in Task, NEW err \in Errors, procFnRejectedGiveUp(t, err)
        PROVE  SettledRecorded'
    BY <1>2, <2>2 DEF procFnRejectedGiveUp
  <2>3. ASSUME UNCHANGED <<enqueued, deferred, settled>> PROVE SettledRecorded'
    BY <2>3 DEF SettledRecorded
  <2>4. QED
    BY <1>1, <2>1, <2>2, <2>3 DEF Next, vars, removeEventFromQueue, setProcessFunction,
       callProcFn, procFnRejectedRetry, retryTimerFires

\* A promise that queueEvent returned and the scheduler has resolved or
\* rejected is never followed by another procFn call on its event, for
\* every set of events, queues and errors and with removals at any time.
THEOREM SendsOnlyPendingHolds == Spec => SendsOnlyPending
<1> DEFINE Inv == TypeOK /\ OneChainPerQueue /\ FIFOInv /\ SettledRecorded
<1>1. Init => Inv
  BY TypeInit DEF Init, OneChainPerQueue, SingleChain, ActiveIffChain, FIFOInv,
     EnqueuedOnce, Distinct, QueueOrder, QueueOK, OrderedIn, SeqElems,
     WorkingOrder, WorkOK, Working, SettledRecorded
<1>2. Inv /\ [Next]_vars => Inv'
  <2> SUFFICES ASSUME Inv, [Next]_vars PROVE Inv'
    OBVIOUS
  <2>1. TypeOK'
    BY TypeStep
  <2>2. OneChainPerQueue'
    BY <2>1, OneChainStep
  <2>3. FIFOInv'
    BY <2>1, FIFOStep
  <2>4. SettledRecorded'
    BY SettledRecordedStep
  <2>5. QED
    BY <2>1, <2>2, <2>3, <2>4
<1>3. Inv => \A t \in Task : callProcFn(t) => deferred[t.obj] = "pending"
  BY WorkingPending DEF callProcFn, Working
<1>4. QED
  BY <1>1, <1>2, <1>3, PTL DEF Spec, SendsOnlyPending

=============================================================================
