----------------------------- MODULE SendQueue -----------------------------
(***************************************************************************)
(* What MatrixScheduler (src/src/scheduler.ts) promises its callers,       *)
(* without its event loop: each named queue is a FIFO of events; an event *)
(* is delivered (its deferred resolved or rejected) only from the head of  *)
(* its queue and only once a process function is installed; the caller    *)
(* may take an event out of its queue, leaving its deferred unsettled.     *)
(***************************************************************************)
EXTENDS Naturals, Sequences

CONSTANTS Events, QueueNames, NoQueue, QueueFor

VARIABLES
    queues,    \* queue name -> the events still to be delivered, in order
    deferred,  \* event -> "none" | "pending" | "resolved" | "rejected"
    started    \* a process function has been installed

avars == <<queues, deferred, started>>

AInit ==
    /\ queues = [q \in QueueNames |-> <<>>]
    /\ deferred = [e \in Events |-> "none"]
    /\ started = FALSE

\* A fresh event joins the tail of the queue the queue algorithm names.
Submit(e) ==
    /\ deferred[e] = "none"
    /\ QueueFor[e] # NoQueue
    /\ queues' = [queues EXCEPT ![QueueFor[e]] = Append(@, e)]
    /\ deferred' = [deferred EXCEPT ![e] = "pending"]
    /\ UNCHANGED started

\* The caller takes a queued event out; its deferred stays pending.
Cancel(e) ==
    /\ QueueFor[e] # NoQueue
    /\ \E i \in 1 .. Len(queues[QueueFor[e]]) :
          /\ queues[QueueFor[e]][i] = e
          /\ queues' = [queues EXCEPT ![QueueFor[e]] =
                           SubSeq(@, 1, i - 1) \o SubSeq(@, i + 1, Len(@))]
    /\ UNCHANGED <<deferred, started>>

Start ==
    /\ started' = TRUE
    /\ UNCHANGED <<queues, deferred>>

\* The head of a queue is delivered, with either outcome.
Deliver(q, outcome) ==
    /\ started
    /\ queues[q] # <<>>
    /\ queues' = [queues EXCEPT ![q] = Tail(@)]
    /\ deferred' = [deferred EXCEPT ![Head(queues[q])] = outcome]
    /\ UNCHANGED started

ANext ==
    \/ \E e \in Events : Submit(e) \/ Cancel(e)
    \/ Start
    \/ \E q \in QueueNames, o \in {"resolved", "rejected"} : Deliver(q, o)

ASpec == AInit /\ [][ANext]_avars

\* Once started, a non-empty queue keeps being served.
AFairSpec ==
    ASpec /\ \A q \in QueueNames :
                WF_avars(\E o \in {"resolved", "rejected"} : Deliver(q, o))

=============================================================================
