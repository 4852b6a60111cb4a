---------------------------- MODULE MCScheduler ----------------------------
(* Scheduler with the default queue algorithm, QUEUE_MESSAGES, on three   *)
(* events of the "message" queue: two room messages and a redaction of   *)
(* the first, and one error of each branch of RETRY_BACKOFF_RATELIMIT.     *)
EXTENDS Scheduler

CONSTANTS m1, m2, r1

MCQueueFor ==
    [e \in Events |->
        CASE e = m1 -> QUEUE_MESSAGES("m.room.message", FALSE)
          [] e = m2 -> QUEUE_MESSAGES("m.room.message", FALSE)
          [] e = r1 -> QUEUE_MESSAGES("m.room.redaction", TRUE)]

MCErrors ==
    { [httpStatus |-> 403, cors |-> "none", name |-> "M_UNKNOWN", retryAfterMs |-> 0],
      [httpStatus |-> 0,   cors |-> "rejected", name |-> "M_UNKNOWN", retryAfterMs |-> 0],
      [httpStatus |-> 413, cors |-> "none", name |-> "M_TOO_LARGE", retryAfterMs |-> 0],
      [httpStatus |-> 429, cors |-> "none", name |-> "M_LIMIT_EXCEEDED", retryAfterMs |-> 500],
      [httpStatus |-> 429, cors |-> "none", name |-> "M_LIMIT_EXCEEDED", retryAfterMs |-> 0],
      [httpStatus |-> 502, cors |-> "none", name |-> "M_UNKNOWN", retryAfterMs |-> 0] }
=============================================================================
