CONSTANTS
    m1 = m1
    m2 = m2
    r1 = r1
    Events = {m1, m2, r1}
    QueueNames = {"message"}
    NoQueue = NoQueue
    NoEvent = NoEvent
    QueueFor <- MCQueueFor
    Errors <- MCErrors
    Cancellable = {m1, m2, r1}
    MaxAttempts = 6
SPECIFICATION Spec
INVARIANTS
    TypeOK
    OneChainPerQueue
    FIFOSettlement
PROPERTY
    SendsOnlyPending
