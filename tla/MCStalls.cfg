\* Two versions of one aggregate, two workers that may be suspended anywhere, redeployed contents.
SPECIFICATION Spec
CONSTANTS
    m1 = m1  m2 = m2  w1 = w1  w2 = w2  c1 = c1  c2 = c2
    NoContent = NoContent
    Msgs = {m1, m2}
    Earlier <- InOrder
    Undecodable = {}
    Malformed = {}
    Requests = {0}
    Workers = {w1, w2}
    Contents = {c1, c2}
    MaxAttempts = 1  DefaultBudget = 1
    ReplayGrant = 2  MaxReplayAttempts = 2
    LeaseSeconds = 2  PrepareSeconds = 0  SendSeconds = 1  DbSeconds = 0
    LockWait = 0
    MaxAge = 3  KeyWindow = 6  ChallengeSeconds = 3
    RetryBase = 1  RetryMax = 2  RetryAfterMax = 2
    SweepLimit = 1
    Stalls = TRUE
    EnqueueBy = 0  MaxTime = 5
SYMMETRY Symmetry
INVARIANTS TypeOK AggregateOrder BoundContent PublishedMeansSent BudgetRespected
PROPERTY FinalStatus
CHECK_DEADLOCK FALSE
