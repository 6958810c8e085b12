\* One worker that keeps its timeouts, one message: which rows end dead?
SPECIFICATION Spec
CONSTANTS
    m1 = m1  m2 = m2  w1 = w1  w2 = w2  c1 = c1  c2 = c2
    NoContent = NoContent
    Msgs = {m1}
    Earlier <- NoOrder
    Undecodable = {}
    Malformed = {}
    Requests = {0}
    Workers = {w1}
    Contents = {c1}
    MaxAttempts = 2  DefaultBudget = 2
    ReplayGrant = 1  MaxReplayAttempts = 3
    LeaseSeconds = 2  PrepareSeconds = 0  SendSeconds = 1  DbSeconds = 0
    LockWait = 0
    MaxAge = 4  KeyWindow = 7  ChallengeSeconds = 6
    RetryBase = 1  RetryMax = 2  RetryAfterMax = 2
    SweepLimit = 1
    Stalls = FALSE
    EnqueueBy = 0  MaxTime = 6
SYMMETRY Symmetry
INVARIANT UnknownEndsUncertain
CHECK_DEADLOCK FALSE
