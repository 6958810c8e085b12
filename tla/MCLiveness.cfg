\* Two versions of one aggregate, one unusable; one worker, crashes, pauses and replays.
SPECIFICATION FairSpec
CONSTANTS
    m1 = m1  m2 = m2  w1 = w1  w2 = w2  c1 = c1  c2 = c2
    NoContent = NoContent
    Msgs = {m1, m2}
    Earlier <- InOrder
    Undecodable = {}
    Malformed = {m2}
    Requests = {0}
    Workers = {w1}
    Contents = {c1}
    MaxAttempts = 2  DefaultBudget = 1
    ReplayGrant = 1  MaxReplayAttempts = 3
    LeaseSeconds = 2  PrepareSeconds = 0  SendSeconds = 1  DbSeconds = 0
    LockWait = 0
    MaxAge = 3  KeyWindow = 4  ChallengeSeconds = 3
    RetryBase = 1  RetryMax = 2  RetryAfterMax = 2
    SweepLimit = 1
    Stalls = FALSE
    EnqueueBy = 1  MaxTime = 6
PROPERTY EventuallySettled
CHECK_DEADLOCK FALSE
