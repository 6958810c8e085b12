\* One message, two workers that keep their timeouts, two recipients; also the refinement.
SPECIFICATION Spec
CONSTANTS
    m1 = m1  m2 = m2  w1 = w1  w2 = w2  c1 = c1  c2 = c2
    NoContent = NoContent
    Msgs = {m1}
    Earlier <- NoOrder
    Undecodable = {}
    Malformed = {}
    Requests = {0, 1}
    Workers = {w1, w2}
    Contents = {c1}
    MaxAttempts = 2  DefaultBudget = 2
    ReplayGrant = 1  MaxReplayAttempts = 3
    LeaseSeconds = 5  PrepareSeconds = 1  SendSeconds = 1  DbSeconds = 1
    LockWait = 1
    MaxAge = 6  KeyWindow = 7  ChallengeSeconds = 8
    RetryBase = 1  RetryMax = 2  RetryAfterMax = 2
    SweepLimit = 1
    Stalls = FALSE
    EnqueueBy = 0  MaxTime = 11
SYMMETRY Symmetry
INVARIANTS SingleEmail ExclusiveSubmission
PROPERTIES EvidenceKept RefinesDelivery
CHECK_DEADLOCK FALSE
