\* Two jobs, stale clocks, lost heartbeat replies, crashes and recoveries; fair polling.
SPECIFICATION FairSpec
CONSTANTS
    Jobs = {j1, j2}
    MaxAttempts = 3
    Lease = 2  Expiries = {2, 3}  Beats = 1
    Limit = 2
    MaxRetryDelay = 3  Jitters = {0}  StartDelays = {0, 1}
    Stale = 1
    Shorten = FALSE

INVARIANTS TypeOK OneHolder ResultOfLastAttempt NotStranded
PROPERTIES EndedForGood 
