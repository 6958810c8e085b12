\* Heartbeats may ask for any expiry in the future.
SPECIFICATION Spec
CONSTANTS
    Jobs = {j1}
    MaxAttempts = 2
    Lease = 3  Expiries = {1, 3}  Beats = 1
    Limit = 2
    MaxRetryDelay = 3  Jitters = {0}  StartDelays = {0, 1}
    Stale = 1
    Shorten = TRUE
PROPERTY HeartbeatExtends
