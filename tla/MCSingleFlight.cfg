\* Two concurrent callers, nothing fails and no time passes: the loader runs twice.
SPECIFICATION Spec
CONSTANTS
    Callers = {c1, c2}  FailOpen = {c1, c2}  None = None  Garbage = Garbage
    TTL = 1  Lease = 2  WaitTime = 1  MaxVersion = 0  Faults = FALSE  Timed = FALSE
INVARIANT LoadsOnce
