\* Two versions of one aggregate, two internal workers; two callers of the cache; two handshakes.
SPECIFICATION MCSpec
CONSTANTS
    m1 = m1  m2 = m2  None = None
    Msgs = {m1, m2}  Earlier <- InOrder  Internal = {m1, m2}
    Workers = {w1, w2}
    MaxAttempts = 3  Limit = 2  StaleAge = 1  Delays = {1}
    MaxCrashes = 1
    c1 = c1  c2 = c2  h1 = h1  h2 = h2  Garbage = Garbage
INVARIANTS TypeOK AggregateOrder HandledOnce
PROPERTIES EverythingEnds
