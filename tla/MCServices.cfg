\* Challenges, unit of work, rate limits, cache, profiles, pages, payloads, OIDC adapter; bounds in MCServices.
SPECIFICATION MCSpec
CONSTANTS
    e1 = e1  q1 = q1  q2 = q2  q3 = q3
    Emails = {e1}  Requests = {q1, q2, q3}  ChallengeSeconds = 2  ResendSeconds = 1
    ChallengeAttempts = 2  MaxIssued = 2
    w1 = w1  w2 = w2  w3 = w3  r1 = r1  r2 = r2  b1 = b1  n1 = n1  p1 = p1  c1 = c1  c2 = c2
    u1 = u1  u2 = u2  i1 = i1  i2 = i2  i3 = i3  shipping = shipping  billing = billing
    a = a  b = b  h1 = h1  None = None  Garbage = Garbage
SYMMETRY Symmetry
INVARIANTS EffectsOnce BoundedGuesses WaitsEnd  LimitsKept CacheSound SavesConsistent WalkComplete TreesAsSpecified
PROPERTIES EffectsJustified SavedAsAsked KeysFollowed
CHECK_DEADLOCK FALSE
