\* Sessions, administration, bootstrap and external identities; the other scenarios are in MCIdentity.
SPECIFICATION MCSpec
CONSTANTS
    u1 = u1  u2 = u2  s1 = s1  s2 = s2  q1 = q1  q2 = q2  g1 = g1  g2 = g2  y1 = y1
    google = google  yahoo = yahoo  a1 = a1  a2 = a2  c1 = c1  c2 = c2  None = None
    Users = {u1, u2}  InitialAdmins = {}  InitialUsers = {u1}  Passwordless = {u1}
    Sids = {s1, s2}  Owner <- FirstSession  Requests = {q1, q2}
    Operations = {}  Accesses = {}  MaxPassword = 1  RedisUp = FALSE
    Subjects = {g1, g2, y1}  ProviderOf <- ProviderOfThree  EmailOf <- EmailOfThree
    Linked <- LinkedToFirst  Attempts = {a1, a2}  Callbacks = {c1, c2}
SYMMETRY Symmetry
INVARIANTS SessionsCurrent EndedIsUseless AllWaitsEnd LoginMethodRemains AttemptsSound
PROPERTIES AccessGuarded SessionOfLinkedIdentity
CHECK_DEADLOCK FALSE
