----------------------------- MODULE MCIdentity -----------------------------
(* Accounts and ExternalIdentities for TLC.  The configuration describes the scenario
   "external"; part says which scenario a behaviour is about.  The others are instances over
   the same accounts, sessions, requests and subjects, with another start and other
   operations; what they have no use for rests in its initial state. *)
EXTENDS ExternalIdentities, TLC

CONSTANTS u1, u2, s1, s2, q1, q2, g1, g2, y1, google, yahoo, a1, a2, c1, c2

VARIABLE part

mcVars == <<part, allVars>>

\* The account u1 has no password but two identities, and an open session.
FirstSession == (s1 :> u1) @@ (s2 :> None)
ProviderOfThree == (g1 :> google) @@ (g2 :> google) @@ (y1 :> yahoo)
EmailOfThree == (g1 :> u1) @@ (g2 :> u2) @@ (y1 :> None)
LinkedToFirst == (g1 :> u1) @@ (g2 :> None) @@ (y1 :> u1)

Anything == [role : {"customer", "admin"}, active : BOOLEAN]
Nobody == [s \in Sids |-> None]

\* The customer u2 uses its password; every operation that needs no administrator.
Sessions == INSTANCE Accounts WITH
    InitialAdmins <- {}, InitialUsers <- {u1, u2}, Passwordless <- {u1}, Owner <- Nobody,
    Operations <- {"login", "logout", "logout_all", "reauthenticate", "reset", "write"},
    Accesses <- {}, MaxPassword <- 2, RedisUp <- TRUE

\* Two administrators, one of them logged in: changes of access, also of oneself.
Administration == INSTANCE Accounts WITH
    InitialAdmins <- {u1, u2}, InitialUsers <- {}, Passwordless <- {}, Owner <- FirstSession,
    Operations <- {"login", "change_access"},
    Accesses <- {[role |-> "admin", active |-> FALSE], [role |-> "customer", active |-> TRUE]},
    MaxPassword <- 1, RedisUp <- FALSE

\* No administrator yet: concurrent bootstraps and registrations of two addresses.
Bootstrapping == INSTANCE Accounts WITH
    InitialAdmins <- {}, InitialUsers <- {}, Passwordless <- {}, Owner <- Nobody,
    Operations <- {"login", "change_access", "bootstrap"},
    Accesses <- Anything, MaxPassword <- 1, RedisUp <- FALSE

LinkedToSecond == (g1 :> None) @@ (g2 :> u2) @@ (y1 :> None)
NoEmail == [x \in Subjects |-> None]

\* An administrator changes the access of u2, and u2 resets its password, while somebody
\* logs in as u2 with the provider.
Changing == INSTANCE ExternalIdentities WITH
    InitialAdmins <- {u1}, InitialUsers <- {u2}, Passwordless <- {}, Owner <- FirstSession,
    Operations <- {"change_access", "reset"},
    Accesses <- {[role |-> "customer", active |-> b] : b \in BOOLEAN},
    MaxPassword <- 2, RedisUp <- FALSE,
    EmailOf <- NoEmail, Linked <- LinkedToSecond

ASSUME /\ AccountAssumption /\ IdentityAssumption
       /\ Sessions!AccountAssumption /\ Administration!AccountAssumption
       /\ Bootstrapping!AccountAssumption
       /\ Changing!AccountAssumption /\ Changing!IdentityAssumption

MCInit ==
    \/ part = "sessions" /\ Sessions!Init /\ IdentityInit
    \/ part = "administration" /\ Administration!Init /\ IdentityInit
    \/ part = "bootstrap" /\ Bootstrapping!Init /\ IdentityInit
    \/ part = "external" /\ ExtInit
    \/ part = "changing" /\ Changing!ExtInit

\* Bounds: one session in "bootstrap"; one request beside one provider login in
\* "changing".
OneSession == sess'[s2].status = "none"
OneOfEach ==
    /\ \A a \in Attempts : attempts'[a].intent = "login"
    /\ Cardinality({a \in Attempts : attempts'[a].status # "unused"}) <= 1
    /\ Cardinality({q \in Requests : req'[q].pc # "idle"}) <= 1
    /\ Cardinality({c \in Callbacks : ext'[c].pc # "idle"}) <= 1

MCNext ==
    /\ UNCHANGED part
    /\ \/ part = "sessions" /\ Sessions!Next /\ UNCHANGED extVars
       \/ part = "administration" /\ Administration!Next /\ UNCHANGED extVars
       \/ part = "bootstrap" /\ Bootstrapping!Next /\ OneSession /\ UNCHANGED extVars
       \/ part = "external" /\ ExtNext
       \/ part = "changing" /\ Changing!ExtNext /\ OneOfEach

MCSpec == MCInit /\ [][MCNext]_mcVars

\* Requests and callbacks are alike, and so are attempts; requests and callbacks are
\* exchanged together.
Symmetry ==
    {f \in Permutations({q1, q2, c1, c2, a1, a2}) :
        /\ {f[q1], f[q2]} = {q1, q2} /\ {f[c1], f[c2]} = {c1, c2} /\ {f[a1], f[a2]} = {a1, a2}
        /\ f[q1] = q1 <=> f[c1] = c1}
=============================================================================
