---------------------------- MODULE OidcProvider ----------------------------
(***************************************************************************)
(* OidcProvider: the documents it caches and the tokens it accepts.        *)
(*                                                                         *)
(* An adapter has a cache, and a lock that it holds across the network.    *)
(* The application builds one for every request, so the two requests of a  *)
(* handshake have their own; an adapter that lives on is shared by all     *)
(* handshakes.  The provider (external) publishes and withdraws signing    *)
(* keys, mints a token for each handshake with a clock of its own, may     *)
(* answer with the token of another handshake or after a passive login     *)
(* only, and may fail.                                                     *)
(***************************************************************************)
EXTENDS Integers

CONSTANTS
    Handshakes,
    Shared,         \* one adapter for all handshakes, or one for each request?
    Keys,           \* signing keys the provider uses in turn: 1..n
    CacheTime,      \* 300 seconds
    Leeway,         \* 30 seconds
    Life,           \* lifetime of a token
    Skew,           \* how far the provider's clock is off, at most
    MaxTime,        \* bound: the clock
    None

ProviderAssumption ==
    /\ Shared \in BOOLEAN /\ CacheTime \in Nat \ {0} /\ Life \in Nat \ {0} /\ MaxTime \in Nat
    /\ Skew \in Nat /\ Leeway \in Nat /\ Skew <= Leeway
    /\ None \notin Int \cup {"accepted", "refused"}

VARIABLES
    clock,
    published,      \* keys in the provider's key document
    since, until,   \* history: when each key was published and withdrawn (MaxTime + 1: not yet)
    cache,          \* _cache: for each document what it said, and when it is to be dropped
    lock,           \* _lock: who fetches, or None
    hs,             \* handshakes
    fetched,        \* history: for each document, how long the last fetch would serve
    again           \* history: was a document fetched that an earlier fetch would serve?

vars    == <<clock, published, since, until, cache, lock, hs, fetched, again>>
keyVars == <<published, since, until>>
history == <<fetched, again>>

Documents == {"discovery", "keys"}
Never == MaxTime + 1

\* The adapter that handshake h uses.
Adapter(h) == IF Shared THEN None ELSE h
Adapters   == {Adapter(h) : h \in Handshakes}

Empty == [d \in Documents |-> [keys |-> {}, drop |-> 0]]

Idle == [pc |-> "idle", intent |-> "login", started |-> 0, token |-> None, minted |-> 0,
         outcome |-> None]

Init ==
    /\ clock = 0 /\ published = {1}
    /\ since = [k \in Keys |-> IF k = 1 THEN 0 ELSE Never]
    /\ until = [k \in Keys |-> Never]
    /\ cache = [a \in Adapters |-> Empty] /\ lock = [a \in Adapters |-> None]
    /\ fetched = [d \in Documents |-> 0] /\ again = FALSE
    /\ hs = [h \in Handshakes |-> Idle]

At(h, pc) == hs[h].pc = pc

\* The handshake x with some of its fields replaced.
With(x, changes) == [f \in DOMAIN x |-> IF f \in DOMAIN changes THEN changes[f] ELSE x[f]]

Step(h, changes) == hs' = [hs EXCEPT ![h] = With(@, changes)]
Ended(outcome) == [Idle EXCEPT !.pc = "end", !.outcome = outcome]

-----------------------------------------------------------------------------
(* document                                                                *)

\* The document that a handshake needs next.
Need(h) == IF hs[h].pc \in {"authorize", "exchange"} THEN "discovery" ELSE "keys"

Wants(h) == hs[h].pc \in {"authorize", "exchange", "verify"}

Holds(h) == lock[Adapter(h)] = h

Acquire(h) ==
    /\ Wants(h) /\ lock[Adapter(h)] = None
    /\ lock' = [lock EXCEPT ![Adapter(h)] = h]
    /\ UNCHANGED <<clock, keyVars, cache, hs, history>>

\* What the provider says: of the discovery document only the fetch matters.
Contents(d) == IF d = "keys" THEN published ELSE {}

\* Mutation of Fresh: a document is cached until the tick after it was fetched only.
FreshBarely(c) == c.drop = clock + CacheTime

Fresh(c) == c.drop > clock

\* The cache after document(url) has returned: as it was, or what the provider says now.
Stored(c, d) == IF Fresh(c) THEN c ELSE [keys |-> Contents(d), drop |-> clock + CacheTime]

-----------------------------------------------------------------------------
(* Handshakes                                                              *)

\* provider_registry: a request that does not share an adapter has a new one.
NewAdapter(h) == IF Shared THEN cache ELSE [cache EXCEPT ![Adapter(h)] = Empty]

Start(h, intent) ==
    /\ At(h, "idle")
    /\ hs' = [hs EXCEPT ![h] = [Idle EXCEPT !.pc = "authorize", !.intent = intent, !.started = clock]]
    /\ cache' = NewAdapter(h)
    /\ UNCHANGED <<clock, keyVars, lock, history>>

\* Mutation of AuthTimeOk: no leeway for the provider's clock.
AuthTimeOkExact(h, t) == t.auth # None /\ t.auth >= hs[h].started /\ t.auth <= clock

\* auth_time of this handshake, for a reauthentication.
AuthTimeOk(h, t) ==
    t.auth # None /\ t.auth >= hs[h].started - Leeway /\ t.auth <= clock + Leeway

\* JWTClaimsRegistry and the checks after it: issuer and audience are the provider's own.
ClaimsOk(h, t) ==
    /\ t.mine
    /\ t.exp >= clock - Leeway
    /\ t.iat <= clock + Leeway /\ t.iat >= hs[h].started - 2 * Leeway
    /\ hs[h].intent = "reauthenticate" => AuthTimeOk(h, t)

\* What the handshake does with a document as soon as it has it.
Use(h, keys) ==
    CASE At(h, "authorize") -> [pc |-> "away"]
      [] At(h, "exchange")  -> [pc |-> "token"]
      [] OTHER -> Ended(IF hs[h].token.key \in keys /\ ClaimsOk(h, hs[h].token)
                        THEN "accepted" ELSE "refused")

Document(h) ==
    LET d == Need(h)
        c == cache[Adapter(h)][d]
    IN  /\ Wants(h) /\ Holds(h)
        /\ lock' = [lock EXCEPT ![Adapter(h)] = None]
        /\ cache' = [cache EXCEPT ![Adapter(h)][d] = Stored(c, d)]
        /\ Step(h, Use(h, Stored(c, d).keys))
        /\ IF Fresh(c) THEN UNCHANGED history
           ELSE /\ again' = (again \/ fetched[d] > clock)
                /\ fetched' = [fetched EXCEPT ![d] = clock + CacheTime]
        /\ UNCHANGED <<clock, keyVars>>

\* Mutation of Released: an error leaves the lock behind.
ReleasedNever(h) == lock

\* The lock after an error or a cancellation.
Released(h) == IF Holds(h) THEN [lock EXCEPT ![Adapter(h)] = None] ELSE lock

\* The provider does not answer, or not with what is expected: ExternalLoginFailedError.
Fail(h) ==
    /\ \/ At(h, "token")
       \/ Wants(h) /\ Holds(h) /\ ~Fresh(cache[Adapter(h)][Need(h)])
    /\ lock' = Released(h)
    /\ Step(h, Ended("failed"))
    /\ UNCHANGED <<clock, keyVars, cache, history>>

\* The browser comes back, with a request of its own, or never does.
Return(h) ==
    /\ At(h, "away") /\ Step(h, [pc |-> "exchange"])
    /\ cache' = NewAdapter(h)
    /\ UNCHANGED <<clock, keyVars, lock, history>>

Leave(h) ==
    /\ At(h, "away") /\ Step(h, Ended("failed"))
    /\ UNCHANGED <<clock, keyVars, cache, lock, history>>

\* The token endpoint answers, with the nonce of this handshake or not, signed with any key
\* it has ever used.  The user has logged in now, or at an unknown or an earlier time.
Token(h, skew, mine, now) ==
    /\ At(h, "token")
    /\ \E k \in Keys :
        /\ since[k] # Never
        /\ Step(h, [pc |-> "verify", minted |-> clock,
                    token |-> [key |-> k, mine |-> mine, iat |-> clock + skew,
                               exp |-> clock + skew + Life,
                               auth |-> IF now THEN clock + skew ELSE None]])
    /\ UNCHANGED <<clock, keyVars, cache, lock, history>>

Finish(h) ==
    /\ At(h, "end") /\ hs' = [hs EXCEPT ![h] = Idle]
    /\ UNCHANGED <<clock, keyVars, cache, lock, history>>

-----------------------------------------------------------------------------
(* The provider                                                            *)

Publish(k) ==
    /\ since[k] = Never /\ k - 1 \in published
    /\ published' = published \cup {k} /\ since' = [since EXCEPT ![k] = clock]
    /\ UNCHANGED <<clock, until, cache, lock, hs, history>>

Withdraw(k) ==
    /\ k \in published /\ k + 1 \in published
    /\ published' = published \ {k} /\ until' = [until EXCEPT ![k] = clock]
    /\ UNCHANGED <<clock, since, cache, lock, hs, history>>

Tick ==
    /\ clock < MaxTime /\ clock' = clock + 1
    /\ UNCHANGED <<keyVars, cache, lock, hs, history>>

HandshakeStep(h) ==
    \/ Acquire(h) \/ Document(h) \/ Fail(h) \/ Return(h) \/ Leave(h) \/ Finish(h)
    \/ \E skew \in -Skew..Skew, mine \in BOOLEAN, now \in BOOLEAN : Token(h, skew, mine, now)

Next ==
    \/ Tick
    \/ \E k \in Keys : Publish(k) \/ Withdraw(k)
    \/ \E h \in Handshakes :
        \/ \E intent \in {"login", "reauthenticate"} : Start(h, intent)
        \/ HandshakeStep(h)

Spec == Init /\ [][Next]_vars

\* Requests run, browsers come back or give up, and the HTTP client's timeout ends every wait.
Fairness == \A h \in Handshakes : SF_vars(Acquire(h)) /\ WF_vars(HandshakeStep(h))

-----------------------------------------------------------------------------
(* Properties                                                              *)

TrustsBriefly ==
    \A h \in Handshakes : At(h, "verify") /\ hs'[h].outcome = "accepted" =>
        clock <= until[hs[h].token.key] + CacheTime

AcceptsHonest ==
    \A h \in Handshakes : At(h, "verify") /\ hs'[h].outcome = "refused" =>
        LET t == hs[h].token IN
          \/ ~t.mine \/ clock >= hs[h].minted + Life
          \/ (hs[h].intent = "reauthenticate" /\ t.auth # t.iat)
          \/ clock < since[t.key] + CacheTime \/ clock >= until[t.key]

\* What a rotation of keys does to an adapter is over with the life of the cached document,
\* however often that is used: a withdrawn key is trusted no longer, and an honest token,
\* minted for this handshake by a provider whose clock is within the leeway and still
\* alive, is refused only while the document is older than its key.  And "Fetch and briefly
\* cache": no document is fetched again while the copy fetched last would still serve.
KeysFollowed == [][TrustsBriefly /\ AcceptsHonest /\ ~again']_vars

\* Every handshake that is not with the provider ends, although all of them queue for one
\* lock that is held across the network.
EveryHandshakeEnds == \A h \in Handshakes : At(h, "authorize") ~> At(h, "idle")
=============================================================================
