----------------------------- MODULE MCProgress -----------------------------
(* What must happen in the end, for three components that share no state: the ordinary
   outbox, the cache client and the OIDC adapter.  part says which of them a behaviour
   is about; the other two rest in their initial states, where nothing is due. *)
EXTENDS Outbox, TLC

CONSTANTS m1, m2, c1, c2, h1, h2, Garbage

VARIABLES
    part,
    truth, cache, lock, call, floor, loads,                         \* CacheClient
    clock, published, since, until, documents, fetching, hs, fetched, again  \* OidcProvider

cacheVars    == <<truth, cache, lock, call, floor, loads>>
providerVars == <<clock, published, since, until, documents, fetching, hs, fetched, again>>

InOrder == (m1 :> {}) @@ (m2 :> {m1})

Cache == INSTANCE CacheClient WITH
    Callers <- {c1, c2}, FailOpen <- {c1}, TTL <- 1, Lease <- 2, WaitTime <- 1,
    MaxVersion <- 0, Faults <- TRUE, Timed <- TRUE

Provider == INSTANCE OidcProvider WITH
    cache <- documents, lock <- fetching,
    Handshakes <- {h1, h2}, Shared <- TRUE, Keys <- {1}, CacheTime <- 1, Leeway <- 0,
    Life <- 1, Skew <- 0, MaxTime <- 1

ASSUME Cache!CacheAssumption /\ Provider!ProviderAssumption

MCInit ==
    /\ part \in {"outbox", "cache", "provider"}
    /\ Init /\ Cache!Init /\ Provider!Init

MCNext ==
    \/ part = "outbox" /\ Next /\ UNCHANGED <<part, cacheVars, providerVars>>
    \/ part = "cache" /\ Cache!Next /\ UNCHANGED <<part, vars, providerVars>>
    \/ part = "provider" /\ Provider!Next /\ UNCHANGED <<part, vars, cacheVars>>

MCSpec ==
    /\ MCInit /\ [][MCNext]_<<part, vars, cacheVars, providerVars>>
    /\ Fairness /\ Cache!Fairness /\ Provider!Fairness

\* Every message is settled, every call of the cache and every handshake ends, whatever
\* fails meanwhile and although handshakes queue for one lock held across the network.
EverythingEnds == EventuallySettled /\ Cache!EveryCallEnds /\ Provider!EveryHandshakeEnds
=============================================================================
