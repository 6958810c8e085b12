----------------------------- MODULE MCServices -----------------------------
(* Challenges and instances of the smaller components for TLC.  They share no state: part
   says which one a behaviour is about, the others rest in their initial states.  The
   configuration gives the constants of Challenges; Profiles and OidcProvider have several
   scenarios, with constants of their own. *)
EXTENDS Challenges, TLC

CONSTANTS e1, q1, q2, q3, w1, w2, w3, r1, r2, b1, n1, p1, c1, c2, u1, u2, i1, i2, i3,
          shipping, billing, a, b, h1, Garbage

VARIABLES
    part,
    phase, inTx, broken, needs, pending, saved, db, queue, running, ran, reg, lost, \* UnitOfWork
    clock, serial, zset, expires, limiting, admitted, passed, advice,               \* RateLimit
    truth, cache, lock, call, floor, loads,                                         \* CacheClient
    profile, addresses, saving,                                                     \* Profiles
    records, scan,                                                                  \* Pagination
    tree,                                                                           \* Payloads
    time, published, since, until, documents, fetching, hs, fetched, again      \* OidcProvider

workVars     == <<phase, inTx, broken, needs, pending, saved, db, queue, running, ran, reg, lost>>
limitVars    == <<clock, serial, zset, expires, limiting, admitted, passed, advice>>
cacheVars    == <<truth, cache, lock, call, floor, loads>>
profileVars  == <<profile, addresses, saving>>
pageVars     == <<records, scan>>
providerVars == <<time, published, since, until, documents, fetching, hs, fetched, again>>
restVars == <<workVars, limitVars, cacheVars, profileVars, pageVars, tree, providerVars>>
mcVars   == <<part, vars, restVars>>

\* Three changes with a callback each; every statement, commit and callback may fail.
Work == INSTANCE UnitOfWork WITH Writes <- {w1, w2, w3}, NestedCallbacks <- FALSE

\* Two requests at a time against one account, from one client, for longer than a window.
RateLimits == INSTANCE RateLimit WITH
    req <- limiting,
    Requests <- {r1, r2}, Clients <- {b1}, Accounts <- {n1}, Profiles <- {p1},
    IpLimit <- 2, AccountLimit <- 1, ProfileLimit <- 1,
    Window <- 3, Second <- 2, MaxTime <- 4, MaxEntries <- 3

\* A client that fails open and one that does not, a value that changes once, every fault.
Cache == INSTANCE CacheClient WITH
    Callers <- {c1, c2}, FailOpen <- {c1}, TTL <- 1, Lease <- 2, WaitTime <- 1,
    MaxVersion <- 1, Faults <- TRUE, Timed <- TRUE

First == [name |-> "a", phone |-> "x"]

\* One user and three address ids of two kinds, two addresses to a user, two requests.
Book == INSTANCE Profiles WITH
    rows <- addresses, req <- saving,
    Users <- {u1}, Requests <- {r1, r2}, Kinds <- {shipping, billing}, Ids <- {i1, i2, i3},
    Inputs <- {First}, FirstProfile <- First, Limit <- 2

\* Two users and two address ids.
Neighbours == INSTANCE Profiles WITH
    rows <- addresses, req <- saving,
    Users <- {u1, u2}, Requests <- {r1, r2}, Kinds <- {shipping}, Ids <- {i1, i2},
    Inputs <- {First}, FirstProfile <- First, Limit <- 1

\* Two requests of one user; a submission that differs in both columns, one in one.
Profile == INSTANCE Profiles WITH
    rows <- addresses, req <- saving,
    Users <- {u1}, Requests <- {r1, r2}, Kinds <- {shipping}, Ids <- {i1},
    Inputs <- {First, [name |-> "b", phone |-> "y"], [name |-> "a", phone |-> "z"]},
    FirstProfile <- First, Limit <- 1

\* Up to four records at two times, pages of one and two records.
Pages == INSTANCE Pagination WITH
    rows <- records,
    Ids <- {1, 2, 3, 4}, MaxTime <- 1, Actions <- {a, b}, PageSizes <- {1, 2}

\* Every tree of Payloads, with limits small enough to be exceeded by some of them.
Payload == INSTANCE Payloads WITH
    Allowed <- {"a", "b", "s"}, Sensitive <- {"s"}, Unsafe <- {"U"},
    MaxDepth <- 3, MaxFields <- 2, MaxItems <- 2, MaxTotal <- 4, MaxLong <- 1,
    MaxEventDepth <- 3, MaxEventValues <- 4

\* A handshake whose two requests have adapters of their own, as the application builds
\* them; one rotation, and a provider whose clock is one off.
Own == INSTANCE OidcProvider WITH
    clock <- time, cache <- documents, lock <- fetching,
    Handshakes <- {h1}, Shared <- FALSE, Keys <- {1, 2}, CacheTime <- 2, Leeway <- 1,
    Life <- 2, Skew <- 1, MaxTime <- 4

\* An adapter that serves one handshake after another.
Common == INSTANCE OidcProvider WITH
    clock <- time, cache <- documents, lock <- fetching,
    Handshakes <- {h1}, Shared <- TRUE, Keys <- {1, 2}, CacheTime <- 2, Leeway <- 1,
    Life <- 2, Skew <- 1, MaxTime <- 4

ASSUME /\ ChallengeAssumption
       /\ Work!UnitOfWorkAssumption /\ RateLimits!LimitAssumption /\ RateLimits!NoneAssumption
       /\ Cache!CacheAssumption /\ Book!ProfileAssumption /\ Neighbours!ProfileAssumption
       /\ Profile!ProfileAssumption /\ Pages!PaginationAssumption
       /\ Own!ProviderAssumption /\ Common!ProviderAssumption

MCInit ==
    /\ part \in {"challenges", "work", "limits", "cache", "book", "neighbours", "profile", "pages",
               "payloads", "own", "common"}
    /\ Init /\ Work!Init /\ RateLimits!Init /\ Cache!Init /\ Pages!Init
    /\ CASE part = "profile" -> Profile!Init
         [] part = "neighbours" -> Neighbours!Init
         [] OTHER -> Book!Init
    /\ IF part = "own" THEN Own!Init ELSE Common!Init
    /\ IF part = "payloads" THEN Payload!Init ELSE tree = None

Rest(vs) == UNCHANGED <<part, vars, vs>>

MCNext ==
    \/ part = "challenges" /\ Next /\ UNCHANGED <<part, restVars>>
    \/ part = "work" /\ Work!Next
         /\ Rest(<<limitVars, cacheVars, profileVars, pageVars, tree, providerVars>>)
    \/ part = "limits" /\ RateLimits!Next
         /\ Rest(<<workVars, cacheVars, profileVars, pageVars, tree, providerVars>>)
    \/ part = "cache" /\ Cache!Next
         /\ Rest(<<workVars, limitVars, profileVars, pageVars, tree, providerVars>>)
    \/ /\ \/ part = "book" /\ Book!Next
          \/ part = "neighbours" /\ Neighbours!Next
          \/ part = "profile" /\ Profile!Next
       /\ Rest(<<workVars, limitVars, cacheVars, pageVars, tree, providerVars>>)
    \/ part = "pages" /\ Pages!Next
         /\ Rest(<<workVars, limitVars, cacheVars, profileVars, tree, providerVars>>)
    \/ part = "payloads" /\ Payload!Next
         /\ Rest(<<workVars, limitVars, cacheVars, profileVars, pageVars, providerVars>>)
    \/ /\ \/ part = "own" /\ Own!Next
          \/ part = "common" /\ Common!Next
       /\ Rest(<<workVars, limitVars, cacheVars, profileVars, pageVars, tree>>)

MCSpec == MCInit /\ [][MCNext]_mcVars

\* Requests are alike, and so are the actions of records; those of Challenges are exchanged
\* with those of the others.
Symmetry ==
    {f \in Permutations({q1, q2, r1, r2, a, b}) :
        /\ {f[q1], f[q2]} = {q1, q2} /\ {f[a], f[b]} = {a, b}
        /\ (f[q1] = q1 <=> f[r1] = r1) /\ (f[q1] = q1 <=> f[a] = a)}

-----------------------------------------------------------------------------
(* Properties of the components in the scenarios that are about them       *)

\* UnitOfWork: callbacks announce what is durable: all of it, in order, and nothing else.
CallbacksFaithful == part = "work" => Work!CallbacksFaithful

\* RateLimit: limits hold over every window, also when Redis fails, and who comes back
\* when it was told to finds a place.
LimitsKept == part = "limits" => RateLimits!LimitsKept

\* CacheClient: an owner keeps its lock for its lease, an invalidation is final, and a
\* client that fails closed answers no call whose backend failed.
CacheSound == part = "cache" => Cache!CacheSound

\* Profiles: concurrent saves respect the limit, the unique default and whole profiles.
SavesConsistent ==
    /\ part = "book" => Book!SavesConsistent
    /\ part = "neighbours" => Neighbours!SavesConsistent
    /\ part = "profile" => Profile!SavesConsistent

\* Profiles: a committed save stores what was asked, and nothing else.
SavedAsAsked ==
    [][/\ part = "book" => Book!StoresAsAsked
       /\ part = "neighbours" => Neighbours!StoresAsAsked]_mcVars

\* Pagination: a walk returns every record once, in order, and misses none of a growing
\* trail.
WalkComplete == part = "pages" => Pages!WalkComplete

\* Payloads: metadata and events are accepted, redacted and restored as specified.
TreesAsSpecified == part = "payloads" => Payload!TreesAsSpecified

\* OidcProvider: a rotation of keys is over with the life of the cached document, also for
\* an adapter that serves several handshakes; that one fetches no document it has.
KeysFollowed ==
    [][/\ part = "own" => Own!AcceptsHonest
       /\ part = "common" => Common!TrustsBriefly /\ Common!AcceptsHonest /\ ~again']_mcVars
=============================================================================
