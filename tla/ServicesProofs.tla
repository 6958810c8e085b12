--------------------------- MODULE ServicesProofs ---------------------------
(* The smaller services, each for any value of its constants: the limits hold over every
   window; the cache's lock, invalidation and fail_open keep their promises; the provider
   adapter follows the provider's keys; a walk through the pages of a query is complete.
   They share nothing: RateLimit is extended, the others are instances. *)
EXTENDS RateLimit, FiniteSetTheorems, FunctionTheorems, SequenceTheorems, WellFoundedInduction,
        TLAPS

CONSTANTS
    Callers, FailOpen, TTL, Lease, WaitTime, MaxVersion, Faults, Timed, Garbage, \* CacheClient
    Handshakes, Shared, SigningKeys, CacheTime, Leeway, Life, Skew, LastTime,   \* OidcProvider
    Ids, Actions, PageSizes                                                     \* Pagination

VARIABLES
    truth, cache, lock, call, floor, loads,                                     \* CacheClient
    time, published, since, until, documents, fetching, hs, fetched, again,     \* OidcProvider
    rows, scan                                                                  \* Pagination

Cache == INSTANCE CacheClient

Provider == INSTANCE OidcProvider WITH
    clock <- time, cache <- documents, lock <- fetching, Keys <- SigningKeys, MaxTime <- LastTime

Walk == INSTANCE Pagination WITH MaxTime <- LastTime

-----------------------------------------------------------------------------
(* RateLimit: the inductive invariant                                      *)

Entries == [key : Keys, at : Nat, id : Nat]

LimitTypes ==
    /\ clock \in Nat /\ serial \in Nat
    /\ admitted \subseteq Entries /\ zset \subseteq admitted /\ IsFiniteSet(admitted)
    /\ expires \in [Keys -> Nat] /\ advice \in [Keys -> Nat]

\* A request has limits ahead of it as long as it is under way.
RequestInv ==
    /\ req \in [Requests -> [todo : Seq(Keys), marks : SUBSET Entries]]
    /\ \A r \in Requests : Busy(r) => req[r].todo # <<>>

\* Redis forgets no admission while it is younger than the window.
Remembered ==
    \A e \in admitted :
        /\ e.at <= clock
        /\ e.at > clock - Window => e \in zset /\ expires[e.key] >= e.at + Window

\* An identity operation goes on only after an admission.
Backed ==
    /\ passed \subseteq Entries
    /\ \A e \in passed : Identity(e.key) => e \in admitted
    /\ \A r \in Requests : \A e \in req[r].marks : Identity(e.key) => e \in admitted

\* The entries of key k that are younger than the window at time t.
YoungAt(k, t) == {e \in zset : e.key = k /\ e.at > t - Window}

Places ==
    \A k \in Keys :
        /\ Cardinality(Fresh(k)) <= Limit(k)
        /\ advice[k] # 0 => Cardinality(YoungAt(k, advice[k])) < Limit(k)

LimitInv == LimitTypes /\ RequestInv /\ Remembered /\ Backed /\ Places /\ WithinLimit

-----------------------------------------------------------------------------
(* RateLimit: sets and numbers                                             *)

\* A part of a finite set is finite and no larger.
LEMMA Part ==
    ASSUME NEW S, NEW T, IsFiniteSet(S), T \subseteq S
    PROVE  /\ IsFiniteSet(T) /\ Cardinality(T) \in Nat /\ Cardinality(S) \in Nat
           /\ Cardinality(T) <= Cardinality(S)
  BY FS_Subset, FS_CardinalityType

\* An element makes a finite set larger by one at most.
LEMMA OneMore ==
    ASSUME NEW S, NEW x, IsFiniteSet(S), NEW n \in Nat, Cardinality(S) < n
    PROVE  IsFiniteSet(S \cup {x}) /\ Cardinality(S \cup {x}) <= n
  <1>1. Cardinality(S) \in Nat
    BY FS_CardinalityType
  <1> QED
    BY <1>1, FS_AddElement

\* A set of numbers that is not empty has a least one.
LEMMA Least ==
    ASSUME NEW T, T \subseteq Nat, T # {}
    PROVE  \E x \in T : \A y \in T : x <= y
  <1> DEFINE R == OpToRel(<, Nat)
  <1>1. IsWellFoundedOn(R, Nat)
    BY NatLessThanWellFounded, Zenon
  <1>2. \A x, y \in T : y < x => <<y, x>> \in R
    BY DEF OpToRel
  <1> HIDE DEF R
  <1>3. PICK x \in T : \A y \in T : ~ (<<y, x>> \in R)
    BY <1>1, WFMin
  <1>4. ASSUME NEW y \in T
        PROVE  x <= y
    <2>1. ~ (y < x) /\ x \in Nat /\ y \in Nat
      BY <1>2, <1>3
    <2> QED
      BY <2>1
  <1> QED
    BY <1>4

\* Whole seconds are rounded up.
LEMMA RoundedUp ==
    ASSUME LimitAssumption, NEW t \in Int
    PROVE  Seconds(t) \in Nat \ {0} /\ Second * Seconds(t) >= t
  <1> DEFINE a == t + Second - 1
  <1>1. Second \in Nat \ {0} /\ a \in Int
    BY DEF LimitAssumption
  <1>2. CASE t < 1
    BY <1>1, <1>2 DEF Seconds
  <1>3. CASE t >= 1
    <2>1. /\ a \div Second \in Int /\ a % Second \in 0 .. Second - 1
          /\ a = Second * (a \div Second) + (a % Second)
      BY <1>1
    <2>2. Second * (a \div Second) \in Int
      BY <2>1, <1>1
    <2>3. Second * (a \div Second) >= t
      BY <2>1, <2>2, <1>1
    <2>4. a \div Second >= 1
      BY <2>1, <2>2, <2>3, <1>3, <1>1
    <2> QED
      BY <2>1, <2>3, <2>4, <1>3 DEF Seconds
  <1> QED
    BY <1>2, <1>3

\* Every key has a limit.
LEMMA Limits ==
    ASSUME LimitAssumption, NEW k \in Keys
    PROVE  Limit(k) \in Nat \ {0}
  BY DEF LimitAssumption, Limit


-----------------------------------------------------------------------------
(* RateLimit: the script                                                   *)

\* What the invariant says of one key.
LEMMA FreshFacts ==
    ASSUME LimitAssumption, LimitInv, NEW k \in Keys
    PROVE  /\ IsFiniteSet(Fresh(k)) /\ Cardinality(Fresh(k)) \in Nat
           /\ Fresh(k) \subseteq zset /\ zset \subseteq admitted
           /\ Limit(k) \in Nat \ {0} /\ Cardinality(Fresh(k)) <= Limit(k)
           /\ \A e \in Fresh(k) : e.at \in Nat /\ e.key = k /\ e \in admitted
  <1>1. /\ Fresh(k) \subseteq zset /\ zset \subseteq admitted /\ IsFiniteSet(admitted)
        /\ \A e \in Fresh(k) : e.key = k
    BY DEF LimitInv, LimitTypes, Fresh
  <1>2. Fresh(k) \subseteq admitted
    BY <1>1
  <1>3. \A e \in admitted : e.at \in Nat
    BY DEF LimitInv, LimitTypes, Entries
  <1>4. Cardinality(Fresh(k)) <= Limit(k)
    BY DEF LimitInv, Places
  <1> QED
    BY <1>1, <1>2, <1>3, <1>4, Limits, Part

\* The place that a request takes is a place of the window that ends with it.
LEMMA AdmitWithin ==
    ASSUME LimitAssumption, LimitInv, NEW k \in Keys, Admit(k)
    PROVE  WithinLimit'
  <1> DEFINE n == Stamp(k)
             last == Fresh(k) \cup {n}
  <1>1. admitted' = admitted \cup {n} /\ n.key = k /\ n.at = clock /\ clock \in Nat
    BY DEF Admit, Stamp, LimitInv, LimitTypes
  <1>2. IsFiniteSet(last) /\ Cardinality(last) <= Limit(k)
    <2>1. Cardinality(Fresh(k)) < Limit(k) /\ Limit(k) \in Nat /\ IsFiniteSet(Fresh(k))
      BY FreshFacts DEF Admit, Admits
    <2> QED
      BY <2>1, OneMore
  <1>3. \A f \in admitted : f.key = k /\ f.at > clock - Window => f \in Fresh(k)
    BY DEF LimitInv, Remembered, Fresh
  <1>4. \A e \in admitted : e.at \in Nat /\ e.at <= clock
    BY DEF LimitInv, LimitTypes, Remembered, Entries
  <1>5. Window \in Nat \ {0}
    BY DEF LimitAssumption
  <1> HIDE DEF n, last
  <1>6. ASSUME NEW e \in admitted', e.key = k, e.at = clock
        PROVE  Cardinality(InWindow(admitted', k, e)) <= Limit(k)
    <2>1. InWindow(admitted', k, e) \subseteq last
      BY <1>1, <1>3, <1>4, <1>5, <1>6 DEF InWindow, last
    <2> QED
      BY <2>1, <1>2, Part, Limits
  <1>7. ASSUME NEW e \in admitted', ~(e.key = k /\ e.at = clock)
        PROVE  Cardinality(InWindow(admitted', e.key, e)) <= Limit(e.key)
    <2>1. e \in admitted
      BY <1>1, <1>7
    <2>2. InWindow(admitted', e.key, e) = InWindow(admitted, e.key, e)
      <3>1. n \notin InWindow(admitted', e.key, e)
        BY <1>1, <1>4, <1>7, <2>1 DEF InWindow
      <3> QED
        BY <1>1, <3>1 DEF InWindow
    <2> QED
      BY <2>1, <2>2 DEF LimitInv, WithinLimit
  <1> QED
    BY <1>6, <1>7 DEF WithinLimit

\* An admission keeps all that the invariant says of the script's state.
LEMMA AdmitStep ==
    ASSUME LimitAssumption, LimitInv, NEW k \in Keys, Admit(k), clock' = clock
    PROVE  /\ LimitTypes' /\ Remembered' /\ Places' /\ WithinLimit'
           /\ admitted \subseteq admitted' /\ Stamp(k) \in admitted'
           /\ Stamp(k) \in Entries
  <1> DEFINE n == Stamp(k)
  <1>1. /\ admitted' = admitted \cup {n} /\ zset' = Trimmed(k) \cup {n}
        /\ n.key = k /\ n.at = clock /\ n \in Entries
        /\ expires' = [expires EXCEPT ![k] = clock + Window]
        /\ advice' = [advice EXCEPT ![k] = 0] /\ serial' = serial + 1
    BY DEF Admit, Stamp, LimitInv, LimitTypes, Entries
  <1>2. Window \in Nat \ {0}
    BY DEF LimitAssumption
  <1>3. IsFiniteSet(admitted')
    BY <1>1, FS_AddElement DEF LimitInv, LimitTypes
  <1> HIDE DEF n
  <1>4. LimitTypes'
    BY <1>1, <1>2, <1>3 DEF LimitInv, LimitTypes, Trimmed, Fresh
  <1>5. Remembered'
    <2>1. SUFFICES ASSUME NEW e \in admitted'
                   PROVE  /\ e.at <= clock
                          /\ e.at > clock - Window =>
                                e \in zset' /\ expires'[e.key] >= e.at + Window
      BY DEF Remembered
    <2>2. CASE e = n
      BY <2>2, <1>1, <1>2 DEF LimitInv, LimitTypes
    <2>3. CASE e \in admitted
      <3>1. /\ e.at \in Nat /\ e.key \in Keys /\ e.at <= clock /\ clock \in Nat
            /\ e.at > clock - Window => e \in zset /\ expires[e.key] >= e.at + Window
        BY <2>3 DEF LimitInv, LimitTypes, Remembered, Entries
      <3>2. e \in zset /\ e.at > clock - Window => e \in zset'
        BY <1>1 DEF Trimmed, Fresh
      <3>3. expires'[e.key] = IF e.key = k THEN clock + Window ELSE expires[e.key]
        BY <1>1, <3>1 DEF LimitInv, LimitTypes
      <3> QED
        BY <3>1, <3>2, <3>3, <1>2
    <2> QED
      BY <1>1, <2>2, <2>3
  <1>6. Places'
    <2>1. SUFFICES ASSUME NEW l \in Keys
                   PROVE  /\ Cardinality(Fresh(l)') <= Limit(l)
                          /\ advice'[l] # 0 => Cardinality(YoungAt(l, advice[l])') < Limit(l)
      BY DEF Places, YoungAt
    <2>2. CASE l = k
      <3>1. Fresh(k)' = Fresh(k) \cup {n}
        BY <1>1, <1>2 DEF Fresh, Trimmed, LimitInv, LimitTypes
      <3>2. advice'[k] = 0
        BY <1>1 DEF LimitInv, LimitTypes
      <3>3. Cardinality(Fresh(k)) < Limit(k) /\ Limit(k) \in Nat /\ IsFiniteSet(Fresh(k))
        BY FreshFacts DEF Admit, Admits
      <3>4. Cardinality(Fresh(k)') <= Limit(k)
        BY <3>1, <3>3, OneMore
      <3> QED
        BY <2>2, <3>2, <3>4
    <2>3. CASE l # k
      <3>1. Fresh(l)' = Fresh(l) /\ advice'[l] = advice[l]
        BY <2>3, <1>1 DEF Fresh, Trimmed, LimitInv, LimitTypes
      <3>2. YoungAt(l, advice[l])' = YoungAt(l, advice[l])
        BY <2>3, <1>1, <3>1 DEF YoungAt, Trimmed, Fresh
      <3> QED
        BY <3>1, <3>2 DEF LimitInv, Places
    <2> QED
      BY <2>2, <2>3
  <1> QED
    BY <1>1, <1>4, <1>5, <1>6, AdmitWithin DEF n


\* The state of the script shrinks to zset', and no advice but that of key k changes.
LEMMA Shrinks ==
    ASSUME LimitAssumption, LimitInv,
           zset' \subseteq zset, clock' \in Nat, clock' >= clock, admitted' = admitted,
           expires' = expires, serial' \in Nat, advice' \in [Keys -> Nat],
           \A e \in zset \ zset' : e.at <= clock' - Window,
           \A k \in Keys : advice'[k] # 0 =>
                \/ advice'[k] = advice[k]
                \/ Cardinality(YoungAt(k, advice'[k])) < Limit(k)
    PROVE  LimitTypes' /\ Remembered' /\ Places' /\ WithinLimit'
  <1>1. Window \in Nat \ {0} /\ clock \in Nat
    BY DEF LimitAssumption, LimitInv, LimitTypes
  <1>2. LimitTypes'
    BY DEF LimitInv, LimitTypes
  <1>3. Remembered'
    <2>1. SUFFICES ASSUME NEW e \in admitted
                   PROVE  /\ e.at <= clock'
                          /\ e.at > clock' - Window =>
                                e \in zset' /\ expires[e.key] >= e.at + Window
      BY DEF Remembered
    <2>2. /\ e.at \in Nat /\ e.at <= clock
          /\ e.at > clock - Window => e \in zset /\ expires[e.key] >= e.at + Window
      BY DEF LimitInv, LimitTypes, Remembered, Entries
    <2>3. e \in zset \ zset' => e.at <= clock' - Window
      OBVIOUS
    <2> QED
      BY <2>2, <2>3, <1>1
  <1>4. Places'
    <2>1. SUFFICES ASSUME NEW k \in Keys
                   PROVE  /\ Cardinality(Fresh(k)') <= Limit(k)
                          /\ advice'[k] # 0 => Cardinality(YoungAt(k, advice[k])') < Limit(k)
      BY DEF Places, YoungAt
    <2>2. /\ IsFiniteSet(Fresh(k)) /\ Cardinality(Fresh(k)) \in Nat /\ Limit(k) \in Nat
          /\ Cardinality(Fresh(k)) <= Limit(k)
      BY FreshFacts
    <2>3. Fresh(k)' \subseteq Fresh(k)
      <3>1. \A e \in zset : e.at \in Nat
        BY DEF LimitInv, LimitTypes, Entries
      <3> QED
        BY <3>1, <1>1 DEF Fresh
    <2>4. Cardinality(Fresh(k)') <= Limit(k)
      <3>1. Cardinality(Fresh(k)') \in Nat /\ Cardinality(Fresh(k)') <= Cardinality(Fresh(k))
        BY <2>2, <2>3, Part
      <3> QED
        BY <2>2, <3>1
    <2>5. ASSUME advice'[k] # 0
          PROVE  Cardinality(YoungAt(k, advice[k])') < Limit(k)
      <3>1. Cardinality(YoungAt(k, advice'[k])) < Limit(k)
        BY <2>5 DEF LimitInv, Places
      <3>2. /\ YoungAt(k, advice[k])' \subseteq YoungAt(k, advice'[k])
            /\ YoungAt(k, advice'[k]) \subseteq admitted
        BY DEF YoungAt, LimitInv, LimitTypes
      <3>3. IsFiniteSet(YoungAt(k, advice'[k]))
        BY <3>2, Part DEF LimitInv, LimitTypes
      <3>4. /\ Cardinality(YoungAt(k, advice[k])') \in Nat
            /\ Cardinality(YoungAt(k, advice'[k])) \in Nat
            /\ Cardinality(YoungAt(k, advice[k])') <= Cardinality(YoungAt(k, advice'[k]))
        BY <3>2, <3>3, Part
      <3> QED
        BY <3>1, <3>4, <2>2
    <2> QED
      BY <2>4, <2>5
  <1>5. WithinLimit'
    BY DEF LimitInv, WithinLimit, InWindow
  <1> QED
    BY <1>2, <1>3, <1>4, <1>5

\* Who is refused is told a time at which the oldest entry has left the window.
LEMMA Due ==
    ASSUME LimitAssumption, LimitInv, NEW k \in Keys, ~Admits(k)
    PROVE  LET due == clock + Second * Seconds(Oldest(k) + Window - clock)
           IN  /\ due \in Nat \ {0}
               /\ Cardinality(YoungAt(k, due)) < Limit(k)
  <1> DEFINE T == {e.at : e \in Fresh(k)}
             o == Oldest(k)
             wait == Second * Seconds(o + Window - clock)
             due == clock + wait
  <1>1. Window \in Nat \ {0} /\ Second \in Nat \ {0} /\ clock \in Nat
    BY DEF LimitAssumption, LimitInv, LimitTypes
  <1>2. /\ IsFiniteSet(Fresh(k)) /\ Cardinality(Fresh(k)) \in Nat
        /\ Limit(k) \in Nat \ {0} /\ Cardinality(Fresh(k)) <= Limit(k)
        /\ \A e \in Fresh(k) : e.at \in Nat
    BY FreshFacts
  <1>3. Fresh(k) # {}
    <2>1. Cardinality(Fresh(k)) # 0
      BY <1>2 DEF Admits
    <2> QED
      BY <2>1, FS_EmptySet
  <1>4. o \in T /\ \A e \in Fresh(k) : o <= e.at
    <2>1. T \subseteq Nat /\ T # {}
      BY <1>2, <1>3
    <2>2. \E t \in T : \A y \in T : t <= y
      BY <2>1, Least
    <2>3. \E t \in T : \A e \in Fresh(k) : t <= e.at
      BY <2>2
    <2> QED
      BY <2>3 DEF Oldest
  <1>5. PICK old \in Fresh(k) : old.at = o
    BY <1>4
  <1>6. o \in Nat /\ o > clock - Window
    BY <1>5, <1>2 DEF Fresh
  <1>7. /\ Seconds(o + Window - clock) \in Nat \ {0}
        /\ wait >= o + Window - clock
    BY <1>1, <1>6, RoundedUp
  <1>8. wait \in Nat \ {0}
    BY <1>7, <1>1
  <1>9. due \in Nat \ {0} /\ due - Window >= o
    BY <1>8, <1>7, <1>6, <1>1
  <1> HIDE DEF due, wait, o
  <1>10. YoungAt(k, due) \subseteq Fresh(k) \ {old}
    <2>1. SUFFICES ASSUME NEW e \in YoungAt(k, due)
                   PROVE  e \in Fresh(k) /\ e # old
      OBVIOUS
    <2>2. e \in zset /\ e.key = k /\ e.at > due - Window /\ e.at \in Nat
      BY DEF YoungAt, LimitInv, LimitTypes, Entries
    <2> QED
      BY <2>2, <1>9, <1>5, <1>6, <1>1 DEF Fresh
  <1>11. /\ IsFiniteSet(Fresh(k) \ {old})
         /\ Cardinality(Fresh(k) \ {old}) = Cardinality(Fresh(k)) - 1
    BY <1>2, <1>5, FS_RemoveElement
  <1>12. /\ Cardinality(YoungAt(k, due)) \in Nat
         /\ Cardinality(YoungAt(k, due)) <= Cardinality(Fresh(k)) - 1
    BY <1>10, <1>11, Part
  <1>13. Cardinality(YoungAt(k, due)) < Limit(k)
    BY <1>2, <1>12
  <1> QED
    BY <1>9, <1>13 DEF due, wait, o


\* A refusal keeps all that the invariant says of the script's state.
LEMMA RefuseStep ==
    ASSUME LimitAssumption, LimitInv, NEW k \in Keys, Refuse(k), clock' = clock
    PROVE  /\ LimitTypes' /\ Remembered' /\ Places' /\ WithinLimit'
           /\ admitted' = admitted
  <1> DEFINE due == clock + Second * Seconds(Oldest(k) + Window - clock)
  <1>1. due \in Nat \ {0} /\ Cardinality(YoungAt(k, due)) < Limit(k)
    BY Due DEF Refuse
  <1>2. /\ advice' = [advice EXCEPT ![k] = IF advice[k] = 0 \/ due < advice[k]
                                            THEN due ELSE advice[k]]
        /\ zset' = Trimmed(k) /\ serial' = serial /\ expires' = expires
        /\ admitted' = admitted
    BY DEF Refuse
  <1> HIDE DEF due
  <1>3. /\ advice \in [Keys -> Nat] /\ clock \in Nat /\ serial \in Nat
        /\ \A e \in zset : e.at \in Nat
    BY DEF LimitInv, LimitTypes, Entries
  <1>4. advice' \in [Keys -> Nat]
    BY <1>1, <1>2, <1>3
  <1>5. \A l \in Keys : \/ advice'[l] = advice[l]
                        \/ l = k /\ advice'[l] = due
    BY <1>2, <1>3
  <1>6. \A l \in Keys : advice'[l] # 0 =>
            \/ advice'[l] = advice[l]
            \/ Cardinality(YoungAt(l, advice'[l])) < Limit(l)
    BY <1>1, <1>5
  <1>7. /\ zset' \subseteq zset
        /\ \A e \in zset \ zset' : e.at <= clock' - Window
    <2>1. Window \in Nat
      BY DEF LimitAssumption
    <2> QED
      BY <1>2, <1>3, <2>1 DEF Trimmed, Fresh
  <1> QED
    BY <1>2, <1>3, <1>4, <1>6, <1>7, Shrinks

\* Time passes: Redis drops only keys whose entries have left the window.
LEMMA WindowMoves ==
    ASSUME LimitAssumption, LimitInv, Tick
    PROVE  LimitInv'
  <1>1. /\ clock' = clock + 1 /\ zset' = {e \in zset : clock' < expires[e.key]}
        /\ UNCHANGED <<serial, expires, req, admitted, passed, advice>>
    BY DEF Tick
  <1>2. clock \in Nat /\ serial \in Nat /\ advice \in [Keys -> Nat] /\ Window \in Nat
    BY DEF LimitInv, LimitTypes, LimitAssumption
  <1>3. \A e \in zset \ zset' : e.at <= clock' - Window
    <2>1. SUFFICES ASSUME NEW e \in zset, ~(clock' < expires[e.key])
                   PROVE  e.at <= clock' - Window
      BY <1>1
    <2>2. /\ e.at \in Nat /\ expires[e.key] \in Nat
          /\ e.at > clock - Window => expires[e.key] >= e.at + Window
      BY DEF LimitInv, LimitTypes, Remembered, Entries
    <2> QED
      BY <2>1, <2>2, <1>1, <1>2
  <1>4. LimitTypes' /\ Remembered' /\ Places' /\ WithinLimit'
    BY <1>1, <1>2, <1>3, Shrinks
  <1>5. RequestInv' /\ Backed'
    BY <1>1 DEF LimitInv, RequestInv, Backed, Busy
  <1> QED
    BY <1>4, <1>5 DEF LimitInv

-----------------------------------------------------------------------------
(* RateLimit: requests                                                     *)

\* A request under way is about to be limited by a key.
LEMMA KeyFacts ==
    ASSUME LimitInv, NEW r \in Requests, Busy(r)
    PROVE  /\ Key(r) \in Keys
           /\ req[r].todo \in Seq(Keys) /\ req[r].todo # <<>>
           /\ req[r].marks \subseteq Entries
           /\ Stamp(Key(r)) \in Entries /\ Stamp(Key(r)).key = Key(r)
  <1>1. /\ req[r].todo \in Seq(Keys) /\ req[r].todo # <<>> /\ req[r].marks \subseteq Entries
    BY DEF LimitInv, RequestInv
  <1>2. Key(r) \in Keys
    BY <1>1 DEF Key
  <1> QED
    BY <1>1, <1>2 DEF Stamp, Entries, LimitInv, LimitTypes

\* A request that goes on takes its mark along, or to its handler.
LEMMA GoOnStep ==
    ASSUME LimitInv, NEW r \in Requests, Busy(r), NEW mark \in Entries, GoOn(r, mark),
           admitted \subseteq admitted', Identity(mark.key) => mark \in admitted'
    PROVE  RequestInv' /\ Backed'
  <1> DEFINE marks == req[r].marks \cup {mark}
  <1>1. /\ req \in [Requests -> [todo : Seq(Keys), marks : SUBSET Entries]]
        /\ \A q \in Requests : req[q] # Idle => req[q].todo # <<>>
        /\ passed \subseteq Entries
        /\ \A e \in passed : Identity(e.key) => e \in admitted
        /\ \A q \in Requests : \A e \in req[q].marks : Identity(e.key) => e \in admitted
    BY DEF LimitInv, RequestInv, Backed, Busy
  <1>2. marks \subseteq Entries /\ \A e \in marks : Identity(e.key) => e \in admitted'
    BY <1>1
  <1>3. \A e \in passed : Identity(e.key) => e \in admitted'
    BY <1>1
  <1>4. \A q \in Requests : \A e \in req[q].marks : Identity(e.key) => e \in admitted'
    BY <1>1
  <1> HIDE DEF marks
  <1>5. CASE Len(req[r].todo) > 1
    <2> DEFINE rest == [todo |-> Tail(req[r].todo), marks |-> marks]
    <2>1. req' = [req EXCEPT ![r] = rest] /\ passed' = passed
      BY <1>5 DEF GoOn, marks
    <2>2. Tail(req[r].todo) \in Seq(Keys) /\ Tail(req[r].todo) # <<>>
      <3>1. PICK t \in Seq(Keys) : t = req[r].todo
        BY <1>1
      <3>2. t # <<>> /\ Len(t) > 1
        BY <3>1, <1>5
      <3>3. Tail(t) \in Seq(Keys) /\ Len(Tail(t)) = Len(t) - 1
        BY <3>2
      <3>4. Len(Tail(t)) # 0 /\ Len(<<>>) = 0
        BY <3>2, <3>3, EmptySeq
      <3>5. Tail(t) # <<>>
        BY <3>4, Zenon
      <3> QED
        BY <3>1, <3>3, <3>5
    <2>3. rest \in [todo : Seq(Keys), marks : SUBSET Entries]
      BY <1>2, <2>2
    <2>4. rest.todo # <<>> /\ rest.marks = marks
      BY <2>2
    <2> HIDE DEF rest
    <2>5. RequestInv'
      BY <1>1, <2>1, <2>3, <2>4 DEF RequestInv, Busy
    <2>6. Backed'
      <3>1. \A q \in Requests : req'[q] = IF q = r THEN rest ELSE req[q]
        BY <1>1, <2>1
      <3> QED
        BY <1>1, <1>2, <1>3, <1>4, <2>1, <2>4, <3>1 DEF Backed
    <2> QED
      BY <2>5, <2>6
  <1>6. CASE ~(Len(req[r].todo) > 1)
    <2>1. req' = [req EXCEPT ![r] = Idle] /\ passed' = passed \cup marks
      BY <1>6 DEF GoOn, marks
    <2>2. Idle \in [todo : Seq(Keys), marks : SUBSET Entries] /\ Idle.marks = {}
      BY DEF Idle
    <2>3. RequestInv'
      BY <1>1, <2>1, <2>2 DEF RequestInv, Busy
    <2>4. Backed'
      <3>1. \A q \in Requests : req'[q] = IF q = r THEN Idle ELSE req[q]
        BY <1>1, <2>1
      <3> QED
        BY <1>1, <1>2, <1>3, <1>4, <2>1, <2>2, <3>1 DEF Backed
    <2> QED
      BY <2>3, <2>4
  <1> QED
    BY <1>5, <1>6

\* A request that ends leaves nothing behind.
LEMMA StopStep ==
    ASSUME LimitInv, NEW r \in Requests, Stop(r), admitted \subseteq admitted'
    PROVE  RequestInv' /\ Backed'
  <1>1. req' = [req EXCEPT ![r] = Idle] /\ passed' = passed
    BY DEF Stop
  <1>2. Idle \in [todo : Seq(Keys), marks : SUBSET Entries] /\ Idle.marks = {}
    BY DEF Idle
  <1>3. RequestInv'
    BY <1>1, <1>2 DEF LimitInv, RequestInv, Busy
  <1>4. \A q \in Requests : req'[q] = IF q = r THEN Idle ELSE req[q]
    BY <1>1 DEF LimitInv, RequestInv
  <1>5. Backed'
    BY <1>1, <1>2, <1>4 DEF LimitInv, Backed
  <1> QED
    BY <1>3, <1>5

\* A request begins with the keys it is limited by.
LEMMA BeginStep ==
    ASSUME LimitInv, NEW r \in Requests, NEW todo \in Seq(Keys), todo # <<>>,
           req[r] = Idle, req' = [req EXCEPT ![r].todo = todo],
           UNCHANGED <<clock, serial, zset, expires, admitted, passed, advice>>
    PROVE  LimitInv'
  <1>1. req \in [Requests -> [todo : Seq(Keys), marks : SUBSET Entries]]
    BY DEF LimitInv, RequestInv
  <1>2. /\ req' \in [Requests -> [todo : Seq(Keys), marks : SUBSET Entries]]
        /\ \A q \in Requests : /\ req'[q].marks = req[q].marks
                               /\ req'[q].todo = IF q = r THEN todo ELSE req[q].todo
                               /\ q # r => req'[q] = req[q]
    BY <1>1
  <1>3. RequestInv'
    BY <1>2 DEF LimitInv, RequestInv, Busy
  <1>4. Backed'
    BY <1>2 DEF LimitInv, Backed
  <1>5. LimitTypes' /\ Remembered' /\ WithinLimit'
    BY DEF LimitInv, LimitTypes, Remembered, WithinLimit, InWindow
  <1>6. Places'
    BY DEF LimitInv, Places, Fresh, YoungAt
  <1> QED
    BY <1>3, <1>4, <1>5, <1>6 DEF LimitInv

\* An error is the end of an identity operation.
LEMMA ErrorStep ==
    ASSUME LimitInv, NEW r \in Requests, Busy(r), AfterError(r), admitted \subseteq admitted'
    PROVE  RequestInv' /\ Backed'
  <1>1. CASE FailsOpen(Key(r))
    <2>1. ~Identity(Stamp(Key(r)).key) /\ GoOn(r, Stamp(Key(r)))
      BY <1>1, KeyFacts DEF Identity, FailsOpen, AfterError
    <2>2. Stamp(Key(r)) \in Entries
      BY KeyFacts
    <2> QED
      BY <2>1, <2>2, GoOnStep
  <1>2. CASE ~FailsOpen(Key(r))
    BY <1>2, StopStep DEF AfterError
  <1> QED
    BY <1>1, <1>2

LEMMA LimitInit ==
    ASSUME LimitAssumption, Init
    PROVE  LimitInv
  <1>1. LimitTypes
    BY FS_EmptySet DEF Init, LimitTypes
  <1>2. RequestInv
    BY DEF Init, RequestInv, Idle, Busy
  <1>3. Remembered /\ WithinLimit
    BY DEF Init, Remembered, WithinLimit
  <1>4. Backed
    BY DEF Init, Backed, Idle
  <1>5. Places
    <2>1. SUFFICES ASSUME NEW k \in Keys
                   PROVE  Cardinality(Fresh(k)) <= Limit(k) /\ advice[k] = 0
      BY DEF Places
    <2>2. Fresh(k) = {} /\ advice[k] = 0
      BY DEF Init, Fresh
    <2> QED
      BY <2>2, FS_EmptySet, Limits
  <1> QED
    BY <1>1, <1>2, <1>3, <1>4, <1>5 DEF LimitInv

LEMMA LimitNext ==
    ASSUME LimitAssumption, LimitInv, [Next]_vars
    PROVE  LimitInv'
  <1>1. CASE Tick
    BY <1>1, WindowMoves
  <1>2. ASSUME NEW r \in Requests, NEW c \in Clients, NEW a \in Accounts \cup {None},
               Identify(r, c, a)
        PROVE  LimitInv'
    <2> DEFINE todo == IF a = None THEN <<IpKey(c)>> ELSE <<IpKey(c), AccountKey(a)>>
    <2>1. IpKey(c) \in Keys /\ (a # None => AccountKey(a) \in Keys)
      BY DEF Keys
    <2>2. todo \in Seq(Keys) /\ todo # <<>>
      BY <2>1
    <2> QED
      BY <2>2, <1>2, BeginStep DEF Identify
  <1>3. ASSUME NEW r \in Requests, NEW u \in Profiles, ChangeProfile(r, u)
        PROVE  LimitInv'
    <2>1. UserKey(u) \in Keys
      BY DEF Keys
    <2>2. <<UserKey(u)>> \in Seq(Keys) /\ <<UserKey(u)>> # <<>>
      BY <2>1
    <2> QED
      BY <2>2, <1>3, BeginStep DEF ChangeProfile
  <1>4. ASSUME NEW r \in Requests, Allowed(r)
        PROVE  LimitInv'
    <2>1. Busy(r) /\ Admit(Key(r)) /\ GoOn(r, Stamp(Key(r))) /\ clock' = clock
      BY <1>4 DEF Allowed
    <2>2. Key(r) \in Keys /\ Stamp(Key(r)) \in Entries
      BY <2>1, KeyFacts
    <2>3. /\ LimitTypes' /\ Remembered' /\ Places' /\ WithinLimit'
          /\ admitted \subseteq admitted' /\ Stamp(Key(r)) \in admitted'
      BY <2>1, <2>2, AdmitStep
    <2>4. RequestInv' /\ Backed'
      BY <2>1, <2>2, <2>3, GoOnStep
    <2> QED
      BY <2>3, <2>4 DEF LimitInv
  <1>5. ASSUME NEW r \in Requests, Limited(r)
        PROVE  LimitInv'
    <2>1. Busy(r) /\ Refuse(Key(r)) /\ Stop(r) /\ clock' = clock
      BY <1>5 DEF Limited
    <2>2. LimitTypes' /\ Remembered' /\ Places' /\ WithinLimit' /\ admitted' = admitted
      BY <2>1, KeyFacts, RefuseStep
    <2>3. RequestInv' /\ Backed'
      BY <2>1, <2>2, StopStep
    <2> QED
      BY <2>2, <2>3 DEF LimitInv
  <1>6. ASSUME NEW r \in Requests, TooLarge(r)
        PROVE  LimitInv'
    <2>1. Stop(r) /\ UNCHANGED <<clock, serial, zset, expires, admitted, advice>>
      BY <1>6 DEF TooLarge
    <2>2. RequestInv' /\ Backed'
      BY <2>1, StopStep
    <2>3. LimitTypes' /\ Remembered' /\ WithinLimit' /\ Places'
      BY <2>1 DEF LimitInv, LimitTypes, Remembered, WithinLimit, InWindow, Places, Fresh, YoungAt
    <2> QED
      BY <2>2, <2>3 DEF LimitInv
  <1>7. ASSUME NEW r \in Requests, Unavailable(r)
        PROVE  LimitInv'
    <2>1. /\ Busy(r) /\ AfterError(r) /\ UNCHANGED <<clock, zset, expires, admitted, advice>>
          /\ serial' = IF FailsOpen(Key(r)) THEN serial + 1 ELSE serial
      BY <1>7 DEF Unavailable
    <2>2. RequestInv' /\ Backed'
      BY <2>1, ErrorStep
    <2>3. LimitTypes' /\ Remembered' /\ WithinLimit' /\ Places'
      BY <2>1 DEF LimitInv, LimitTypes, Remembered, WithinLimit, InWindow, Places, Fresh, YoungAt
    <2> QED
      BY <2>2, <2>3 DEF LimitInv
  <1>8. ASSUME NEW r \in Requests, AnswerLost(r)
        PROVE  LimitInv'
    <2>1. Busy(r) /\ Admit(Key(r)) /\ AfterError(r) /\ clock' = clock
      BY <1>8 DEF AnswerLost
    <2>2. /\ LimitTypes' /\ Remembered' /\ Places' /\ WithinLimit' /\ admitted \subseteq admitted'
      BY <2>1, KeyFacts, AdmitStep
    <2>3. RequestInv' /\ Backed'
      BY <2>1, <2>2, ErrorStep
    <2> QED
      BY <2>2, <2>3 DEF LimitInv
  <1>9. CASE UNCHANGED vars
    BY <1>9 DEF vars, LimitInv, LimitTypes, RequestInv, Busy, Remembered, Backed, WithinLimit,
                InWindow,
                Places, Fresh, YoungAt
  <1> QED
    BY <1>1, <1>2, <1>3, <1>4, <1>5, <1>6, <1>7, <1>8, <1>9 DEF Next

\* The inductive invariant says what the limits promise.
LEMMA LimitInvImplies ==
    ASSUME LimitAssumption, LimitInv
    PROVE  LimitsKept
  <1>1. FailClosed
    <2>1. SUFFICES ASSUME NEW e \in passed, Identity(e.key)
                   PROVE  Cardinality(InWindow(passed, e.key, e)) <= Limit(e.key)
      BY DEF FailClosed
    <2>2. e \in admitted /\ e.key \in Keys
      BY <2>1 DEF LimitInv, Backed, Entries
    <2>3. Cardinality(InWindow(admitted, e.key, e)) <= Limit(e.key)
      BY <2>2 DEF LimitInv, WithinLimit
    <2>4. /\ InWindow(passed, e.key, e) \subseteq InWindow(admitted, e.key, e)
          /\ InWindow(admitted, e.key, e) \subseteq admitted
      BY <2>1 DEF InWindow, LimitInv, Backed
    <2>5. IsFiniteSet(InWindow(admitted, e.key, e))
      BY <2>4, Part DEF LimitInv, LimitTypes
    <2> QED
      BY <2>2, <2>3, <2>4, <2>5, Part, Limits
  <1>2. AdviceHonest
    <2>1. SUFFICES ASSUME NEW k \in Keys, advice[k] # 0, clock >= advice[k]
                   PROVE  Cardinality(Fresh(k)) < Limit(k)
      BY DEF AdviceHonest, Admits
    <2>2. /\ clock \in Nat /\ advice[k] \in Nat /\ Window \in Nat /\ zset \subseteq admitted
          /\ \A e \in zset : e.at \in Nat
      BY DEF LimitInv, LimitTypes, Entries, LimitAssumption
    <2>3. Fresh(k) \subseteq YoungAt(k, advice[k]) /\ YoungAt(k, advice[k]) \subseteq admitted
      BY <2>1, <2>2 DEF Fresh, YoungAt
    <2>4. IsFiniteSet(YoungAt(k, advice[k]))
      BY <2>3, Part DEF LimitInv, LimitTypes
    <2>5. Cardinality(YoungAt(k, advice[k])) < Limit(k)
      BY <2>1 DEF LimitInv, Places
    <2> QED
      BY <2>3, <2>4, <2>5, Part, Limits
  <1> QED
    BY <1>1, <1>2 DEF LimitsKept, LimitInv

\* No window of a client, an account or a user ever holds more admissions than its limit; a
\* handler of an identity operation runs no more often than that, whatever Redis fails to
\* answer; and who comes back when it was told to finds a place (the sliding-window script,
\* identify_rate_limit and profile_rate_limit).
THEOREM LimitsAlwaysKept ==
    ASSUME LimitAssumption
    PROVE  Spec => []LimitsKept
  <1>1. Init => LimitInv
    BY LimitInit
  <1>2. LimitInv /\ [Next]_vars => LimitInv'
    BY LimitNext
  <1>3. LimitInv => LimitsKept
    BY LimitInvImplies
  <1> QED
    BY <1>1, <1>2, <1>3, PTL DEF Spec

-----------------------------------------------------------------------------
(* CacheClient: the inductive invariant                                    *)

CallFields == {"pc", "op", "mode", "val", "lease", "timer", "failed", "floor", "got"}

Owning == {"load", "store", "watch", "unlock"}

\* What a call x of caller c may be when the durable value is t, readers expect fl and the
\* lock is lk.
CallOk(c, x, t, fl, lk) ==
    /\ DOMAIN x = CallFields /\ x.lease \in Nat /\ x.timer \in Nat
    /\ x.floor \in Nat /\ x.floor <= fl
    /\ x.got \in Nat \cup {None}
    /\ x.got # None => x.pc = "end" /\ x.got >= x.floor
    /\ x.pc = "store" => x.val \in Nat /\ fl <= x.val /\ x.val <= t
    /\ x.pc \in {"watch", "unlock"} =>
            x.val \in Nat \cup {None} /\ (x.val # None => x.val >= x.floor)
    /\ x.mode = "owner" /\ x.lease > 0 /\ x.pc \in Owning => lk.token = c /\ lk.left >= x.lease
    /\ x.failed /\ c \notin FailOpen =>
            \/ x.pc = "end" /\ x.got = None
            \/ x.pc \in {"watch", "unlock"} /\ x.val = None

Calls ==
    /\ DOMAIN call = Callers
    /\ \A c \in Callers : CallOk(c, call[c], truth, floor, lock)

\* The cached value is one that readers may expect.
Stored ==
    /\ truth \in Nat /\ floor \in Nat /\ floor <= truth
    /\ cache \in [val : Nat \cup {None, Garbage}, left : Nat]
    /\ cache.val \in Nat => floor <= cache.val /\ cache.val <= truth

LockType == lock \in [token : Callers \cup {None}, left : Nat]

CacheInv == Stored /\ LockType /\ Calls

-----------------------------------------------------------------------------
(* CacheClient: steps of one call                                          *)

\* A step of caller c that gives its call the value y, and the lock only from nobody to c
\* or from c to nobody.
LEMMA OneCall ==
    ASSUME CacheInv, NEW c \in Callers, DOMAIN call' = Callers,
           \A d \in Callers \ {c} : call'[d] = call[d],
           CallOk(c, call'[c], truth, floor, lock'), truth' = truth, floor' = floor,
           lock' = lock \/ lock.token \notin Callers \ {c}
    PROVE  Calls'
  <1>1. ASSUME NEW d \in Callers, d # c
        PROVE  CallOk(d, call'[d], truth', floor', lock')
    <2>1. CallOk(d, call[d], truth, floor, lock) /\ call'[d] = call[d]
      BY <1>1 DEF CacheInv, Calls
    <2>2. CASE lock' = lock
      BY <2>1, <2>2
    <2>3. CASE lock.token # d
      BY <2>1, <2>3 DEF CallOk
    <2> QED
      BY <2>2, <2>3, <1>1
  <1>2. ASSUME NEW d \in Callers
        PROVE  CallOk(d, call'[d], truth', floor', lock')
    <2>1. CASE d = c
      BY <2>1
    <2>2. CASE d # c
      BY <2>2, <1>1
    <2> QED
      BY <2>1, <2>2
  <1> QED
    BY <1>2 DEF Calls

\* What a step of caller c makes of its call, and that it leaves the others alone.
LEMMA Replaced ==
    ASSUME CacheInv, NEW c \in Callers, NEW y, call' = [call EXCEPT ![c] = y]
    PROVE  /\ DOMAIN call' = Callers /\ call'[c] = y
           /\ \A d \in Callers \ {c} : call'[d] = call[d]
  BY DEF CacheInv, Calls

\* The fields of a changed call.
LEMMA CallWith ==
    ASSUME NEW x, DOMAIN x = CallFields, NEW ch
    PROVE  /\ DOMAIN Cache!With(x, ch) = CallFields
           /\ \A f \in CallFields : Cache!With(x, ch)[f] = IF f \in DOMAIN ch THEN ch[f] ELSE x[f]
  BY DEF Cache!With

\* A call that answers v, or raises.
LEMMA Answers ==
    ASSUME CacheInv, NEW c \in Callers, NEW v \in Nat \cup {None}, v # None => v >= call[c].floor,
           call[c].failed /\ c \notin FailOpen => v = None, NEW lk
    PROVE  CallOk(c, Cache!With(call[c], Cache!Answer(v)), truth, floor, lk)
  <1> DEFINE x == call[c]
             y == Cache!With(x, Cache!Answer(v))
  <1>1. CallOk(c, x, truth, floor, lock)
    BY DEF CacheInv, Calls
  <1>2. DOMAIN x = CallFields
    BY <1>1 DEF CallOk
  <1> HIDE DEF x
  <1>3. /\ DOMAIN y = CallFields /\ y.pc = "end" /\ y.got = v
        /\ y.op = x.op /\ y.mode = x.mode /\ y.val = x.val /\ y.lease = x.lease
        /\ y.timer = x.timer /\ y.failed = x.failed /\ y.floor = x.floor
    BY <1>2, CallWith DEF Cache!Answer, CallFields, Cache!With
  <1> HIDE DEF y
  <1>4. CallOk(c, y, truth, floor, lk)
    BY <1>1, <1>3 DEF CallOk, x, Owning
  <1> QED
    BY <1>4 DEF x, y


\* A call that goes on to another command, without a value.
LEMMA CallGoesOn ==
    ASSUME CacheInv, NEW c \in Callers, call[c].pc \notin {"end", "watch", "unlock"},
           NEW ch, DOMAIN ch \subseteq {"pc", "op", "mode", "timer", "lease", "floor"},
           "pc" \in DOMAIN ch, ch.pc \in {"read", "scrub", "wait", "acquire", "load"},
           "timer" \in DOMAIN ch => ch.timer \in Nat,
           "lease" \in DOMAIN ch => ch.lease \in Nat,
           "floor" \in DOMAIN ch => ch.floor = floor,
           NEW lk,
           ch.pc = "load" =>
                /\ "mode" \in DOMAIN ch
                /\ ch.mode = "owner" =>
                        "lease" \in DOMAIN ch /\ lk.token = c /\ lk.left >= ch.lease
    PROVE  CallOk(c, Cache!With(call[c], ch), truth, floor, lk)
  <1> DEFINE x == call[c]
             y == Cache!With(x, ch)
  <1>1. CallOk(c, x, truth, floor, lock) /\ floor \in Nat
    BY DEF CacheInv, Calls, Stored
  <1>2. DOMAIN x = CallFields
    BY <1>1 DEF CallOk
  <1>3. x.pc \notin {"end", "watch", "unlock"}
    OBVIOUS
  <1> HIDE DEF x
  <1>4. /\ DOMAIN y = CallFields /\ y.pc = ch.pc /\ y.val = x.val /\ y.failed = x.failed
        /\ y.got = x.got
        /\ y.mode = IF "mode" \in DOMAIN ch THEN ch.mode ELSE x.mode
        /\ y.lease = IF "lease" \in DOMAIN ch THEN ch.lease ELSE x.lease
        /\ y.timer = IF "timer" \in DOMAIN ch THEN ch.timer ELSE x.timer
        /\ y.floor = IF "floor" \in DOMAIN ch THEN ch.floor ELSE x.floor
    BY <1>2, CallWith DEF CallFields
  <1> HIDE DEF y
  <1>5. y.lease \in Nat /\ y.timer \in Nat /\ y.floor \in Nat /\ y.floor <= floor
    BY <1>1, <1>4 DEF CallOk
  <1>6. y.got = None
    BY <1>1, <1>3, <1>4 DEF CallOk
  <1>7. ~(y.failed /\ c \notin FailOpen)
    BY <1>1, <1>3, <1>4 DEF CallOk
  <1>8. y.mode = "owner" /\ y.lease > 0 /\ y.pc \in Owning => lk.token = c /\ lk.left >= y.lease
    BY <1>4 DEF Owning
  <1>9. CallOk(c, y, truth, floor, lk)
    BY <1>4, <1>5, <1>6, <1>7, <1>8 DEF CallOk
  <1> QED
    BY <1>9 DEF x, y

\* A call that has a value v, to be stored or to be answered once the lock is released.
LEMMA Carries ==
    ASSUME CacheInv, NEW c \in Callers, NEW pc \in {"store", "watch"},
           call[c].pc \in {"load", "store"}, NEW v \in Nat \cup {None},
           v # None => floor <= v /\ v <= truth, pc = "store" => v # None,
           pc = "watch" => call[c].mode = "owner",
           NEW lk, lk = lock
    PROVE  CallOk(c, Cache!With(call[c], [pc |-> pc, val |-> v]), truth, floor, lk)
  <1> DEFINE x == call[c]
             y == Cache!With(x, [pc |-> pc, val |-> v])
  <1>1. CallOk(c, x, truth, floor, lock) /\ floor \in Nat
    BY DEF CacheInv, Calls, Stored
  <1>2. DOMAIN x = CallFields
    BY <1>1 DEF CallOk
  <1>3. x.pc \in {"load", "store"}
    OBVIOUS
  <1> HIDE DEF x
  <1>4. /\ DOMAIN y = CallFields /\ y.pc = pc /\ y.val = v
        /\ y.mode = x.mode /\ y.lease = x.lease /\ y.got = x.got
        /\ y.timer = x.timer /\ y.failed = x.failed /\ y.floor = x.floor
    BY <1>2, CallWith DEF CallFields
  <1> HIDE DEF y
  <1>5. /\ y.lease \in Nat /\ y.timer \in Nat /\ y.floor \in Nat /\ y.floor <= floor
        /\ y.got = None
    BY <1>1, <1>3, <1>4 DEF CallOk
  <1>6. ~(y.failed /\ c \notin FailOpen)
    BY <1>1, <1>3, <1>4 DEF CallOk
  <1>7. y.mode = "owner" /\ y.lease > 0 => lk.token = c /\ lk.left >= y.lease
    BY <1>1, <1>3, <1>4 DEF CallOk, Owning
  <1>8. y.val # None => y.val \in Nat /\ y.val >= y.floor
    BY <1>1, <1>4, <1>5
  <1>9. CallOk(c, y, truth, floor, lk)
    BY <1>4, <1>5, <1>6, <1>7, <1>8 DEF CallOk
  <1> QED
    BY <1>9 DEF x, y

\* A failed call of a client that fails closed has no value.
LEMMA Fails ==
    ASSUME NEW c, NEW y, NEW t, NEW fl, NEW lk, CallOk(c, y, t, fl, lk),
           \/ c \in FailOpen
           \/ y.pc = "end" /\ y.got = None
           \/ y.pc = "watch" /\ y.val = None
    PROVE  CallOk(c, [y EXCEPT !.failed = TRUE], t, fl, lk)
  <1> DEFINE z == [y EXCEPT !.failed = TRUE]
  <1>1. DOMAIN y = CallFields
    BY DEF CallOk
  <1>2. /\ DOMAIN z = CallFields /\ z.failed = TRUE /\ z.pc = y.pc /\ z.val = y.val
        /\ z.mode = y.mode /\ z.lease = y.lease /\ z.got = y.got
        /\ z.timer = y.timer /\ z.floor = y.floor
    BY <1>1 DEF CallFields
  <1> HIDE DEF z
  <1>3. CallOk(c, z, t, fl, lk)
    BY <1>2 DEF CallOk
  <1> QED
    BY <1>3 DEF z

\* The three ways a miss goes on.
LEMMA Misses ==
    ASSUME CacheInv, NEW c \in Callers, call[c].pc \notin {"end", "watch", "unlock"}
    PROVE  CallOk(c, Cache!With(call[c], Cache!Miss(c)), truth, floor, lock)
  <1>1. CallOk(c, call[c], truth, floor, lock)
    BY DEF CacheInv, Calls
  <1>2. CASE Cache!Miss(c) = Cache!Answer(None)
    BY <1>2, Answers
  <1>3. CASE Cache!Miss(c) = [pc |-> "wait", timer |-> Cache!Rearmed(c)]
    <2>1. Cache!Rearmed(c) \in Nat
      BY <1>1 DEF Cache!Rearmed, CallOk
    <2> QED
      BY <1>3, <2>1, CallGoesOn
  <1>4. CASE Cache!Miss(c) = [pc |-> "acquire"]
    BY <1>4, CallGoesOn
  <1>5. \/ Cache!Miss(c) = Cache!Answer(None)
        \/ Cache!Miss(c) = [pc |-> "wait", timer |-> Cache!Rearmed(c)]
        \/ Cache!Miss(c) = [pc |-> "acquire"]
    <2>1. CASE call[c].op = "get"
      BY <2>1 DEF Cache!Miss
    <2>2. CASE call[c].op # "get" /\ call[c].mode = "waiter"
      BY <2>2 DEF Cache!Miss
    <2>3. CASE call[c].op # "get" /\ call[c].mode # "waiter"
      BY <2>3 DEF Cache!Miss
    <2> QED
      BY <2>1, <2>2, <2>3
  <1> QED
    BY <1>2, <1>3, <1>4, <1>5

\* A value that has been stored, or given up, is answered.
LEMMA AfterStores ==
    ASSUME CacheInv, Cache!CacheAssumption, NEW c \in Callers, call[c].pc = "store",
           NEW v, v = call[c].val \/ v = None
    PROVE  CallOk(c, Cache!With(call[c], Cache!AfterStore(c, v)), truth, floor, lock)
  <1>1. CallOk(c, call[c], truth, floor, lock) /\ floor \in Nat
    BY DEF CacheInv, Calls, Stored
  <1>2. /\ v \in Nat \cup {None}
        /\ v # None => floor <= v /\ v <= truth
        /\ v # None => v >= call[c].floor
        /\ ~(call[c].failed /\ c \notin FailOpen)
    BY <1>1 DEF CallOk
  <1>3. CASE call[c].mode = "owner"
    <2>1. Cache!AfterStore(c, v) = [pc |-> "watch", val |-> v]
      BY <1>3 DEF Cache!AfterStore
    <2>2. CallOk(c, Cache!With(call[c], [pc |-> "watch", val |-> v]), truth, floor, lock)
      BY <1>2, <1>3, Carries
    <2> QED
      BY <2>1, <2>2
  <1>4. CASE call[c].mode # "owner"
    <2>1. Cache!AfterStore(c, v) = Cache!Answer(v)
      BY <1>4 DEF Cache!AfterStore
    <2> QED
      BY <1>2, <2>1, Answers
  <1> QED
    BY <1>3, <1>4


-----------------------------------------------------------------------------
(* CacheClient: actions                                                    *)

\* The rest of the invariant does not mention calls.
LEMMA ValueKept ==
    ASSUME Cache!CacheAssumption, CacheInv, UNCHANGED <<truth, floor>>,
           \/ cache' = cache \/ cache' = Cache!NoEntry
           \/ cache'.val \in Nat /\ floor <= cache'.val /\ cache'.val <= truth
              /\ cache' \in [val : Nat, left : Nat]
    PROVE  Stored'
  BY DEF Cache!CacheAssumption, CacheInv, Stored, Cache!NoEntry

\* The call of a caller, as the invariant has it.
LEMMA CallFacts ==
    ASSUME CacheInv, NEW c \in Callers
    PROVE  /\ CallOk(c, call[c], truth, floor, lock)
           /\ truth \in Nat /\ floor \in Nat /\ floor <= truth
           /\ call[c].floor \in Nat /\ call[c].floor <= floor
           /\ call[c].pc \notin {"end", "watch", "unlock"} =>
                ~(call[c].failed /\ c \notin FailOpen)
  BY DEF CacheInv, Calls, Stored, CallOk

LEMMA IdleOk ==
    ASSUME Cache!CacheAssumption, NEW c, NEW t \in Nat, NEW fl \in Nat, NEW lk
    PROVE  CallOk(c, Cache!Idle, t, fl, lk)
  BY DEF Cache!CacheAssumption, CallOk, Cache!Idle, CallFields, Owning

\* A call begins, ends or dies.
LEMMA BoundarySteps ==
    ASSUME Cache!CacheAssumption, CacheInv, NEW c \in Callers,
           \/ \E op \in {"get", "get_or_load"} : Cache!Call(c, op)
           \/ Cache!Return(c)
           \/ Cache!Crash(c)
    PROVE  CacheInv'
  <1>1. Stored' /\ LockType'
    BY DEF CacheInv, Stored, LockType, Cache!Call, Cache!Return, Cache!Crash
  <1>2. ASSUME NEW op \in {"get", "get_or_load"}, Cache!Call(c, op)
        PROVE  Calls'
    <2> DEFINE ch == [pc |-> "read", op |-> op, floor |-> floor]
    <2>1. /\ call' = [call EXCEPT ![c] = Cache!With(call[c], ch)] /\ call[c].pc = "idle"
          /\ UNCHANGED <<truth, floor, lock>>
      BY <1>2 DEF Cache!Call, Cache!Step, Cache!At
    <2>2. CallOk(c, Cache!With(call[c], ch), truth, floor, lock')
      BY <2>1, CallGoesOn
    <2> QED
      BY <2>1, <2>2, Replaced, OneCall
  <1>3. ASSUME Cache!Return(c) \/ Cache!Crash(c)
        PROVE  Calls'
    <2>1. call' = [call EXCEPT ![c] = Cache!Idle] /\ UNCHANGED <<truth, floor, lock>>
      BY <1>3 DEF Cache!Return, Cache!Crash
    <2>2. CallOk(c, Cache!Idle, truth, floor, lock')
      BY IdleOk, CallFacts
    <2> QED
      BY <2>1, <2>2, Replaced, OneCall
  <1> QED
    BY <1>1, <1>2, <1>3 DEF CacheInv

LEMMA ReadSteps ==
    ASSUME Cache!CacheAssumption, CacheInv, NEW c \in Callers,
           Cache!Read(c) \/ Cache!Scrub(c) \/ Cache!Poll(c)
    PROVE  CacheInv'
  <1>1. UNCHANGED <<truth, floor, lock>>
    BY DEF Cache!Read, Cache!Scrub, Cache!Poll
  <1>2. Stored' /\ LockType'
    <2>1. cache' = cache \/ cache' = Cache!NoEntry
      BY DEF Cache!Read, Cache!Scrub, Cache!Poll
    <2> QED
      BY <1>1, <2>1, ValueKept DEF CacheInv, LockType
  <1>3. DOMAIN call' = Callers /\ \A d \in Callers \ {c} : call'[d] = call[d]
    BY Replaced DEF Cache!Read, Cache!Scrub, Cache!Poll, Cache!Step
  <1>7. SUFFICES CallOk(c, call'[c], truth, floor, lock)
    BY <1>1, <1>2, <1>3, OneCall DEF CacheInv
  <1>4. CASE Cache!Read(c)
    <2>1. call[c].pc = "read"
      BY <1>4 DEF Cache!Read, Cache!At
    <2>2. CASE cache.val = None
      <3>1. Cache!Step(c, Cache!Miss(c))
        BY <1>4, <2>2 DEF Cache!Read, Cache!CacheAssumption
      <3>2. call'[c] = Cache!With(call[c], Cache!Miss(c))
        BY <3>1, Replaced DEF Cache!Step
      <3> QED
        BY <2>1, <3>2, Misses
    <2>3. CASE cache.val # None /\ cache.val = Garbage
      <3>1. call'[c] = Cache!With(call[c], [pc |-> "scrub"])
        BY <1>4, <2>3, Replaced DEF Cache!Read, Cache!Step
      <3>2. CallOk(c, Cache!With(call[c], [pc |-> "scrub"]), truth, floor, lock)
        BY <2>1, CallGoesOn
      <3> QED
        BY <3>1, <3>2
    <2>4. CASE cache.val # None /\ cache.val # Garbage
      <3>1. call'[c] = Cache!With(call[c], Cache!Answer(cache.val))
        BY <1>4, <2>4, Replaced DEF Cache!Read, Cache!Step
      <3>2. cache.val \in Nat /\ cache.val >= floor
        BY <2>4 DEF CacheInv, Stored
      <3>3. cache.val >= call[c].floor /\ ~(call[c].failed /\ c \notin FailOpen)
        BY <2>1, <3>2, CallFacts
      <3> QED
        BY <3>1, <3>2, <3>3, Answers
    <2> QED
      BY <2>2, <2>3, <2>4
  <1>5. CASE Cache!Scrub(c)
    <2>1. call'[c] = Cache!With(call[c], Cache!Miss(c)) /\ call[c].pc = "scrub"
      BY <1>5, Replaced DEF Cache!Scrub, Cache!Step, Cache!At
    <2> QED
      BY <2>1, Misses
  <1>6. CASE Cache!Poll(c)
    <2>1. call[c].pc = "wait"
      BY <1>6 DEF Cache!Poll, Cache!At
    <2>2. CASE call[c].timer > 0
      <3>1. CallOk(c, Cache!With(call[c], [pc |-> "read"]), truth, floor, lock)
        BY <2>1, CallGoesOn
      <3>2. call'[c] = Cache!With(call[c], [pc |-> "read"])
        BY <1>6, <2>2, Replaced DEF Cache!Poll, Cache!Step
      <3> QED
        BY <3>1, <3>2
    <2>3. CASE ~(call[c].timer > 0)
      <3>1. CallOk(c, Cache!With(call[c], Cache!Loading("late")), truth, floor, lock)
        BY <2>1, CallGoesOn DEF Cache!Loading
      <3>2. call'[c] = Cache!With(call[c], Cache!Loading("late"))
        BY <1>6, <2>3, Replaced DEF Cache!Poll, Cache!Step
      <3> QED
        BY <3>1, <3>2
    <2> QED
      BY <2>2, <2>3
  <1> QED
    BY <1>4, <1>5, <1>6


LEMMA AcquireStep ==
    ASSUME Cache!CacheAssumption, CacheInv, NEW c \in Callers, Cache!Acquire(c)
    PROVE  CacheInv'
  <1>1. /\ UNCHANGED <<truth, cache, floor>> /\ call[c].pc = "acquire"
        /\ Lease \in Nat /\ WaitTime \in Nat
    BY DEF Cache!Acquire, Cache!At, Cache!CacheAssumption
  <1>2. Stored'
    BY <1>1, ValueKept
  <1>3. CASE lock.token = None
    <2> DEFINE ch == [pc |-> "load", mode |-> "owner", lease |-> Lease]
    <2>1. /\ lock' = [token |-> c, left |-> Lease]
          /\ call' = [call EXCEPT ![c] = Cache!With(call[c], ch)]
      BY <1>3 DEF Cache!Acquire, Cache!Step
    <2>2. lock'.token = c /\ lock'.left = Lease /\ LockType'
      BY <1>1, <2>1 DEF LockType
    <2>3. CallOk(c, Cache!With(call[c], ch), truth, floor, lock')
      BY <1>1, <2>2, CallGoesOn
    <2>4. lock.token \notin Callers \ {c}
      BY <1>3 DEF Cache!CacheAssumption
    <2> QED
      BY <1>1, <1>2, <2>1, <2>2, <2>3, <2>4, Replaced, OneCall DEF CacheInv
  <1>4. CASE lock.token # None
    <2> DEFINE ch == [pc |-> "wait", mode |-> "waiter", timer |-> WaitTime]
    <2>1. lock' = lock /\ call' = [call EXCEPT ![c] = Cache!With(call[c], ch)]
      BY <1>4 DEF Cache!Acquire, Cache!Step
    <2>2. CallOk(c, Cache!With(call[c], ch), truth, floor, lock)
      BY <1>1, CallGoesOn
    <2> QED
      BY <1>1, <1>2, <2>1, <2>2, Replaced, OneCall DEF CacheInv, LockType
  <1> QED
    BY <1>3, <1>4

LEMMA LoadSteps ==
    ASSUME Cache!CacheAssumption, CacheInv, NEW c \in Callers,
           Cache!Load(c) \/ Cache!LoadFails(c) \/ Cache!Store(c)
    PROVE  CacheInv'
  <1>1. UNCHANGED <<truth, floor, lock>>
    BY DEF Cache!Load, Cache!LoadFails, Cache!Store
  <1>2. DOMAIN call' = Callers /\ \A d \in Callers \ {c} : call'[d] = call[d]
    BY Replaced DEF Cache!Load, Cache!LoadFails, Cache!Store, Cache!Step
  <1>3. /\ CallOk(c, call[c], truth, floor, lock) /\ truth \in Nat /\ floor \in Nat
        /\ floor <= truth /\ TTL \in Nat
    BY CallFacts DEF Cache!CacheAssumption
  <1>4. Stored' /\ LockType'
    <2>1. \/ cache' = cache
          \/ call[c].pc = "store" /\ cache' = [val |-> call[c].val, left |-> TTL]
      BY DEF Cache!Load, Cache!LoadFails, Cache!Store, Cache!At
    <2>2. call[c].pc = "store" => call[c].val \in Nat /\ floor <= call[c].val
                                  /\ call[c].val <= truth
      BY <1>3 DEF CallOk
    <2>3. Stored'
      BY <1>1, <1>3, <2>1, <2>2, ValueKept
    <2> QED
      BY <1>1, <2>3 DEF CacheInv, LockType
  <1>5. SUFFICES CallOk(c, call'[c], truth, floor, lock)
    BY <1>1, <1>2, <1>4, OneCall DEF CacheInv
  <1>6. CASE Cache!Load(c)
    <2>1. call[c].pc = "load"
      BY <1>6 DEF Cache!Load, Cache!At
    <2>2. CASE call[c].mode = "plain"
      <3>1. call'[c] = Cache!With(call[c], Cache!Answer(truth))
        BY <1>6, <2>2, Replaced DEF Cache!Load, Cache!Step
      <3>2. truth >= call[c].floor /\ ~(call[c].failed /\ c \notin FailOpen)
        BY <2>1, CallFacts
      <3> QED
        BY <1>3, <3>1, <3>2, Answers
    <2>3. CASE call[c].mode # "plain"
      <3>1. call'[c] = Cache!With(call[c], [pc |-> "store", val |-> truth])
        BY <1>6, <2>3, Replaced DEF Cache!Load, Cache!Step
      <3>2. CallOk(c, Cache!With(call[c], [pc |-> "store", val |-> truth]), truth, floor, lock)
        <4>1. truth # None
          BY <1>3 DEF Cache!CacheAssumption
        <4> QED
          BY <1>3, <2>1, <4>1, Carries
      <3> QED
        BY <3>1, <3>2
    <2> QED
      BY <2>2, <2>3
  <1>7. CASE Cache!LoadFails(c)
    <2>1. call[c].pc = "load"
      BY <1>7 DEF Cache!LoadFails, Cache!At
    <2>2. CASE call[c].mode = "owner"
      <3>1. call'[c] = Cache!With(call[c], [pc |-> "watch", val |-> None])
        BY <1>7, <2>2, Replaced DEF Cache!LoadFails, Cache!Step
      <3>2. CallOk(c, Cache!With(call[c], [pc |-> "watch", val |-> None]), truth, floor, lock)
        BY <2>1, <2>2, Carries
      <3> QED
        BY <3>1, <3>2
    <2>3. CASE call[c].mode # "owner"
      <3>1. call'[c] = Cache!With(call[c], Cache!Answer(None))
        BY <1>7, <2>3, Replaced DEF Cache!LoadFails, Cache!Step, Cache!Raise
      <3> QED
        BY <3>1, Answers
    <2> QED
      BY <2>2, <2>3
  <1>8. CASE Cache!Store(c)
    <2>1. call[c].pc = "store" /\ call'[c] = Cache!With(call[c], Cache!AfterStore(c, call[c].val))
      BY <1>8, Replaced DEF Cache!Store, Cache!At, Cache!Step
    <2> QED
      BY <2>1, AfterStores
  <1> QED
    BY <1>6, <1>7, <1>8

\* A call that is about to release its lock, or is past it, answers its value.
LEMMA Released ==
    ASSUME CacheInv, NEW c \in Callers, call[c].pc \in {"watch", "unlock"}, NEW lk
    PROVE  CallOk(c, Cache!With(call[c], Cache!Answer(call[c].val)), truth, floor, lk)
  <1>1. CallOk(c, call[c], truth, floor, lock)
    BY CallFacts
  <1>2. /\ call[c].val \in Nat \cup {None}
        /\ call[c].val # None => call[c].val >= call[c].floor
        /\ call[c].failed /\ c \notin FailOpen => call[c].val = None
    BY <1>1 DEF CallOk
  <1> QED
    BY <1>2, Answers

LEMMA ReleaseSteps ==
    ASSUME Cache!CacheAssumption, CacheInv, NEW c \in Callers, Cache!Watch(c) \/ Cache!Unlock(c)
    PROVE  CacheInv'
  <1>1. UNCHANGED <<truth, cache, floor>>
    BY DEF Cache!Watch, Cache!Unlock
  <1>2. lock' = lock \/ (lock.token = c /\ lock' = Cache!NoLock)
    BY DEF Cache!Watch, Cache!Unlock, Cache!Unwatched
  <1>3. Stored' /\ LockType'
    BY <1>1, <1>2, ValueKept DEF CacheInv, LockType, Cache!NoLock
  <1>4. DOMAIN call' = Callers /\ \A d \in Callers \ {c} : call'[d] = call[d]
    BY Replaced DEF Cache!Watch, Cache!Unlock, Cache!Step
  <1>5. SUFFICES CallOk(c, call'[c], truth, floor, lock')
    BY <1>1, <1>2, <1>3, <1>4, OneCall DEF CacheInv
  <1>6. CASE Cache!Unlock(c)
    <2>1. call[c].pc = "unlock" /\ call'[c] = Cache!With(call[c], Cache!Answer(call[c].val))
      BY <1>6, Replaced DEF Cache!Unlock, Cache!At, Cache!Step
    <2> QED
      BY <2>1, Released
  <1>7. CASE Cache!Watch(c) /\ ~Cache!OwnToken(c)
    <2>1. call[c].pc = "watch" /\ call'[c] = Cache!With(call[c], Cache!Answer(call[c].val))
      BY <1>7, Replaced DEF Cache!Watch, Cache!At, Cache!Step
    <2> QED
      BY <2>1, Released
  <1>8. CASE Cache!Watch(c) /\ Cache!OwnToken(c)
    <2> DEFINE x == call[c]
               y == Cache!With(x, [pc |-> "unlock"])
    <2>1. x.pc = "watch" /\ call'[c] = y /\ lock' = lock
      BY <1>8, Replaced DEF Cache!Watch, Cache!At, Cache!Step
    <2>2. CallOk(c, x, truth, floor, lock)
      BY CallFacts
    <2>3. DOMAIN x = CallFields
      BY <2>2 DEF CallOk
    <2> HIDE DEF x
    <2>4. /\ DOMAIN y = CallFields /\ y.pc = "unlock" /\ y.val = x.val
          /\ y.mode = x.mode /\ y.lease = x.lease /\ y.got = x.got
          /\ y.timer = x.timer /\ y.failed = x.failed /\ y.floor = x.floor
      BY <2>3, CallWith DEF CallFields
    <2> HIDE DEF y
    <2>5. CallOk(c, y, truth, floor, lock)
      BY <2>1, <2>2, <2>4 DEF CallOk, Owning
    <2> QED
      BY <2>1, <2>5
  <1> QED
    BY <1>6, <1>7, <1>8


\* A command fails, with or without its effect.
LEMMA OutageStep ==
    ASSUME Cache!CacheAssumption, CacheInv, NEW c \in Callers, Cache!Outage(c)
    PROVE  CacheInv'
  <1>1. UNCHANGED <<truth, floor>>
    BY DEF Cache!Outage
  <1>2. CallOk(c, call[c], truth, floor, lock) /\ TTL \in Nat /\ Lease \in Nat
    BY CallFacts DEF Cache!CacheAssumption
  <1>3. /\ DOMAIN call' = Callers /\ \A d \in Callers \ {c} : call'[d] = call[d]
    BY Replaced DEF Cache!Outage, Cache!Failing
  <1>4. Stored'
    <2>1. \/ cache' = cache
          \/ call[c].pc = "store" /\ cache' = [val |-> call[c].val, left |-> TTL]
      BY DEF Cache!Outage, Cache!At
    <2>2. call[c].pc = "store" => call[c].val \in Nat /\ floor <= call[c].val
                                  /\ call[c].val <= truth
      BY <1>2 DEF CallOk
    <2> QED
      BY <1>1, <1>2, <2>1, <2>2, ValueKept
  <1>5. \/ lock' = lock
        \/ lock.token = None /\ lock' = [token |-> c, left |-> Lease]
        \/ lock.token = c /\ lock' = Cache!NoLock
    BY DEF Cache!Outage, Cache!Unwatched
  <1>6. LockType'
    BY <1>2, <1>5 DEF CacheInv, LockType, Cache!NoLock
  <1>7. lock' = lock \/ lock.token \notin Callers \ {c}
    BY <1>5 DEF Cache!CacheAssumption
  <1>8. SUFFICES CallOk(c, call'[c], truth, floor, lock')
    BY <1>1, <1>3, <1>4, <1>6, <1>7, OneCall DEF CacheInv
  <1>9. ASSUME NEW ch, Cache!Failing(c, ch),
               CallOk(c, Cache!With(call[c], ch), truth, floor, lock'),
               \/ c \in FailOpen
               \/ Cache!With(call[c], ch).pc = "end" /\ Cache!With(call[c], ch).got = None
               \/ Cache!With(call[c], ch).pc = "watch" /\ Cache!With(call[c], ch).val = None
        PROVE  CallOk(c, call'[c], truth, floor, lock')
    <2>1. call'[c] = [Cache!With(call[c], ch) EXCEPT !.failed = TRUE]
      BY <1>9, Replaced DEF Cache!Failing
    <2> QED
      BY <1>9, <2>1, Fails
  <1>10. DOMAIN call[c] = CallFields
    BY <1>2 DEF CallOk
  <1>11. /\ Cache!With(call[c], Cache!Answer(None)).pc = "end"
         /\ Cache!With(call[c], Cache!Answer(None)).got = None
    BY <1>10, CallWith DEF CallFields, Cache!Answer
  <1>12. CallOk(c, Cache!With(call[c], Cache!Answer(None)), truth, floor, lock')
    BY Answers
  <1>13. ASSUME Cache!Failing(c, Cache!Raise)
         PROVE  CallOk(c, call'[c], truth, floor, lock')
    BY <1>9, <1>11, <1>12, <1>13 DEF Cache!Raise
  <1>14. ASSUME Cache!Failing(c, Cache!Loading("plain")), Cache!Ignores(c),
                call[c].pc \notin {"end", "watch", "unlock"}
         PROVE  CallOk(c, call'[c], truth, floor, lock')
    <2>1. CallOk(c, Cache!With(call[c], Cache!Loading("plain")), truth, floor, lock')
      BY <1>14, CallGoesOn DEF Cache!Loading
    <2> QED
      BY <1>9, <1>14, <2>1 DEF Cache!Ignores
  <1>15. CASE Cache!At(c, "read") \/ Cache!At(c, "acquire")
    <2>1. call[c].pc \in {"read", "acquire"}
      BY <1>15 DEF Cache!At
    <2>2. \/ Cache!Failing(c, Cache!Raise)
          \/ Cache!Failing(c, Cache!Loading("plain")) /\ Cache!Ignores(c)
      BY <1>15, <2>1 DEF Cache!Outage, Cache!At
    <2> QED
      BY <1>13, <1>14, <2>1, <2>2
  <1>16. CASE Cache!At(c, "store")
    <2> DEFINE v == IF Cache!Ignores(c) THEN call[c].val ELSE None
    <2>1. call[c].pc = "store" /\ lock' = lock /\ Cache!Failing(c, Cache!AfterStore(c, v))
      BY <1>16 DEF Cache!Outage, Cache!At
    <2>2. CallOk(c, Cache!With(call[c], Cache!AfterStore(c, v)), truth, floor, lock')
      BY <2>1, AfterStores
    <2>3. CASE Cache!Ignores(c)
      BY <1>9, <2>1, <2>2, <2>3 DEF Cache!Ignores
    <2>4. CASE ~Cache!Ignores(c) /\ call[c].mode = "owner"
      <3>1. Cache!AfterStore(c, v) = [pc |-> "watch", val |-> None]
        BY <2>4 DEF Cache!AfterStore
      <3>2. /\ Cache!With(call[c], [pc |-> "watch", val |-> None]).pc = "watch"
            /\ Cache!With(call[c], [pc |-> "watch", val |-> None]).val = None
        BY <1>10, CallWith DEF CallFields
      <3> QED
        BY <1>9, <2>1, <2>2, <3>1, <3>2
    <2>5. CASE ~Cache!Ignores(c) /\ call[c].mode # "owner"
      <3>1. Cache!AfterStore(c, v) = Cache!Raise
        BY <2>5 DEF Cache!AfterStore, Cache!Raise
      <3> QED
        BY <1>13, <2>1, <3>1
    <2> QED
      BY <2>3, <2>4, <2>5
  <1>17. CASE call[c].pc \in {"watch", "unlock"}
    <2>1. \/ Cache!Failing(c, Cache!Raise)
          \/ Cache!Failing(c, Cache!Answer(call[c].val)) /\ Cache!Ignores(c)
      BY <1>17 DEF Cache!Outage, Cache!At
    <2>2. CallOk(c, Cache!With(call[c], Cache!Answer(call[c].val)), truth, floor, lock')
      BY <1>17, Released
    <2> QED
      BY <1>9, <1>13, <2>1, <2>2 DEF Cache!Ignores
  <1> QED
    BY <1>15, <1>16, <1>17 DEF Cache!Outage

-----------------------------------------------------------------------------
(* CacheClient: the owner of the data, and time                            *)

LEMMA DataSteps ==
    ASSUME Cache!CacheAssumption, CacheInv, Cache!Corrupt \/ Cache!Write \/ Cache!Invalidate
    PROVE  CacheInv'
  <1>1. call' = call /\ lock' = lock
    BY DEF Cache!Corrupt, Cache!Write, Cache!Invalidate
  <1>2. LockType'
    BY <1>1 DEF CacheInv, LockType
  <1>3. CASE Cache!Corrupt
    <2>1. truth' = truth /\ floor' = floor /\ cache' = [cache EXCEPT !.val = Garbage]
      BY <1>3 DEF Cache!Corrupt
    <2>2. Stored'
      BY <2>1 DEF CacheInv, Stored, Cache!CacheAssumption
    <2>3. Calls'
      BY <1>1, <2>1 DEF CacheInv, Calls
    <2> QED
      BY <1>2, <2>2, <2>3 DEF CacheInv
  <1>4. CASE Cache!Write
    <2>1. truth' = truth + 1 /\ floor' = floor /\ cache' = cache
      BY <1>4 DEF Cache!Write
    <2>2. Stored'
      BY <2>1 DEF CacheInv, Stored
    <2>3. ASSUME NEW c \in Callers
          PROVE  CallOk(c, call[c], truth + 1, floor, lock)
      BY CallFacts DEF CallOk
    <2> QED
      BY <1>1, <1>2, <2>1, <2>2, <2>3 DEF CacheInv, Calls
  <1>5. CASE Cache!Invalidate
    <2>1. /\ truth' = truth /\ cache' = Cache!NoEntry
          /\ floor' = IF Cache!InFlight THEN floor ELSE truth
      BY <1>5 DEF Cache!Invalidate, Cache!Deleted
    <2>2. Stored'
      BY <2>1 DEF CacheInv, Stored, Cache!NoEntry, Cache!CacheAssumption
    <2>3. ASSUME NEW c \in Callers
          PROVE  CallOk(c, call[c], truth, floor', lock)
      <3>1. CASE Cache!InFlight
        BY <2>1, <3>1, CallFacts
      <3>2. CASE ~Cache!InFlight
        <4>1. call[c].pc # "store" /\ floor' = truth
          BY <2>1, <3>2 DEF Cache!InFlight
        <4> QED
          BY <4>1, CallFacts DEF CallOk
      <3> QED
        BY <3>1, <3>2
    <2> QED
      BY <1>1, <1>2, <2>1, <2>2, <2>3 DEF CacheInv, Calls
  <1> QED
    BY <1>3, <1>4, <1>5

\* The lock and the leases run out together.
LEMMA LeasesRunOut ==
    ASSUME Cache!CacheAssumption, CacheInv, Cache!Tick
    PROVE  CacheInv'
  <1>1. /\ truth' = truth /\ floor' = floor
        /\ cache' = IF cache.left > 1 THEN [cache EXCEPT !.left = @ - 1] ELSE Cache!NoEntry
        /\ lock' = IF lock.left > 1 THEN [lock EXCEPT !.left = @ - 1] ELSE Cache!NoLock
    BY DEF Cache!Tick
  <1>2. Stored'
    BY <1>1 DEF CacheInv, Stored, Cache!NoEntry, Cache!CacheAssumption
  <1>3. LockType'
    BY <1>1 DEF CacheInv, LockType, Cache!NoLock
  <1>4. DOMAIN call' = Callers
    BY DEF Cache!Tick
  <1>5. ASSUME NEW c \in Callers
        PROVE  CallOk(c, call'[c], truth, floor, lock')
    <2> DEFINE x == call[c]
               y == [x EXCEPT !.lease = Cache!Less(@), !.timer = Cache!Less(@)]
    <2>1. call'[c] = y
      BY DEF Cache!Tick
    <2>2. /\ CallOk(c, x, truth, floor, lock) /\ DOMAIN x = CallFields
          /\ x.lease \in Nat /\ x.timer \in Nat
      BY CallFacts DEF CallOk
    <2> HIDE DEF x
    <2>3. /\ DOMAIN y = CallFields /\ y.lease = Cache!Less(x.lease)
               /\ y.timer = Cache!Less(x.timer)
          /\ y.pc = x.pc /\ y.val = x.val /\ y.mode = x.mode /\ y.got = x.got
          /\ y.failed = x.failed /\ y.floor = x.floor
      BY <2>2 DEF CallFields
    <2> HIDE DEF y
    <2>4. y.lease \in Nat /\ y.timer \in Nat /\ (y.lease > 0 => y.lease = x.lease - 1)
      BY <2>2, <2>3 DEF Cache!Less
    <2>5. y.mode = "owner" /\ y.lease > 0 /\ y.pc \in Owning =>
              lock'.token = c /\ lock'.left >= y.lease
      <3>1. SUFFICES ASSUME y.mode = "owner", y.lease > 0, y.pc \in Owning
                     PROVE  lock'.token = c /\ lock'.left >= y.lease
        OBVIOUS
      <3>2. x.lease > 1 /\ lock.token = c /\ lock.left >= x.lease
        BY <2>2, <2>3, <2>4, <3>1 DEF CallOk
      <3> QED
        BY <1>1, <2>2, <2>4, <3>1, <3>2 DEF CacheInv, LockType
    <2>6. CallOk(c, y, truth, floor, lock')
      BY <2>2, <2>3, <2>4, <2>5 DEF CallOk
    <2> QED
      BY <2>1, <2>6
  <1> QED
    BY <1>1, <1>2, <1>3, <1>4, <1>5 DEF CacheInv, Calls

LEMMA CacheInit ==
    ASSUME Cache!CacheAssumption, Cache!Init
    PROVE  CacheInv
  <1>1. Stored /\ LockType
    BY DEF Cache!Init, Stored, LockType, Cache!NoEntry, Cache!NoLock, Cache!CacheAssumption
  <1>2. Calls
    BY IdleOk DEF Cache!Init, Calls
  <1> QED
    BY <1>1, <1>2 DEF CacheInv

LEMMA CacheNext ==
    ASSUME Cache!CacheAssumption, CacheInv, [Cache!Next]_(Cache!vars)
    PROVE  CacheInv'
  <1>1. CASE Cache!Corrupt \/ Cache!Write \/ Cache!Invalidate \/ Cache!Tick
    BY <1>1, DataSteps, LeasesRunOut
  <1>2. ASSUME NEW c \in Callers,
               (\E op \in {"get", "get_or_load"} : Cache!Call(c, op)) \/ Cache!CallerStep(c)
                 \/ Cache!Crash(c)
        PROVE  CacheInv'
    BY <1>2, BoundarySteps, ReadSteps, AcquireStep, LoadSteps, ReleaseSteps, OutageStep
       DEF Cache!CallerStep
  <1>3. CASE UNCHANGED Cache!vars
    BY <1>3 DEF Cache!vars, CacheInv, Stored, LockType, Calls
  <1> QED
    BY <1>1, <1>2, <1>3 DEF Cache!Next

\* For any number of callers and under every fault: an owner keeps the lock for its lease,
\* no call answers with a value older than the last quiet invalidation before it, and a
\* client that fails closed answers no call whose backend failed (CacheClient.get_or_load,
\* its release of the lock, and delete).
THEOREM CacheAlwaysSound ==
    ASSUME Cache!CacheAssumption
    PROVE  Cache!Spec => []Cache!CacheSound
  <1>1. Cache!Init => CacheInv
    BY CacheInit
  <1>2. CacheInv /\ [Cache!Next]_(Cache!vars) => CacheInv'
    BY CacheNext
  <1>3. CacheInv => Cache!CacheSound
    BY DEF CacheInv, Calls, CallOk, Cache!CacheSound, Cache!LeaseHolds,
           Cache!FreshAfterInvalidate, Cache!FailClosed, Owning
  <1> QED
    BY <1>1, <1>2, <1>3, PTL DEF Cache!Spec

-----------------------------------------------------------------------------
(* OidcProvider: the inductive invariant                                   *)

HandshakeFields == {"pc", "intent", "started", "token", "minted", "outcome"}

\* What a token is that the provider minted at time m.
Minted(t, m) ==
    /\ t.key \in SigningKeys /\ t.mine \in BOOLEAN
    /\ \E skew \in -Skew .. Skew : t.iat = m + skew /\ t.exp = m + skew + Life
    /\ t.auth = t.iat \/ t.auth = None

\* What a handshake x may be at time now.
HandshakeOk(x, now) ==
    /\ DOMAIN x = HandshakeFields
    /\ x.started \in Nat /\ x.started <= now
    /\ x.pc = "verify" => /\ x.minted \in Nat /\ x.started <= x.minted /\ x.minted <= now
                          /\ Minted(x.token, x.minted)
    /\ x.pc # "end" => x.outcome = None

HandshakeInv ==
    /\ DOMAIN hs = Handshakes
    /\ \A h \in Handshakes : HandshakeOk(hs[h], time)

\* Published is what has been published and not been withdrawn.
KeyInv ==
    /\ time \in Nat /\ time <= LastTime
    /\ since \in [SigningKeys -> Nat] /\ until \in [SigningKeys -> Nat]
    /\ \A k \in SigningKeys :
        /\ k \in published <=> since[k] # Provider!Never /\ until[k] = Provider!Never
        /\ since[k] # Provider!Never => since[k] <= time
        /\ until[k] # Provider!Never => until[k] <= time /\ since[k] # Provider!Never

\* A cached key document c was right when it was fetched, CacheTime before it is dropped.
DocumentOk(c, sn, un, now) ==
    /\ c.drop \in Nat /\ c.drop <= now + CacheTime
    /\ \A k \in SigningKeys :
        /\ k \in c.keys => c.drop <= un[k] + CacheTime
        /\ sn[k] + CacheTime < c.drop /\ un[k] > now => k \in c.keys

DocumentInv ==
    /\ DOMAIN documents = Provider!Adapters
    /\ \A a \in Provider!Adapters :
        /\ DOMAIN documents[a] = Provider!Documents /\ documents[a]["discovery"].drop \in Nat
        /\ DocumentOk(documents[a]["keys"], since, until, time)

\* An adapter that is shared keeps what was fetched last.
FetchInv ==
    Shared => /\ again = FALSE /\ fetched \in [Provider!Documents -> Nat]
              /\ \A a \in Provider!Adapters, d \in Provider!Documents :
                   fetched[d] <= documents[a][d].drop

ProviderInv == KeyInv /\ HandshakeInv /\ DocumentInv /\ FetchInv

-----------------------------------------------------------------------------

LEMMA Idles ==
    ASSUME NEW now \in Nat
    PROVE  /\ HandshakeOk(Provider!Idle, now)
           /\ \A o : HandshakeOk(Provider!Ended(o), now) /\ Provider!Ended(o).outcome = o
                /\ Provider!Ended(o).pc = "end"
  BY DEF HandshakeOk, Provider!Idle, Provider!Ended, HandshakeFields

\* The fields of a changed handshake.
LEMMA HandshakeWith ==
    ASSUME NEW x, DOMAIN x = HandshakeFields, NEW ch
    PROVE  /\ DOMAIN Provider!With(x, ch) = HandshakeFields
           /\ \A f \in HandshakeFields :
                Provider!With(x, ch)[f] = IF f \in DOMAIN ch THEN ch[f] ELSE x[f]
  BY DEF Provider!With

\* A handshake that ends.
LEMMA Ends ==
    ASSUME NEW x, DOMAIN x = HandshakeFields, NEW o, NEW now \in Nat
    PROVE  /\ HandshakeOk(Provider!With(x, Provider!Ended(o)), now)
           /\ Provider!With(x, Provider!Ended(o)).outcome = o
                /\ Provider!With(x, Provider!Ended(o)).pc = "end"
  <1> DEFINE y == Provider!With(x, Provider!Ended(o))
  <1>1. DOMAIN Provider!Ended(o) = HandshakeFields
    BY DEF Provider!Ended, Provider!Idle, HandshakeFields
  <1>2. /\ Provider!Ended(o).started = 0 /\ Provider!Ended(o).pc = "end"
        /\ Provider!Ended(o).outcome = o
    BY DEF Provider!Ended, Provider!Idle
  <1>3. DOMAIN y = HandshakeFields /\ y.started = 0 /\ y.pc = "end" /\ y.outcome = o
    BY <1>1, <1>2, HandshakeWith DEF HandshakeFields
  <1> QED
    BY <1>3 DEF HandshakeOk

\* A handshake that goes on, and not to the verification of a token.
LEMMA HandshakeGoesOn ==
    ASSUME NEW now \in Nat, NEW x, HandshakeOk(x, now), x.pc # "end",
           NEW pc \in {"authorize", "away", "exchange", "token"}
    PROVE  /\ HandshakeOk(Provider!With(x, [pc |-> pc]), now)
           /\ Provider!With(x, [pc |-> pc]).outcome = None
  <1> DEFINE y == Provider!With(x, [pc |-> pc])
  <1>1. DOMAIN x = HandshakeFields
    BY DEF HandshakeOk
  <1>2. /\ DOMAIN y = HandshakeFields /\ y.started = x.started /\ y.pc = pc
        /\ y.outcome = x.outcome
    BY <1>1, HandshakeWith DEF HandshakeFields
  <1> HIDE DEF y
  <1>3. HandshakeOk(y, now) /\ y.outcome = None
    BY <1>2 DEF HandshakeOk
  <1> QED
    BY <1>3 DEF y

\* A step of handshake h that gives it the value y, without a change of time.
LEMMA OneHandshake ==
    ASSUME ProviderInv, NEW h \in Handshakes, NEW y, hs' = [hs EXCEPT ![h] = y],
           HandshakeOk(y, time), time' = time
    PROVE  /\ HandshakeInv' /\ hs'[h] = y
           /\ \A g \in Handshakes \ {h} : hs'[g] = hs[g]
  BY DEF ProviderInv, HandshakeInv

\* What the invariant says of one handshake.
LEMMA HandshakeFacts ==
    ASSUME ProviderInv, NEW h \in Handshakes
    PROVE  /\ HandshakeOk(hs[h], time) /\ DOMAIN hs[h] = HandshakeFields
           /\ time \in Nat /\ time <= LastTime /\ Provider!Adapter(h) \in Provider!Adapters
  BY DEF ProviderInv, HandshakeInv, KeyInv, HandshakeOk, Provider!Adapters


-----------------------------------------------------------------------------
(* OidcProvider: steps                                                     *)

\* A new adapter has no document; a shared one is not new.
LEMMA NewAdapters ==
    ASSUME Provider!ProviderAssumption, ProviderInv, NEW h \in Handshakes,
           documents' = Provider!NewAdapter(h),
           UNCHANGED <<time, since, until, fetched, again>>
    PROVE  DocumentInv' /\ FetchInv'
  <1>1. Provider!Adapter(h) \in Provider!Adapters
    BY HandshakeFacts
  <1>2. CASE Shared
    BY <1>2 DEF Provider!NewAdapter, ProviderInv, DocumentInv, FetchInv
  <1>3. CASE ~Shared
    <2>1. /\ DocumentOk(Provider!Empty["keys"], since, until, time)
          /\ DOMAIN Provider!Empty = Provider!Documents /\ Provider!Empty["discovery"].drop = 0
      BY DEF Provider!Empty, Provider!Documents, DocumentOk, ProviderInv, KeyInv,
             Provider!ProviderAssumption
    <2>2. /\ DOMAIN documents' = Provider!Adapters
          /\ \A a \in Provider!Adapters :
               documents'[a] = IF a = Provider!Adapter(h) THEN Provider!Empty ELSE documents[a]
      BY <1>1, <1>3 DEF Provider!NewAdapter, ProviderInv, DocumentInv
    <2> QED
      BY <1>3, <2>1, <2>2 DEF ProviderInv, DocumentInv, FetchInv
  <1> QED
    BY <1>2, <1>3

\* A document that is fetched now is right.
LEMMA StoredOk ==
    ASSUME Provider!ProviderAssumption, ProviderInv, NEW a \in Provider!Adapters,
           NEW d \in Provider!Documents
    PROVE  LET c == documents[a][d]
               n == Provider!Stored(c, d)
           IN  /\ n.drop \in Nat /\ c.drop \in Nat /\ c.drop <= n.drop
               /\ d = "keys" => DocumentOk(n, since, until, time)
               /\ Provider!Fresh(c) => n = c
               /\ ~Provider!Fresh(c) => n.drop = time + CacheTime
  <1> DEFINE c == documents[a][d]
             n == Provider!Stored(c, d)
  <1>1. c.drop \in Nat /\ time \in Nat /\ CacheTime \in Nat
    BY DEF ProviderInv, DocumentInv, DocumentOk, Provider!Documents, KeyInv,
           Provider!ProviderAssumption
  <1>2. d = "keys" => DocumentOk(c, since, until, time)
    BY DEF ProviderInv, DocumentInv
  <1>3. CASE Provider!Fresh(c)
    BY <1>1, <1>2, <1>3 DEF Provider!Stored
  <1>4. CASE ~Provider!Fresh(c)
    <2>1. n.drop = time + CacheTime /\ (d = "keys" => n.keys = published)
      BY <1>4 DEF Provider!Stored, Provider!Contents
    <2>2. c.drop <= time
      BY <1>1, <1>4 DEF Provider!Fresh
    <2>3. ASSUME d = "keys", NEW k \in SigningKeys
          PROVE  /\ k \in published => time + CacheTime <= until[k] + CacheTime
                 /\ since[k] + CacheTime < time + CacheTime /\ until[k] > time =>
                        k \in published
      BY <1>1 DEF ProviderInv, KeyInv, Provider!Never, Provider!ProviderAssumption
    <2>4. d = "keys" => DocumentOk(n, since, until, time)
      BY <1>1, <2>1, <2>3 DEF DocumentOk
    <2> QED
      BY <1>1, <1>4, <2>1, <2>2, <2>4
  <1> QED
    BY <1>3, <1>4

\* A handshake uses a document, which is fetched if need be.
LEMMA DocumentStep ==
    ASSUME Provider!ProviderAssumption, ProviderInv, NEW h \in Handshakes, Provider!Document(h)
    PROVE  ProviderInv'
  <1> DEFINE d == Provider!Need(h)
             a == Provider!Adapter(h)
             c == documents[a][d]
             n == Provider!Stored(c, d)
  <1>1. /\ documents' = [documents EXCEPT ![a][d] = n]
        /\ Provider!Step(h, Provider!Use(h, n.keys)) /\ Provider!Wants(h)
        /\ IF Provider!Fresh(c) THEN UNCHANGED Provider!history
           ELSE /\ again' = (again \/ fetched[d] > time)
                /\ fetched' = [fetched EXCEPT ![d] = time + CacheTime]
        /\ UNCHANGED <<time, published, since, until>>
    BY DEF Provider!Document, Provider!keyVars
  <1>2. a \in Provider!Adapters /\ d \in Provider!Documents /\ time \in Nat
    BY HandshakeFacts DEF Provider!Need, Provider!Documents
  <1>3. /\ n.drop \in Nat /\ c.drop \in Nat /\ c.drop <= n.drop
        /\ d = "keys" => DocumentOk(n, since, until, time)
        /\ Provider!Fresh(c) => n = c
        /\ ~Provider!Fresh(c) => n.drop = time + CacheTime
    BY <1>2, StoredOk
  <1>4. HandshakeInv'
    <2>1. HandshakeOk(Provider!With(hs[h], Provider!Use(h, n.keys)), time)
      <3>1. HandshakeOk(hs[h], time) /\ DOMAIN hs[h] = HandshakeFields
        BY HandshakeFacts
      <3>2. hs[h].pc \in {"authorize", "exchange", "verify"}
        BY <1>1 DEF Provider!Wants
      <3>3. CASE hs[h].pc = "authorize"
        <4>1. Provider!Use(h, n.keys) = [pc |-> "away"]
          BY <3>3 DEF Provider!Use, Provider!At
        <4> QED
          BY <1>2, <3>1, <3>3, <4>1, HandshakeGoesOn
      <3>4. CASE hs[h].pc = "exchange"
        <4>1. Provider!Use(h, n.keys) = [pc |-> "token"]
          BY <3>4 DEF Provider!Use, Provider!At
        <4> QED
          BY <1>2, <3>1, <3>4, <4>1, HandshakeGoesOn
      <3>5. CASE hs[h].pc = "verify"
        <4>1. Provider!Use(h, n.keys) = Provider!Ended("accepted")
                \/ Provider!Use(h, n.keys) = Provider!Ended("refused")
          BY <3>5 DEF Provider!Use, Provider!At
        <4> QED
          BY <1>2, <3>1, <4>1, Ends
      <3> QED
        BY <3>2, <3>3, <3>4, <3>5
    <2> QED
      BY <1>1, <2>1, OneHandshake DEF Provider!Step
  <1> HIDE DEF n, c, a, d
  <1>5. /\ DOMAIN documents' = Provider!Adapters
        /\ \A b \in Provider!Adapters : DOMAIN documents'[b] = Provider!Documents
        /\ \A b \in Provider!Adapters, e \in Provider!Documents :
              documents'[b][e] = IF b = a /\ e = d THEN n ELSE documents[b][e]
    <2>1. /\ DOMAIN documents = Provider!Adapters
          /\ \A b \in Provider!Adapters : DOMAIN documents[b] = Provider!Documents
      BY DEF ProviderInv, DocumentInv
    <2> QED
      BY <1>1, <1>2, <2>1
  <1>6. DocumentInv'
    <2>1. "keys" \in Provider!Documents /\ "discovery" \in Provider!Documents
      BY DEF Provider!Documents
    <2> QED
      BY <1>1, <1>3, <1>5, <2>1 DEF ProviderInv, DocumentInv
  <1>7. FetchInv'
    <2>1. SUFFICES ASSUME Shared
                   PROVE  /\ again' = FALSE /\ fetched' \in [Provider!Documents -> Nat]
                          /\ \A b \in Provider!Adapters, e \in Provider!Documents :
                               fetched'[e] <= documents'[b][e].drop
      BY DEF FetchInv
    <2>2. /\ again = FALSE /\ fetched \in [Provider!Documents -> Nat]
          /\ \A b \in Provider!Adapters, e \in Provider!Documents :
               fetched[e] <= documents[b][e].drop
      BY <2>1 DEF ProviderInv, FetchInv
    <2>3. \A b \in Provider!Adapters : b = a
      BY <2>1 DEF Provider!Adapters, Provider!Adapter, a
    <2>4. fetched[d] <= c.drop /\ CacheTime \in Nat
      BY <1>2, <2>2 DEF c, Provider!ProviderAssumption
    <2>5. CASE Provider!Fresh(c)
      <3>1. fetched' = fetched /\ again' = again
        BY <1>1, <2>5 DEF Provider!history
      <3>2. \A b \in Provider!Adapters, e \in Provider!Documents :
              documents'[b][e].drop = documents[b][e].drop
        BY <1>3, <1>5, <2>3, <2>5 DEF c
      <3> QED
        BY <2>2, <3>1, <3>2
    <2>6. CASE ~Provider!Fresh(c)
      <3>1. /\ again' = (again \/ fetched[d] > time)
            /\ fetched' = [fetched EXCEPT ![d] = time + CacheTime]
        BY <1>1, <2>6
      <3>2. ~(fetched[d] > time)
        BY <1>2, <1>3, <2>2, <2>4, <2>6 DEF Provider!Fresh
      <3>3. again' = FALSE
        BY <2>2, <3>1, <3>2
      <3>4. fetched' \in [Provider!Documents -> Nat]
        BY <1>2, <2>2, <2>4, <3>1
      <3>5. ASSUME NEW b \in Provider!Adapters, NEW e \in Provider!Documents
            PROVE  fetched'[e] <= documents'[b][e].drop
        <4>1. CASE e = d
          BY <1>2, <1>3, <1>5, <2>3, <2>4, <2>2, <2>6, <3>1, <4>1
        <4>2. CASE e # d
          BY <1>2, <1>5, <2>2, <3>1, <4>2
        <4> QED
          BY <4>1, <4>2
      <3> QED
        BY <3>3, <3>4, <3>5
    <2> QED
      BY <2>5, <2>6
  <1>8. KeyInv'
    BY <1>1 DEF ProviderInv, KeyInv
  <1> QED
    BY <1>4, <1>6, <1>7, <1>8 DEF ProviderInv

\* The steps of a handshake that fetch nothing.
LEMMA PlainSteps ==
    ASSUME Provider!ProviderAssumption, ProviderInv, NEW h \in Handshakes,
           \/ \E intent \in {"login", "reauthenticate"} : Provider!Start(h, intent)
           \/ Provider!Acquire(h) \/ Provider!Fail(h) \/ Provider!Return(h)
                \/ Provider!Leave(h) \/ Provider!Finish(h)
           \/ \E skew \in -Skew..Skew, mine \in BOOLEAN, now \in BOOLEAN :
                Provider!Token(h, skew, mine, now)
    PROVE  ProviderInv'
  <1>1. UNCHANGED <<time, published, since, until, fetched, again>>
    BY DEF Provider!Start, Provider!Acquire, Provider!Fail, Provider!Return, Provider!Leave,
           Provider!Finish, Provider!Token, Provider!keyVars, Provider!history
  <1>2. documents' = documents \/ documents' = Provider!NewAdapter(h)
    BY DEF Provider!Start, Provider!Acquire, Provider!Fail, Provider!Return, Provider!Leave,
           Provider!Finish, Provider!Token
  <1>3. KeyInv' /\ DocumentInv' /\ FetchInv'
    <2>1. KeyInv'
      BY <1>1 DEF ProviderInv, KeyInv
    <2>2. CASE documents' = documents
      BY <1>1, <2>1, <2>2 DEF ProviderInv, DocumentInv, FetchInv
    <2>3. CASE documents' = Provider!NewAdapter(h)
      BY <1>1, <2>1, <2>3, NewAdapters
    <2> QED
      BY <1>2, <2>2, <2>3
  <1>4. /\ HandshakeOk(hs[h], time) /\ DOMAIN hs[h] = HandshakeFields
        /\ time \in Nat /\ time <= LastTime
    BY HandshakeFacts
  <1>5. SUFFICES HandshakeInv'
    BY <1>3 DEF ProviderInv
  <1>6. ASSUME NEW intent \in {"login", "reauthenticate"}, Provider!Start(h, intent)
        PROVE  HandshakeInv'
    <2> DEFINE y == [Provider!Idle EXCEPT !.pc = "authorize", !.intent = intent, !.started = time]
    <2>1. HandshakeOk(y, time)
      BY <1>4 DEF HandshakeOk, Provider!Idle, HandshakeFields
    <2>2. hs' = [hs EXCEPT ![h] = y]
      BY <1>6 DEF Provider!Start
    <2> HIDE DEF y
    <2> QED
      BY <1>1, <2>1, <2>2, OneHandshake
  <1>7. CASE Provider!Acquire(h)
    BY <1>1, <1>7 DEF Provider!Acquire, ProviderInv, HandshakeInv
  <1>8. CASE Provider!Fail(h) \/ Provider!Leave(h)
    <2>1. hs' = [hs EXCEPT ![h] = Provider!With(hs[h], Provider!Ended("failed"))]
      BY <1>8 DEF Provider!Fail, Provider!Leave, Provider!Step
    <2> QED
      BY <1>1, <1>4, <2>1, Ends, OneHandshake
  <1>9. CASE Provider!Return(h)
    <2>1. hs' = [hs EXCEPT ![h] = Provider!With(hs[h], [pc |-> "exchange"])] /\ hs[h].pc = "away"
      BY <1>9 DEF Provider!Return, Provider!Step, Provider!At
    <2>2. HandshakeOk(Provider!With(hs[h], [pc |-> "exchange"]), time)
      BY <1>4, <2>1, HandshakeGoesOn
    <2> QED
      BY <1>1, <2>1, <2>2, OneHandshake
  <1>10. CASE Provider!Finish(h)
    <2>1. hs' = [hs EXCEPT ![h] = Provider!Idle]
      BY <1>10 DEF Provider!Finish
    <2> QED
      BY <1>1, <1>4, <2>1, Idles, OneHandshake
  <1>11. ASSUME NEW skew \in -Skew..Skew, NEW mine \in BOOLEAN, NEW now \in BOOLEAN,
                Provider!Token(h, skew, mine, now)
         PROVE  HandshakeInv'
    <2>1. PICK k \in SigningKeys :
            Provider!Step(h, [pc |-> "verify", minted |-> time,
                              token |-> [key |-> k, mine |-> mine, iat |-> time + skew,
                                         exp |-> time + skew + Life,
                                         auth |-> IF now THEN time + skew ELSE None]])
      BY <1>11 DEF Provider!Token
    <2> DEFINE t == [key |-> k, mine |-> mine, iat |-> time + skew, exp |-> time + skew + Life,
                     auth |-> IF now THEN time + skew ELSE None]
               ch == [pc |-> "verify", minted |-> time, token |-> t]
               y == Provider!With(hs[h], ch)
    <2>2. hs' = [hs EXCEPT ![h] = y]
      BY <2>1 DEF Provider!Step
    <2>3. Minted(t, time)
      BY DEF Minted
    <2> HIDE DEF t
    <2>4. hs[h].pc # "end"
      BY <1>11 DEF Provider!Token, Provider!At
    <2>5. /\ DOMAIN y = HandshakeFields /\ y.pc = "verify" /\ y.minted = time /\ y.token = t
          /\ y.started = hs[h].started /\ y.outcome = hs[h].outcome
      BY <1>4, HandshakeWith DEF HandshakeFields
    <2> HIDE DEF y
    <2>6. HandshakeOk(y, time)
      BY <1>4, <2>3, <2>4, <2>5 DEF HandshakeOk
    <2> QED
      BY <1>1, <2>2, <2>6, OneHandshake
  <1> QED
    BY <1>6, <1>7, <1>8, <1>9, <1>10, <1>11


\* Keys come and go.
LEMMA KeySteps ==
    ASSUME Provider!ProviderAssumption, ProviderInv, NEW k \in SigningKeys,
           Provider!Publish(k) \/ Provider!Withdraw(k)
    PROVE  ProviderInv'
  <1>1. UNCHANGED <<time, documents, hs, fetched, again>>
    BY DEF Provider!Publish, Provider!Withdraw, Provider!history
  <1>2. HandshakeInv' /\ FetchInv'
    BY <1>1 DEF ProviderInv, HandshakeInv, FetchInv
  <1>3. /\ time \in Nat /\ time <= LastTime /\ LastTime \in Nat /\ CacheTime \in Nat
        /\ since \in [SigningKeys -> Nat] /\ until \in [SigningKeys -> Nat]
        /\ \A l \in SigningKeys :
            /\ l \in published <=> since[l] # Provider!Never /\ until[l] = Provider!Never
            /\ since[l] # Provider!Never => since[l] <= time
            /\ until[l] # Provider!Never => until[l] <= time /\ since[l] # Provider!Never
    BY DEF ProviderInv, KeyInv, Provider!ProviderAssumption
  <1>4. time # Provider!Never
    BY <1>3 DEF Provider!Never
  <1>5. CASE Provider!Publish(k)
    <2>1. /\ since[k] = Provider!Never /\ published' = published \cup {k} /\ until' = until
          /\ since' = [since EXCEPT ![k] = time]
      BY <1>5 DEF Provider!Publish
    <2>2. KeyInv'
      BY <1>1, <1>3, <1>4, <2>1 DEF KeyInv
    <2>3. ASSUME NEW c, DocumentOk(c, since, until, time)
          PROVE  DocumentOk(c, since', until', time)
      <3>1. ASSUME NEW l \in SigningKeys, since'[l] + CacheTime < c.drop, until[l] > time
            PROVE  l \in c.keys
        <4>1. CASE l = k
          BY <1>3, <2>1, <2>3, <3>1, <4>1 DEF DocumentOk
        <4>2. CASE l # k
          BY <1>3, <2>1, <2>3, <3>1, <4>2 DEF DocumentOk
        <4> QED
          BY <4>1, <4>2
      <3> QED
        BY <2>1, <2>3, <3>1 DEF DocumentOk
    <2>4. DocumentInv'
      BY <1>1, <2>3 DEF ProviderInv, DocumentInv
    <2> QED
      BY <1>2, <2>2, <2>4 DEF ProviderInv
  <1>6. CASE Provider!Withdraw(k)
    <2>1. /\ k \in published /\ published' = published \ {k} /\ since' = since
          /\ until' = [until EXCEPT ![k] = time]
      BY <1>6 DEF Provider!Withdraw
    <2>2. KeyInv'
      BY <1>1, <1>3, <1>4, <2>1 DEF KeyInv
    <2>3. ASSUME NEW c, DocumentOk(c, since, until, time)
          PROVE  DocumentOk(c, since', until', time)
      <3>1. ASSUME NEW l \in SigningKeys
            PROVE  /\ l \in c.keys => c.drop <= until'[l] + CacheTime
                   /\ since'[l] + CacheTime < c.drop /\ until'[l] > time => l \in c.keys
        <4>1. CASE l = k
          BY <1>3, <2>1, <2>3, <4>1 DEF DocumentOk
        <4>2. CASE l # k
          BY <1>3, <2>1, <2>3, <4>2 DEF DocumentOk
        <4> QED
          BY <4>1, <4>2
      <3> QED
        BY <2>3, <3>1 DEF DocumentOk
    <2>4. DocumentInv'
      BY <1>1, <2>3 DEF ProviderInv, DocumentInv
    <2> QED
      BY <1>2, <2>2, <2>4 DEF ProviderInv
  <1> QED
    BY <1>5, <1>6

LEMMA ProviderTick ==
    ASSUME Provider!ProviderAssumption, ProviderInv, Provider!Tick
    PROVE  ProviderInv'
  <1>1. /\ time' = time + 1 /\ time < LastTime
        /\ UNCHANGED <<published, since, until, documents, hs, fetched, again>>
    BY DEF Provider!Tick, Provider!keyVars, Provider!history
  <1>2. /\ time \in Nat /\ LastTime \in Nat /\ CacheTime \in Nat
        /\ since \in [SigningKeys -> Nat] /\ until \in [SigningKeys -> Nat]
    BY DEF ProviderInv, KeyInv, Provider!ProviderAssumption
  <1>3. KeyInv'
    BY <1>1, <1>2 DEF ProviderInv, KeyInv
  <1>4. HandshakeInv'
    <2>1. ASSUME NEW h \in Handshakes
          PROVE  HandshakeOk(hs[h], time + 1)
      BY <1>2, HandshakeFacts DEF HandshakeOk
    <2> QED
      BY <1>1, <2>1 DEF ProviderInv, HandshakeInv
  <1>5. DocumentInv'
    <2>1. ASSUME NEW c, DocumentOk(c, since, until, time)
          PROVE  DocumentOk(c, since, until, time + 1)
      BY <1>2, <2>1 DEF DocumentOk
    <2> QED
      BY <1>1, <2>1 DEF ProviderInv, DocumentInv
  <1>6. FetchInv'
    BY <1>1 DEF ProviderInv, FetchInv
  <1> QED
    BY <1>3, <1>4, <1>5, <1>6 DEF ProviderInv

LEMMA ProviderInit ==
    ASSUME Provider!ProviderAssumption, Provider!Init
    PROVE  ProviderInv
  <1>1. /\ LastTime \in Nat /\ Provider!Never \in Nat /\ Provider!Never # 0 /\ CacheTime \in Nat
        /\ 0 <= LastTime
    BY DEF Provider!ProviderAssumption, Provider!Never
  <1>2. KeyInv
    BY <1>1 DEF Provider!Init, KeyInv
  <1>3. HandshakeInv
    BY Idles DEF Provider!Init, HandshakeInv
  <1>4. DocumentInv
    <2>1. /\ DocumentOk(Provider!Empty["keys"], since, until, time)
          /\ DOMAIN Provider!Empty = Provider!Documents /\ Provider!Empty["discovery"].drop = 0
      BY <1>1 DEF Provider!Init, Provider!Empty, Provider!Documents, DocumentOk
    <2> QED
      BY <2>1 DEF Provider!Init, DocumentInv
  <1>5. FetchInv
    BY DEF Provider!Init, FetchInv, Provider!Empty
  <1> QED
    BY <1>2, <1>3, <1>4, <1>5 DEF ProviderInv

LEMMA ProviderNext ==
    ASSUME Provider!ProviderAssumption, ProviderInv, [Provider!Next]_(Provider!vars)
    PROVE  ProviderInv'
  <1>1. CASE Provider!Tick
    BY <1>1, ProviderTick
  <1>2. ASSUME NEW k \in SigningKeys, Provider!Publish(k) \/ Provider!Withdraw(k)
        PROVE  ProviderInv'
    BY <1>2, KeySteps
  <1>3. ASSUME NEW h \in Handshakes,
               \/ \E intent \in {"login", "reauthenticate"} : Provider!Start(h, intent)
               \/ Provider!HandshakeStep(h)
        PROVE  ProviderInv'
    BY <1>3, DocumentStep, PlainSteps DEF Provider!HandshakeStep
  <1>4. CASE UNCHANGED Provider!vars
    BY <1>4 DEF Provider!vars, ProviderInv, KeyInv, HandshakeInv, DocumentInv, FetchInv
  <1> QED
    BY <1>1, <1>2, <1>3, <1>4 DEF Provider!Next

-----------------------------------------------------------------------------
(* OidcProvider: what an answer means                                      *)

\* A handshake has an answer only after the step that verified its token.
LEMMA Verified ==
    ASSUME Provider!ProviderAssumption, ProviderInv, [Provider!Next]_(Provider!vars),
           NEW h \in Handshakes, Provider!At(h, "verify"),
           hs'[h].outcome \in {"accepted", "refused"}
    PROVE  LET t == hs[h].token
               c == documents[Provider!Adapter(h)]["keys"]
               n == Provider!Stored(c, "keys")
           IN  /\ DocumentOk(n, since, until, time)
               /\ n.drop > time
               /\ hs'[h].outcome = "accepted" <=> t.key \in n.keys /\ Provider!ClaimsOk(h, t)
  <1>1. /\ HandshakeOk(hs[h], time) /\ DOMAIN hs[h] = HandshakeFields
        /\ time \in Nat /\ Provider!Adapter(h) \in Provider!Adapters
    BY HandshakeFacts
  <1>2. hs[h].outcome = None /\ None \notin {"accepted", "refused"}
    BY <1>1 DEF HandshakeOk, Provider!At, Provider!ProviderAssumption
  <1>3. hs'[h] # hs[h]
    BY <1>2
  <1>4. Provider!Document(h)
    <2>1. ASSUME NEW g \in Handshakes, g # h,
                 \/ \E intent \in {"login", "reauthenticate"} : Provider!Start(g, intent)
                 \/ Provider!HandshakeStep(g)
          PROVE  FALSE
      <3>1. \E y : hs' = [hs EXCEPT ![g] = y] \/ hs' = hs
        BY <2>1 DEF Provider!HandshakeStep, Provider!Start, Provider!Acquire, Provider!Document,
                    Provider!Fail, Provider!Return, Provider!Leave, Provider!Finish,
                    Provider!Token,
                    Provider!Step
      <3> QED
        BY <1>3, <2>1, <3>1 DEF ProviderInv, HandshakeInv
    <2>2. /\ ~Provider!Acquire(h) /\ ~Provider!Tick /\ ~UNCHANGED Provider!vars
          /\ \A k \in SigningKeys : ~Provider!Publish(k) /\ ~Provider!Withdraw(k)
      BY <1>3 DEF Provider!Acquire, Provider!Tick, Provider!vars, Provider!Publish,
                  Provider!Withdraw
    <2>3. ~Provider!Fail(h)
      <3>1. ASSUME Provider!Fail(h)
            PROVE  hs'[h] = Provider!With(hs[h], Provider!Ended("failed"))
        BY <3>1 DEF Provider!Fail, Provider!Step, ProviderInv, HandshakeInv
      <3> QED
        BY <1>1, <3>1, Ends
    <2>4. /\ ~Provider!Return(h) /\ ~Provider!Leave(h) /\ ~Provider!Finish(h)
          /\ \A intent \in {"login", "reauthenticate"} : ~Provider!Start(h, intent)
          /\ \A skew \in -Skew..Skew, mine \in BOOLEAN, now \in BOOLEAN :
                ~Provider!Token(h, skew, mine, now)
      BY DEF Provider!At, Provider!Return, Provider!Leave, Provider!Finish, Provider!Start,
             Provider!Token
    <2> QED
      BY <2>1, <2>2, <2>3, <2>4 DEF Provider!Next, Provider!HandshakeStep
  <1> DEFINE t == hs[h].token
             c == documents[Provider!Adapter(h)]["keys"]
             n == Provider!Stored(c, "keys")
             o == IF t.key \in n.keys /\ Provider!ClaimsOk(h, t) THEN "accepted" ELSE "refused"
  <1>5. Provider!Need(h) = "keys" /\ "keys" \in Provider!Documents
    BY DEF Provider!Need, Provider!At, Provider!Documents
  <1>6. hs'[h] = Provider!With(hs[h], Provider!Ended(o))
    <2>1. Provider!Use(h, n.keys) = Provider!Ended(o)
      BY DEF Provider!Use, Provider!At
    <2>2. Provider!Step(h, Provider!Use(h, n.keys))
      BY <1>4, <1>5 DEF Provider!Document
    <2> QED
      BY <2>1, <2>2 DEF Provider!Step, ProviderInv, HandshakeInv
  <1>7. hs'[h].outcome = o
    BY <1>1, <1>6, Ends
  <1>8. DocumentOk(n, since, until, time) /\ n.drop > time
    <2>1. /\ DocumentOk(n, since, until, time) /\ n.drop \in Nat
          /\ Provider!Fresh(c) => n = c
          /\ ~Provider!Fresh(c) => n.drop = time + CacheTime
      BY <1>1, <1>5, StoredOk
    <2>2. CacheTime \in Nat \ {0}
      BY DEF Provider!ProviderAssumption
    <2> QED
      BY <1>1, <2>1, <2>2 DEF Provider!Fresh
  <1> QED
    BY <1>7, <1>8

\* Every accepted key has been withdrawn for less than the life of a cached document.
LEMMA AcceptedBriefly ==
    ASSUME Provider!ProviderAssumption, ProviderInv, [Provider!Next]_(Provider!vars)
    PROVE  Provider!TrustsBriefly
  <1>1. SUFFICES ASSUME NEW h \in Handshakes, Provider!At(h, "verify"),
                        hs'[h].outcome = "accepted"
                 PROVE  time <= until[hs[h].token.key] + CacheTime
    BY DEF Provider!TrustsBriefly
  <1> DEFINE t == hs[h].token
             n == Provider!Stored(documents[Provider!Adapter(h)]["keys"], "keys")
  <1>2. DocumentOk(n, since, until, time) /\ n.drop > time /\ t.key \in n.keys
    BY <1>1, Verified
  <1>3. t.key \in SigningKeys /\ time \in Nat
    BY <1>1, HandshakeFacts DEF HandshakeOk, Minted, Provider!At
  <1>4. /\ n.drop <= until[t.key] + CacheTime /\ n.drop \in Nat /\ until[t.key] \in Nat
        /\ CacheTime \in Nat
    BY <1>2, <1>3 DEF DocumentOk, ProviderInv, KeyInv, Provider!ProviderAssumption
  <1> QED
    BY <1>2, <1>3, <1>4

\* An honest token is refused only while the cached document is older than its key.
LEMMA RefusedFairly ==
    ASSUME Provider!ProviderAssumption, ProviderInv, [Provider!Next]_(Provider!vars)
    PROVE  Provider!AcceptsHonest
  <1>1. SUFFICES ASSUME NEW h \in Handshakes, Provider!At(h, "verify"),
                        hs'[h].outcome = "refused",
                        LET t == hs[h].token
                        IN  /\ t.mine /\ ~(time >= hs[h].minted + Life)
                            /\ ~(hs[h].intent = "reauthenticate" /\ t.auth # t.iat)
                            /\ ~(time < since[t.key] + CacheTime) /\ ~(time >= until[t.key])
                 PROVE  FALSE
    BY DEF Provider!AcceptsHonest
  <1> DEFINE t == hs[h].token
             m == hs[h].minted
             st == hs[h].started
             n == Provider!Stored(documents[Provider!Adapter(h)]["keys"], "keys")
  <1>2. /\ DocumentOk(n, since, until, time) /\ n.drop > time
        /\ ~(t.key \in n.keys /\ Provider!ClaimsOk(h, t))
    BY <1>1, Verified
  <1>3. /\ Minted(t, m) /\ m \in Nat /\ st \in Nat /\ st <= m /\ m <= time /\ time \in Nat
    BY <1>1, HandshakeFacts DEF HandshakeOk, Provider!At
  <1>4. /\ CacheTime \in Nat /\ Life \in Nat /\ Skew \in Nat /\ Leeway \in Nat /\ Skew <= Leeway
        /\ None \notin Int
    BY DEF Provider!ProviderAssumption
  <1>5. t.key \in n.keys
    <2>1. t.key \in SigningKeys /\ since[t.key] \in Nat /\ until[t.key] \in Nat /\ n.drop \in Nat
      BY <1>2, <1>3 DEF Minted, DocumentOk, ProviderInv, KeyInv
    <2>2. since[t.key] + CacheTime < n.drop /\ until[t.key] > time
      BY <1>1, <1>2, <1>3, <1>4, <2>1
    <2> QED
      BY <1>2, <2>1, <2>2 DEF DocumentOk
  <1>6. PICK skew \in -Skew .. Skew : t.iat = m + skew /\ t.exp = m + skew + Life
    BY <1>3 DEF Minted
  <1>7. skew \in Int /\ -Leeway <= skew /\ skew <= Leeway
    BY <1>4, <1>6
  <1>8. t.exp >= time - Leeway
    BY <1>1, <1>3, <1>4, <1>6, <1>7
  <1>9. /\ t.iat <= time + Leeway /\ t.iat >= st - 2 * Leeway /\ t.iat >= st - Leeway
        /\ t.iat \in Int
    BY <1>3, <1>4, <1>6, <1>7
  <1>10. hs[h].intent = "reauthenticate" => Provider!AuthTimeOk(h, t)
    BY <1>1, <1>4, <1>9 DEF Provider!AuthTimeOk
  <1>11. Provider!ClaimsOk(h, t)
    BY <1>1, <1>8, <1>9, <1>10 DEF Provider!ClaimsOk
  <1> QED
    BY <1>2, <1>5, <1>11

\* For any keys, times, skews within the leeway and numbers of handshakes, and for adapters
\* of either kind: a withdrawn key is trusted no longer than the document that named it is
\* cached, and an honest token is refused only while the document is older than its key
\* (OidcProvider.document and exchange).
THEOREM RotationFollowed ==
    ASSUME Provider!ProviderAssumption
    PROVE  Provider!Spec => [][Provider!TrustsBriefly /\ Provider!AcceptsHonest]_(Provider!vars)
  <1>1. Provider!Init => ProviderInv
    BY ProviderInit
  <1>2. ProviderInv /\ [Provider!Next]_(Provider!vars) => ProviderInv'
    BY ProviderNext
  <1>3. ProviderInv /\ [Provider!Next]_(Provider!vars) =>
          [Provider!TrustsBriefly /\ Provider!AcceptsHonest]_(Provider!vars)
    BY AcceptedBriefly, RefusedFairly
  <1> QED
    BY <1>1, <1>2, <1>3, PTL DEF Provider!Spec

\* An adapter that is shared fetches no document again while its copy would serve.
THEOREM SharedKeysFollowed ==
    ASSUME Provider!ProviderAssumption, Shared
    PROVE  Provider!Spec => Provider!KeysFollowed
  <1>1. Provider!Init => ProviderInv
    BY ProviderInit
  <1>2. ProviderInv /\ [Provider!Next]_(Provider!vars) => ProviderInv'
    BY ProviderNext
  <1>3. ProviderInv /\ [Provider!Next]_(Provider!vars) =>
          [Provider!TrustsBriefly /\ Provider!AcceptsHonest /\ ~again']_(Provider!vars)
    BY AcceptedBriefly, RefusedFairly, ProviderNext DEF ProviderInv, FetchInv
  <1> QED
    BY <1>1, <1>2, <1>3, PTL DEF Provider!Spec, Provider!KeysFollowed

-----------------------------------------------------------------------------
(* Pagination: records and their order                                     *)

\* Finitely many records of which no two have the same id.
Table(S) == S \subseteq Walk!Row /\ IsFiniteSet(S) /\ \A q, r \in S : q.id = r.id => q = r

\* How many records of S come before r.
Rank(S, r) == Cardinality({q \in S : Walk!Before(q, r)})

-----------------------------------------------------------------------------
(* Pagination: the order                                                   *)

\* Cardinality is the same one in the instance.
LEMMA SameCardinality ==
    ASSUME NEW S
    PROVE  Walk!Cardinality(S) = Cardinality(S)
  BY DEF Walk!Cardinality, Cardinality, Walk!IsFiniteSet, IsFiniteSet

\* Records are ordered by their times and ids.
LEMMA Ordered ==
    ASSUME Walk!PaginationAssumption, NEW S, Table(S), NEW q \in S, NEW r \in S
    PROVE  /\ q # r => Walk!Before(q, r) \/ Walk!Before(r, q)
           /\ ~(Walk!Before(q, r) /\ Walk!Before(r, q))
  <1>0. q \in Walk!Row /\ r \in Walk!Row
    BY DEF Table
  <1>1. q.at \in Int /\ r.at \in Int /\ q.id \in Int /\ r.id \in Int
    <2>1. q.id \in Ids /\ r.id \in Ids /\ q.at \in 0 .. LastTime /\ r.at \in 0 .. LastTime
      BY <1>0 DEF Walk!Row
    <2>2. q.id \in Int /\ r.id \in Int
      BY <2>1 DEF Walk!PaginationAssumption
    <2> QED
      BY <2>1, <2>2 DEF Walk!PaginationAssumption
  <1>2. q # r => q.id # r.id
    BY DEF Table
  <1> QED
    BY <1>1, <1>2 DEF Walk!Before

\* An order lists every record once, each before the ones that come after it.
LEMMA OrderFacts ==
    ASSUME Walk!PaginationAssumption, NEW S, Table(S), NEW s \in Walk!Orders(S)
    PROVE  LET n == Cardinality(S)
           IN  /\ n \in Nat /\ s \in [1 .. n -> S] /\ s \in Seq(S) /\ Len(s) = n
               /\ \A r \in S : \E i \in 1 .. n : s[i] = r
               /\ \A i, j \in 1 .. n : i < j => Walk!Before(s[i], s[j])
               /\ \A i, j \in 1 .. n : s[i] = s[j] => i = j
  <1> DEFINE n == Cardinality(S)
  <1>1. n \in Nat
    BY FS_CardinalityType DEF Table
  <1>2. /\ s \in [1 .. n -> S]
        /\ \A i, j \in 1 .. n : i # j => s[i] # s[j]
        /\ \A i, j \in DOMAIN s : i < j => ~Walk!Before(s[j], s[i])
    BY SameCardinality DEF Walk!Orders, Walk!SetToSeqs
  <1> HIDE DEF n
  <1>3. s \in Seq(S) /\ Len(s) = n
    BY <1>1, <1>2, IsASeq
  <1>4. \A i, j \in 1 .. n : s[i] = s[j] => i = j
    BY <1>2
  <1>5. s \in Injection(1 .. n, S)
    BY <1>2, <1>4, Fun_IsInj
  <1>6. IsFiniteSet(1 .. n) /\ Cardinality(1 .. n) = n
    BY <1>1, FS_Interval
  <1>7. s \in Surjection(1 .. n, S)
    BY <1>5, <1>6, FS_Injection DEF Table, n
  <1>8. \A r \in S : \E i \in 1 .. n : s[i] = r
    BY <1>7, Zenon, Fun_IsSurj DEF Surjection
  <1>9. ASSUME NEW i \in 1 .. n, NEW j \in 1 .. n, i < j
        PROVE  Walk!Before(s[i], s[j])
    <2>1. s[i] \in S /\ s[j] \in S /\ s[i] # s[j] /\ ~Walk!Before(s[j], s[i])
      BY <1>1, <1>2, <1>9
    <2> QED
      BY <2>1, Ordered
  <1> QED
    BY <1>1, <1>2, <1>3, <1>4, <1>8, <1>9 DEF n

\* The place of a record in an order is one after its rank.
LEMMA PlaceOf ==
    ASSUME Walk!PaginationAssumption, NEW S, Table(S), NEW s \in Walk!Orders(S),
           NEW i \in 1 .. Cardinality(S)
    PROVE  Rank(S, s[i]) = i - 1
  <1> DEFINE n == Cardinality(S)
             B == {q \in S : Walk!Before(q, s[i])}
             f == [j \in 1 .. i - 1 |-> s[j]]
  <1>1. /\ n \in Nat /\ s \in [1 .. n -> S]
        /\ \A r \in S : \E j \in 1 .. n : s[j] = r
        /\ \A j, k \in 1 .. n : j < k => Walk!Before(s[j], s[k])
        /\ \A j, k \in 1 .. n : s[j] = s[k] => j = k
    BY OrderFacts
  <1> HIDE DEF n
  <1>2. i \in 1 .. n
    BY DEF n
  <1>3. 1 .. i - 1 \subseteq 1 .. n /\ \A j \in 1 .. i - 1 : j < i
    BY <1>1, <1>2
  <1>4. f \in [1 .. i - 1 -> B]
    BY <1>1, <1>2, <1>3
  <1>5. \A j, k \in 1 .. i - 1 : f[j] = f[k] => j = k
    BY <1>1, <1>3
  <1>6. ASSUME NEW q \in B
        PROVE  \E j \in 1 .. i - 1 : f[j] = q
    <2>1. PICK j \in 1 .. n : s[j] = q
      BY <1>1
    <2>2. Walk!Before(s[j], s[i]) /\ s[j] \in S /\ s[i] \in S
      BY <2>1, <1>1, <1>2
    <2>3. ~Walk!Before(s[i], s[j])
      BY <2>2, Ordered
    <2>4. j # i
      BY <2>2, <2>3
    <2>5. ~(i < j)
      BY <1>1, <1>2, <2>3
    <2>6. j \in 1 .. i - 1
      BY <1>1, <1>2, <2>4, <2>5
    <2> QED
      BY <2>1, <2>6
  <1> HIDE DEF f, B
  <1>7. f \in Bijection(1 .. i - 1, B)
    BY <1>4, <1>5, <1>6, Fun_IsBij
  <1>8. IsFiniteSet(1 .. i - 1) /\ Cardinality(1 .. i - 1) = i - 1
    <2>1. i - 1 \in Nat
      BY <1>1, <1>2
    <2> QED
      BY <2>1, FS_Interval
  <1>9. ExistsBijection(1 .. i - 1, B)
    BY <1>7, Fun_ExistsBij, Zenon
  <1>10. Cardinality(B) = i - 1
    BY <1>8, <1>9, FS_Bijection
  <1> QED
    BY <1>10 DEF Rank, B

\* There is one order.
LEMMA OneOrder ==
    ASSUME Walk!PaginationAssumption, NEW S, Table(S), NEW s \in Walk!Orders(S),
           NEW t \in Walk!Orders(S)
    PROVE  s = t
  <1> DEFINE n == Cardinality(S)
  <1>1. /\ n \in Nat /\ s \in [1 .. n -> S] /\ t \in [1 .. n -> S]
        /\ \A r \in S : \E j \in 1 .. n : t[j] = r
    BY OrderFacts
  <1>2. ASSUME NEW i \in 1 .. n
        PROVE  s[i] = t[i]
    <2>1. PICK j \in 1 .. n : t[j] = s[i]
      BY <1>1
    <2>2. Rank(S, s[i]) = i - 1 /\ Rank(S, t[j]) = j - 1
      BY PlaceOf
    <2>3. i = j
      BY <2>1, <2>2
    <2> QED
      BY <2>1, <2>3
  <1> QED
    BY <1>1, <1>2

\* More records do not lower a rank.
LEMMA RankGrows ==
    ASSUME NEW S, NEW T, IsFiniteSet(T), S \subseteq T, NEW r
    PROVE  Rank(S, r) \in Nat /\ Rank(T, r) \in Nat /\ Rank(S, r) <= Rank(T, r)
  <1> DEFINE A == {q \in S : Walk!Before(q, r)}
             B == {q \in T : Walk!Before(q, r)}
  <1>1. A \subseteq B /\ B \subseteq T
    OBVIOUS
  <1>2. IsFiniteSet(B)
    BY <1>1, FS_Subset
  <1>3. IsFiniteSet(A) /\ Cardinality(A) <= Cardinality(B)
    BY <1>1, <1>2, FS_Subset
  <1> QED
    BY <1>2, <1>3, FS_CardinalityType DEF Rank

-----------------------------------------------------------------------------
(* Pagination: numbers                                                     *)

LEMMA Smaller ==
    ASSUME NEW a \in Int, NEW b \in Int
    PROVE  Walk!Min({a, b}) = IF a <= b THEN a ELSE b
  BY DEF Walk!Min

\* Who has no next page has seen enough pages, and who has one has not.
LEMMA Pages ==
    ASSUME NEW total \in Nat, NEW size \in Nat \ {0}, NEW page \in Nat \ {0}
    PROVE  /\ Walk!TotalPages(total, size) \in Int
           /\ page < Walk!TotalPages(total, size) <=> page * size < total
           /\ page * size \in Nat
  <1> DEFINE a == total + size - 1
             p == a \div size
  <1>1. a \in Nat /\ p \in Int /\ a % size \in 0 .. size - 1 /\ a = size * p + (a % size)
    OBVIOUS
  <1> HIDE DEF p
  <1>2. size * p \in Int /\ page * size \in Nat
    BY <1>1
  <1>3. page < p => page * size < total
    <2>1. SUFFICES ASSUME page <= p - 1
                   PROVE  page * size < total
      BY <1>1
    <2>2. page * size <= (p - 1) * size
      BY <2>1, <1>1
    <2>3. (p - 1) * size = size * p - size
      BY <1>1
    <2> QED
      BY <1>1, <1>2, <2>2, <2>3
  <1>4. ~(page < p) => ~(page * size < total)
    <2>1. SUFFICES ASSUME p <= page
                   PROVE  page * size >= total
      BY <1>1, <1>2
    <2>2. size * p <= page * size
      BY <2>1, <1>1
    <2> QED
      BY <1>1, <1>2, <2>2
  <1> QED
    BY <1>1, <1>2, <1>3, <1>4 DEF Walk!TotalPages, p


-----------------------------------------------------------------------------
(* Pagination: a page                                                      *)

\* The items of a page: the records at most page * size places from the top, those of
\* earlier pages left out.
PageOf(s, page, size) ==
    SubSeq(s, Walk!Offset(page, size) + 1, Walk!Min({Len(s), Walk!Offset(page, size) + size}))

\* Pages follow each other without a gap, and a page holds the records whose ranks are its own.
Paged(S, s, page, size) ==
    LET off == Walk!Offset(page, size)
        items == PageOf(s, page, size)
        n == Cardinality(S)
    IN  /\ off \in Nat /\ Walk!Offset(page + 1, size) = page * size
        /\ page * size = off + size
        /\ items \in Seq(Walk!Row)
        /\ \A r \in S : off <= Rank(S, r) /\ Rank(S, r) < page * size => r \in Walk!ToSet(items)
        /\ \A r \in S : Rank(S, r) \in Nat /\ Rank(S, r) < n
        /\ off <= n /\ page * size <= n => SubSeq(s, 1, off) \o items = SubSeq(s, 1, page * size)
        /\ off <= n /\ n <= page * size => SubSeq(s, 1, off) \o items = s

LEMMA PageFacts ==
    ASSUME Walk!PaginationAssumption, NEW S, Table(S), NEW s \in Walk!Orders(S),
           NEW page \in Nat \ {0}, NEW size \in Nat \ {0}
    PROVE  Paged(S, s, page, size)
  <1> DEFINE off == Walk!Offset(page, size)
             items == PageOf(s, page, size)
             n == Cardinality(S)
             last == Walk!Min({Len(s), off + size})
  <1>1. off \in Nat /\ Walk!Offset(page + 1, size) = page * size /\ page * size = off + size
    <2>1. page - 1 \in Nat /\ (page + 1) - 1 = page /\ page * size = (page - 1) * size + size
      OBVIOUS
    <2> QED
      BY <2>1 DEF Walk!Offset
  <1>2. /\ n \in Nat /\ s \in [1 .. n -> S] /\ s \in Seq(S) /\ Len(s) = n
        /\ \A r \in S : \E i \in 1 .. n : s[i] = r
    BY OrderFacts
  <1>3. items = SubSeq(s, off + 1, last)
    BY DEF PageOf
  <1> HIDE DEF off, items, n
  <1>4. last = IF n <= off + size THEN n ELSE off + size
    BY <1>1, <1>2, Smaller
  <1> HIDE DEF last
  <1>5. last \in Int /\ off + 1 \in Int /\ last <= n /\ last <= off + size
    BY <1>1, <1>2, <1>4
  <1>6. \A i \in off + 1 .. last : s[i] \in S
    BY <1>1, <1>2, <1>5
  <1>7. /\ items \in Seq(S)
        /\ Len(items) = IF off + 1 <= last THEN last - (off + 1) + 1 ELSE 0
        /\ \A i \in 1 .. last - (off + 1) + 1 : items[i] = s[(off + 1) + i - 1]
    BY <1>3, <1>5, <1>6, SubSeqProperties
  <1>8. items \in Seq(Walk!Row)
    BY <1>7 DEF Table
  <1>9. ASSUME NEW i \in 1 .. n
        PROVE  Rank(S, s[i]) = i - 1
    BY PlaceOf DEF n
  <1>10. ASSUME NEW r \in S
         PROVE  /\ Rank(S, r) \in Nat /\ Rank(S, r) < n
                /\ off <= Rank(S, r) /\ Rank(S, r) < page * size => r \in Walk!ToSet(items)
    <2>1. PICK i \in 1 .. n : s[i] = r
      BY <1>2
    <2>2. Rank(S, r) = i - 1 /\ i \in Nat /\ 1 <= i /\ i <= n
      BY <2>1, <1>2, <1>9
    <2>3. ASSUME off <= Rank(S, r), Rank(S, r) < page * size
          PROVE  r \in Walk!ToSet(items)
      <3>1. i \in off + 1 .. last
        BY <2>2, <2>3, <1>1, <1>2, <1>4
      <3>2. i - off \in 1 .. last - (off + 1) + 1 /\ (off + 1) + (i - off) - 1 = i
        BY <3>1, <1>1, <1>5
      <3>3. items[i - off] = r
        BY <3>2, <1>7, <2>1
      <3>4. i - off \in 1 .. Len(items)
        BY <3>1, <3>2, <1>1, <1>5, <1>7
      <3>5. DOMAIN items = 1 .. Len(items)
        BY <1>7, LenProperties
      <3> QED
        BY <3>3, <3>4, <3>5 DEF Walk!ToSet
    <2> QED
      BY <2>2, <2>3, <1>2
  <1>11. ASSUME off <= n
         PROVE  SubSeq(s, 1, off) \o items = SubSeq(s, 1, last)
    <2>1. 1 \in 1 .. Len(s) + 1 /\ off \in 1 - 1 .. Len(s) /\ last \in off .. Len(s)
      BY <1>1, <1>2, <1>4, <1>11
    <2> QED
      BY <2>1, <1>2, <1>3, ConcatAdjacentSubSeq
  <1>12. off <= n /\ page * size <= n => SubSeq(s, 1, off) \o items = SubSeq(s, 1, page * size)
    <2>1. page * size <= n => last = page * size
      BY <1>1, <1>2, <1>4
    <2> QED
      BY <2>1, <1>11
  <1>13. off <= n /\ n <= page * size => SubSeq(s, 1, off) \o items = s
    <2>1. n <= page * size => last = Len(s)
      BY <1>1, <1>2, <1>4
    <2>2. SubSeq(s, 1, Len(s)) = s
      BY <1>2, SubSeqFull
    <2> QED
      BY <2>1, <2>2, <1>11
  <1> QED
    BY <1>1, <1>8, <1>10, <1>12, <1>13 DEF Paged, off, items, n

-----------------------------------------------------------------------------
(* Pagination: the invariant                                               *)

Scans == [stage : {"idle", "asked", "counted", "done", "error"}, filter : Actions \cup {None},
          size : Nat, page : Nat \ {0}, total : Nat, next : BOOLEAN, seen : Seq(Walk!Row),
          start : SUBSET Walk!Row, quiet : BOOLEAN, torn : BOOLEAN]

Walking == scan.stage \in {"asked", "counted"}

ScanTypes ==
    /\ Table(rows) /\ scan \in Scans
    /\ Walking => scan.size \in Nat \ {0}

\* The records the walk has to return are still there, and the ones not yet returned are
\* on this page or on a later one.
Ahead ==
    /\ scan.start \subseteq Walk!Matching(scan.filter)
    /\ Walking => \A r \in scan.start :
         \/ r \in Walk!ToSet(scan.seen)
         \/ Walk!Offset(scan.page, scan.size) <= Rank(Walk!Matching(scan.filter), r)

\* Unless a record was added since, the last page reaches the last record.
LastPage ==
    scan.stage = "counted" /\ ~scan.next /\ ~scan.torn =>
        Cardinality(Walk!Matching(scan.filter)) <= scan.page * scan.size

\* Over a table at rest the walk has returned the first pages of the one order.
FirstPages ==
    /\ Walking /\ scan.quiet =>
         /\ Walk!Offset(scan.page, scan.size) <= Cardinality(Walk!Matching(scan.filter))
         /\ \A s \in Walk!Orders(Walk!Matching(scan.filter)) :
              scan.seen = SubSeq(s, 1, Walk!Offset(scan.page, scan.size))
    /\ scan.stage = "counted" /\ scan.quiet =>
         (scan.next <=> scan.page * scan.size < Cardinality(Walk!Matching(scan.filter)))

WalkInv == ScanTypes /\ Ahead /\ LastPage /\ FirstPages /\ Walk!WalkComplete

\* The records a query selects are a table of their own.
LEMMA Selected ==
    ASSUME Table(rows), NEW f
    PROVE  Table(Walk!Matching(f)) /\ Cardinality(Walk!Matching(f)) \in Nat
  <1>1. Walk!Matching(f) \subseteq rows
    BY DEF Walk!Matching
  <1>2. IsFiniteSet(Walk!Matching(f))
    BY <1>1, FS_Subset DEF Table
  <1> QED
    BY <1>1, <1>2, FS_CardinalityType DEF Table

\* A record that is added takes no record from the walk.
LEMMA WalkRecord ==
    ASSUME Walk!PaginationAssumption, WalkInv, NEW r \in Walk!Row, Walk!Record(r)
    PROVE  WalkInv'
  <1> DEFINE M == Walk!Matching(scan.filter)
             N == Walk!Matching(scan.filter)'
  <1>1. /\ Table(rows) /\ scan \in Scans /\ rows' = rows \cup {r}
        /\ r.id \notin {q.id : q \in rows}
    BY DEF WalkInv, ScanTypes, Walk!Record
  <1>2. Table(rows')
    <2>1. IsFiniteSet(rows')
      BY <1>1, FS_AddElement DEF Table
    <2>2. ASSUME NEW p \in rows', NEW q \in rows', p.id = q.id
          PROVE  p = q
      BY <1>1, <2>2 DEF Table
    <2> QED
      BY <1>1, <2>1, <2>2 DEF Table
  <1>3. /\ scan' \in Scans
        /\ scan'.stage = scan.stage /\ scan'.filter = scan.filter /\ scan'.size = scan.size
        /\ scan'.page = scan.page /\ scan'.next = scan.next /\ scan'.seen = scan.seen
        /\ scan'.start = scan.start /\ scan'.quiet = FALSE
        /\ scan'.torn = (scan.torn \/ (scan.stage = "counted" /\ ~scan.next))
    BY <1>1 DEF Walk!Record, Scans
  <1>4. M \subseteq N /\ Table(N)
    <2>1. M \subseteq N /\ N \subseteq rows'
      BY <1>1, <1>3 DEF Walk!Matching
    <2>2. IsFiniteSet(N)
      BY <2>1, <1>2, FS_Subset DEF Table
    <2> QED
      BY <2>1, <2>2, <1>2 DEF Table
  <1> HIDE DEF M, N
  <1>5. \A q : Rank(M, q) \in Nat /\ Rank(N, q) \in Nat /\ Rank(M, q) <= Rank(N, q)
    BY <1>4, RankGrows DEF Table
  <1>6. ScanTypes'
    BY <1>2, <1>3 DEF WalkInv, ScanTypes, Walking
  <1>7. Ahead'
    <2>1. scan'.start \subseteq N
      BY <1>3, <1>4 DEF WalkInv, Ahead, M
    <2>2. ASSUME Walking', NEW q \in scan'.start
          PROVE  q \in Walk!ToSet(scan'.seen) \/ Walk!Offset(scan'.page, scan'.size) <= Rank(N, q)
      <3>1. /\ Walking /\ q \in scan.start /\ scan.page \in Nat \ {0} /\ scan.size \in Nat \ {0}
        BY <1>1, <1>3, <2>2 DEF WalkInv, ScanTypes, Walking, Scans
      <3>2. q \in Walk!ToSet(scan.seen) \/ Walk!Offset(scan.page, scan.size) <= Rank(M, q)
        BY <3>1 DEF WalkInv, Ahead, M
      <3>3. Walk!Offset(scan.page, scan.size) \in Int
        BY <3>1 DEF Walk!Offset
      <3>4. Walk!Offset(scan.page, scan.size) <= Rank(M, q) =>
              Walk!Offset(scan.page, scan.size) <= Rank(N, q)
        BY <3>3, <1>5
      <3> QED
        BY <3>2, <3>4, <1>3
    <2> QED
      BY <2>1, <2>2 DEF Ahead, N
  <1>8. LastPage'
    BY <1>3 DEF LastPage
  <1>9. FirstPages'
    BY <1>3 DEF FirstPages
  <1>10. Walk!WalkComplete'
    BY <1>3 DEF WalkInv, Walk!WalkComplete, Walk!QuietScan, Walk!NoneMissed
  <1> QED
    BY <1>6, <1>7, <1>8, <1>9, <1>10 DEF WalkInv

\* A walk starts at the top, with nothing returned.
LEMMA WalkStart ==
    ASSUME Walk!PaginationAssumption, WalkInv, NEW f \in Actions \cup {None},
           NEW size \in PageSizes,
           Walk!Start(f, size)
    PROVE  WalkInv'
  <1>1. Table(rows) /\ rows' = rows /\ size \in Nat \ {0}
    BY DEF WalkInv, ScanTypes, Walk!Start, Walk!PaginationAssumption
  <1>2. Walk!Matching(f) \subseteq Walk!Row
    BY <1>1 DEF Walk!Matching, Table
  <1>3. /\ scan'.stage = "asked" /\ scan'.filter = f /\ scan'.size = size /\ scan'.page = 1
        /\ scan'.next = FALSE /\ scan'.total = 0 /\ scan'.seen = <<>>
             /\ scan'.start = Walk!Matching(f)
        /\ scan'.quiet = TRUE /\ scan'.torn = FALSE
        /\ scan' = [stage |-> "asked", filter |-> f, size |-> size, page |-> 1, total |-> 0,
                    next |-> FALSE, seen |-> <<>>, start |-> Walk!Matching(f), quiet |-> TRUE,
                    torn |-> FALSE]
    BY DEF Walk!Start, Walk!Idle
  <1>4. scan' \in Scans
    BY <1>1, <1>2, <1>3, EmptySeq DEF Scans
  <1>5. Walk!Matching(scan.filter)' = Walk!Matching(f)
    BY <1>1, <1>3 DEF Walk!Matching
  <1>6. Walk!Offset(1, size) = 0
    BY <1>1 DEF Walk!Offset
  <1>7. Table(Walk!Matching(f)) /\ Cardinality(Walk!Matching(f)) \in Nat
    BY <1>1, Selected
  <1>8. ScanTypes'
    BY <1>1, <1>3, <1>4 DEF ScanTypes, Walking
  <1>9. Ahead'
    <2>1. \A r : Rank(Walk!Matching(f), r) \in Nat
      BY <1>7, RankGrows DEF Table
    <2> QED
      BY <1>3, <1>5, <1>6, <2>1 DEF Ahead, Walking
  <1>10. FirstPages'
    <2>1. \A s : SubSeq(s, 1, 0) = <<>>
      BY SubSeqEmpty
    <2> QED
      BY <1>3, <1>5, <1>6, <1>7, <2>1 DEF FirstPages, Walking
  <1> QED
    BY <1>3, <1>8, <1>9, <1>10 DEF WalkInv, LastPage, Walk!WalkComplete, Walk!QuietScan,
                                   Walk!NoneMissed

\* The count says whether there is another page.
LEMMA WalkCount ==
    ASSUME Walk!PaginationAssumption, WalkInv, Walk!Count
    PROVE  WalkInv'
  <1> DEFINE M == Walk!Matching(scan.filter)
             n == Cardinality(M)
             more == scan.page < Walk!TotalPages(n, scan.size)
  <1>1. /\ Table(rows) /\ scan \in Scans /\ rows' = rows /\ scan.stage = "asked"
        /\ scan.size \in Nat \ {0} /\ scan.page \in Nat \ {0}
    BY DEF WalkInv, ScanTypes, Walk!Count, Walking, Scans
  <1>2. n \in Nat
    BY <1>1, Selected
  <1>3. /\ more \in BOOLEAN /\ (more <=> scan.page * scan.size < n)
        /\ scan.page * scan.size \in Nat
    BY <1>1, <1>2, Pages
  <1>4. scan' = [scan EXCEPT !.stage = "counted", !.total = n, !.next = more]
    BY SameCardinality DEF Walk!Count
  <1> HIDE DEF n, more
  <1>5. /\ scan' \in Scans
        /\ scan'.stage = "counted" /\ scan'.filter = scan.filter /\ scan'.size = scan.size
        /\ scan'.page = scan.page /\ scan'.next = more
        /\ scan'.seen = scan.seen /\ scan'.start = scan.start /\ scan'.quiet = scan.quiet
    BY <1>1, <1>2, <1>3, <1>4 DEF Scans
  <1>6. Walk!Matching(scan.filter)' = M
    BY <1>1, <1>5 DEF Walk!Matching
  <1>7. ScanTypes'
    BY <1>1, <1>5 DEF ScanTypes, Walking
  <1>8. Ahead'
    BY <1>1, <1>5, <1>6 DEF WalkInv, Ahead, Walking
  <1>9. LastPage'
    BY <1>2, <1>3, <1>5, <1>6 DEF LastPage, n
  <1>10. FirstPages'
    BY <1>1, <1>3, <1>5, <1>6 DEF WalkInv, FirstPages, Walking, n
  <1> QED
    BY <1>5, <1>7, <1>8, <1>9, <1>10 DEF WalkInv, Walk!WalkComplete, Walk!QuietScan,
                                         Walk!NoneMissed

\* What is in one of two sequences is in both joined.
LEMMA Joined ==
    ASSUME NEW S, NEW s \in Seq(S), NEW t \in Seq(S)
    PROVE  s \o t \in Seq(S) /\ Walk!ToSet(s) \cup Walk!ToSet(t) \subseteq Walk!ToSet(s \o t)
  <1>1. /\ s \o t \in Seq(S) /\ Len(s \o t) = Len(s) + Len(t)
        /\ \A i \in 1 .. Len(s) + Len(t) :
             (s \o t)[i] = IF i <= Len(s) THEN s[i] ELSE t[i - Len(s)]
    BY ConcatProperties
  <1>2. /\ Len(s) \in Nat /\ DOMAIN s = 1 .. Len(s) /\ Len(t) \in Nat /\ DOMAIN t = 1 .. Len(t)
        /\ DOMAIN (s \o t) = 1 .. Len(s \o t)
    BY <1>1, LenProperties
  <1>3. ASSUME NEW i \in 1 .. Len(s)
        PROVE  i \in 1 .. Len(s) + Len(t) /\ (s \o t)[i] = s[i]
    BY <1>1, <1>2
  <1>4. ASSUME NEW i \in 1 .. Len(t)
        PROVE  /\ Len(s) + i \in 1 .. Len(s) + Len(t)
               /\ (s \o t)[Len(s) + i] = t[i]
    <2>1. /\ Len(s) + i \in 1 .. Len(s) + Len(t) /\ ~(Len(s) + i <= Len(s))
          /\ (Len(s) + i) - Len(s) = i
      BY <1>2
    <2> QED
      BY <2>1, <1>1
  <1>5. Walk!ToSet(s) \subseteq Walk!ToSet(s \o t)
    BY <1>1, <1>2, <1>3 DEF Walk!ToSet
  <1>6. ASSUME NEW e \in Walk!ToSet(t)
        PROVE  e \in Walk!ToSet(s \o t)
    <2>1. PICK i \in 1 .. Len(t) : t[i] = e
      BY <1>2 DEF Walk!ToSet
    <2>2. Len(s) + i \in DOMAIN (s \o t) /\ (s \o t)[Len(s) + i] = e
      BY <1>1, <1>2, <1>4, <2>1
    <2> QED
      BY <2>2 DEF Walk!ToSet
  <1> QED
    BY <1>1, <1>5, <1>6

\* A page takes the walk on: the records it had to return are on it or still ahead.
LEMMA WalkSelect ==
    ASSUME Walk!PaginationAssumption, WalkInv, Walk!Select
    PROVE  WalkInv'
  <1> DEFINE M == Walk!Matching(scan.filter)
             n == Cardinality(M)
             size == scan.size
             page == scan.page
             off == Walk!Offset(page, size)
  <1>1. /\ Table(rows) /\ scan \in Scans /\ rows' = rows /\ scan.stage = "counted"
        /\ size \in Nat \ {0} /\ page \in Nat \ {0} /\ scan.seen \in Seq(Walk!Row)
    BY DEF WalkInv, ScanTypes, Walk!Select, Walking, Scans
  <1>2. Table(M) /\ n \in Nat
    BY <1>1, Selected
  <1>3. PICK s \in Walk!Orders(M) :
          scan' = IF ~Walk!Accepted(Walk!Items(s)) THEN [scan EXCEPT !.stage = "error"]
                  ELSE [scan EXCEPT !.seen = @ \o Walk!Items(s),
                          !.page = IF scan.next THEN @ + 1 ELSE @,
                          !.stage = IF scan.next THEN "asked" ELSE "done"]
    BY DEF Walk!Select
  <1> DEFINE items == PageOf(s, page, size)
  <1>4. Walk!Items(s) = items
    BY DEF Walk!Items, PageOf
  <1>5. /\ off \in Nat /\ Walk!Offset(page + 1, size) = page * size /\ page * size = off + size
        /\ items \in Seq(Walk!Row)
        /\ \A r \in M : off <= Rank(M, r) /\ Rank(M, r) < page * size => r \in Walk!ToSet(items)
        /\ \A r \in M : Rank(M, r) \in Nat /\ Rank(M, r) < n
        /\ off <= n /\ page * size <= n => SubSeq(s, 1, off) \o items = SubSeq(s, 1, page * size)
        /\ off <= n /\ n <= page * size => SubSeq(s, 1, off) \o items = s
    <2>1. Paged(M, s, page, size)
      <3> HIDE DEF M, page, size
      <3> QED
        BY <1>1, <1>2, PageFacts
    <2> QED
      BY <2>1 DEF Paged
  <1>6. /\ scan.seen \o items \in Seq(Walk!Row)
        /\ Walk!ToSet(scan.seen) \subseteq Walk!ToSet(scan.seen \o items)
        /\ Walk!ToSet(items) \subseteq Walk!ToSet(scan.seen \o items)
    BY <1>1, <1>5, Joined
  <1>7. CASE ~Walk!Accepted(Walk!Items(s))
    <2>1. scan' = [scan EXCEPT !.stage = "error"]
      BY <1>3, <1>7
    <2>2. /\ scan' \in Scans /\ scan'.stage = "error" /\ scan'.filter = scan.filter
          /\ scan'.start = scan.start
      BY <1>1, <2>1 DEF Scans
    <2>3. Walk!Matching(scan.filter)' = M
      BY <1>1, <2>2 DEF Walk!Matching
    <2> QED
      BY <1>1, <2>2, <2>3 DEF WalkInv, ScanTypes, Ahead, LastPage, FirstPages, Walk!WalkComplete,
                              Walk!QuietScan, Walk!NoneMissed, Walking
  <1>8. CASE Walk!Accepted(Walk!Items(s)) /\ scan.next
    <2> DEFINE seen == scan.seen \o items
    <2>1. scan' = [scan EXCEPT !.seen = seen, !.page = page + 1, !.stage = "asked"]
      BY <1>3, <1>4, <1>8
    <2>2. /\ scan' \in Scans /\ scan'.stage = "asked" /\ scan'.filter = scan.filter
          /\ scan'.start = scan.start /\ scan'.size = size /\ scan'.page = page + 1
          /\ scan'.seen = seen /\ scan'.quiet = scan.quiet
      <3>1. seen \in Seq(Walk!Row) /\ page + 1 \in Nat \ {0}
        BY <1>1, <1>6
      <3> HIDE DEF seen
      <3> QED
        BY <1>1, <2>1, <3>1 DEF Scans
    <2>3. Walk!Matching(scan.filter)' = M
      BY <1>1, <2>2 DEF Walk!Matching
    <2>4. ScanTypes'
      BY <1>1, <2>2 DEF ScanTypes, Walking
    <2>5. Ahead'
      <3>1. scan.start \subseteq M
        BY DEF WalkInv, Ahead
      <3>2. ASSUME NEW r \in scan.start
            PROVE  r \in Walk!ToSet(scan.seen \o items) \/ page * size <= Rank(M, r)
        <4>1. r \in Walk!ToSet(scan.seen) \/ off <= Rank(M, r)
          BY <1>1 DEF WalkInv, Ahead, Walking
        <4>2. Rank(M, r) \in Nat /\ page * size \in Int
          BY <1>1, <1>5, <3>1
        <4> QED
          BY <4>1, <4>2, <1>5, <1>6, <3>1
      <3> QED
        BY <2>2, <2>3, <3>1, <3>2, <1>5 DEF Ahead
    <2>6. FirstPages'
      <3>1. SUFFICES ASSUME scan.quiet
                     PROVE  /\ page * size <= n
                            /\ \A t \in Walk!Orders(M) :
                                 scan.seen \o items = SubSeq(t, 1, page * size)
        BY <2>2, <2>3, <1>5 DEF FirstPages, Walking
      <3>2. off <= n /\ scan.seen = SubSeq(s, 1, off) /\ page * size < n
        BY <1>1, <1>3, <1>8, <3>1 DEF WalkInv, FirstPages, Walking
      <3>3. page * size <= n
        BY <1>1, <1>2, <3>2
      <3>4. \A t \in Walk!Orders(M) : t = s
        BY <1>2, <1>3, OneOrder
      <3> QED
        BY <3>2, <3>3, <3>4, <1>5
    <2> QED
      BY <2>2, <2>4, <2>5, <2>6 DEF WalkInv, LastPage, Walk!WalkComplete, Walk!QuietScan,
                                    Walk!NoneMissed
  <1>9. CASE Walk!Accepted(Walk!Items(s)) /\ ~scan.next
    <2>1. scan' = [scan EXCEPT !.seen = scan.seen \o items, !.page = page, !.stage = "done"]
      BY <1>3, <1>4, <1>9
    <2>2. /\ scan' \in Scans /\ scan'.stage = "done" /\ scan'.filter = scan.filter
          /\ scan'.start = scan.start /\ scan'.seen = scan.seen \o items
          /\ scan'.quiet = scan.quiet /\ scan'.torn = scan.torn
      BY <1>1, <1>6, <2>1 DEF Scans
    <2>3. /\ Walk!Matching(scan.filter)' = M
          /\ Walk!Orders(Walk!Matching(scan.filter))' = Walk!Orders(M)
      BY <1>1, <2>2 DEF Walk!Matching, Walk!Orders, Walk!Before
    <2>4. scan.start \subseteq M
      BY DEF WalkInv, Ahead
    <2>5. ScanTypes' /\ Ahead'
      BY <1>1, <2>2, <2>3, <2>4 DEF ScanTypes, Ahead, Walking
    <2>6. Walk!NoneMissed'
      <3>1. SUFFICES ASSUME ~scan.torn, NEW r \in scan.start
                     PROVE  r \in Walk!ToSet(scan.seen \o items)
        BY <2>2 DEF Walk!NoneMissed
      <3>2. n <= page * size
        BY <1>1, <1>9, <3>1 DEF WalkInv, LastPage
      <3>3. r \in Walk!ToSet(scan.seen) \/ off <= Rank(M, r)
        BY <1>1 DEF WalkInv, Ahead, Walking
      <3>4. r \in M /\ Rank(M, r) \in Nat /\ Rank(M, r) < n
        BY <2>4, <1>5
      <3>5. Rank(M, r) < page * size
        BY <1>1, <1>2, <3>2, <3>4
      <3> QED
        BY <3>3, <3>4, <3>5, <1>5, <1>6
    <2>7. Walk!QuietScan'
      <3>1. SUFFICES ASSUME scan.quiet
                     PROVE  scan.seen \o items \in Walk!Orders(M)
        BY <2>2, <2>3 DEF Walk!QuietScan
      <3>2. off <= n /\ scan.seen = SubSeq(s, 1, off) /\ ~(page * size < n)
        BY <1>1, <1>3, <1>9, <3>1 DEF WalkInv, FirstPages, Walking
      <3>3. n <= page * size
        BY <1>1, <1>2, <3>2
      <3> QED
        BY <3>2, <3>3, <1>3, <1>5
    <2> QED
      BY <2>2, <2>5, <2>6, <2>7 DEF WalkInv, LastPage, FirstPages, Walk!WalkComplete, Walking
  <1> QED
    BY <1>7, <1>8, <1>9

\* A walk that ends leaves nothing behind.
LEMMA WalkFinish ==
    ASSUME Walk!PaginationAssumption, WalkInv, rows' = rows, scan' = Walk!Idle
    PROVE  WalkInv'
  <1>1. /\ Walk!Idle.stage = "idle" /\ Walk!Idle.start = {}
        /\ Walk!Idle \in Scans
    BY EmptySeq DEF Walk!Idle, Scans
  <1> QED
    BY <1>1 DEF WalkInv, ScanTypes, Ahead, LastPage, FirstPages, Walk!WalkComplete,
                Walk!QuietScan,
                Walk!NoneMissed, Walking

LEMMA WalkInit ==
    ASSUME Walk!PaginationAssumption, Walk!Init
    PROVE  WalkInv
  <1>1. /\ Walk!Idle.stage = "idle" /\ Walk!Idle.start = {}
        /\ Walk!Idle \in Scans
    BY EmptySeq DEF Walk!Idle, Scans
  <1>2. Table({})
    BY FS_EmptySet DEF Table
  <1> QED
    BY <1>1, <1>2 DEF Walk!Init, WalkInv, ScanTypes, Ahead, LastPage, FirstPages,
                      Walk!WalkComplete,
                      Walk!QuietScan, Walk!NoneMissed, Walking

LEMMA WalkNext ==
    ASSUME Walk!PaginationAssumption, WalkInv, [Walk!Next]_(Walk!vars)
    PROVE  WalkInv'
  <1>1. CASE UNCHANGED Walk!vars
    BY <1>1 DEF Walk!vars, WalkInv, ScanTypes, Ahead, LastPage, FirstPages, Walk!WalkComplete,
                Walk!QuietScan, Walk!NoneMissed, Walking, Walk!Matching
  <1>2. CASE Walk!Finish
    BY <1>2, WalkFinish DEF Walk!Finish
  <1> QED
    BY <1>1, <1>2, WalkRecord, WalkStart, WalkCount, WalkSelect DEF Walk!Next

\* query_records and list_users, walked page by page with any page size and any filter: over
\* a table at rest the pages are the whole selection in its order, and no record that was
\* there at the start is missed while others are added, unless one is added between the
\* count and the select of the last page.
THEOREM WalksComplete ==
    ASSUME Walk!PaginationAssumption
    PROVE  Walk!Spec => []Walk!WalkComplete
  <1>1. Walk!Init => WalkInv
    BY WalkInit
  <1>2. WalkInv /\ [Walk!Next]_(Walk!vars) => WalkInv'
    BY WalkNext
  <1>3. WalkInv => Walk!WalkComplete
    BY DEF WalkInv
  <1> QED
    BY <1>1, <1>2, <1>3, PTL DEF Walk!Spec
=============================================================================
