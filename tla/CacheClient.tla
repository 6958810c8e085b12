----------------------------- MODULE CacheClient ----------------------------
(***************************************************************************)
(* CacheClient on one key: get, delete and get_or_load with its            *)
(* single-flight lock.                                                     *)
(*                                                                         *)
(* Callers run in several processes; every Redis command is a step of its  *)
(* own, may fail or time out, and may have taken effect when it does.  The *)
(* durable value changes under the cache.  Leases, lifetimes and deadlines *)
(* count down by Tick.                                                     *)
(***************************************************************************)
EXTENDS Integers

CONSTANTS
    Callers,
    FailOpen,       \* the callers whose client fails open
    TTL, Lease, WaitTime,
    MaxVersion,     \* bound: changes of the durable value
    Faults,         \* may Redis fail, callers crash and entries be corrupted?
    Timed,          \* does time pass?
    None,
    Garbage         \* an entry that the codec refuses

CacheAssumption ==
    /\ FailOpen \subseteq Callers
    /\ TTL \in Nat \ {0} /\ Lease \in Nat \ {0} /\ WaitTime \in Nat
    /\ MaxVersion \in Nat /\ Faults \in BOOLEAN /\ Timed \in BOOLEAN
    /\ None \notin Callers \cup Nat /\ Garbage \notin Nat \cup {None}

VARIABLES
    truth,      \* the durable value, named by its version
    cache,      \* the cached entry: value (or None, or Garbage) and lifetime left
    lock,       \* the lock: token (or None) and lease left
    call,       \* calls under way
    floor,      \* history: what readers may expect since the last quiet invalidation
    loads       \* history: loader runs since the key was last dropped, counted to two

vars == <<truth, cache, lock, call, floor, loads>>

NoEntry == [val |-> None, left |-> 0]
NoLock  == [token |-> None, left |-> 0]

\* pc: the next command; mode: how a load came about; lease: what is left of the lock's
\* lease; timer: of the wait; failed: has the backend failed this call?; got: the answer.
Idle == [pc |-> "idle", op |-> None, mode |-> None, val |-> None,
         lease |-> 0, timer |-> 0, failed |-> FALSE, floor |-> 0, got |-> None]

Init ==
    /\ truth = 0 /\ cache = NoEntry /\ lock = NoLock
    /\ call = [c \in Callers |-> Idle]
    /\ floor = 0 /\ loads = 0

At(c, pc) == call[c].pc = pc

\* The call x with some of its fields replaced.
With(x, changes) == [f \in DOMAIN x |-> IF f \in DOMAIN changes THEN changes[f] ELSE x[f]]

Step(c, changes) == call' = [call EXCEPT ![c] = With(@, changes)]
Answer(v) == [pc |-> "end", got |-> v]
Raise     == Answer(None)
Loading(mode) == [pc |-> "load", mode |-> mode]

-----------------------------------------------------------------------------
(* Calls                                                                   *)

Call(c, op) ==
    /\ At(c, "idle")
    /\ Step(c, [pc |-> "read", op |-> op, floor |-> floor])
    /\ UNCHANGED <<truth, cache, lock, floor, loads>>

Return(c) ==
    /\ At(c, "end") /\ call' = [call EXCEPT ![c] = Idle]
    /\ UNCHANGED <<truth, cache, lock, floor, loads>>

\* Mutation of Rearmed: every poll starts the wait anew.
RearmedAlways(c) == WaitTime

\* The wait a caller has left after a poll.
Rearmed(c) == call[c].timer

\* A miss: get returns None, get_or_load goes for the lock, a waiter waits on.
Miss(c) ==
    CASE call[c].op = "get" -> Answer(None)
      [] call[c].mode = "waiter" -> [pc |-> "wait", timer |-> Rearmed(c)]
      [] OTHER -> [pc |-> "acquire"]

\* _read; a corrupt entry is deleted by a command of its own.
Read(c) ==
    /\ At(c, "read")
    /\ Step(c, CASE cache.val = None -> Miss(c)
                 [] cache.val = Garbage -> [pc |-> "scrub"]
                 [] OTHER -> Answer(cache.val))
    /\ UNCHANGED <<truth, cache, lock, floor, loads>>

\* _delete_corrupt deletes whatever is there by then; its failure is ignored.
Scrub(c) ==
    /\ At(c, "scrub")
    /\ \/ cache' = NoEntry
       \/ Faults /\ UNCHANGED cache
    /\ Step(c, Miss(c))
    /\ UNCHANGED <<truth, lock, floor, loads>>

\* SET NX PX with a random token.  The caller stands for it: a call acquires at most once,
\* and not while a lock of an earlier call of the same caller is left.
Acquire(c) ==
    /\ At(c, "acquire")
    /\ IF lock.token = None
       THEN /\ lock' = [token |-> c, left |-> Lease]
            /\ Step(c, [pc |-> "load", mode |-> "owner", lease |-> Lease])
       ELSE /\ Step(c, [pc |-> "wait", mode |-> "waiter", timer |-> WaitTime])
            /\ UNCHANGED lock
    /\ UNCHANGED <<truth, cache, floor, loads>>

\* The loop of a waiter: sleep and read again before the deadline, load after it.
Poll(c) ==
    /\ At(c, "wait")
    /\ Step(c, IF call[c].timer > 0 THEN [pc |-> "read"] ELSE Loading("late"))
    /\ UNCHANGED <<truth, cache, lock, floor, loads>>

\* The loader reads the durable value (external); storing it is a later command.
Load(c) ==
    /\ At(c, "load")
    /\ Step(c, IF call[c].mode = "plain" THEN Answer(truth) ELSE [pc |-> "store", val |-> truth])
    /\ loads' = IF loads = 2 THEN 2 ELSE loads + 1
    /\ UNCHANGED <<truth, cache, lock, floor>>

\* The loader raises, is cancelled, or returns what cannot be encoded; an owner releases its
\* lock on the way out.
LoadFails(c) ==
    /\ Faults /\ At(c, "load")
    /\ Step(c, IF call[c].mode = "owner" THEN [pc |-> "watch", val |-> None] ELSE Raise)
    /\ UNCHANGED <<truth, cache, lock, floor, loads>>

\* An owner releases its lock before it answers.
AfterStore(c, v) == IF call[c].mode = "owner" THEN [pc |-> "watch", val |-> v] ELSE Answer(v)

Store(c) ==
    /\ At(c, "store")
    /\ cache' = [val |-> call[c].val, left |-> TTL]
    /\ Step(c, AfterStore(c, call[c].val))
    /\ UNCHANGED <<truth, lock, floor, loads>>

\* WATCH and GET: is the lock still this caller's?
OwnToken(c) == lock.token = c

Watch(c) ==
    /\ At(c, "watch")
    /\ Step(c, IF OwnToken(c) THEN [pc |-> "unlock"] ELSE Answer(call[c].val))
    /\ UNCHANGED <<truth, cache, lock, floor, loads>>

\* Mutation of Unwatched: DEL runs even if the lock has changed since GET.
UnwatchedNever(c) == lock.token # None

\* EXEC: aborted (WatchError) when the lock has changed hands or expired since.
Unwatched(c) == lock.token = c

Unlock(c) ==
    /\ At(c, "unlock")
    /\ lock' = IF Unwatched(c) THEN NoLock ELSE lock
    /\ Step(c, Answer(call[c].val))
    /\ UNCHANGED <<truth, cache, floor, loads>>

-----------------------------------------------------------------------------
(* Faults                                                                  *)

\* Mutation of Ignores: a failed release or store is ignored by every client.
IgnoresAlways(c) == TRUE

\* _handle_write_failure and its like: only a client that fails open goes on.
Ignores(c) == c \in FailOpen

Failing(c, changes) == call' = [call EXCEPT ![c] = [With(@, changes) EXCEPT !.failed = TRUE]]

\* A command raises RedisError or times out; it may have taken effect.
Outage(c) ==
    /\ Faults
    /\ \/ /\ At(c, "read") /\ UNCHANGED <<cache, lock>>
          /\ Failing(c, IF Ignores(c) /\ call[c].op = "get_or_load" THEN Loading("plain") ELSE Raise)
       \/ /\ At(c, "acquire") /\ UNCHANGED cache
          /\ \/ UNCHANGED lock
             \/ lock.token = None /\ lock' = [token |-> c, left |-> Lease]
          /\ Failing(c, IF Ignores(c) THEN Loading("plain") ELSE Raise)
       \/ /\ At(c, "store") /\ UNCHANGED lock
          /\ \/ UNCHANGED cache
             \/ cache' = [val |-> call[c].val, left |-> TTL]
          /\ Failing(c, AfterStore(c, IF Ignores(c) THEN call[c].val ELSE None))
       \/ /\ call[c].pc \in {"watch", "unlock"} /\ UNCHANGED cache
          /\ \/ UNCHANGED lock
             \/ At(c, "unlock") /\ Unwatched(c) /\ lock' = NoLock
          /\ Failing(c, IF Ignores(c) THEN Answer(call[c].val) ELSE Raise)
    /\ UNCHANGED <<truth, floor, loads>>

\* The process dies; the lock stays until its lease is over.
Crash(c) ==
    /\ Faults /\ ~At(c, "idle") /\ call' = [call EXCEPT ![c] = Idle]
    /\ UNCHANGED <<truth, cache, lock, floor, loads>>

Corrupt ==
    /\ Faults /\ cache.val # None /\ cache' = [cache EXCEPT !.val = Garbage]
    /\ UNCHANGED <<truth, lock, call, floor, loads>>

-----------------------------------------------------------------------------
(* The owner of the data                                                   *)

Write ==
    /\ truth < MaxVersion /\ truth' = truth + 1
    /\ UNCHANGED <<cache, lock, call, floor, loads>>

\* Mutation of Deleted: the lock's key is deleted instead of the value's.
DeletedLock == cache

\* What delete leaves of the entry.
Deleted == NoEntry

\* Has a caller loaded a value that it may still store?
InFlight == \E c \in Callers : call[c].pc = "store"

\* invalidate and delete, when they succeed.
Invalidate ==
    /\ cache' = Deleted /\ loads' = 0
    /\ floor' = IF InFlight THEN floor ELSE truth
    /\ UNCHANGED <<truth, lock, call>>

Less(n) == IF n > 0 THEN n - 1 ELSE 0

Tick ==
    /\ Timed
    /\ cache' = IF cache.left > 1 THEN [cache EXCEPT !.left = @ - 1] ELSE NoEntry
    /\ lock' = IF lock.left > 1 THEN [lock EXCEPT !.left = @ - 1] ELSE NoLock
    /\ call' = [c \in Callers |-> [call[c] EXCEPT !.lease = Less(@), !.timer = Less(@)]]
    /\ UNCHANGED <<truth, floor, loads>>

CallerStep(c) ==
    \/ Return(c) \/ Read(c) \/ Scrub(c) \/ Acquire(c) \/ Poll(c) \/ Load(c) \/ LoadFails(c)
    \/ Store(c) \/ Watch(c) \/ Unlock(c) \/ Outage(c)

Next ==
    \/ Corrupt \/ Write \/ Invalidate \/ Tick
    \/ \E c \in Callers :
        \/ \E op \in {"get", "get_or_load"} : Call(c, op)
        \/ CallerStep(c) \/ Crash(c)

Spec == Init /\ [][Next]_vars

\* Every process runs, and time passes.
Fairness == WF_vars(Tick) /\ \A c \in Callers : WF_vars(CallerStep(c))

-----------------------------------------------------------------------------
(* Properties                                                              *)

\* A caller that loads under the lock has the lock for as long as its lease runs: no late
\* release of an earlier owner, no lost answer and no crash gives it to anyone else.
LeaseHolds ==
    \A c \in Callers : call[c].mode = "owner" /\ call[c].lease > 0
                       /\ call[c].pc \in {"load", "store", "watch", "unlock"}
                       => lock.token = c

\* After a change and an invalidation that met no loaded value in flight, no call that
\* starts later answers with an older value, through the cache or past it.
FreshAfterInvalidate ==
    \A c \in Callers : call[c].got # None => call[c].got >= call[c].floor

\* A client that does not fail open answers no call whose backend failed, even if the
\* value was loaded by then.
FailClosed == \A c \in Callers \ FailOpen : call[c].failed => call[c].got = None

\* What the lock, the invalidation and fail_open promise callers, under every fault.
CacheSound == LeaseHolds /\ FreshAfterInvalidate /\ FailClosed

\* Every call ends: owners may die, commands may fail and entries come and go, but a
\* waiter waits no longer than its deadline.
EveryCallEnds == \A c \in Callers : ~At(c, "idle") ~> At(c, "idle")

\* "single_flight_loads_once_for_concurrent_callers": while nothing fails, expires or is
\* invalidated, the loader runs once.
LoadsOnce == loads <= 1
=============================================================================
