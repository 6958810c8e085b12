----------------------------- MODULE RateLimit ------------------------------
(***************************************************************************)
(* The sliding-window limits in front of the identity and profile entry    *)
(* points.                                                                 *)
(*                                                                         *)
(* One Redis script trims, counts and admits; identify_rate_limit runs it  *)
(* for the client's address and then for the account the body names, and   *)
(* profile_rate_limit for the signed-in user.  Several requests are under  *)
(* way at once, Redis may fail before or after the script has run, and     *)
(* time is Redis's own clock.                                              *)
(***************************************************************************)
EXTENDS Integers, Sequences, FiniteSets

CONSTANTS
    Requests,       \* requests under way at one time
    Clients,        \* addresses they come from
    Accounts,       \* e-mail addresses, challenge ids or cookies they name
    Profiles,       \* signed-in users changing their profile
    None,           \* a request that names no account
    IpLimit, AccountLimit, ProfileLimit,
    Window,         \* window_seconds, in ticks
    Second,         \* ticks to a second
    MaxTime, MaxEntries     \* bounds: the clock, and the entries ever stored

LimitAssumption ==
    /\ IpLimit \in Nat \ {0} /\ AccountLimit \in Nat \ {0} /\ ProfileLimit \in Nat \ {0}
    /\ Window \in Nat \ {0} /\ Second \in Nat \ {0}
    /\ MaxTime \in Nat /\ MaxEntries \in Nat

NoneAssumption == None \notin Accounts

VARIABLES
    clock,      \* Redis TIME
    serial,     \* entries made so far: the tokens that name them
    zset,       \* entries of the sorted sets
    expires,    \* when Redis drops a key
    req,        \* requests under way
    admitted,   \* history: every entry a script ever stored
    passed,     \* history: the entries of requests that reached their handler
    advice      \* history: the earliest time a caller was told to come back, 0 if
                \* none was told or the place has been taken since

vars == <<clock, serial, zset, expires, req, admitted, passed, advice>>

\* rate_limit_key: the scope and the operation tell the families of keys apart.
IpKey(c)      == <<"ip", c>>
AccountKey(a) == <<"account", a>>
UserKey(u)    == <<"user", u>>
Keys == {IpKey(c) : c \in Clients} \cup {AccountKey(a) : a \in Accounts}
            \cup {UserKey(u) : u \in Profiles}

\* _LIMITS and profile_rate_limits.
Limit(k) == CASE k[1] = "ip" -> IpLimit [] k[1] = "account" -> AccountLimit
              [] OTHER -> ProfileLimit

Idle == [todo |-> <<>>, marks |-> {}]

Init ==
    /\ clock = 0 /\ serial = 0 /\ zset = {} /\ expires = [k \in Keys |-> 0]
    /\ req = [r \in Requests |-> Idle]
    /\ admitted = {} /\ passed = {} /\ advice = [k \in Keys |-> 0]

-----------------------------------------------------------------------------
(* The script                                                              *)

\* Mutation of Fresh: an entry counts only while it is younger than half the window.
FreshHalf(k) == {e \in zset : e.key = k /\ e.at > clock - (Window \div 2)}

\* What ZREMRANGEBYSCORE leaves: entries younger than the window.
Fresh(k) == {e \in zset : e.key = k /\ e.at > clock - Window}

Trimmed(k) == {e \in zset : e.key # k} \cup Fresh(k)

Oldest(k) == CHOOSE t \in {e.at : e \in Fresh(k)} : \A e \in Fresh(k) : t <= e.at

\* Mutation of Seconds: rounded down.
SecondsDown(ticks) == IF ticks < Second THEN 1 ELSE ticks \div Second

\* math.max(1, math.ceil(ticks / 1000))
Seconds(ticks) == IF ticks < 1 THEN 1 ELSE (ticks + Second - 1) \div Second

\* ARGV[3]: a fresh token makes the entry a member of its own.
Stamp(k) == [key |-> k, at |-> clock, id |-> serial + 1]

Admits(k) == Cardinality(Fresh(k)) < Limit(k)

\* ZADD and PEXPIRE: the place is taken, and the key lives for another window.
Admit(k) ==
    /\ Admits(k) /\ serial < MaxEntries
    /\ serial' = serial + 1
    /\ zset' = Trimmed(k) \cup {Stamp(k)}
    /\ expires' = [expires EXCEPT ![k] = clock + Window]
    /\ admitted' = admitted \cup {Stamp(k)}
    /\ advice' = [advice EXCEPT ![k] = 0]

Refuse(k) ==
    /\ ~Admits(k)
    /\ zset' = Trimmed(k)
    /\ LET due == clock + Second * Seconds(Oldest(k) + Window - clock)
       IN  advice' = [advice EXCEPT ![k] = IF advice[k] = 0 \/ due < advice[k] THEN due ELSE @]
    /\ UNCHANGED <<serial, expires, admitted>>

-----------------------------------------------------------------------------
(* Requests                                                                *)

\* identify_rate_limit: the address first, then what the body or the cookie names.
Identify(r, c, a) ==
    /\ req[r] = Idle
    /\ req' = [req EXCEPT ![r].todo =
                  IF a = None THEN <<IpKey(c)>> ELSE <<IpKey(c), AccountKey(a)>>]
    /\ UNCHANGED <<clock, serial, zset, expires, admitted, passed, advice>>

ChangeProfile(r, u) ==
    /\ req[r] = Idle
    /\ req' = [req EXCEPT ![r].todo = <<UserKey(u)>>]
    /\ UNCHANGED <<clock, serial, zset, expires, admitted, passed, advice>>

Busy(r) == req[r] # Idle
Key(r)  == req[r].todo[1]

\* The limit lets the request go on: to the next limit, or to its handler.
GoOn(r, mark) ==
    LET marks == req[r].marks \cup {mark}
    IN  IF Len(req[r].todo) > 1
        THEN /\ req' = [req EXCEPT ![r] = [todo |-> Tail(req[r].todo), marks |-> marks]]
             /\ UNCHANGED passed
        ELSE /\ req' = [req EXCEPT ![r] = Idle]
             /\ passed' = passed \cup marks

Stop(r) == req' = [req EXCEPT ![r] = Idle] /\ UNCHANGED passed

Allowed(r) ==
    /\ Busy(r) /\ Admit(Key(r)) /\ GoOn(r, Stamp(Key(r)))
    /\ UNCHANGED clock

\* IdentityRateLimitExceededError or ProfileRateLimitExceededError, with Retry-After.
Limited(r) ==
    /\ Busy(r) /\ Refuse(Key(r)) /\ Stop(r)
    /\ UNCHANGED clock

\* AuthenticationRequestTooLargeError: after the address was charged.
TooLarge(r) ==
    /\ Busy(r) /\ req[r].marks # {} /\ Stop(r)
    /\ UNCHANGED <<clock, serial, zset, expires, admitted, advice>>

\* Mutation of FailsOpen: a Redis error lets every request through.
FailsOpenAlways(k) == TRUE

\* "without making Redis authoritative": only profile changes go on when Redis fails.
FailsOpen(k) == k[1] = "user"

AfterError(r) == IF FailsOpen(Key(r)) THEN GoOn(r, Stamp(Key(r))) ELSE Stop(r)

\* RedisError: the script has not run (or has refused, which leaves no trace) ...
Unavailable(r) ==
    /\ Busy(r) /\ serial < MaxEntries
    /\ serial' = IF FailsOpen(Key(r)) THEN serial + 1 ELSE serial
    /\ AfterError(r)
    /\ UNCHANGED <<clock, zset, expires, admitted, advice>>

\* ... or it has admitted the request and the answer is lost.
AnswerLost(r) ==
    /\ Busy(r) /\ Admit(Key(r)) /\ AfterError(r)
    /\ UNCHANGED clock

\* Redis drops the keys whose time has come.
Tick ==
    /\ clock < MaxTime /\ clock' = clock + 1
    /\ zset' = {e \in zset : clock' < expires[e.key]}
    /\ UNCHANGED <<serial, expires, req, admitted, passed, advice>>

Next ==
    \/ Tick
    \/ \E r \in Requests :
        \/ \E c \in Clients, a \in Accounts \cup {None} : Identify(r, c, a)
        \/ \E u \in Profiles : ChangeProfile(r, u)
        \/ Allowed(r) \/ Limited(r) \/ TooLarge(r) \/ Unavailable(r) \/ AnswerLost(r)

Spec == Init /\ [][Next]_vars

-----------------------------------------------------------------------------
(* Properties                                                              *)

Identity(k) == k[1] # "user"

\* The entries of key k among E in the window that ends with entry e.
InWindow(E, k, e) == {f \in E : f.key = k /\ e.at - Window < f.at /\ f.at <= e.at}

\* However requests interleave, and whenever the window starts, no window of a key holds
\* more admissions than its limit: trimming, counting and expiry forget nothing too soon.
WithinLimit ==
    \A e \in admitted : Cardinality(InWindow(admitted, e.key, e)) <= Limit(e.key)

\* "Redis failure is not permission to proceed": a handler of an identity operation runs
\* for a client and for an account no more often than their limits allow, whichever
\* scripts failed or lost their answer on the way.
FailClosed ==
    \A e \in passed : Identity(e.key) =>
        Cardinality(InWindow(passed, e.key, e)) <= Limit(e.key)

\* "the positive number of seconds until retry": a caller who comes back when it was told
\* to finds a place, unless another request has taken it.
AdviceHonest == \A k \in Keys : advice[k] # 0 /\ clock >= advice[k] => Admits(k)

\* The limits hold over every window, also when Redis fails, and refuse nobody longer
\* than they say.
LimitsKept == WithinLimit /\ FailClosed /\ AdviceHonest
=============================================================================
