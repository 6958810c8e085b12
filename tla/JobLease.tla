------------------------------ MODULE JobLease ------------------------------
(***************************************************************************)
(* JobService: durable background jobs with leases.                        *)
(*                                                                         *)
(* Any number of callers share the jobs table.  A caller claims a batch of *)
(* waiting jobs, extends its leases, and completes or retries each job     *)
(* with the token it was given; it may also vanish.  Each operation is one *)
(* statement or one locked read and write of a READ COMMITTED transaction, *)
(* hence one action.                                                       *)
(*                                                                         *)
(* Times are kept relative to the present: a lease of 2 expires in two     *)
(* units, a lease of 0 or less has expired.  An operation reads the clock  *)
(* of its process before its statement runs, so it may be up to Stale      *)
(* units late; what lies further back than Stale is the same to every      *)
(* reader, and the clock needs no bound.                                   *)
(***************************************************************************)
EXTENDS Integers, FiniteSets

CONSTANTS
    Jobs,           \* idempotency keys
    MaxAttempts,    \* largest max_attempts of a job
    Lease,          \* the lease a claim asks for
    Expiries,       \* leases heartbeats ask for, from the moment they ask
    Beats,          \* bound: heartbeats of one claim
    Limit,          \* batch limit of claim and recover_expired
    MaxRetryDelay,  \* _MAX_RETRY_DELAY_SECONDS
    Jitters,        \* jitter_seconds of retries
    StartDelays,    \* how far ahead enqueue sets available_at
    Stale,          \* age of the clock reading an operation works with
    Shorten         \* may a heartbeat ask for less than the lease it has?

VARIABLES
    jobs,           \* the jobs table
    claims          \* claims whose holder is still at work

vars == <<jobs, claims>>

ASSUME JobAssumption ==
    /\ {MaxAttempts, Lease, Limit, MaxRetryDelay} \subseteq Nat \ {0}
    /\ {Beats, Stale} \subseteq Nat
    /\ Expiries \subseteq Nat \ {0} /\ Jitters \subseteq Nat /\ StartDelays \subseteq Nat
    /\ Shorten \in BOOLEAN

-----------------------------------------------------------------------------

Waiting == {"pending", "retrying"}
Ended   == {"succeeded", "failed", "cancelled"}
Status  == Waiting \cup Ended \cup {"running", "absent"}

NoToken == 0        \* lease_token NULL; lease_expires_at is then NULL too

\* finished: finished_at is set.  result: the attempt whose result is stored.
Job == [status : Status, attempts : Nat, max : 1 .. MaxAttempts, delay : Int,
        token : Nat, lease : Int, finished : BOOLEAN, result : Nat]

AbsentJob == [status |-> "absent", attempts |-> 0, max |-> 1, delay |-> 0,
              token |-> NoToken, lease |-> -Stale, finished |-> FALSE, result |-> 0]

\* A claim as its holder knows it.
Claimed == [job : Jobs, token : Nat \ {0}, until : Int, beats : 0 .. Beats]

Init == jobs = [j \in Jobs |-> AbsentJob] /\ claims = {}

Update(j, r) == jobs' = [jobs EXCEPT ![j] = r]

\* Mutation of ClearLease: the token stays behind.
KeepToken(r) == [r EXCEPT !.lease = -Stale]

ClearLease(r) == [r EXCEPT !.token = NoToken, !.lease = -Stale]

\* Mutation of Exhausted: one attempt too many.
ExhaustedLate(r) == r.attempts > r.max

Exhausted(r) == r.attempts >= r.max

-----------------------------------------------------------------------------

\* A second job with the key of an existing one violates a unique constraint.
Enqueue(j) ==
    /\ jobs[j].status = "absent"
    /\ \E m \in 1 .. MaxAttempts, d \in StartDelays :
          Update(j, [AbsentJob EXCEPT !.status = "pending", !.max = m, !.delay = d])
    /\ UNCHANGED claims

Due(s) == {j \in Jobs : /\ jobs[j].status \in Waiting
                        /\ jobs[j].delay <= -s
                        /\ jobs[j].attempts < jobs[j].max}

\* The fresh uuid4 token is represented by the attempt number.
ClaimedJob(r, s) ==
    [r EXCEPT !.status = "running", !.attempts = @ + 1, !.token = r.attempts + 1,
              !.lease = Lease - s, !.finished = FALSE]

\* Rows locked by others are skipped, and among due jobs the order is left open.
Claim ==
    \E s \in 0 .. Stale : \E S \in SUBSET Due(s) :
        /\ S # {} /\ Cardinality(S) <= Limit
        /\ jobs' = [j \in Jobs |-> IF j \in S THEN ClaimedJob(jobs[j], s) ELSE jobs[j]]
        /\ claims' = claims \cup
             {[job |-> j, token |-> jobs[j].attempts + 1, until |-> Lease - s,
               beats |-> Beats] : j \in S}

\* Mutation of Owned: the token is not compared.
OwnedByAnyone(c, s) == jobs[c.job].status = "running" /\ jobs[c.job].lease > -s

\* The condition of heartbeat, complete and retry, on a clock read s units ago.
Owned(c, s) ==
    /\ jobs[c.job].status = "running"
    /\ jobs[c.job].token = c.token
    /\ jobs[c.job].lease > -s

\* The holder learns the new expiry, or the reply is lost and it keeps the old one.
Heartbeat(c) ==
    /\ c.beats > 0
    /\ \E s \in 0 .. Stale, e \in Expiries :
         /\ Owned(c, s)
         /\ Shorten \/ e - s >= jobs[c.job].lease
         /\ Update(c.job, [jobs[c.job] EXCEPT !.lease = e - s])
         /\ \E until \in {e - s, c.until} :
               claims' = (claims \ {c}) \cup
                           {[c EXCEPT !.until = until, !.beats = @ - 1]}

CompletedJob(r, token) ==
    ClearLease([r EXCEPT !.status = "succeeded", !.result = token, !.finished = TRUE])

Complete(c) ==
    /\ \E s \in 0 .. Stale : Owned(c, s)
    /\ Update(c.job, CompletedJob(jobs[c.job], c.token))
    /\ claims' = claims \ {c}

Backoff(attempts) == IF 2 ^ attempts <= MaxRetryDelay THEN 2 ^ attempts ELSE MaxRetryDelay

RetriedJob(r, d) ==
    ClearLease(IF Exhausted(r)
               THEN [r EXCEPT !.status = "failed", !.finished = TRUE]
               ELSE [r EXCEPT !.status = "retrying", !.finished = FALSE, !.delay = d])

Retry(c) ==
    /\ \E s \in 0 .. Stale, jitter \in Jitters :
         /\ Owned(c, s)
         /\ Update(c.job, RetriedJob(jobs[c.job],
                                     Backoff(jobs[c.job].attempts) + jitter - s))
    /\ claims' = claims \ {c}

\* Mutation of Cancellable: whatever is not running can be cancelled.
NotRunning(r) == r.status \notin {"running", "absent"}

Cancellable(r) == r.status \in Waiting

Cancel(j) ==
    /\ Cancellable(jobs[j])
    /\ Update(j, [jobs[j] EXCEPT !.status = "cancelled", !.finished = TRUE])
    /\ UNCHANGED claims

\* Mutation of LeaseOver: every running job counts as abandoned.
AnyRunning(r, s) == r.status = "running"

LeaseOver(r, s) == r.status = "running" /\ r.lease <= -s

RecoveredJob(r, s) ==
    ClearLease([r EXCEPT !.status = IF Exhausted(r) THEN "failed" ELSE "retrying",
                         !.finished = Exhausted(r), !.delay = -s])

Recover ==
    \E s \in 0 .. Stale : \E S \in SUBSET {j \in Jobs : LeaseOver(jobs[j], s)} :
        /\ S # {} /\ Cardinality(S) <= Limit
        /\ jobs' = [j \in Jobs |-> IF j \in S THEN RecoveredJob(jobs[j], s) ELSE jobs[j]]
        /\ UNCHANGED claims

\* A holder crashes, gives up, or is refused a call.
Abandon(c) == claims' = claims \ {c} /\ UNCHANGED jobs

Sooner(t) == IF t > -Stale THEN t - 1 ELSE t

Tick ==
    /\ jobs' = [j \in Jobs |-> [jobs[j] EXCEPT !.delay = Sooner(@), !.lease = Sooner(@)]]
    /\ claims' = {[c EXCEPT !.until = Sooner(@)] : c \in claims}

Next ==
    \/ Claim \/ Recover \/ Tick
    \/ \E j \in Jobs : Enqueue(j) \/ Cancel(j)
    \/ \E c \in claims : Heartbeat(c) \/ Complete(c) \/ Retry(c) \/ Abandon(c)

Spec == Init /\ [][Next]_vars

\* Somebody keeps polling for due jobs and for expired leases, and time passes.
FairSpec == Spec /\ WF_vars(Claim) /\ WF_vars(Recover) /\ WF_vars(Tick)

-----------------------------------------------------------------------------
(* Properties                                                              *)

\* Columns hold values of their domains, attempts stay within max_attempts, a lease
\* exists exactly while a job runs, and finished_at exactly once it has ended.
TypeOK ==
    /\ jobs \in [Jobs -> Job] /\ claims \subseteq Claimed
    /\ \A j \in Jobs : /\ jobs[j].attempts <= jobs[j].max
                       /\ jobs[j].status = "running" <=> jobs[j].token # NoToken
                       /\ jobs[j].status \in Ended <=> jobs[j].finished

\* A holder that stops when its lease, as it knows it, runs out never works beside
\* another one: recovery hands a job on only after its holder must have stopped.
OneHolder ==
    \A c, d \in claims : c.job = d.job /\ c.until > 0 /\ d.until > 0 => c = d

\* A stored result is the result of the last attempt: one that was recovered and run
\* again can no longer be completed by its former holder.
ResultOfLastAttempt ==
    \A j \in Jobs : jobs[j].status = "succeeded" => jobs[j].result = jobs[j].attempts

\* A waiting job can still be claimed: neither retry nor recovery leaves one behind
\* that has no attempt left.
NotStranded ==
    \A j \in Jobs : jobs[j].status \in Waiting => jobs[j].attempts < jobs[j].max

\* Succeeded, failed and cancelled jobs never change again, whatever late holders,
\* cancellations and recoveries still arrive.
EndedForGood ==
    [][\A j \in Jobs : jobs[j].status \in Ended =>
          /\ jobs'[j].status = jobs[j].status
          /\ jobs'[j].result = jobs[j].result]_vars

\* Every enqueued job ends, whatever its holders do, as long as due jobs are claimed
\* and expired leases are recovered.
EventuallyEnded == <>[](\A j \in Jobs : jobs[j].status \in Ended \cup {"absent"})

\* The docstring of heartbeat, "Extend a live lease only for the worker holding its
\* token": a heartbeat never brings the expiry of a running attempt forward.
HeartbeatExtends ==
    [][\A j \in Jobs :
          (jobs[j].status = "running" /\ jobs'[j].status = "running"
             /\ jobs'[j].token = jobs[j].token)
          => jobs'[j].lease >= Sooner(jobs[j].lease)]_vars

-----------------------------------------------------------------------------
(* The inductive invariant                                                 *)

\* A running job carries the token of its last attempt, a new one had none.
TokenInv ==
    \A j \in Jobs : /\ jobs[j].status = "running" => jobs[j].token = jobs[j].attempts
                    /\ jobs[j].status = "absent" => jobs[j].attempts = 0

\* Claims carry distinct tokens of past attempts.
ClaimInv ==
    \A c \in claims :
        /\ c.token <= jobs[c.job].attempts
        /\ \A d \in claims : c.job = d.job /\ c.token = d.token => c = d

\* A holder with time left holds the running attempt, no longer than the row says.
HolderInv ==
    \A c \in claims : c.until > 0 =>
        /\ jobs[c.job].status = "running" /\ jobs[c.job].token = c.token
        /\ c.until <= jobs[c.job].lease

IInv == /\ TypeOK /\ NotStranded /\ ResultOfLastAttempt /\ TokenInv /\ ClaimInv
        /\ (~Shorten => HolderInv)
=============================================================================
