---------------------------- MODULE LeasedOutbox ----------------------------
(***************************************************************************)
(* Leased delivery of outbox messages to an external provider.             *)
(*                                                                         *)
(* A message is a row of outbox_messages.  A worker claims a row in one    *)
(* short transaction, prepares the delivery, binds its content to the row  *)
(* in a second transaction, submits one HTTP request per recipient with no *)
(* transaction open, and records the outcome in a third one.  Every        *)
(* transaction after the claim is fenced by the claim token and the lease. *)
(*                                                                         *)
(* Each transaction is one action: claim, bind and finish begin by locking *)
(* the WorkerControl row of the group, replay locks the message row.       *)
(* Between two actions a worker may crash and restart with another         *)
(* configuration, and, when Stalls is TRUE, be suspended for any time.     *)
(***************************************************************************)
EXTENDS Integers, FiniteSets

CONSTANTS
    Msgs,               \* outbox rows of the group's event types
    Earlier,            \* Earlier[m]: rows of m's aggregate with a lower version
    Undecodable,        \* rows from which to_event cannot rebuild an event
    Malformed,          \* rows whose event the handler's prepare rejects
    Requests,           \* request indexes of one submission, 0 .. n - 1
    Workers,            \* worker processes of the group
    Contents,           \* fingerprints that deployed configurations render
    NoContent,          \* no fingerprint (NULL), or a configuration without the key
    MaxAttempts,        \* settings.max_attempts
    DefaultBudget,      \* column default of retry_budget
    ReplayGrant,        \* attempts a replay adds
    MaxReplayAttempts,  \* MAX_REPLAY_ATTEMPTS
    LeaseSeconds, PrepareSeconds, SendSeconds, MaxAge,  \* worker settings
    RetryBase, RetryMax,                                \* worker settings
    DbSeconds,          \* bound on one database context of the worker process
    LockWait,           \* longest wait for the group's control row
    RetryAfterMax,      \* longest Retry-After the sender passes on
    SweepLimit,         \* rows one claim retires
    ChallengeSeconds,   \* life of the challenge a message announces
    KeyWindow,          \* how long the provider remembers an idempotency key
    Stalls,             \* may a process be suspended beyond its timeouts?
    EnqueueBy, MaxTime  \* bounds on the clock

VARIABLES
    now,        \* the database clock
    rows,       \* outbox_messages
    paused,     \* WorkerControl.paused
    worker,     \* local state of every worker process
    consumed,   \* consumed[m]: m's challenge was used or superseded
    provider    \* what the provider remembers and sent, per message and request

vars == <<now, rows, paused, worker, consumed, provider>>

None == -1      \* SQL NULL in a time or token column

MinOf(a, b) == IF a <= b THEN a ELSE b
MaxOf(a, b) == IF a >= b THEN a ELSE b

Ready    == {"pending", "failed"}
Done     == {"published", "skipped"}
Statuses == {"pending", "processing", "failed", "published", "skipped",
             "dead", "uncertain", "blocked"}
Kinds    == {"accepted", "skipped", "blocked", "permanent", "retry", "uncertain"}
Stages   == {"idle", "claimed", "prepared", "bound", "sending", "finalizing"}

ASSUME DurationAssumption ==
    /\ {MaxAttempts, DefaultBudget, ReplayGrant, MaxReplayAttempts, SweepLimit,
        LeaseSeconds, MaxAge, RetryBase, RetryMax, ChallengeSeconds, KeyWindow}
          \subseteq Nat \ {0}
    /\ {PrepareSeconds, SendSeconds, DbSeconds, LockWait, RetryAfterMax,
        EnqueueBy, MaxTime} \subseteq Nat
    /\ MaxAttempts <= MaxReplayAttempts /\ DefaultBudget <= MaxReplayAttempts
    /\ Stalls \in BOOLEAN

\* OutboxWorkerSettings.validate_retry_window: the margin of 30 seconds is one
\* 15-second database context for the claim and one for the bind.
ASSUME LeaseAssumption == LeaseSeconds > PrepareSeconds + SendSeconds + 2 * DbSeconds

\* lock_timeout is shorter than the database context it interrupts.
ASSUME LockAssumption == LockWait <= DbSeconds

\* The automatic delivery age stays below the life of a provider key (23 h of 24 h).
ASSUME WindowAssumption == MaxAge + SendSeconds <= KeyWindow

ASSUME MessageAssumption ==
    /\ Msgs # {} /\ Earlier \in [Msgs -> SUBSET Msgs]
    /\ Undecodable \subseteq Msgs /\ Malformed \subseteq Msgs
    /\ Requests \subseteq Nat
    /\ NoContent \notin Contents

-----------------------------------------------------------------------------
(* Rows and what the provider keeps                                        *)

Row == [status : Statuses \cup {"absent"}, occurred : Nat, available : Nat,
        attempts : Nat, budget : Nat \ {0}, token : Nat \cup {None},
        lease : Nat \cup {None}, deadline : Nat \cup {None},
        fp : Contents \cup {NoContent}, receipts : SUBSET Requests]

AbsentRow == [status |-> "absent", occurred |-> 0, available |-> 0,
              attempts |-> 0, budget |-> DefaultBudget, token |-> None,
              lease |-> None, deadline |-> None, fp |-> NoContent, receipts |-> {}]

\* A worker's locals: its claim (message, token, deadline, receipts), the prepared
\* fingerprint, the outcome to record, the start of its bounded stage, its settings.
Worker == [pc : Stages, msg : Msgs, token : Nat \cup {None}, deadline : Nat,
           receipts : SUBSET Requests, fp : Contents \cup {NoContent},
           kind : Kinds, retryAfter : Nat, since : Nat, cfg : Contents \cup {NoContent}]

Idle(c) == [pc |-> "idle", msg |-> CHOOSE m \in Msgs : TRUE, token |-> None,
            deadline |-> 0, receipts |-> {}, fp |-> NoContent, kind |-> "retry",
            retryAfter |-> 0, since |-> 0, cfg |-> c]

\* One idempotency key at the provider: content and time of the last submission it
\* accepted under the key, and how many emails it sent for it.
Key == [fp : Contents \cup {NoContent}, at : Nat, sent : Nat]
FreshKey == [fp |-> NoContent, at |-> 0, sent |-> 0]

Init ==
    /\ now = 0
    /\ rows = [m \in Msgs |-> AbsentRow]
    /\ paused = FALSE
    /\ worker \in [Workers -> {Idle(c) : c \in Contents \cup {NoContent}}]
    /\ consumed = [m \in Msgs |-> FALSE]
    /\ provider = [m \in Msgs |-> [i \in Requests |-> FreshKey]]

\* Stage clocks matter only to processes that keep their timeouts.
Stamp(t) == IF Stalls THEN 0 ELSE t

\* Mutation of ClearLease: the expiry of a released lease is left behind.
ClearTokenOnly(r) == [r EXCEPT !.token = None]

ClearLease(r) == [r EXCEPT !.token = None, !.lease = None]

\* A row given up on is "uncertain" once content was bound to it: it may have been sent.
GiveUp(r, untouched) ==
    [r EXCEPT !.status = IF r.fp # NoContent THEN "uncertain" ELSE untouched]

ExpiresAt(r) == r.occurred + ChallengeSeconds

-----------------------------------------------------------------------------
(* The producer: issue_challenge stages a row; the challenge it announces  *)
(* is later used, or deleted when a new one supersedes it.                 *)

Enqueue(m) ==
    /\ rows[m].status = "absent" /\ now <= EnqueueBy
    /\ \A e \in Earlier[m] : rows[e].status # "absent"
    /\ rows' = [rows EXCEPT ![m] = [AbsentRow EXCEPT !.status = "pending",
                                                     !.occurred = now, !.available = now]]
    /\ UNCHANGED <<now, paused, worker, consumed, provider>>

Consume(m) ==
    /\ rows[m].status # "absent" /\ ~consumed[m]
    /\ consumed' = [consumed EXCEPT ![m] = TRUE]
    /\ UNCHANGED <<now, rows, paused, worker, provider>>

-----------------------------------------------------------------------------
(* LeasedOutboxRepository.claim                                            *)

\* Mutation of LeaseExpired: a claim takes over rows whose lease is still running.
LeaseIgnored(r, t) == r.status = "processing"

LeaseExpired(r, t) == r.status = "processing" /\ r.lease <= t

\* Mutation of Expired: the sweep forgets attempts that died while processing.
ExpiredWhileReady(t) ==
    {m \in Msgs : /\ rows[m].status \in Ready
                  /\ \/ rows[m].attempts >= rows[m].budget
                     \/ rows[m].deadline # None /\ rows[m].deadline <= t}

\* Rows the sweep at the start of a claim must retire.
Expired(t) ==
    {m \in Msgs : /\ LeaseExpired(rows[m], t) \/ rows[m].status \in Ready
                  /\ \/ rows[m].attempts >= rows[m].budget
                     \/ rows[m].deadline # None /\ rows[m].deadline <= t}

SweepSets(t) ==
    {S \in SUBSET Expired(t) :
        Cardinality(S) = MinOf(SweepLimit, Cardinality(Expired(t)))}

Swept(S) == [m \in Msgs |-> IF m \in S THEN ClearLease(GiveUp(rows[m], "dead"))
                                       ELSE rows[m]]

\* Mutation of Unblocked: any earlier row that left the queue unblocks the next one.
UnblockedByAnyEnd(rs, m) ==
    \A e \in Earlier[m] : rs[e].status \notin {"pending", "processing", "failed"}

Unblocked(rs, m) == \A e \in Earlier[m] : rs[e].status \in Done

Claimable(rs, t) ==
    {m \in Msgs : /\ \/ rs[m].status \in Ready /\ rs[m].available <= t
                     \/ LeaseExpired(rs[m], t)
                  /\ rs[m].attempts < rs[m].budget
                  /\ Unblocked(rs, m)}

\* ORDER BY available_at, id LIMIT 1, with an arbitrary order on ids.
FirstOf(rs, C) == {m \in C : \A o \in C : rs[m].available <= rs[o].available}

\* Mutation of ClaimDeadline: every claim opens a new delivery window.
ClaimDeadlineRestarted(r, t) == t + MaxAge

ClaimDeadline(r, t) ==
    MinOf(IF r.deadline = None THEN t + MaxAge ELSE r.deadline, r.occurred + MaxAge)

TooOld(r, d) == [GiveUp(r, "dead") EXCEPT !.deadline = d]

\* Mutation of LeaseEnd: the lease covers the submission but not the work before it.
LeaseOfSubmission(t) == t + SendSeconds

LeaseEnd(t) == t + LeaseSeconds

\* The fresh uuid4 token is represented by the attempt number: each claim of a row
\* increments attempts, so no two claims of one row share it.
ClaimedRow(r, t, d) ==
    [r EXCEPT !.status = "processing", !.deadline = d, !.lease = LeaseEnd(t),
              !.budget = IF r.attempts = 0 THEN MaxAttempts ELSE @,
              !.attempts = @ + 1, !.token = r.attempts + 1]

\* claim reads the clock before it waits for the control row.
ClockReads == {t \in 0 .. now : now - t <= LockWait}

\* The claim's last statements, for row m picked from the swept rows rs.
ClaimRow(w, m, rs, t) ==
    LET d == ClaimDeadline(rs[m], t) IN
    \/ /\ d <= t
       /\ rows' = [rs EXCEPT ![m] = TooOld(rs[m], d)]
       /\ UNCHANGED worker
    \/ /\ d > t
       /\ rows' = [rs EXCEPT ![m] = ClaimedRow(rs[m], t, d)]
       /\ worker' = [worker EXCEPT ![w] =
              [@ EXCEPT !.pc = "claimed", !.msg = m,
                        !.token = rs[m].attempts + 1, !.deadline = d,
                        !.receipts = rs[m].receipts, !.since = Stamp(t)]]

ClaimAt(w, t) ==
    \E S \in SweepSets(t) :
        LET rs == Swept(S)
            C  == Claimable(rs, t)
        IN  \/ C = {} /\ rows' = rs /\ UNCHANGED worker
            \/ \E m \in FirstOf(rs, C) : ClaimRow(w, m, rs, t)

Claim(w) ==
    /\ worker[w].pc = "idle" /\ ~paused
    /\ \E t \in ClockReads : ClaimAt(w, t)
    /\ UNCHANGED <<now, paused, consumed, provider>>

-----------------------------------------------------------------------------
(* LeasedOutboxWorker.process_one after the claim; AuthChallengeEmailHandler *)

\* The worker leaves for _finalize with outcome kind k and receipts R.
Conclude(w, k, after, R) ==
    worker' = [worker EXCEPT ![w] = [@ EXCEPT !.pc = "finalizing", !.kind = k,
                                              !.retryAfter = after, !.receipts = R]]

Release(w) == worker' = [worker EXCEPT ![w] = Idle(worker[w].cfg)]

Usable(m) == m \notin Undecodable \cup Malformed

\* The challenge of m may still be announced: it exists, unused and unexpired.
Announceable(m) == ~consumed[m] /\ ExpiresAt(rows[m]) > now

\* An unusable event, a spent challenge or a missing key ends the attempt.
PrepareRefused(w) ==
    LET k == worker[w] IN
    /\ k.pc = "claimed"
    /\ \/ ~Usable(k.msg) /\ Conclude(w, "permanent", 0, {})
       \/ Usable(k.msg) /\ ~Announceable(k.msg) /\ Conclude(w, "skipped", 0, {})
       \/ /\ Usable(k.msg) /\ Announceable(k.msg) /\ k.cfg = NoContent
          /\ Conclude(w, "blocked", 0, {})
    /\ UNCHANGED <<now, rows, paused, consumed, provider>>

PrepareTimeout(w) ==
    /\ worker[w].pc = "claimed" /\ worker[w].msg \notin Undecodable
    /\ Conclude(w, "retry", 0, {})
    /\ UNCHANGED <<now, rows, paused, consumed, provider>>

Prepared(w) ==
    LET k == worker[w] IN
    /\ k.pc = "claimed" /\ Usable(k.msg) /\ Announceable(k.msg) /\ k.cfg # NoContent
    /\ worker' = [worker EXCEPT ![w] = [@ EXCEPT !.pc = "prepared", !.fp = k.cfg,
                                                 !.since = Stamp(now)]]
    /\ UNCHANGED <<now, rows, paused, consumed, provider>>

\* Mutation of Owned: the row is looked up by its id alone.
OwnedById(k) == rows[k.msg].status # "absent"

\* LeasedOutboxRepository.owned: the fence of every transaction after the claim.
Owned(k) ==
    /\ rows[k.msg].token = k.token
    /\ rows[k.msg].status = "processing"
    /\ rows[k.msg].lease > now

\* Mutation of ContentChanged: a bind overwrites the fingerprint it finds.
ContentOverwritten(r, f) == FALSE

ContentChanged(r, f) == r.fp # NoContent /\ r.fp # f

BindDeadline(k) == MinOf(k.deadline, ExpiresAt(rows[k.msg]))

BindLost(w) ==
    /\ worker[w].pc = "prepared" /\ ~Owned(worker[w])
    /\ Release(w)
    /\ UNCHANGED <<now, rows, paused, consumed, provider>>

BindChanged(w) ==
    LET k == worker[w] IN
    /\ k.pc = "prepared" /\ Owned(k) /\ ContentChanged(rows[k.msg], k.fp)
    /\ rows' = [rows EXCEPT ![k.msg] = ClearLease([@ EXCEPT !.status = "blocked"])]
    /\ paused' = TRUE
    /\ Release(w)
    /\ UNCHANGED <<now, consumed, provider>>

BindExpired(w) ==
    LET k == worker[w] IN
    /\ k.pc = "prepared" /\ Owned(k) /\ ~ContentChanged(rows[k.msg], k.fp)
    /\ BindDeadline(k) <= now
    /\ rows' = [rows EXCEPT ![k.msg] =
                  ClearLease([GiveUp(@, "skipped") EXCEPT !.deadline = BindDeadline(k)])]
    /\ Release(w)
    /\ UNCHANGED <<now, paused, consumed, provider>>

BindAllowed(w) ==
    LET k == worker[w] IN
    /\ k.pc = "prepared" /\ Owned(k) /\ ~ContentChanged(rows[k.msg], k.fp)
    /\ BindDeadline(k) > now
    /\ rows' = [rows EXCEPT ![k.msg] = [@ EXCEPT !.fp = k.fp, !.deadline = BindDeadline(k)]]
    /\ worker' = [worker EXCEPT ![w].pc = "bound"]
    /\ UNCHANGED <<now, paused, consumed, provider>>

\* The last look at the clock before the provider call; it opens no transaction.
NoLongerEligible(w) ==
    /\ worker[w].pc = "bound" /\ now >= BindDeadline(worker[w])
    /\ Conclude(w, "skipped", 0, {})
    /\ UNCHANGED <<now, rows, paused, consumed, provider>>

StartSending(w) ==
    /\ worker[w].pc = "bound" /\ now < BindDeadline(worker[w])
    /\ worker' = [worker EXCEPT ![w] = [@ EXCEPT !.pc = "sending", !.since = Stamp(now)]]
    /\ UNCHANGED <<now, rows, paused, consumed, provider>>

-----------------------------------------------------------------------------
(* ResendEmailSender.send, and the provider as that code relies on it      *)

Remembered(key) == key.sent > 0 /\ now - key.at < KeyWindow

\* The provider takes a request: a remembered key with the same content is answered
\* again without a second email.
Submit(m, i, f) ==
    provider' = [provider EXCEPT ![m][i] =
                    IF Remembered(@) THEN @
                    ELSE [fp |-> f, at |-> now, sent |-> @.sent + 1]]

\* The request in turn: the lowest index without a receipt.
InTurn(k, i) == i \in Requests \ k.receipts /\ \A j \in Requests \ k.receipts : i <= j

Conflicts(k, i) == Remembered(provider[k.msg][i]) /\ provider[k.msg][i].fp # k.fp

SendAccepted(w) ==
    LET k == worker[w] IN
    /\ k.pc = "sending"
    /\ \E i \in Requests :
         /\ InTurn(k, i) /\ ~Conflicts(k, i)
         /\ Submit(k.msg, i, k.fp)
         /\ worker' = [worker EXCEPT ![w].receipts = @ \cup {i}]
    /\ UNCHANGED <<now, rows, paused, consumed>>

\* Answers that say the request was not taken, and connections never made.
SendRefused(w) ==
    LET k == worker[w] IN
    /\ k.pc = "sending"
    /\ \E i \in Requests :
         /\ InTurn(k, i)
         /\ \/ Conclude(w, "blocked", 0, k.receipts)
            \/ ~Conflicts(k, i) /\ Conclude(w, "permanent", 0, k.receipts)
            \/ \E after \in {0, RetryAfterMax} : Conclude(w, "retry", after, k.receipts)
    /\ UNCHANGED <<now, rows, paused, consumed, provider>>

\* Mutation of SendUnknown: the receipt is noted before the answer is understood.
SendUnknownNoted(w) ==
    LET k == worker[w] IN
    /\ k.pc = "sending"
    /\ \E i \in Requests :
         /\ InTurn(k, i)
         /\ (~Conflicts(k, i) /\ Submit(k.msg, i, k.fp)) \/ UNCHANGED provider
         /\ Conclude(w, "uncertain", 0, k.receipts \cup {i})
    /\ UNCHANGED <<now, rows, paused, consumed>>

\* Server errors, broken reads and unreadable answers: the request may have been taken.
SendUnknown(w) ==
    LET k == worker[w] IN
    /\ k.pc = "sending"
    /\ \E i \in Requests :
         /\ InTurn(k, i)
         /\ (~Conflicts(k, i) /\ Submit(k.msg, i, k.fp)) \/ UNCHANGED provider
    /\ Conclude(w, "uncertain", 0, k.receipts)
    /\ UNCHANGED <<now, rows, paused, consumed>>

\* submission_timeout and handler_failure drop the receipts collected so far.
SendAborted(w) ==
    LET k == worker[w] IN
    /\ k.pc = "sending"
    /\ \E i \in Requests :
         /\ InTurn(k, i)
         /\ (~Conflicts(k, i) /\ Submit(k.msg, i, k.fp)) \/ UNCHANGED provider
    /\ \E kind \in {"uncertain", "blocked"} : Conclude(w, kind, 0, {})
    /\ UNCHANGED <<now, rows, paused, consumed>>

SendDone(w) ==
    /\ worker[w].pc = "sending" /\ worker[w].receipts = Requests
    /\ Conclude(w, "accepted", 0, Requests)
    /\ UNCHANGED <<now, rows, paused, consumed, provider>>

-----------------------------------------------------------------------------
(* LeasedOutboxWorker._finalize, LeasedOutboxRepository.finish, retry.py   *)

\* Full jitter below a doubling ceiling, never under a second nor Retry-After.
NextDelay(attempt, after) ==
    LET ceiling == MinOf(RetryMax, RetryBase * 2 ^ MinOf(attempt - 1, 20))
    IN  {d \in 1 .. MaxOf(ceiling, after) : d >= after}

NextStatus(kind, attempt, max) ==
    CASE kind = "accepted"  -> "published"
      [] kind = "skipped"   -> "skipped"
      [] kind = "blocked"   -> "blocked"
      [] kind = "permanent" -> "dead"
      [] kind \in {"retry", "uncertain"} /\ attempt < max -> "failed"
      [] OTHER -> IF kind = "uncertain" THEN "uncertain" ELSE "dead"

\* Mutation of MergeReceipts: the outcome's receipts replace the recorded ones.
ReplaceReceipts(r, k) == k.receipts

MergeReceipts(r, k) == r.receipts \cup k.receipts

FinishedRow(r, k, delay) ==
    LET s == NextStatus(k.kind, r.attempts, r.budget)
        f == [r EXCEPT !.receipts = MergeReceipts(r, k), !.status = s,
                       !.available = now + delay]
    IN  ClearLease(IF s = "failed" /\ f.available >= r.deadline
                   THEN GiveUp(f, "dead") ELSE f)

FinishLost(w) ==
    /\ worker[w].pc = "finalizing" /\ ~Owned(worker[w])
    /\ Release(w)
    /\ UNCHANGED <<now, rows, paused, consumed, provider>>

FinishApplied(w) ==
    LET k == worker[w] IN
    /\ k.pc = "finalizing" /\ Owned(k)
    /\ \E delay \in NextDelay(k.token, k.retryAfter) :
         rows' = [rows EXCEPT ![k.msg] = FinishedRow(@, k, delay)]
    /\ paused' = (paused \/ k.kind = "blocked")
    /\ Release(w)
    /\ UNCHANGED <<now, consumed, provider>>

-----------------------------------------------------------------------------
(* Crash and restart, privileged operations, time                          *)

\* A killed or failed process is restarted by its supervisor, perhaps redeployed
\* with a configuration that renders other content.
Crash(w) ==
    /\ \E c \in Contents \cup {NoContent} : worker' = [worker EXCEPT ![w] = Idle(c)]
    /\ UNCHANGED <<now, rows, paused, consumed, provider>>

Replayable(m, c) ==
    /\ rows[m].status \in {"dead", "blocked"}
    /\ rows[m].deadline # None /\ rows[m].deadline > now
    /\ rows[m].attempts < MaxReplayAttempts
    /\ Usable(m) /\ Announceable(m)
    /\ ~ContentChanged(rows[m], c)

\* Mutation of ReplayedRow: the lifetime cap is not applied to the new budget.
ReplayedUncapped(r) ==
    ClearLease([r EXCEPT !.budget = r.attempts + ReplayGrant,
                         !.status = "pending", !.available = now])

ReplayedRow(r) ==
    ClearLease([r EXCEPT !.budget = MinOf(MaxReplayAttempts, r.attempts + ReplayGrant),
                         !.status = "pending", !.available = now])

Replay(m) ==
    /\ \E c \in Contents : Replayable(m, c)
    /\ rows' = [rows EXCEPT ![m] = ReplayedRow(@)]
    /\ UNCHANGED <<now, paused, worker, consumed, provider>>

Resume ==
    /\ paused
    /\ paused' = FALSE
    /\ UNCHANGED <<now, rows, worker, consumed, provider>>

\* Time a process may still spend in its stage: asyncio.timeout around prepare and
\* send, and around every database context.
StageLimit(k) ==
    CASE k.pc = "claimed" -> DbSeconds + PrepareSeconds
      [] k.pc \in {"prepared", "bound"} -> DbSeconds
      [] OTHER -> SendSeconds

Timely(k) ==
    k.pc \in {"claimed", "prepared", "bound", "sending"} => now < k.since + StageLimit(k)

Tick ==
    /\ now < MaxTime
    /\ Stalls \/ \A w \in Workers : Timely(worker[w])
    /\ now' = now + 1
    /\ UNCHANGED <<rows, paused, worker, consumed, provider>>

PrepareStep(w) == PrepareRefused(w) \/ PrepareTimeout(w) \/ Prepared(w)
BindStep(w)    == BindLost(w) \/ BindChanged(w) \/ BindExpired(w) \/ BindAllowed(w)
SendStep(w)    == \/ NoLongerEligible(w) \/ StartSending(w) \/ SendAccepted(w)
                  \/ SendRefused(w) \/ SendUnknown(w) \/ SendAborted(w) \/ SendDone(w)
FinishStep(w)  == FinishLost(w) \/ FinishApplied(w)
WorkStep(w)    == PrepareStep(w) \/ BindStep(w) \/ SendStep(w) \/ FinishStep(w)

Next ==
    \/ Tick \/ Resume
    \/ \E m \in Msgs : Enqueue(m) \/ Consume(m) \/ Replay(m)
    \/ \E w \in Workers : Claim(w) \/ WorkStep(w) \/ Crash(w)

Spec == Init /\ [][Next]_vars

\* The supervisor keeps workers polling, their awaits are bounded by timeouts, time
\* passes, and an operator answers the alert on a paused group.
Fairness ==
    /\ WF_vars(Tick) /\ WF_vars(Resume)
    /\ \A w \in Workers : WF_vars(Claim(w)) /\ WF_vars(WorkStep(w))

FairSpec == Spec /\ Fairness

-----------------------------------------------------------------------------
(* Properties                                                              *)

\* Every column and every worker local holds a value of its domain, and the rows meet
\* the table's constraint lease_pair_valid.
TypeOK ==
    /\ now \in Nat
    /\ rows \in [Msgs -> Row]
    /\ paused \in BOOLEAN
    /\ worker \in [Workers -> Worker]
    /\ consumed \in [Msgs -> BOOLEAN]
    /\ provider \in [Msgs -> [Requests -> Key]]
    /\ \A m \in Msgs : (rows[m].token = None) <=> (rows[m].lease = None)

\* The provider never sends a second email for one request: retries, reclaims after
\* a crash and replays all fall inside the life of the idempotency key.
SingleEmail == \A m \in Msgs, i \in Requests : provider[m][i].sent <= 1

\* While processes keep their timeouts the lease outlives the submission it guards:
\* no two workers submit one message at the same time.
ExclusiveSubmission ==
    \A v, w \in Workers :
        v # w /\ worker[v].pc = "sending" /\ worker[w].pc = "sending"
            => worker[v].msg # worker[w].msg

\* Content is bound before it is sent and never replaced: whatever a worker sends, or
\* the provider ever accepted, is the content whose fingerprint the row holds, across
\* stalls, redeployments with other content and replays.  In particular a row without
\* a fingerprint was never accepted, so retiring it as "dead" or "skipped" is safe.
BoundContent ==
    \A m \in Msgs :
        /\ \A w \in Workers : worker[w].pc = "sending" /\ worker[w].msg = m
                                => worker[w].fp = rows[m].fp
        /\ \A i \in Requests : provider[m][i].sent > 0 => provider[m][i].fp = rows[m].fp

\* Within an aggregate nothing is sent ahead of an earlier version: the worker that
\* submits m claimed it after every earlier row was published or skipped for good.
AggregateOrder ==
    \A w \in Workers : worker[w].pc = "sending" =>
        \A e \in Earlier[worker[w].msg] : rows[e].status \in Done

\* A published row holds a receipt for every request, and each receipt of a row or of
\* a worker stands for an email the provider really took.
PublishedMeansSent ==
    /\ \A m \in Msgs : rows[m].status = "published" => rows[m].receipts = Requests
    /\ \A m \in Msgs : \A i \in rows[m].receipts : provider[m][i].sent > 0
    /\ \A w \in Workers : worker[w].pc # "idle" =>
          \A i \in worker[w].receipts : provider[worker[w].msg][i].sent > 0

\* Attempts never pass the budget nor the lifetime cap, and a row that waits for an
\* attempt still has one: no row is stranded in "pending" or "failed".
BudgetRespected ==
    \A m \in Msgs : /\ rows[m].attempts <= rows[m].budget
                    /\ rows[m].budget <= MaxReplayAttempts
                    /\ rows[m].status \in Ready => rows[m].attempts < rows[m].budget

\* Published, skipped and uncertain are final: no late finish of a worker that lost
\* its lease, and no replay, takes a row out of them.
FinalStatus ==
    [][\A m \in Msgs : rows[m].status \in Done \cup {"uncertain"}
                           => rows'[m].status = rows[m].status]_vars

\* Neither a reclaim, a bind nor a replay moves a deadline into the future, and
\* receipts already recorded are never lost.
EvidenceKept ==
    [][\A m \in Msgs : /\ rows[m].receipts \subseteq rows'[m].receipts
                       /\ rows[m].deadline # None =>
                            /\ rows'[m].deadline # None
                            /\ rows'[m].deadline <= rows[m].deadline]_vars

\* A row is settled when no worker will touch it again without an operator: it left
\* the queue, or an earlier version of its aggregate ended badly and holds it back.
Settled(m) ==
    \/ rows[m].status \notin {"pending", "processing", "failed"}
    \/ \E e \in Earlier[m] : rows[e].status \in {"dead", "uncertain", "blocked"}

\* Whatever crashes, timeouts, pauses and refusals its attempts meet, every message is
\* settled in the end, and stays settled.
EventuallySettled == <>[](\A m \in Msgs : Settled(m))

\* The runbook on unknown outcomes, "Unknown outcome with an exhausted budget/deadline:
\* uncertain status": a row that ran out of attempts and is "dead", hence open to a
\* replay, has nothing unrecorded at the provider.
UnknownEndsUncertain ==
    \A m \in Msgs : rows[m].status = "dead" /\ rows[m].attempts >= rows[m].budget =>
        \A i \in Requests \ rows[m].receipts : provider[m][i].sent = 0

\* The runbook on spent challenges, "Expired/consumed/superseded auth challenge: no
\* further send is initiated": no worker starts to send for a consumed challenge.
NoSendOnceConsumed ==
    [][\A w \in Workers : worker[w].pc = "bound" /\ worker'[w].pc = "sending"
                              => ~consumed[worker[w].msg]]_vars

-----------------------------------------------------------------------------
(* The inductive invariant behind the safety properties                    *)

Busy(w)   == worker[w].pc # "idle"
Guarded   == {"claimed", "prepared", "bound", "sending"}
RowOf(w)  == rows[worker[w].msg]

\* Lease and token bookkeeping of a row.
RowInv ==
    \A m \in Msgs : LET r == rows[m] IN
        /\ r.status = "processing" => r.token # None /\ r.deadline # None
        /\ r.token # None => r.token <= r.attempts
        /\ r.deadline # None => r.deadline <= r.occurred + MaxAge
        /\ r.occurred <= now
        /\ r.status = "absent" => r.attempts = 0

\* A claim names an existing row, no two claims of a row carry one token, and the row
\* keeps the claim's deadline until the claim's own bind changes it.
ClaimInv ==
    \A w \in Workers : Busy(w) =>
        /\ worker[w].token # None
        /\ RowOf(w).status # "absent"
        /\ worker[w].token <= RowOf(w).attempts
        /\ worker[w].deadline <= RowOf(w).occurred + MaxAge
        /\ worker[w].pc \in {"claimed", "prepared"} /\ RowOf(w).status = "processing"
             /\ RowOf(w).token = worker[w].token => RowOf(w).deadline = worker[w].deadline
        /\ \A v \in Workers : v # w /\ Busy(v) /\ worker[v].msg = worker[w].msg
                                => worker[v].token # worker[w].token

\* Claims respect the order of their aggregate.
OrderInv ==
    \A w \in Workers : Busy(w) =>
        \A e \in Earlier[worker[w].msg] : rows[e].status \in Done

\* Content flows from the bind to the provider unchanged.
ContentInv ==
    /\ \A w \in Workers : worker[w].pc \in {"prepared", "bound", "sending"}
                               => worker[w].fp \in Contents
    /\ \A w \in Workers : worker[w].pc \in {"bound", "sending"}
                               => worker[w].fp = RowOf(w).fp
    /\ \A m \in Msgs, i \in Requests : provider[m][i].sent > 0 =>
          /\ rows[m].status # "absent"
          /\ rows[m].fp \in Contents /\ provider[m][i].fp = rows[m].fp
          /\ rows[m].occurred <= provider[m][i].at

\* Receipts stand for emails, and only complete submissions count as accepted.
ReceiptInv ==
    /\ PublishedMeansSent
    /\ \A w \in Workers : worker[w].pc = "finalizing" /\ worker[w].kind = "accepted"
                               => worker[w].receipts = Requests

\* Time the stages after pc may still take, the current one included.
TimeLeft(pc) ==
    CASE pc = "claimed" -> DbSeconds + PrepareSeconds + DbSeconds + SendSeconds
      [] pc \in {"prepared", "bound"} -> DbSeconds + SendSeconds
      [] OTHER -> SendSeconds

\* A process that keeps its timeouts owns its row until its submission has ended, and
\* submits before the deadline plus one submission time.
InTime(w) ==
    worker[w].pc \in Guarded =>
        /\ RowOf(w).token = worker[w].token /\ RowOf(w).status = "processing"
        /\ now <= worker[w].since + StageLimit(worker[w])
        /\ worker[w].since + TimeLeft(worker[w].pc) < RowOf(w).lease
        /\ worker[w].pc = "sending" => worker[w].since < worker[w].deadline

TimelyInv == ~Stalls => \A w \in Workers : InTime(w)

IInv == /\ TypeOK /\ RowInv /\ BudgetRespected /\ ClaimInv /\ OrderInv
        /\ ContentInv /\ ReceiptInv /\ TimelyInv

-----------------------------------------------------------------------------
(* What the rows mean to someone who sees only messages and emails.        *)

AbstractState(r) ==
    CASE r.status = "absent"    -> "new"
      [] r.status = "published" -> "sent"
      [] r.status = "skipped"   -> "skipped"
      [] r.status = "uncertain" -> "unknown"
      [] r.status \in {"dead", "blocked"} -> "parked"
      [] OTHER -> "open"

Promise == INSTANCE Delivery WITH
    state  <- [m \in Msgs |-> AbstractState(rows[m])],
    emails <- [m \in Msgs |-> [i \in Requests |-> provider[m][i].sent]]

\* While processes keep their timeouts, leased delivery implements Delivery: one email
\* per request, only while its message is open and in aggregate order, and "published"
\* only for complete messages.
RefinesDelivery == Promise!Spec
=============================================================================
