------------------------------- MODULE Outbox -------------------------------
(***************************************************************************)
(* OutboxRepository: the ordinary outbox, and InternalOutboxWorker.        *)
(*                                                                         *)
(* A publisher claims a batch in one transaction, delivers each message    *)
(* with no transaction open and marks it in another one; a claim has no    *)
(* token, so a mark acts on whatever claim the row has by then.  An        *)
(* InternalOutboxWorker claims, handles and marks one message in a single  *)
(* transaction, with the handler in a savepoint: the row stays locked, and *)
(* a crash leaves no trace, not even of the attempt.                       *)
(*                                                                         *)
(* Times are relative to the present: delay is the time until              *)
(* available_at, age the time since claimed_at, both capped where no       *)
(* statement can tell the difference any more.  Rows of the type           *)
(* email_challenge_requested, which every claim excludes, are left out     *)
(* (they belong to LeasedOutbox), and claim_token is NULL in the others.   *)
(***************************************************************************)
EXTENDS Integers, FiniteSets

CONSTANTS
    Msgs,           \* events of ordinary types
    Earlier,        \* Earlier[m]: events of m's aggregate with a lower version
    Internal,       \* events of the types that internal workers handle
    Workers,        \* internal workers
    MaxAttempts,    \* max_attempts
    Limit,          \* batch limit of claim_batch and recover_stale_claims
    StaleAge,       \* age from which recover_stale_claims takes a claim for stale
    Delays,         \* retry delays that mark_failed is called with
    MaxCrashes,     \* bound: crashes of internal workers
    None            \* no message

ASSUME OutboxAssumption ==
    /\ {MaxAttempts, Limit, StaleAge} \subseteq Nat \ {0} /\ MaxCrashes \in Nat
    /\ Delays \subseteq Nat /\ Internal \subseteq Msgs /\ None \notin Msgs
    /\ Earlier \in [Msgs -> SUBSET Msgs]
    /\ \A m \in Msgs : m \notin Earlier[m] /\ \A e \in Earlier[m] : Earlier[e] \subseteq Earlier[m]

VARIABLES
    rows,       \* outbox_messages
    claims,     \* claims whose publisher is still at work
    txn,        \* txn[w]: the row that the open transaction of internal worker w locks
    crashes,    \* crashes of internal workers so far
    delivered,  \* history: messages that a publisher has handed over
    applied     \* history: committed runs of the internal handler, per message

vars == <<rows, claims, txn, crashes, delivered, applied>>

Ready  == {"pending", "failed"}
Status == Ready \cup {"absent", "processing", "published"}

Row == [status : Status, attempts : 0 .. MaxAttempts, delay : Nat, age : 0 .. StaleAge]

AbsentRow == [status |-> "absent", attempts |-> 0, delay |-> 0, age |-> 0]

Claimed == [msg : Msgs, attempt : 1 .. MaxAttempts, done : {"no", "delivered", "failed"}]

Init ==
    /\ rows = [m \in Msgs |-> AbsentRow]
    /\ claims = {} /\ delivered = {} /\ crashes = 0
    /\ txn = [w \in Workers |-> None]
    /\ applied = [m \in Msgs |-> 0]

Locked == {txn[w] : w \in Workers} \ {None}

\* add, committed with the change it announces.  The versions of one aggregate are
\* written in order, under the lock of the aggregate.
Add(m) ==
    /\ rows[m].status = "absent"
    /\ \A e \in Earlier[m] : rows[e].status # "absent"
    /\ \E d \in Delays \cup {0} :
          rows' = [rows EXCEPT ![m] = [@ EXCEPT !.status = "pending", !.delay = d]]
    /\ UNCHANGED <<claims, txn, crashes, delivered, applied>>

\* Mutation of Unblocked: an earlier version in processing counts as done.
UnblockedByClaim(m) == \A e \in Earlier[m] : rows[e].status \notin Ready

Unblocked(m) == \A e \in Earlier[m] : rows[e].status = "published"

\* Mutation of Claimable: the attempts are not bounded.
ClaimableForever(m) ==
    rows[m].status \in Ready /\ rows[m].delay = 0 /\ Unblocked(m) /\ m \notin Locked

Claimable(m) ==
    /\ rows[m].status \in Ready /\ rows[m].attempts < MaxAttempts /\ rows[m].delay = 0
    /\ Unblocked(m)
    /\ m \notin Locked          \* SKIP LOCKED

ClaimedRow(r) == [r EXCEPT !.status = "processing", !.attempts = @ + 1, !.age = 0]

PublishedRow(r) == [r EXCEPT !.status = "published", !.age = 0]

FailedRow(r, d) == [r EXCEPT !.status = "failed", !.age = 0, !.delay = d]

\* claim_batch of a publisher; which of the claimable rows others have locked at that
\* moment is left open.
ClaimBatch ==
    \E S \in SUBSET {m \in Msgs : Claimable(m)} :
        /\ S # {} /\ Cardinality(S) <= Limit
        /\ rows' = [m \in Msgs |-> IF m \in S THEN ClaimedRow(rows[m]) ELSE rows[m]]
        /\ claims' = claims \cup
             {[msg |-> m, attempt |-> rows[m].attempts + 1, done |-> "no"] : m \in S}
        /\ UNCHANGED <<txn, crashes, delivered, applied>>

\* A publisher finishes its delivery, with success or not, at any time.
Deliver(c) ==
    /\ c.done = "no"
    /\ \/ /\ claims' = (claims \ {c}) \cup {[c EXCEPT !.done = "delivered"]}
          /\ delivered' = delivered \cup {c.msg}
       \/ /\ claims' = (claims \ {c}) \cup {[c EXCEPT !.done = "failed"]}
          /\ UNCHANGED delivered
    /\ UNCHANGED <<rows, txn, crashes, applied>>

\* Mutation of Markable: a row that is published already may be marked once more.
MarkableAgain(m) == rows[m].status \in {"processing", "published"}

\* The check that mark_published and mark_failed make of the row they have locked.
Markable(m) == rows[m].status = "processing"

MarkPublished(c) ==
    /\ c.done = "delivered" /\ c.msg \notin Locked
    /\ rows' = IF Markable(c.msg)
               THEN [rows EXCEPT ![c.msg] = PublishedRow(@)] ELSE rows
    /\ claims' = claims \ {c}
    /\ UNCHANGED <<txn, crashes, delivered, applied>>

MarkFailed(c) ==
    /\ c.done = "failed" /\ c.msg \notin Locked
    /\ \E d \in Delays :
          rows' = IF Markable(c.msg)
                  THEN [rows EXCEPT ![c.msg] = FailedRow(@, d)] ELSE rows
    /\ claims' = claims \ {c}
    /\ UNCHANGED <<txn, crashes, delivered, applied>>

\* A publisher vanishes with its claim.
Abandon(c) == claims' = claims \ {c} /\ UNCHANGED <<rows, txn, crashes, delivered, applied>>

\* Mutation of Stale: the claim of an exhausted message is left alone.
StaleAndRetryable(m) ==
    /\ rows[m].status = "processing" /\ rows[m].age >= StaleAge
    /\ rows[m].attempts < MaxAttempts

Stale(m) == rows[m].status = "processing" /\ rows[m].age >= StaleAge

RecoverStaleClaims ==
    \E S \in SUBSET {m \in Msgs : Stale(m) /\ m \notin Locked} :
        /\ S # {} /\ Cardinality(S) <= Limit
        /\ rows' = [m \in Msgs |-> IF m \in S THEN FailedRow(rows[m], 0) ELSE rows[m]]
        /\ UNCHANGED <<claims, txn, crashes, delivered, applied>>

-----------------------------------------------------------------------------
(* InternalOutboxWorker.process_one                                        *)

\* claim_batch(limit=1, event_types): the claim is not visible before the commit.
Begin(w) ==
    /\ txn[w] = None
    /\ \E m \in Internal : Claimable(m) /\ txn' = [txn EXCEPT ![w] = m]
    /\ UNCHANGED <<rows, claims, crashes, delivered, applied>>

\* Mutation of HandlerFailed: a failed handler is rolled back, its message published.
FailurePublished(r, d) == PublishedRow(ClaimedRow(r))

\* The handler raised: its savepoint is rolled back and the message marked failed.
HandlerFailed(r, d) == FailedRow(ClaimedRow(r), d)

HandlerDone(r) == PublishedRow(ClaimedRow(r))

Commit(w) ==
    /\ txn[w] # None
    /\ \/ /\ rows' = [rows EXCEPT ![txn[w]] = HandlerDone(@)]
          /\ applied' = [applied EXCEPT ![txn[w]] = @ + 1]
       \/ /\ \E d \in Delays : rows' = [rows EXCEPT ![txn[w]] = HandlerFailed(@, d)]
          /\ UNCHANGED applied
    /\ txn' = [txn EXCEPT ![w] = None]
    /\ UNCHANGED <<claims, crashes, delivered>>

\* The process dies or the commit fails: PostgreSQL rolls everything back.
Crash(w) ==
    /\ txn[w] # None /\ crashes < MaxCrashes
    /\ txn' = [txn EXCEPT ![w] = None]
    /\ crashes' = crashes + 1
    /\ UNCHANGED <<rows, claims, delivered, applied>>

-----------------------------------------------------------------------------

Tick ==
    /\ rows' = [m \in Msgs |->
          [rows[m] EXCEPT !.delay = IF @ > 0 THEN @ - 1 ELSE 0,
                          !.age = IF rows[m].status = "processing" /\ @ < StaleAge
                                  THEN @ + 1 ELSE @]]
    /\ UNCHANGED <<claims, txn, crashes, delivered, applied>>

Next ==
    \/ ClaimBatch \/ RecoverStaleClaims \/ Tick
    \/ \E m \in Msgs : Add(m)
    \/ \E c \in claims : Deliver(c) \/ MarkPublished(c) \/ MarkFailed(c) \/ Abandon(c)
    \/ \E w \in Workers : Begin(w) \/ Commit(w) \/ Crash(w)

Spec == Init /\ [][Next]_vars

\* Due messages are polled for, stale claims recovered, internal transactions end (the
\* database context of a worker is bounded), and time passes.
Fairness ==
    /\ WF_vars(ClaimBatch) /\ WF_vars(RecoverStaleClaims) /\ WF_vars(Tick)
    /\ \A w \in Workers : WF_vars(Begin(w)) /\ WF_vars(Commit(w))

-----------------------------------------------------------------------------
(* Properties                                                              *)

\* Columns hold values of their domains: no claim exceeds max_attempts.
TypeOK ==
    /\ rows \in [Msgs -> Row] /\ claims \subseteq Claimed
    /\ txn \in [Workers -> Msgs \cup {None}] /\ crashes \in 0 .. MaxCrashes
    /\ delivered \subseteq Msgs /\ applied \in [Msgs -> Nat]

Handled(m) == m \in delivered \/ applied[m] > 0

\* claim_batch, "aggregate-ordered delivery batch": whatever late holders mark, no
\* version reaches a consumer before every earlier version of its aggregate has.
AggregateOrder == \A m \in Msgs : Handled(m) => \A e \in Earlier[m] : Handled(e)

\* "database-only handlers atomically": the effect of an internal handler is committed at
\* most once, and never without its message being published; and although marks do not
\* say whose claim they end, a published message was handed over by a publisher or
\* handled in the transaction that published it.
HandledOnce ==
    \A m \in Msgs :
        /\ rows[m].status = "published" => Handled(m)
        /\ applied[m] <= 1 /\ (applied[m] = 1 => rows[m].status = "published")

GivenUp(m) == rows[m].status = "failed" /\ rows[m].attempts >= MaxAttempts

\* Every message is published in the end unless it, or an earlier version of its
\* aggregate, has used up its attempts: crashes and lost claims strand none.
EventuallySettled ==
    <>[](\A m \in Msgs : \/ rows[m].status \in {"absent", "published"}
                         \/ \E e \in Earlier[m] \cup {m} : GivenUp(e))
=============================================================================
