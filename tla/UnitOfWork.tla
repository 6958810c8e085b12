----------------------------- MODULE UnitOfWork -----------------------------
(***************************************************************************)
(* SqlAlchemyUnitOfWork: one session, one transaction after another, and   *)
(* callbacks that run after a commit.                                      *)
(*                                                                         *)
(* A service writes, queues a callback that announces the write, and       *)
(* commits; commit, rollback and each callback may fail, and a commit that *)
(* fails may still have reached the disk.  Callbacks run inside commit and *)
(* may use the unit of work again.  After a failed statement or commit the *)
(* session refuses everything but a rollback.                              *)
(***************************************************************************)
EXTENDS Integers, Sequences, SequencesExt

CONSTANTS
    Writes,             \* changes that services make
    NestedCallbacks     \* may a callback be queued inside a savepoint?

UnitOfWorkAssumption == NestedCallbacks \in BOOLEAN

VARIABLES
    phase,      \* new, active, committing (callbacks run) or closed
    inTx,       \* session.in_transaction()
    broken,     \* the session wants a rollback
    needs,      \* _needs_rollback
    pending,    \* changes of the open transaction
    saved,      \* the changes before the open savepoint, or none
    db,         \* durable changes
    queue,      \* _callbacks, each named by the change it announces
    running,    \* callbacks of the commit that has yet to run them
    ran,        \* history: callbacks invoked
    reg,        \* history: callbacks queued
    lost        \* history: has a callback failed, or the answer to a commit been lost?

session == <<inTx, broken, needs, pending, saved, db>>
work    == <<queue, running, ran, reg, lost>>
vars    == <<phase, inTx, broken, needs, pending, saved, db, queue, running, ran, reg, lost>>

Elements(s) == {s[i] : i \in DOMAIN s}

Open == phase \in {"active", "committing"}

Init ==
    /\ phase = "new" /\ inTx = FALSE /\ broken = FALSE /\ needs = FALSE
    /\ pending = {} /\ saved = <<>> /\ db = {}
    /\ queue = <<>> /\ running = <<>> /\ ran = <<>> /\ reg = <<>> /\ lost = FALSE

Enter ==
    /\ phase = "new" /\ phase' = "active" /\ needs' = TRUE
    /\ UNCHANGED <<inTx, broken, pending, saved, db, work>>

\* Any statement begins a transaction; a change is made once.
Write(w) ==
    /\ Open /\ ~broken /\ w \notin pending \cup db \cup Elements(reg)
    /\ inTx' = TRUE /\ pending' = pending \cup {w}
    /\ UNCHANGED <<phase, broken, needs, saved, db, work>>

Read ==
    /\ Open /\ ~broken /\ inTx' = TRUE
    /\ UNCHANGED <<phase, broken, needs, pending, saved, db, work>>

AfterCommit(w) ==
    /\ Open /\ w \in pending /\ w \notin Elements(reg)
    /\ saved = <<>> \/ NestedCallbacks
    /\ queue' = Append(queue, w) /\ reg' = Append(reg, w)
    /\ UNCHANGED <<phase, session, running, ran, lost>>

\* session.begin_nested(): the only writer in a savepoint is a handler of internal events.
Nest ==
    /\ phase = "active" /\ ~broken /\ saved = <<>>
    /\ saved' = <<pending>> /\ inTx' = TRUE
    /\ UNCHANGED <<phase, broken, needs, pending, db, work>>

Unnest ==
    /\ phase = "active" /\ saved # <<>> /\ saved' = <<>>
    /\ \E p \in {pending, saved[1]} : pending' = p
    /\ UNCHANGED <<phase, inTx, broken, needs, db, work>>

\* A statement or a flush is refused: the session wants a rollback.
StatementFails ==
    /\ Open /\ ~broken /\ saved = <<>>
    /\ inTx' = TRUE /\ broken' = TRUE
    /\ UNCHANGED <<phase, needs, pending, saved, db, work>>

\* Mutation of Called: the callbacks run newest first.
CalledNewestFirst == Reverse(queue)

\* The callbacks of a commit, in the order in which it calls them.
Called == queue

\* The callbacks move to a local list: what they queue waits for the next commit.
CommitOk ==
    /\ phase = "active" /\ ~broken /\ saved = <<>>
    /\ db' = db \cup pending /\ pending' = {} /\ inTx' = FALSE /\ needs' = FALSE
    /\ running' = Called /\ queue' = <<>>
    /\ phase' = IF queue = <<>> THEN "active" ELSE "committing"
    /\ UNCHANGED <<broken, saved, ran, reg, lost>>

\* The commit raises: the database has refused it, or the answer was lost.
CommitFails ==
    /\ phase = "active" /\ ~broken /\ saved = <<>>
    /\ broken' = TRUE /\ inTx' = TRUE
    /\ \/ UNCHANGED <<db, lost>>
       \/ db' = db \cup pending /\ lost' = TRUE
    /\ UNCHANGED <<phase, needs, pending, saved, queue, running, ran, reg>>

\* Mutation of AfterCallback: the commit is over after one callback.
AfterOneCallback(rest) == <<>>

\* The callbacks that remain once one has returned.
AfterCallback(rest) == rest

Callback ==
    /\ phase = "committing"
    /\ ran' = Append(ran, Head(running))
    /\ running' = AfterCallback(Tail(running))
    /\ phase' = IF running' = <<>> THEN "active" ELSE "committing"
    /\ UNCHANGED <<session, queue, reg, lost>>

\* A callback raises out of commit: those behind it are dropped, the commit stands.
CallbackFails ==
    /\ phase = "committing"
    /\ ran' = Append(ran, Head(running)) /\ running' = <<>>
    /\ phase' = "active" /\ lost' = TRUE
    /\ UNCHANGED <<session, queue, reg>>

\* Mutation of Discarded: a rollback keeps the callbacks.
DiscardedNever == queue

\* The callbacks left after a rollback.
Discarded == <<>>

\* rollback; if it raises, the session stays broken and __aexit__ tries again.
Rollback ==
    /\ phase = "active" /\ saved = <<>>
    /\ pending' = {} /\ queue' = Discarded
    /\ \/ broken' = FALSE /\ inTx' = FALSE /\ needs' = FALSE
       \/ broken' = TRUE /\ UNCHANGED <<inTx, needs>>
    /\ UNCHANGED <<phase, saved, db, running, ran, reg, lost>>

\* __aexit__, also with an exception in flight and whether or not its rollback fails:
\* the session is closed.
Exit ==
    /\ phase = "active" /\ phase' = "closed"
    /\ pending' = {} /\ inTx' = FALSE /\ broken' = FALSE /\ needs' = FALSE /\ saved' = <<>>
    /\ queue' = <<>>
    /\ UNCHANGED <<db, running, ran, reg, lost>>

Next ==
    \/ Enter \/ Read \/ StatementFails \/ Nest \/ Unnest \/ CommitOk \/ CommitFails
    \/ Callback \/ CallbackFails \/ Rollback \/ Exit
    \/ \E w \in Writes : Write(w) \/ AfterCommit(w)

Spec == Init /\ [][Next]_vars

-----------------------------------------------------------------------------
(* Properties                                                              *)

\* Callbacks announce durable changes only: nothing that was rolled back, or whose
\* commit failed, is ever announced, whatever is committed later on.
AnnouncesDurable == Elements(ran) \cup Elements(running) \subseteq db

\* "invoke queued callbacks in registration order": each at most once, and in the order
\* in which they were queued, across commits.
InOrder ==
    \A i, j \in DOMAIN ran : i < j =>
        \E k, l \in DOMAIN reg : k < l /\ reg[k] = ran[i] /\ reg[l] = ran[j]

\* Unless a callback failed or the answer to a commit was lost, every change that is
\* durable and was to be announced has been announced when commit returns.
AnnouncesAll ==
    ~lost /\ phase # "committing" => \A w \in Elements(reg) : w \in db => w \in Elements(ran)

\* Callbacks announce what is durable: all of it, in order, and nothing else.
CallbacksFaithful == AnnouncesDurable /\ InOrder /\ AnnouncesAll
=============================================================================
