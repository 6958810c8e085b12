-------------------------- MODULE UnitOfWorkProofs --------------------------
(* Callbacks after a commit are faithful for any number of changes, callbacks, commits and
   failures. *)
EXTENDS UnitOfWork, TLAPS

\* x was queued before y, by the register g of all callbacks queued so far.
Before(g, x, y) == \E k, l \in DOMAIN g : k < l /\ g[k] = x /\ g[l] = y

Sorted(g, s) == \A i, j \in DOMAIN s : i < j => Before(g, s[i], s[j])

Precede(g, s, t) == \A i \in DOMAIN s, j \in DOMAIN t : Before(g, s[i], t[j])

Types ==
    /\ phase \in {"new", "active", "committing", "closed"} /\ lost \in BOOLEAN
    /\ pending \subseteq Writes /\ db \subseteq Writes
    /\ saved \in Seq(SUBSET Writes)
    /\ queue \in Seq(Writes) /\ running \in Seq(Writes) /\ ran \in Seq(Writes)
    /\ reg \in Seq(Writes)

\* Callbacks run only inside a commit, and savepoints are open only outside of one.
PhaseInv ==
    /\ phase = "committing" <=> running # <<>>
    /\ saved # <<>> => phase = "active" /\ saved[1] \subseteq pending

\* What has run, will run and is queued are three parts of the register, in this order.
OrderInv ==
    /\ Elements(ran) \cup Elements(running) \cup Elements(queue) \subseteq Elements(reg)
    /\ Sorted(reg, ran) /\ Sorted(reg, running) /\ Sorted(reg, queue)
    /\ Precede(reg, ran, running) /\ Precede(reg, ran, queue) /\ Precede(reg, running, queue)

\* A queued callback announces a change that the next commit makes durable, also if the
\* open savepoint is rolled back.
DurableInv ==
    /\ Elements(ran) \cup Elements(running) \subseteq db
    /\ Elements(queue) \subseteq pending \cup db
    /\ saved # <<>> => Elements(queue) \subseteq saved[1] \cup db

\* No callback of an uncommitted change leaves the queue, and none of a durable one is
\* forgotten.
AllInv ==
    /\ Elements(reg) \cap pending \subseteq Elements(queue)
    /\ ~lost => pending \cap db = {}
    /\ ~lost => Elements(reg) \cap db \subseteq Elements(ran) \cup Elements(running)

IInv == Types /\ PhaseInv /\ OrderInv /\ DurableInv /\ AllInv

-----------------------------------------------------------------------------
(* Sequences                                                               *)

\* Appending adds one element, at the end.
LEMMA Appended ==
    ASSUME NEW s \in Seq(Writes), NEW w \in Writes
    PROVE  /\ Append(s, w) \in Seq(Writes) /\ Append(s, w) # <<>>
           /\ DOMAIN Append(s, w) = 1 .. Len(s) + 1 /\ DOMAIN s = 1 .. Len(s) /\ Len(s) \in Nat
           /\ Append(s, w)[Len(s) + 1] = w
           /\ \A i \in DOMAIN s : Append(s, w)[i] = s[i]
           /\ Elements(Append(s, w)) = Elements(s) \cup {w}
  <1>1. /\ Append(s, w) \in Seq(Writes) /\ Append(s, w) # <<>>
        /\ DOMAIN Append(s, w) = 1 .. Len(s) + 1 /\ DOMAIN s = 1 .. Len(s) /\ Len(s) \in Nat
        /\ Append(s, w)[Len(s) + 1] = w
        /\ \A i \in DOMAIN s : Append(s, w)[i] = s[i]
    OBVIOUS
  <1>2. \A i \in 1 .. Len(s) + 1 : i \in 1 .. Len(s) \/ i = Len(s) + 1
    BY <1>1
  <1>3. Elements(Append(s, w)) \subseteq Elements(s) \cup {w}
    BY <1>1, <1>2 DEF Elements
  <1>4. Elements(s) \cup {w} \subseteq Elements(Append(s, w))
    <2>1. Len(s) + 1 \in 1 .. Len(s) + 1 /\ 1 .. Len(s) \subseteq 1 .. Len(s) + 1
      BY <1>1
    <2> QED
      BY <1>1, <2>1 DEF Elements
  <1> QED
    BY <1>1, <1>3, <1>4

\* Head and tail make up a sequence.
LEMMA HeadAndTail ==
    ASSUME NEW s \in Seq(Writes), s # <<>>
    PROVE  /\ Tail(s) \in Seq(Writes) /\ Head(s) \in Writes
           /\ DOMAIN Tail(s) = 1 .. Len(s) - 1 /\ DOMAIN s = 1 .. Len(s) /\ Len(s) \in Nat
           /\ 1 \in DOMAIN s /\ Head(s) = s[1]
           /\ \A i \in DOMAIN Tail(s) : i + 1 \in DOMAIN s /\ Tail(s)[i] = s[i + 1]
           /\ Elements(s) = {Head(s)} \cup Elements(Tail(s))
  <1>1. /\ Tail(s) \in Seq(Writes) /\ Head(s) \in Writes
        /\ DOMAIN Tail(s) = 1 .. Len(s) - 1 /\ DOMAIN s = 1 .. Len(s) /\ Len(s) \in Nat
        /\ 1 \in DOMAIN s /\ Head(s) = s[1]
        /\ \A i \in DOMAIN Tail(s) : i + 1 \in DOMAIN s /\ Tail(s)[i] = s[i + 1]
    OBVIOUS
  <1>2. {Head(s)} \cup Elements(Tail(s)) \subseteq Elements(s)
    BY <1>1 DEF Elements
  <1>3. ASSUME NEW i \in DOMAIN s
        PROVE  s[i] \in {Head(s)} \cup Elements(Tail(s))
    <2>1. CASE i = 1
      BY <1>1, <2>1
    <2>2. CASE i # 1
      <3>1. i - 1 \in DOMAIN Tail(s) /\ Tail(s)[i - 1] = s[i]
        BY <1>1, <2>2
      <3> QED
        BY <3>1 DEF Elements
    <2> QED
      BY <2>1, <2>2
  <1> QED
    BY <1>1, <1>2, <1>3 DEF Elements

\* What is queued now comes after all that was queued before.
LEMMA RegisterGrows ==
    ASSUME NEW g \in Seq(Writes), NEW w \in Writes, NEW x
    PROVE  /\ \A y : Before(g, x, y) => Before(Append(g, w), x, y)
           /\ x \in Elements(g) => Before(Append(g, w), x, w)
  <1>1. /\ DOMAIN Append(g, w) = 1 .. Len(g) + 1 /\ DOMAIN g = 1 .. Len(g) /\ Len(g) \in Nat
        /\ Append(g, w)[Len(g) + 1] = w
        /\ \A i \in DOMAIN g : Append(g, w)[i] = g[i]
    BY Appended
  <1>2. \A i \in DOMAIN g : i \in DOMAIN Append(g, w) /\ i < Len(g) + 1
    BY <1>1
  <1>3. ASSUME NEW y, Before(g, x, y)
        PROVE  Before(Append(g, w), x, y)
    BY <1>1, <1>2, <1>3 DEF Before
  <1>4. ASSUME x \in Elements(g)
        PROVE  Before(Append(g, w), x, w)
    <2>1. PICK i \in DOMAIN g : g[i] = x
      BY <1>4 DEF Elements
    <2>2. Len(g) + 1 \in DOMAIN Append(g, w)
      BY <1>1
    <2> QED
      BY <1>1, <1>2, <2>1, <2>2 DEF Before
  <1> QED
    BY <1>3, <1>4

\* A sequence stays sorted when an element is appended that all its elements precede.
LEMMA SortedAppend ==
    ASSUME NEW g, NEW s \in Seq(Writes), NEW w \in Writes, Sorted(g, s),
           \A i \in DOMAIN s : Before(g, s[i], w)
    PROVE  Sorted(g, Append(s, w))
  <1>1. /\ DOMAIN Append(s, w) = 1 .. Len(s) + 1 /\ DOMAIN s = 1 .. Len(s) /\ Len(s) \in Nat
        /\ Append(s, w)[Len(s) + 1] = w
        /\ \A i \in DOMAIN s : Append(s, w)[i] = s[i]
    BY Appended
  <1>2. ASSUME NEW i \in 1 .. Len(s) + 1, NEW j \in 1 .. Len(s) + 1, i < j
        PROVE  i \in DOMAIN s /\ (j \in DOMAIN s \/ j = Len(s) + 1)
    BY <1>1, <1>2
  <1> QED
    BY <1>1, <1>2 DEF Sorted

-----------------------------------------------------------------------------
(* Steps                                                                   *)

\* Nothing is queued, called or known at the start.
LEMMA InitIInv == Init => IInv
  <1> SUFFICES ASSUME Init
               PROVE  IInv
    OBVIOUS
  <1>1. /\ Elements(<<>>) = {} /\ DOMAIN <<>> = {} /\ <<>> \in Seq(Writes)
        /\ <<>> \in Seq(SUBSET Writes)
    BY DEF Elements
  <1>2. /\ phase = "new" /\ pending = {} /\ saved = <<>> /\ db = {} /\ lost = FALSE
        /\ queue = <<>> /\ running = <<>> /\ ran = <<>> /\ reg = <<>>
    BY DEF Init
  <1>3. Types /\ PhaseInv /\ DurableInv /\ AllInv
    BY <1>1, <1>2 DEF Types, PhaseInv, DurableInv, AllInv
  <1>4. OrderInv
    BY <1>1, <1>2 DEF OrderInv, Sorted, Precede
  <1> QED
    BY <1>3, <1>4 DEF IInv

\* Statements, savepoints and a commit that is refused leave the callbacks alone.
LEMMA SessionSteps ==
    ASSUME IInv, UNCHANGED <<queue, running, ran, reg>>,
           \/ Enter \/ Read \/ StatementFails \/ Nest \/ Unnest \/ CommitFails
           \/ \E w \in Writes : Write(w)
    PROVE  IInv'
  <1>1. OrderInv'
    BY DEF IInv, OrderInv
  <1>2. CASE Enter \/ Read \/ StatementFails
    BY <1>1, <1>2 DEF IInv, Types, PhaseInv, DurableInv, AllInv, Enter, Read, StatementFails,
       work, Open
  <1>3. CASE \E w \in Writes : Write(w)
    <2>1. PICK w \in Writes : Write(w)
      BY <1>3
    <2>2. /\ pending' = pending \cup {w} /\ w \notin pending \cup db \cup Elements(reg)
          /\ UNCHANGED <<phase, saved, db, lost>>
      BY <2>1 DEF Write, work
    <2> QED
      BY <1>1, <2>2 DEF IInv, Types, PhaseInv, DurableInv, AllInv
  <1>4. CASE Nest
    <2>1. /\ phase = "active" /\ saved' = <<pending>> /\ UNCHANGED <<phase, pending, db, lost>>
      BY <1>4 DEF Nest, work
    <2>2. saved' \in Seq(SUBSET Writes) /\ saved'[1] = pending
      BY <2>1 DEF IInv, Types
    <2> QED
      BY <1>1, <2>1, <2>2 DEF IInv, Types, PhaseInv, DurableInv, AllInv
  <1>5. CASE Unnest
    <2>1. /\ phase = "active" /\ saved # <<>> /\ saved' = <<>>
          /\ pending' = pending \/ pending' = saved[1]
          /\ UNCHANGED <<phase, db, lost>>
      BY <1>5 DEF Unnest, work
    <2> QED
      BY <1>1, <2>1 DEF IInv, Types, PhaseInv, DurableInv, AllInv
  <1>6. CASE CommitFails
    <2>1. /\ UNCHANGED <<phase, pending, saved>>
          /\ \/ db' = db /\ lost' = lost
             \/ db' = db \cup pending /\ lost' = TRUE
      BY <1>6 DEF CommitFails
    <2> QED
      BY <1>1, <2>1 DEF IInv, Types, PhaseInv, DurableInv, AllInv
  <1> QED
    BY <1>2, <1>3, <1>4, <1>5, <1>6

\* A callback is queued behind all others; the savepoint it would belong to is not open.
LEMMA AfterCommitStep ==
    ASSUME IInv, ~NestedCallbacks, NEW w \in Writes, AfterCommit(w)
    PROVE  IInv'
  <1>1. /\ w \in pending /\ w \notin Elements(reg) /\ saved = <<>>
        /\ queue' = Append(queue, w) /\ reg' = Append(reg, w)
        /\ UNCHANGED <<phase, pending, saved, db, running, ran, lost>>
    BY DEF AfterCommit, session
  <1>2. /\ queue \in Seq(Writes) /\ reg \in Seq(Writes) /\ running \in Seq(Writes)
        /\ ran \in Seq(Writes)
    BY DEF IInv, Types
  <1>3. /\ queue' \in Seq(Writes) /\ reg' \in Seq(Writes)
        /\ Elements(queue') = Elements(queue) \cup {w} /\ Elements(reg') = Elements(reg) \cup {w}
    BY <1>1, <1>2, Appended
  <1>4. \A x, y : Before(reg, x, y) => Before(reg', x, y)
    BY <1>1, <1>2, RegisterGrows
  <1>5. \A x \in Elements(reg) : Before(reg', x, w)
    BY <1>1, <1>2, RegisterGrows
  <1>6. /\ Sorted(reg', ran) /\ Sorted(reg', running) /\ Sorted(reg', queue)
        /\ Precede(reg', ran, running) /\ Precede(reg', ran, queue)
        /\ Precede(reg', running, queue)
    BY <1>4 DEF IInv, OrderInv, Sorted, Precede
  <1>7. /\ \A i \in DOMAIN ran : Before(reg', ran[i], w)
        /\ \A i \in DOMAIN running : Before(reg', running[i], w)
        /\ \A i \in DOMAIN queue : Before(reg', queue[i], w)
    BY <1>5 DEF IInv, OrderInv, Elements
  <1>8. Sorted(reg', queue')
    BY <1>1, <1>2, <1>6, <1>7, SortedAppend
  <1>9. /\ DOMAIN queue' = 1 .. Len(queue) + 1 /\ DOMAIN queue = 1 .. Len(queue)
        /\ Len(queue) \in Nat /\ queue'[Len(queue) + 1] = w
        /\ \A i \in DOMAIN queue : queue'[i] = queue[i]
    BY <1>1, <1>2, Appended
  <1>10. \A j \in DOMAIN queue' : j \in DOMAIN queue \/ j = Len(queue) + 1
    BY <1>9
  <1>11. Precede(reg', ran, queue') /\ Precede(reg', running, queue')
    BY <1>6, <1>7, <1>9, <1>10 DEF Precede
  <1>12. OrderInv'
    BY <1>1, <1>3, <1>6, <1>8, <1>11 DEF IInv, OrderInv
  <1>13. Types' /\ PhaseInv' /\ DurableInv' /\ AllInv'
    BY <1>1, <1>3 DEF IInv, Types, PhaseInv, DurableInv, AllInv
  <1> QED
    BY <1>12, <1>13 DEF IInv

\* The commit hands the queue over.
LEMMA CommitStep ==
    ASSUME IInv, CommitOk
    PROVE  IInv'
  <1>1. /\ phase = "active" /\ saved = <<>> /\ db' = db \cup pending /\ pending' = {}
        /\ running' = queue /\ queue' = <<>>
        /\ phase' = IF queue = <<>> THEN "active" ELSE "committing"
        /\ UNCHANGED <<saved, ran, reg, lost>>
    BY DEF CommitOk, Called
  <1>2. running = <<>> /\ Elements(queue') = {} /\ DOMAIN queue' = {} /\ Elements(running) = {}
    BY <1>1 DEF IInv, PhaseInv, Elements
  <1>3. queue' \in Seq(Writes)
    BY <1>1
  <1>4. OrderInv'
    BY <1>1, <1>2 DEF IInv, OrderInv, Sorted, Precede
  <1>5. Types' /\ PhaseInv' /\ DurableInv' /\ AllInv'
    BY <1>1, <1>2, <1>3 DEF IInv, Types, PhaseInv, DurableInv, AllInv
  <1> QED
    BY <1>4, <1>5 DEF IInv

\* A callback runs: it was the next in order.
LEMMA CallbackRuns ==
    ASSUME IInv, phase = "committing", ran' = Append(ran, Head(running)),
           UNCHANGED <<pending, saved, db, queue, reg>>,
           \/ running' = Tail(running) /\ lost' = lost
           \/ running' = <<>> /\ lost' = TRUE,
           phase' = IF running' = <<>> THEN "active" ELSE "committing"
    PROVE  IInv'
  <1> DEFINE h == Head(running)
  <1>1. /\ running \in Seq(Writes) /\ running # <<>> /\ ran \in Seq(Writes) /\ saved = <<>>
        /\ queue \in Seq(Writes)
    BY DEF IInv, Types, PhaseInv
  <1>2. /\ Tail(running) \in Seq(Writes) /\ h \in Writes
        /\ 1 \in DOMAIN running /\ h = running[1] /\ DOMAIN running = 1 .. Len(running)
        /\ DOMAIN Tail(running) = 1 .. Len(running) - 1 /\ Len(running) \in Nat
        /\ \A i \in DOMAIN Tail(running) :
              i + 1 \in DOMAIN running /\ Tail(running)[i] = running[i + 1]
        /\ Elements(running) = {h} \cup Elements(Tail(running))
    BY <1>1, HeadAndTail
  <1> HIDE DEF h
  <1>3. /\ ran' \in Seq(Writes) /\ Elements(ran') = Elements(ran) \cup {h}
        /\ DOMAIN ran' = 1 .. Len(ran) + 1 /\ DOMAIN ran = 1 .. Len(ran) /\ Len(ran) \in Nat
        /\ ran'[Len(ran) + 1] = h /\ \A i \in DOMAIN ran : ran'[i] = ran[i]
    BY <1>1, <1>2, Appended DEF h
  <1>4. \A i \in DOMAIN ran' : i \in DOMAIN ran \/ i = Len(ran) + 1
    BY <1>3
  <1>5. Sorted(reg, ran')
    <2>1. \A i \in DOMAIN ran : Before(reg, ran[i], h)
      BY <1>2 DEF IInv, OrderInv, Precede
    <2> QED
      BY <1>1, <1>2, <2>1, SortedAppend DEF IInv, OrderInv, h
  <1>6. Precede(reg, ran', queue)
    BY <1>2, <1>3, <1>4 DEF IInv, OrderInv, Precede
  <1>7. ASSUME NEW i \in DOMAIN Tail(running)
        PROVE  1 < i + 1
    BY <1>2
  <1>8. Sorted(reg, Tail(running)) /\ Precede(reg, Tail(running), queue)
    <2>1. \A i, j \in DOMAIN Tail(running) : i < j => i + 1 < j + 1
      BY <1>2
    <2> QED
      BY <1>2, <2>1 DEF IInv, OrderInv, Sorted, Precede
  <1>9. Precede(reg, ran', Tail(running))
    BY <1>2, <1>3, <1>4, <1>7 DEF IInv, OrderInv, Sorted, Precede
  <1>10. CASE running' = Tail(running) /\ lost' = lost
    <2>1. OrderInv'
      BY <1>2, <1>3, <1>5, <1>6, <1>8, <1>9, <1>10 DEF IInv, OrderInv
    <2>2. Types' /\ PhaseInv' /\ DurableInv' /\ AllInv'
      BY <1>1, <1>2, <1>3, <1>10 DEF IInv, Types, PhaseInv, DurableInv, AllInv
    <2> QED
      BY <2>1, <2>2 DEF IInv
  <1>11. CASE running' = <<>> /\ lost' = TRUE
    <2>0. Elements(running') = {} /\ DOMAIN running' = {} /\ running' \in Seq(Writes)
      BY <1>11 DEF Elements
    <2>1. OrderInv'
      BY <1>2, <1>3, <1>5, <1>6, <2>0 DEF IInv, OrderInv, Sorted, Precede
    <2>2. Types' /\ PhaseInv' /\ DurableInv' /\ AllInv'
      BY <1>1, <1>2, <1>3, <1>11, <2>0 DEF IInv, Types, PhaseInv, DurableInv, AllInv
    <2> QED
      BY <2>1, <2>2 DEF IInv
  <1> QED
    BY <1>10, <1>11

\* A rollback and the end discard what was queued.
LEMMA DiscardSteps ==
    ASSUME IInv, Rollback \/ Exit
    PROVE  IInv'
  <1>1. /\ phase = "active" /\ pending' = {} /\ queue' = <<>> /\ saved' = <<>>
        /\ phase' \in {"active", "closed"} /\ UNCHANGED <<db, running, ran, reg, lost>>
    BY DEF Rollback, Exit, Discarded
  <1>2. Elements(queue') = {} /\ DOMAIN queue' = {} /\ queue' \in Seq(Writes)
        /\ saved' \in Seq(SUBSET Writes)
    BY <1>1 DEF Elements
  <1>3. OrderInv'
    BY <1>1, <1>2 DEF IInv, OrderInv, Sorted, Precede
  <1>4. Types' /\ PhaseInv' /\ DurableInv' /\ AllInv'
    BY <1>1, <1>2 DEF IInv, Types, PhaseInv, DurableInv, AllInv
  <1> QED
    BY <1>3, <1>4 DEF IInv

\* Every step keeps the invariant.
LEMMA NextIInv ==
    ASSUME IInv, ~NestedCallbacks, [Next]_vars
    PROVE  IInv'
  <1>1. CASE \/ Enter \/ Read \/ StatementFails \/ Nest \/ Unnest \/ CommitFails
             \/ \E w \in Writes : Write(w)
    <2>1. UNCHANGED <<queue, running, ran, reg>>
      BY <1>1 DEF Enter, Read, StatementFails, Nest, Unnest, CommitFails, Write, work
    <2> QED
      BY <1>1, <2>1, SessionSteps
  <1>2. CASE \E w \in Writes : AfterCommit(w)
    BY <1>2, AfterCommitStep
  <1>3. CASE CommitOk
    BY <1>3, CommitStep
  <1>4. CASE Callback
    <2>1. /\ phase = "committing" /\ ran' = Append(ran, Head(running))
          /\ UNCHANGED <<pending, saved, db, queue, reg>>
          /\ running' = Tail(running) /\ lost' = lost
          /\ phase' = IF running' = <<>> THEN "active" ELSE "committing"
      BY <1>4 DEF Callback, AfterCallback, session
    <2> QED
      BY <2>1, CallbackRuns
  <1>5. CASE CallbackFails
    <2>1. /\ phase = "committing" /\ ran' = Append(ran, Head(running))
          /\ UNCHANGED <<pending, saved, db, queue, reg>>
          /\ running' = <<>> /\ lost' = TRUE
          /\ phase' = IF running' = <<>> THEN "active" ELSE "committing"
      BY <1>5 DEF CallbackFails, session
    <2> QED
      BY <2>1, CallbackRuns
  <1>6. CASE Rollback \/ Exit
    BY <1>6, DiscardSteps
  <1>7. CASE UNCHANGED vars
    BY <1>7 DEF vars, IInv, Types, PhaseInv, OrderInv, DurableInv, AllInv
  <1> QED
    BY <1>1, <1>2, <1>3, <1>4, <1>5, <1>6, <1>7 DEF Next

-----------------------------------------------------------------------------

\* Callbacks announce what is durable, all of it unless one failed or an answer was lost,
\* in the order in which they were queued, as long as none is queued inside a savepoint.
THEOREM CallbacksAreFaithful == ~NestedCallbacks => (Spec => []CallbacksFaithful)
  <1>1. IInv => CallbacksFaithful
    <2> SUFFICES ASSUME IInv
                 PROVE  CallbacksFaithful
      OBVIOUS
    <2>1. InOrder
      BY DEF IInv, OrderInv, Sorted, Before, InOrder
    <2>2. AnnouncesDurable
      BY DEF IInv, DurableInv, AnnouncesDurable
    <2>3. AnnouncesAll
      <3>1. phase # "committing" => Elements(running) = {}
        BY DEF IInv, PhaseInv, Elements
      <3> QED
        BY <3>1 DEF IInv, AllInv, AnnouncesAll
    <2> QED
      BY <2>1, <2>2, <2>3 DEF CallbacksFaithful
  <1>2. ASSUME ~NestedCallbacks
        PROVE  Spec => []CallbacksFaithful
    <2>1. IInv /\ [Next]_vars => IInv'
      BY <1>2, NextIInv
    <2> QED
      BY <1>1, <2>1, InitIInv, PTL DEF Spec
  <1> QED
    BY <1>2
=============================================================================
