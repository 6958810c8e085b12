---------------------------- MODULE OutboxProofs ----------------------------
(* Proofs of the safety properties of Outbox, for any messages, workers and bounds. *)
EXTENDS Outbox, TLAPS

\* What an internal worker has locked is still as it was when it was claimed, and nobody
\* else's: claims, marks and recoveries skip locked rows.
LockInv ==
    \A w \in Workers : txn[w] # None =>
        /\ rows[txn[w]].status \in Ready /\ rows[txn[w]].attempts < MaxAttempts
        /\ Unblocked(txn[w])
        /\ \A v \in Workers : v # w => txn[v] # txn[w]

\* A claim stays behind published versions however late its holder is, and a holder that
\* is about to mark its message published has delivered it.
ClaimInv ==
    \A c \in claims : /\ Unblocked(c.msg) /\ rows[c.msg].status # "absent"
                      /\ c.done = "delivered" => c.msg \in delivered

\* Messages are handled behind published versions only.
OrderInv == \A m \in Msgs : Handled(m) => Unblocked(m)

IInv == TypeOK /\ LockInv /\ ClaimInv /\ OrderInv /\ HandledOnce

-----------------------------------------------------------------------------

\* The constants, one fact each.
LEMMA ConstantTypes ==
    /\ MaxAttempts \in Nat \ {0} /\ StaleAge \in Nat \ {0} /\ MaxCrashes \in Nat
    /\ Delays \subseteq Nat /\ Internal \subseteq Msgs /\ None \notin Msgs
    /\ Earlier \in [Msgs -> SUBSET Msgs]
    /\ \A m \in Msgs : m \notin Earlier[m]
  BY OutboxAssumption

\* Rewriting status, age and delay of a row, or its attempts within the bound, gives a row.
LEMMA RowTypes ==
    ASSUME NEW r \in Row, NEW d \in Nat
    PROVE  /\ PublishedRow(r) \in Row /\ PublishedRow(r).status = "published"
           /\ FailedRow(r, d) \in Row /\ FailedRow(r, d).status = "failed"
           /\ r.attempts < MaxAttempts =>
                 ClaimedRow(r) \in Row /\ ClaimedRow(r).status = "processing"
  <1>1. /\ r.attempts \in 0 .. MaxAttempts /\ 0 \in 0 .. StaleAge
        /\ r.attempts < MaxAttempts => r.attempts + 1 \in 0 .. MaxAttempts
    BY ConstantTypes DEF Row
  <1>2. PublishedRow(r) \in Row /\ PublishedRow(r).status = "published"
    BY <1>1 DEF Row, Status, Ready, PublishedRow
  <1>3. FailedRow(r, d) \in Row /\ FailedRow(r, d).status = "failed"
    BY <1>1 DEF Row, Status, Ready, FailedRow
  <1>4. ASSUME r.attempts < MaxAttempts
        PROVE  ClaimedRow(r) \in Row /\ ClaimedRow(r).status = "processing"
    BY <1>1, <1>4 DEF Row, Status, Ready, ClaimedRow
  <1> QED
    BY <1>2, <1>3, <1>4

\* A message stays unblocked as long as published rows stay published.
LEMMA UnblockedStays ==
    ASSUME NEW m \in Msgs, Unblocked(m),
           \A e \in Msgs : rows[e].status = "published" => rows'[e].status = "published"
    PROVE  Unblocked(m)'
  BY ConstantTypes DEF Unblocked

\* A step on rows and claims alone keeps the invariant when it leaves locked rows alone,
\* never takes a row back from published, publishes only what was delivered, and adds
\* only claims on unblocked rows.
LEMMA RowsStep ==
    ASSUME IInv, UNCHANGED <<txn, crashes, delivered, applied>>,
           rows' \in [Msgs -> Row], claims' \subseteq Claimed,
           \A m \in Msgs : rows[m].status = "published" => rows'[m].status = "published",
           \A m \in Msgs : rows[m].status # "absent" => rows'[m].status # "absent",
           \A m \in Msgs : rows'[m].status = "published" =>
                               rows[m].status = "published" \/ m \in delivered,
           \A m \in Locked : /\ rows'[m].status = rows[m].status
                             /\ rows'[m].attempts = rows[m].attempts,
           \A c \in claims' : \/ c \in claims
                              \/ /\ Unblocked(c.msg) /\ rows'[c.msg].status # "absent"
                                 /\ c.done # "delivered"
    PROVE  IInv'
  <1>1. TypeOK'
    BY DEF IInv, TypeOK
  <1>2. \A m \in Msgs : Unblocked(m) => Unblocked(m)'
    BY UnblockedStays
  <1>3. LockInv'
    <2> SUFFICES ASSUME NEW w \in Workers, txn[w] # None
                 PROVE  /\ rows'[txn[w]].status \in Ready
                        /\ rows'[txn[w]].attempts < MaxAttempts
                        /\ Unblocked(txn[w])'
                        /\ \A v \in Workers : v # w => txn[v] # txn[w]
      BY DEF LockInv, Unblocked
    <2>1. txn[w] \in Msgs /\ txn[w] \in Locked
      BY DEF IInv, TypeOK, Locked
    <2> QED
      BY <1>2, <2>1 DEF IInv, LockInv
  <1>4. ClaimInv'
    <2> SUFFICES ASSUME NEW c \in claims'
                 PROVE  /\ Unblocked(c.msg)' /\ rows'[c.msg].status # "absent"
                        /\ c.done = "delivered" => c.msg \in delivered
      BY DEF ClaimInv, Unblocked
    <2>1. c.msg \in Msgs
      BY DEF Claimed
    <2> QED
      BY <1>2, <2>1 DEF IInv, ClaimInv
  <1>5. OrderInv'
    BY <1>2 DEF IInv, OrderInv, Handled
  <1>6. HandledOnce'
    BY DEF IInv, HandledOnce, Handled
  <1> QED
    BY <1>1, <1>3, <1>4, <1>5, <1>6 DEF IInv

\* claim_batch takes unlocked rows that are behind published versions.
LEMMA ClaimBatchStep ==
    ASSUME IInv, ClaimBatch
    PROVE  IInv'
  <1>1. PICK S \in SUBSET {m \in Msgs : Claimable(m)} :
            /\ rows' = [m \in Msgs |-> IF m \in S THEN ClaimedRow(rows[m]) ELSE rows[m]]
            /\ claims' = claims \cup
                 {[msg |-> m, attempt |-> rows[m].attempts + 1, done |-> "no"] : m \in S}
    BY DEF ClaimBatch
  <1>2. rows \in [Msgs -> Row] /\ claims \subseteq Claimed
    BY DEF IInv, TypeOK
  <1>3. ASSUME NEW m \in S
        PROVE  /\ m \in Msgs /\ m \notin Locked /\ Unblocked(m)
               /\ rows[m].status \in Ready /\ rows[m].attempts < MaxAttempts
               /\ ClaimedRow(rows[m]) \in Row /\ ClaimedRow(rows[m]).status = "processing"
    <2>1. m \in Msgs /\ Claimable(m)
      OBVIOUS
    <2> QED
      BY <1>2, <2>1, RowTypes DEF Claimable
  <1>4. ASSUME NEW m \in Msgs
        PROVE  /\ rows'[m] = IF m \in S THEN ClaimedRow(rows[m]) ELSE rows[m]
               /\ rows'[m] \in Row
               /\ rows[m].status = "published" => rows'[m].status = "published"
               /\ rows[m].status # "absent" => rows'[m].status # "absent"
               /\ rows'[m].status = "published" => rows[m].status = "published"
               /\ m \in Locked => rows'[m] = rows[m]
    BY <1>1, <1>2, <1>3 DEF Ready
  <1>5. rows' \in [Msgs -> Row]
    BY <1>1, <1>4
  <1>6. ASSUME NEW c \in claims', c \notin claims
        PROVE  /\ c \in Claimed /\ Unblocked(c.msg) /\ rows'[c.msg].status # "absent"
               /\ c.done # "delivered"
    <2>1. PICK m \in S : c = [msg |-> m, attempt |-> rows[m].attempts + 1, done |-> "no"]
      BY <1>1, <1>6
    <2>2. c.msg = m /\ c.done = "no" /\ rows'[m].status = "processing"
      BY <1>3, <1>4, <2>1
    <2>3. rows[m].attempts + 1 \in 1 .. MaxAttempts
      BY <1>2, <1>3, ConstantTypes DEF Row
    <2> QED
      BY <1>3, <2>1, <2>2, <2>3 DEF Claimed
  <1>7. claims' \subseteq Claimed
    BY <1>2, <1>6
  <1>8. UNCHANGED <<txn, crashes, delivered, applied>>
    BY DEF ClaimBatch
  <1>9. Locked \subseteq Msgs
    BY DEF IInv, TypeOK, Locked
  <1> QED
    BY <1>4, <1>5, <1>6, <1>7, <1>8, <1>9, RowsStep

\* recover_stale_claims takes unlocked rows in processing.
LEMMA RecoverStep ==
    ASSUME IInv, RecoverStaleClaims
    PROVE  IInv'
  <1>1. PICK S \in SUBSET {m \in Msgs : Stale(m) /\ m \notin Locked} :
            rows' = [m \in Msgs |-> IF m \in S THEN FailedRow(rows[m], 0) ELSE rows[m]]
    BY DEF RecoverStaleClaims
  <1>2. rows \in [Msgs -> Row] /\ claims' \subseteq Claimed
    BY DEF IInv, TypeOK, RecoverStaleClaims
  <1>3. ASSUME NEW m \in Msgs
        PROVE  /\ rows'[m] \in Row
               /\ rows[m].status = "published" => rows'[m].status = "published"
               /\ rows[m].status # "absent" => rows'[m].status # "absent"
               /\ rows'[m].status = "published" => rows[m].status = "published"
               /\ m \in Locked => rows'[m] = rows[m]
    BY <1>1, <1>2, RowTypes DEF Stale
  <1>4. rows' \in [Msgs -> Row]
    BY <1>1, <1>3
  <1>5. claims' = claims /\ UNCHANGED <<txn, crashes, delivered, applied>>
    BY DEF RecoverStaleClaims
  <1>6. Locked \subseteq Msgs
    BY DEF IInv, TypeOK, Locked
  <1> QED
    BY <1>2, <1>3, <1>4, <1>5, <1>6, RowsStep

\* Time changes neither the status nor the attempts of a row.
LEMMA TickStep ==
    ASSUME IInv, Tick
    PROVE  IInv'
  <1>1. rows \in [Msgs -> Row] /\ claims' \subseteq Claimed
    BY DEF IInv, TypeOK, Tick
  <1>2. ASSUME NEW m \in Msgs
        PROVE  /\ rows'[m] \in Row /\ rows'[m].status = rows[m].status
               /\ rows'[m].attempts = rows[m].attempts
    <2>1. /\ rows[m] \in Row /\ rows[m].delay \in Nat
          /\ rows[m].age \in 0 .. StaleAge /\ StaleAge \in Nat
      BY <1>1, ConstantTypes DEF Row
    <2> DEFINE d == IF rows[m].delay > 0 THEN rows[m].delay - 1 ELSE 0
               a == IF rows[m].status = "processing" /\ rows[m].age < StaleAge
                    THEN rows[m].age + 1 ELSE rows[m].age
    <2>2. d \in Nat /\ a \in 0 .. StaleAge
      BY <2>1
    <2>3. rows'[m] = [rows[m] EXCEPT !.delay = d, !.age = a]
      BY DEF Tick
    <2> HIDE DEF d, a
    <2> QED
      BY <2>1, <2>2, <2>3 DEF Row
  <1>3. rows' \in [Msgs -> Row]
    BY <1>2 DEF Tick
  <1>4. claims' = claims /\ UNCHANGED <<txn, crashes, delivered, applied>>
    BY DEF Tick
  <1>5. Locked \subseteq Msgs
    BY DEF IInv, TypeOK, Locked
  <1> QED
    BY <1>1, <1>2, <1>3, <1>4, <1>5, RowsStep

\* An absent row is nobody's, so adding it disturbs nothing.
LEMMA AddStep ==
    ASSUME IInv, NEW m \in Msgs, Add(m)
    PROVE  IInv'
  <1>1. PICK d \in Delays \cup {0} :
            rows' = [rows EXCEPT ![m] = [@ EXCEPT !.status = "pending", !.delay = d]]
    BY DEF Add
  <1>2. rows \in [Msgs -> Row] /\ d \in Nat /\ claims' \subseteq Claimed
    BY ConstantTypes DEF IInv, TypeOK, Add
  <1>3. /\ rows'[m] \in Row /\ rows'[m].status = "pending" /\ rows[m].status = "absent"
        /\ \A n \in Msgs : n # m => rows'[n] = rows[n]
    BY <1>1, <1>2 DEF Row, Status, Ready, Add
  <1>4. rows' \in [Msgs -> Row]
    BY <1>1, <1>2, <1>3
  <1>5. Locked \subseteq Msgs /\ m \notin Locked
    BY <1>3 DEF IInv, TypeOK, Locked, LockInv, Ready
  <1>6. claims' = claims /\ UNCHANGED <<txn, crashes, delivered, applied>>
    BY DEF Add
  <1> QED
    BY <1>2, <1>3, <1>4, <1>5, <1>6, RowsStep

\* Only a row in processing is marked, and it is not locked; a claim that marks it
\* published has delivered its message, even when the row's present claim is another.
LEMMA MarkStep ==
    ASSUME IInv, NEW c \in claims, MarkPublished(c) \/ MarkFailed(c) \/ Abandon(c)
    PROVE  IInv'
  <1>1. /\ rows \in [Msgs -> Row] /\ claims \subseteq Claimed /\ claims' = claims \ {c}
        /\ c.msg \in Msgs /\ rows[c.msg] \in Row
        /\ UNCHANGED <<txn, crashes, delivered, applied>>
    BY DEF IInv, TypeOK, Claimed, MarkPublished, MarkFailed, Abandon
  <1>2. ASSUME NEW m \in Msgs
        PROVE  /\ rows'[m] \in Row
               /\ rows[m].status = "published" => rows'[m].status = "published"
               /\ rows[m].status # "absent" => rows'[m].status # "absent"
               /\ rows'[m].status = "published" =>
                      rows[m].status = "published" \/ m \in delivered
               /\ m \in Locked => rows'[m] = rows[m]
    <2>1. CASE MarkPublished(c)
      BY <1>1, <2>1, RowTypes DEF MarkPublished, Markable, IInv, ClaimInv
    <2>2. CASE MarkFailed(c)
      BY <1>1, <2>2, RowTypes, ConstantTypes DEF MarkFailed, Markable
    <2>3. CASE Abandon(c)
      BY <1>1, <2>3 DEF Abandon
    <2> QED
      BY <2>1, <2>2, <2>3
  <1>3. rows' \in [Msgs -> Row]
    <2>1. rows' = [m \in Msgs |-> rows'[m]]
      BY <1>1 DEF MarkPublished, MarkFailed, Abandon
    <2> QED
      BY <1>2, <2>1
  <1>4. Locked \subseteq Msgs
    BY DEF IInv, TypeOK, Locked
  <1> QED
    BY <1>1, <1>2, <1>3, <1>4, RowsStep

\* What is delivered was claimed, so it was unblocked then and is now.
LEMMA DeliverStep ==
    ASSUME IInv, NEW c \in claims, Deliver(c)
    PROVE  IInv'
  <1>1. /\ claims \subseteq Claimed /\ c \in Claimed /\ c.msg \in Msgs
        /\ UNCHANGED <<rows, txn, crashes, applied>>
    BY DEF IInv, TypeOK, Claimed, Deliver
  <1>2. PICK r \in {"delivered", "failed"} :
            /\ claims' = (claims \ {c}) \cup {[c EXCEPT !.done = r]}
            /\ delivered' = IF r = "delivered" THEN delivered \cup {c.msg} ELSE delivered
    BY DEF Deliver
  <1>3. /\ [c EXCEPT !.done = r] \in Claimed /\ [c EXCEPT !.done = r].msg = c.msg
        /\ [c EXCEPT !.done = r].done = r
    BY <1>1 DEF Claimed
  <1>4. TypeOK'
    BY <1>1, <1>2, <1>3 DEF IInv, TypeOK
  <1>5. LockInv' /\ HandledOnce'
    BY <1>1, <1>2 DEF IInv, LockInv, HandledOnce, Handled, Unblocked
  <1>6. Unblocked(c.msg) /\ rows[c.msg].status # "absent"
    BY DEF IInv, ClaimInv
  <1>7. ClaimInv'
    BY <1>1, <1>2, <1>3, <1>6 DEF IInv, ClaimInv, Unblocked
  <1>8. OrderInv'
    BY <1>1, <1>2, <1>6 DEF IInv, OrderInv, Handled, Unblocked
  <1> QED
    BY <1>4, <1>5, <1>7, <1>8 DEF IInv

\* claim_batch of an internal worker skips what another one has locked.
LEMMA BeginStep ==
    ASSUME IInv, NEW w \in Workers, Begin(w)
    PROVE  IInv'
  <1>1. PICK m \in Msgs : Claimable(m) /\ txn' = [txn EXCEPT ![w] = m]
    BY ConstantTypes DEF Begin
  <1>2. UNCHANGED <<rows, claims, crashes, delivered, applied>>
    BY DEF Begin
  <1>3. TypeOK'
    BY <1>1, <1>2 DEF IInv, TypeOK
  <1>4. \A v \in Workers : v # w => txn[v] # m /\ txn'[v] = txn[v]
    BY <1>1, ConstantTypes DEF IInv, TypeOK, Claimable, Locked
  <1>5. txn'[w] = m
    BY <1>1 DEF IInv, TypeOK
  <1>6. LockInv'
    BY <1>1, <1>2, <1>4, <1>5 DEF IInv, LockInv, Claimable, Unblocked
  <1>7. ClaimInv' /\ OrderInv' /\ HandledOnce'
    BY <1>2 DEF IInv, ClaimInv, OrderInv, HandledOnce, Handled, Unblocked
  <1> QED
    BY <1>3, <1>6, <1>7 DEF IInv

\* The commit of an internal worker: its row was still ready, so the handler ran on it
\* for the first time.
LEMMA CommitStep ==
    ASSUME IInv, NEW w \in Workers, Commit(w)
    PROVE  IInv'
  <1> DEFINE m == txn[w]
  <1>1. /\ m \in Msgs /\ rows \in [Msgs -> Row] /\ rows[m] \in Row
        /\ txn \in [Workers -> Msgs \cup {None}] /\ applied \in [Msgs -> Nat]
        /\ txn[w] # None /\ txn' = [txn EXCEPT ![w] = None]
        /\ UNCHANGED <<claims, crashes, delivered>>
    BY DEF IInv, TypeOK, Commit
  <1>2. /\ rows[m].status \in Ready /\ rows[m].attempts < MaxAttempts /\ Unblocked(m)
        /\ \A v \in Workers : v # w => txn[v] # m
    BY <1>1 DEF IInv, LockInv
  <1>3. PICK r \in Row, k \in {0, 1} :
            /\ rows' = [rows EXCEPT ![m] = r]
            /\ applied' = [applied EXCEPT ![m] = @ + k]
            /\ r.status = IF k = 1 THEN "published" ELSE "failed"
    <2>1. ClaimedRow(rows[m]) \in Row
      BY <1>1, <1>2, RowTypes
    <2>2. CASE /\ rows' = [rows EXCEPT ![m] = HandlerDone(@)]
               /\ applied' = [applied EXCEPT ![m] = @ + 1]
      <3>1. HandlerDone(rows[m]) \in Row /\ HandlerDone(rows[m]).status = "published"
        BY <2>1, RowTypes DEF HandlerDone
      <3> QED
        BY <1>1, <2>2, <3>1
    <2>3. CASE /\ \E d \in Delays : rows' = [rows EXCEPT ![m] = HandlerFailed(@, d)]
               /\ UNCHANGED applied
      <3>1. PICK d \in Delays : rows' = [rows EXCEPT ![m] = HandlerFailed(@, d)]
        BY <2>3
      <3>2. /\ HandlerFailed(rows[m], d) \in Row
            /\ HandlerFailed(rows[m], d).status = "failed"
        BY <2>1, RowTypes, ConstantTypes DEF HandlerFailed
      <3>3. applied' = [applied EXCEPT ![m] = @ + 0]
        BY <1>1, <2>3
      <3> DEFINE f == HandlerFailed(rows[m], d)
      <3>4. rows' = [rows EXCEPT ![m] = f] /\ f \in Row /\ f.status = "failed"
        BY <1>1, <3>1, <3>2
      <3> HIDE DEF f, m
      <3>5. f.status = IF 0 = 1 THEN "published" ELSE "failed"
        BY <3>4
      <3> QED
        BY <3>3, <3>4, <3>5
    <2> QED
      BY <2>2, <2>3 DEF Commit
  <1> HIDE DEF m
  <1>4. /\ rows'[m] = r /\ \A n \in Msgs : n # m => rows'[n] = rows[n]
        /\ applied'[m] = applied[m] + k /\ \A n \in Msgs : n # m => applied'[n] = applied[n]
        /\ applied' \in [Msgs -> Nat] /\ rows' \in [Msgs -> Row]
    BY <1>1, <1>3
  <1>5. TypeOK'
    BY <1>1, <1>4 DEF IInv, TypeOK
  <1>6. \A n \in Msgs : rows[n].status = "published" => rows'[n].status = "published"
    BY <1>2, <1>4 DEF Ready
  <1>7. \A n \in Msgs : Unblocked(n) => Unblocked(n)'
    BY <1>6, UnblockedStays
  <1>8. LockInv'
    <2> SUFFICES ASSUME NEW v \in Workers, txn'[v] # None
                 PROVE  /\ rows'[txn'[v]].status \in Ready
                        /\ rows'[txn'[v]].attempts < MaxAttempts
                        /\ \A e \in Earlier[txn'[v]] : rows'[e].status = "published"
                        /\ \A u \in Workers : u # v => txn'[u] # txn'[v]
      BY DEF LockInv, Unblocked
    <2>1. v # w /\ txn'[v] = txn[v] /\ txn[v] \in Msgs /\ txn[v] # m
      BY <1>1, <1>2
    <2> QED
      BY <1>1, <1>4, <1>7, <2>1 DEF IInv, LockInv, Unblocked
  <1>9. ClaimInv'
    <2> SUFFICES ASSUME NEW c \in claims
                 PROVE  /\ Unblocked(c.msg)' /\ rows'[c.msg].status # "absent"
                        /\ c.done = "delivered" => c.msg \in delivered
      BY <1>1 DEF ClaimInv, Unblocked
    <2>1. c.msg \in Msgs
      BY DEF IInv, TypeOK, Claimed
    <2> QED
      BY <1>3, <1>4, <1>7, <2>1 DEF IInv, ClaimInv
  <1>10. OrderInv'
    <2>1. \A n \in Msgs : Handled(n)' => Handled(n) \/ n = m
      BY <1>1, <1>4 DEF Handled
    <2> QED
      BY <1>2, <1>7, <2>1 DEF IInv, OrderInv
  <1>11. HandledOnce'
    <2>1. applied[m] = 0
      BY <1>1, <1>2 DEF IInv, HandledOnce, Ready
    <2> QED
      BY <1>1, <1>3, <1>4, <2>1 DEF IInv, HandledOnce, Handled
  <1> QED
    BY <1>5, <1>8, <1>9, <1>10, <1>11 DEF IInv

\* A crash gives up the lock and nothing else.
LEMMA CrashStep ==
    ASSUME IInv, NEW w \in Workers, Crash(w)
    PROVE  IInv'
  <1>1. TypeOK'
    BY ConstantTypes DEF IInv, TypeOK, Crash
  <1>2. LockInv'
    BY DEF IInv, TypeOK, LockInv, Crash, Unblocked
  <1>3. ClaimInv' /\ OrderInv' /\ HandledOnce'
    BY DEF IInv, ClaimInv, OrderInv, HandledOnce, Handled, Unblocked, Crash
  <1> QED
    BY <1>1, <1>2, <1>3 DEF IInv

\* The inductive invariant holds at the start.
LEMMA InitIInv == Init => IInv
  <1> SUFFICES ASSUME Init PROVE IInv
    OBVIOUS
  <1>1. AbsentRow \in Row /\ AbsentRow.status = "absent"
    BY ConstantTypes DEF AbsentRow, Row, Status, Ready
  <1>2. TypeOK
    BY <1>1, ConstantTypes DEF Init, TypeOK
  <1>3. LockInv /\ ClaimInv /\ OrderInv /\ HandledOnce
    BY <1>1 DEF Init, LockInv, ClaimInv, OrderInv, HandledOnce, Handled
  <1> QED
    BY <1>2, <1>3 DEF IInv

\* Every step keeps it.
LEMMA NextIInv == IInv /\ [Next]_vars => IInv'
  <1> SUFFICES ASSUME IInv, [Next]_vars PROVE IInv'
    OBVIOUS
  <1>1. CASE UNCHANGED vars
    BY <1>1 DEF vars, IInv, TypeOK, LockInv, ClaimInv, OrderInv, HandledOnce, Handled, Unblocked
  <1>2. CASE Next
    BY <1>2, ClaimBatchStep, RecoverStep, TickStep, AddStep, MarkStep, DeliverStep,
       BeginStep, CommitStep, CrashStep DEF Next
  <1> QED
    BY <1>1, <1>2

\* The invariant holds in every reachable state.
LEMMA InvariantHolds == Spec => []IInv
  BY InitIInv, NextIInv, PTL DEF Spec

\* The columns keep their domains, the attempts of a claim their maximum, for any number
\* of messages and workers.
THEOREM TypeCorrect == Spec => []TypeOK
  <1>1. IInv => TypeOK
    BY DEF IInv
  <1> QED
    BY <1>1, InvariantHolds, PTL

\* claim_batch's promise: whatever late holders of claims mark, no version of an aggregate
\* is handed over or handled before every earlier one.
THEOREM OrderKept == Spec => []AggregateOrder
  <1>1. IInv => AggregateOrder
    BY ConstantTypes DEF IInv, OrderInv, HandledOnce, AggregateOrder, Unblocked
  <1> QED
    BY <1>1, InvariantHolds, PTL

\* The effect of an internal handler is committed at most once and only with its message's
\* publication, and nothing is published that nobody handled.
THEOREM EffectsCommittedOnce == Spec => []HandledOnce
  <1>1. IInv => HandledOnce
    BY DEF IInv
  <1> QED
    BY <1>1, InvariantHolds, PTL
=============================================================================
