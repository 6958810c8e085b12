------------------------- MODULE LeasedOutboxProofs -------------------------
(* Safety of leased delivery for any messages, workers, contents and timing. *)
EXTENDS LeasedOutbox, TLAPS

\* The constants, one fact each.
LEMMA ConstantTypes ==
    /\ MaxAttempts \in Nat \ {0} /\ DefaultBudget \in Nat \ {0}
    /\ ReplayGrant \in Nat \ {0} /\ MaxReplayAttempts \in Nat \ {0}
    /\ LeaseSeconds \in Nat \ {0} /\ MaxAge \in Nat \ {0}
    /\ ChallengeSeconds \in Nat \ {0} /\ KeyWindow \in Nat \ {0}
    /\ PrepareSeconds \in Nat /\ SendSeconds \in Nat /\ DbSeconds \in Nat
    /\ LockWait \in Nat /\ RetryAfterMax \in Nat
    /\ MaxAttempts <= MaxReplayAttempts /\ DefaultBudget <= MaxReplayAttempts
    /\ Stalls \in BOOLEAN
    /\ None = -1 /\ None \notin Nat
  BY DurationAssumption DEF None

\* A worker is idle on an arbitrary message.
LEMMA IdleType ==
    ASSUME NEW c \in Contents \cup {NoContent}
    PROVE  /\ Idle(c) \in Worker
           /\ Idle(c).pc = "idle"
  <1>1. (CHOOSE m \in Msgs : TRUE) \in Msgs
    BY MessageAssumption
  <1> QED
    BY <1>1, ConstantTypes DEF Idle, Worker, Stages, Kinds

\* The row of a message not yet enqueued is of the type of rows.
LEMMA AbsentRowType == AbsentRow \in Row
  BY ConstantTypes DEF AbsentRow, Row

\* The smaller of two numbers is a number below both.
LEMMA MinOfType ==
    ASSUME NEW a \in Nat, NEW b \in Nat
    PROVE  MinOf(a, b) \in Nat /\ MinOf(a, b) <= a /\ MinOf(a, b) <= b
  BY DEF MinOf

\* Giving a row up changes its status only, to one of the statuses.
LEMMA GiveUpType ==
    ASSUME NEW r \in Row, NEW s \in Statuses
    PROVE  /\ GiveUp(r, s) \in Row
           /\ GiveUp(r, s) = [r EXCEPT !.status = GiveUp(r, s).status]
           /\ GiveUp(r, s).status \in {s, "uncertain"}
           /\ r.fp = NoContent => GiveUp(r, s).status = s
  BY DEF GiveUp, Row, Statuses

\* Clearing a lease removes token and expiry together.
LEMMA ClearLeaseType ==
    ASSUME NEW r \in Row
    PROVE  /\ ClearLease(r) \in Row
           /\ ClearLease(r).token = None /\ ClearLease(r).lease = None
  BY DEF ClearLease, Row

\* Every outcome leads to a status, and to "failed" only with an attempt left.
LEMMA NextStatusType ==
    ASSUME NEW kind \in Kinds, NEW a \in Nat, NEW b \in Nat
    PROVE  /\ NextStatus(kind, a, b) \in
                {"published", "skipped", "blocked", "dead", "failed", "uncertain"}
           /\ NextStatus(kind, a, b) = "failed" => a < b
           /\ NextStatus(kind, a, b) = "published" <=> kind = "accepted"
  BY DEF NextStatus, Kinds

\* Retry delays are numbers.
LEMMA NextDelayType ==
    ASSUME NEW a, NEW b, NEW d \in NextDelay(a, b)
    PROVE  d \in Nat
  BY DEF NextDelay

\* The earlier versions of a message are messages.
LEMMA EarlierType == \A m \in Msgs : \A e \in Earlier[m] : e \in Msgs
  BY MessageAssumption

\* Stage clocks are numbers.
LEMMA StampType ==
    ASSUME NEW t \in Nat
    PROVE  Stamp(t) \in Nat /\ (~Stalls => Stamp(t) = t)
  BY DEF Stamp

-----------------------------------------------------------------------------
(* Steps of one worker that write no row: its claim stays as it is or ends. *)

\* A worker that becomes idle disturbs nothing.
LEMMA ToIdle ==
    ASSUME IInv, NEW w \in Workers, NEW c \in Contents \cup {NoContent},
           worker' = [worker EXCEPT ![w] = Idle(c)],
           UNCHANGED <<now, rows, paused, consumed, provider>>
    PROVE  IInv'
  <1> USE DEF IInv
  <1>0. /\ worker' \in [Workers -> Worker]
        /\ ~Busy(w)' /\ worker'[w].pc = "idle"
        /\ \A v \in Workers : v # w => worker'[v] = worker[v]
    BY IdleType DEF TypeOK, Busy
  <1>1. TypeOK' /\ RowInv' /\ BudgetRespected'
    BY <1>0 DEF TypeOK, RowInv, BudgetRespected
  <1>2. ClaimInv'
    BY <1>0 DEF ClaimInv, Busy, RowOf
  <1>3. OrderInv'
    BY <1>0 DEF OrderInv, Busy
  <1>4. ContentInv'
    BY <1>0 DEF ContentInv, RowOf
  <1>5. ReceiptInv'
    BY <1>0 DEF ReceiptInv, PublishedMeansSent
  <1>6. TimelyInv'
    BY <1>0 DEF TimelyInv, InTime, RowOf, Guarded, StageLimit
  <1> QED
    BY <1>1, <1>2, <1>3, <1>4, <1>5, <1>6

\* The provider's part of a step: every email it has sent carries the content bound
\* to its row, and none is forgotten.
ProviderKeeps ==
    /\ provider' \in [Msgs -> [Requests -> Key]]
    /\ \A m \in Msgs, i \in Requests :
         /\ provider'[m][i].sent >= provider[m][i].sent
         /\ provider'[m][i].sent > 0 =>
              /\ rows[m].status # "absent"
              /\ rows[m].fp \in Contents /\ provider'[m][i].fp = rows[m].fp
              /\ rows[m].occurred <= provider'[m][i].at

\* Emails already sent stay sent when a step leaves the provider alone.
LEMMA UnchangedProviderKeeps ==
    ASSUME IInv, UNCHANGED provider
    PROVE  ProviderKeeps
  BY DEF IInv, TypeOK, Key, ContentInv, ProviderKeeps

\* A submission of bound content adds an email for its own request at most.
LEMMA SubmitKeeps ==
    ASSUME IInv, NEW w \in Workers, worker[w].pc = "sending", NEW i \in Requests,
           Submit(worker[w].msg, i, worker[w].fp)
    PROVE  ProviderKeeps /\ provider'[worker[w].msg][i].sent > 0
  <1> DEFINE m == worker[w].msg
             p == provider[m][i]
             q == IF Remembered(p) THEN p
                  ELSE [fp |-> worker[w].fp, at |-> now, sent |-> p.sent + 1]
  <1> USE DEF IInv
  <1>1. /\ m \in Msgs /\ p \in Key /\ now \in Nat
        /\ worker[w].fp \in Contents /\ worker[w].fp = rows[m].fp
        /\ rows[m].status # "absent" /\ rows[m].occurred <= now
    BY DEF TypeOK, Worker, ContentInv, RowOf, ClaimInv, Busy, RowInv
  <1>2. q \in Key /\ q.sent > 0 /\ q.sent >= p.sent
    BY <1>1 DEF Key, Remembered
  <1>3. q.fp = rows[m].fp /\ rows[m].occurred <= q.at
    BY <1>1 DEF ContentInv, Remembered, Key
  <1>4. provider' = [provider EXCEPT ![m][i] = q]
    BY <1>1 DEF Submit, TypeOK
  <1>5. /\ provider' \in [Msgs -> [Requests -> Key]]
        /\ provider'[m][i] = q
        /\ \A n \in Msgs, j \in Requests :
              n # m \/ j # i => provider'[n][j] = provider[n][j]
    BY <1>1, <1>2, <1>4 DEF TypeOK
  <1>6. ASSUME NEW n \in Msgs, NEW j \in Requests
        PROVE  /\ provider'[n][j].sent >= provider[n][j].sent
               /\ provider'[n][j].sent > 0 =>
                    /\ rows[n].status # "absent"
                    /\ rows[n].fp \in Contents /\ provider'[n][j].fp = rows[n].fp
                    /\ rows[n].occurred <= provider'[n][j].at
    <2>1. CASE n = m /\ j = i
      BY <2>1, <1>1, <1>2, <1>3, <1>5
    <2>2. CASE n # m \/ j # i
      <3>1. provider[n][j] \in Key
        BY DEF TypeOK
      <3> QED
        BY <2>2, <3>1, <1>5 DEF ContentInv, Key
    <2> QED
      BY <2>1, <2>2
  <1> QED
    BY <1>2, <1>5, <1>6 DEF ProviderKeeps

\* Requests that count as sent stay sent, and receipts are receipts of requests.
LEMMA SentStays ==
    ASSUME IInv, ProviderKeeps
    PROVE  /\ \A m \in Msgs, i \in Requests :
                provider[m][i].sent > 0 => provider'[m][i].sent > 0
           /\ \A m \in Msgs : rows[m].receipts \subseteq Requests
           /\ \A w \in Workers : /\ worker[w].receipts \subseteq Requests
                                 /\ worker[w].msg \in Msgs
  <1> USE DEF IInv, TypeOK
  <1>1. ASSUME NEW m \in Msgs, NEW i \in Requests, provider[m][i].sent > 0
        PROVE  provider'[m][i].sent > 0
    <2>1. provider[m][i] \in Key /\ provider'[m][i] \in Key
      BY DEF ProviderKeeps
    <2> QED
      BY <1>1, <2>1 DEF ProviderKeeps, Key
  <1>2. \A m \in Msgs : rows[m].receipts \subseteq Requests
    BY DEF Row
  <1>3. \A w \in Workers : worker[w].receipts \subseteq Requests /\ worker[w].msg \in Msgs
    BY DEF Worker
  <1> QED
    BY <1>1, <1>2, <1>3

\* A worker that concludes its attempt keeps its claim; its receipts are ones it had,
\* and it reports "accepted" only with all of them.
LEMMA ToFinalizing ==
    ASSUME IInv, NEW w \in Workers, Busy(w),
           NEW k \in Kinds, NEW after \in Nat, NEW R \in SUBSET Requests,
           Conclude(w, k, after, R), R \subseteq worker[w].receipts,
           k = "accepted" => R = Requests,
           ProviderKeeps, UNCHANGED <<now, rows, paused, consumed>>
    PROVE  IInv'
  <1> USE DEF IInv
  <1> DEFINE l == [worker[w] EXCEPT !.pc = "finalizing", !.kind = k,
                                    !.retryAfter = after, !.receipts = R]
  <1>a. worker \in [Workers -> Worker] /\ worker[w] \in Worker /\ R \in SUBSET Requests
    BY DEF TypeOK, Worker
  <1>b. worker' = [worker EXCEPT ![w] = l]
    BY <1>a DEF Conclude
  <1>c. /\ l \in Worker /\ l.pc = "finalizing" /\ l.kind = k /\ l.receipts = R
        /\ l.msg = worker[w].msg /\ l.token = worker[w].token
        /\ l.deadline = worker[w].deadline
    BY <1>a DEF Worker, Stages
  <1> HIDE DEF l
  <1>0. /\ worker' \in [Workers -> Worker]
        /\ worker'[w].pc = "finalizing" /\ worker'[w].kind = k
        /\ worker'[w].receipts = R
        /\ worker'[w].msg = worker[w].msg /\ worker'[w].token = worker[w].token
        /\ worker'[w].deadline = worker[w].deadline
        /\ \A v \in Workers : v # w => worker'[v] = worker[v]
    BY <1>a, <1>b, <1>c
  <1>1. TypeOK' /\ RowInv' /\ BudgetRespected'
    BY <1>0 DEF TypeOK, RowInv, BudgetRespected, ProviderKeeps
  <1>2. ClaimInv'
    BY <1>0 DEF ClaimInv, Busy, RowOf
  <1>3. OrderInv'
    BY <1>0 DEF OrderInv, Busy
  <1>4. ContentInv'
    <2>1. \A m \in Msgs, i \in Requests : provider'[m][i].sent > 0 =>
              /\ rows[m].status # "absent"
              /\ rows[m].fp \in Contents /\ provider'[m][i].fp = rows[m].fp
              /\ rows[m].occurred <= provider'[m][i].at
      BY DEF ProviderKeeps
    <2>2. \A v \in Workers : worker'[v].pc \in {"prepared", "bound", "sending"}
                                => worker'[v] = worker[v]
      BY <1>0
    <2> QED
      BY <1>0, <2>1, <2>2 DEF ContentInv, RowOf
  <1>5. ReceiptInv'
    BY <1>0, SentStays DEF ReceiptInv, PublishedMeansSent, Busy
  <1>6. TimelyInv'
    BY <1>0 DEF TimelyInv, InTime, RowOf, Guarded, StageLimit
  <1> QED
    BY <1>1, <1>2, <1>3, <1>4, <1>5, <1>6

\* Steps of a claim that go on: prepared, bound after the bind, sending.
LEMMA PreparedStep ==
    ASSUME IInv, NEW w \in Workers, Prepared(w)
    PROVE  IInv'
  <1> USE DEF IInv
  <1> DEFINE l == [worker[w] EXCEPT !.pc = "prepared", !.fp = worker[w].cfg, !.since = Stamp(now)]
  <1>a. /\ worker \in [Workers -> Worker] /\ worker[w] \in Worker /\ Stamp(now) \in Nat
        /\ worker[w].pc = "claimed" /\ UNCHANGED <<now, rows, paused, consumed, provider>>
    BY StampType DEF TypeOK, Prepared
  <1>b. worker' = [worker EXCEPT ![w] = l]
    BY <1>a DEF Prepared
  <1>c. /\ l \in Worker /\ l.pc = "prepared" /\ l.msg = worker[w].msg /\ l.token = worker[w].token
        /\ l.deadline = worker[w].deadline /\ l.receipts = worker[w].receipts
        /\ l.since = Stamp(now) /\ l.fp \in Contents
    BY <1>a DEF Worker, Stages, Prepared
  <1> HIDE DEF l
  <1>0. /\ worker' \in [Workers -> Worker]
        /\ Busy(w) /\ worker[w].pc = "claimed"
        /\ worker'[w].pc = "prepared" /\ worker'[w].fp \in Contents
        /\ worker'[w].msg = worker[w].msg /\ worker'[w].token = worker[w].token
        /\ worker'[w].deadline = worker[w].deadline
        /\ worker'[w].receipts = worker[w].receipts
        /\ worker'[w].since = Stamp(now)
        /\ \A v \in Workers : v # w => worker'[v] = worker[v]
        /\ UNCHANGED <<now, rows, paused, consumed, provider>>
    BY <1>a, <1>b, <1>c DEF Busy
  <1>1. TypeOK' /\ RowInv' /\ BudgetRespected'
    BY <1>0 DEF TypeOK, RowInv, BudgetRespected
  <1>2. ClaimInv'
    BY <1>0 DEF ClaimInv, Busy, RowOf
  <1>3. OrderInv'
    BY <1>0 DEF OrderInv, Busy
  <1>4. ContentInv'
    BY <1>0 DEF ContentInv, RowOf
  <1>5. ReceiptInv'
    BY <1>0 DEF ReceiptInv, PublishedMeansSent, Busy
  <1>6. TimelyInv'
    <2> SUFFICES ASSUME ~Stalls, NEW v \in Workers, worker'[v].pc \in Guarded
                 PROVE  InTime(v)'
      BY DEF TimelyInv, InTime
    <2>1. CASE v # w
      BY <2>1, <1>0 DEF TimelyInv, InTime, RowOf, StageLimit
    <2>2. CASE v = w
      <3>1. /\ RowOf(w).token = worker[w].token /\ RowOf(w).status = "processing"
            /\ now <= worker[w].since + (DbSeconds + PrepareSeconds)
            /\ worker[w].since + (DbSeconds + PrepareSeconds + DbSeconds + SendSeconds)
                 < RowOf(w).lease
        BY <1>0 DEF TimelyInv, InTime, Guarded, StageLimit, TimeLeft
      <3>2. /\ worker'[w].since = now /\ StageLimit(worker'[w]) = DbSeconds
            /\ TimeLeft(worker'[w].pc) = DbSeconds + SendSeconds
        BY <1>0, StampType DEF TypeOK, StageLimit, TimeLeft
      <3>3. worker[w].since \in Nat /\ now \in Nat /\ RowOf(w).lease \in Nat \cup {None}
        BY DEF TypeOK, Worker, Row, RowOf
      <3> QED
        BY <1>0, <2>2, <3>1, <3>2, <3>3, ConstantTypes DEF RowOf, InTime
    <2> QED
      BY <2>1, <2>2
  <1> QED
    BY <1>1, <1>2, <1>3, <1>4, <1>5, <1>6

\* A worker that starts to send has bound its content and owns its row.
LEMMA StartSendingStep ==
    ASSUME IInv, NEW w \in Workers, StartSending(w)
    PROVE  IInv'
  <1> USE DEF IInv
  <1> DEFINE l == [worker[w] EXCEPT !.pc = "sending", !.since = Stamp(now)]
  <1>a. /\ worker \in [Workers -> Worker] /\ worker[w] \in Worker /\ Stamp(now) \in Nat
        /\ worker[w].pc = "bound" /\ UNCHANGED <<now, rows, paused, consumed, provider>>
    BY StampType DEF TypeOK, StartSending
  <1>b. worker' = [worker EXCEPT ![w] = l]
    BY <1>a DEF StartSending
  <1>c. /\ l \in Worker /\ l.pc = "sending" /\ l.msg = worker[w].msg /\ l.token = worker[w].token
        /\ l.deadline = worker[w].deadline /\ l.receipts = worker[w].receipts
        /\ l.since = Stamp(now) /\ l.fp = worker[w].fp
    BY <1>a DEF Worker, Stages
  <1> HIDE DEF l
  <1>0. /\ worker' \in [Workers -> Worker]
        /\ Busy(w) /\ worker[w].pc = "bound"
        /\ worker'[w].pc = "sending" /\ worker'[w].fp = worker[w].fp
        /\ worker'[w].msg = worker[w].msg /\ worker'[w].token = worker[w].token
        /\ worker'[w].deadline = worker[w].deadline
        /\ worker'[w].receipts = worker[w].receipts
        /\ worker'[w].since = Stamp(now)
        /\ \A v \in Workers : v # w => worker'[v] = worker[v]
        /\ UNCHANGED <<now, rows, paused, consumed, provider>>
    BY <1>a, <1>b, <1>c DEF Busy
  <1>1. TypeOK' /\ RowInv' /\ BudgetRespected'
    BY <1>0 DEF TypeOK, RowInv, BudgetRespected
  <1>2. ClaimInv'
    BY <1>0 DEF ClaimInv, Busy, RowOf
  <1>3. OrderInv'
    BY <1>0 DEF OrderInv, Busy
  <1>4. ContentInv'
    BY <1>0 DEF ContentInv, RowOf
  <1>5. ReceiptInv'
    BY <1>0 DEF ReceiptInv, PublishedMeansSent, Busy
  <1>6. TimelyInv'
    <2> SUFFICES ASSUME ~Stalls, NEW v \in Workers, worker'[v].pc \in Guarded
                 PROVE  InTime(v)'
      BY DEF TimelyInv, InTime
    <2>1. CASE v # w
      BY <2>1, <1>0 DEF TimelyInv, InTime, RowOf, StageLimit
    <2>2. CASE v = w
      <3>1. /\ RowOf(w).token = worker[w].token /\ RowOf(w).status = "processing"
            /\ now <= worker[w].since + DbSeconds
            /\ worker[w].since + (DbSeconds + SendSeconds) < RowOf(w).lease
        BY <1>0 DEF TimelyInv, InTime, Guarded, StageLimit, TimeLeft
      <3>2. /\ worker'[w].since = now /\ StageLimit(worker'[w]) = SendSeconds
            /\ TimeLeft(worker'[w].pc) = SendSeconds
        BY <1>0, StampType DEF TypeOK, StageLimit, TimeLeft
      <3>3. /\ worker[w].since \in Nat /\ now \in Nat /\ RowOf(w).lease \in Nat \cup {None}
            /\ worker[w].deadline \in Nat /\ ExpiresAt(RowOf(w)) \in Nat
        BY ConstantTypes DEF TypeOK, Worker, Row, RowOf, ExpiresAt
      <3>4. now < worker[w].deadline
        BY <3>3 DEF StartSending, BindDeadline, MinOf, RowOf
      <3> QED
        BY <1>0, <2>2, <3>1, <3>2, <3>3, <3>4, ConstantTypes DEF RowOf, InTime
    <2> QED
      BY <2>1, <2>2
  <1> QED
    BY <1>1, <1>2, <1>3, <1>4, <1>5, <1>6

\* An allowed bind fixes the content of the row and keeps its deadline or lowers it.
LEMMA BindAllowedStep ==
    ASSUME IInv, NEW w \in Workers, BindAllowed(w)
    PROVE  IInv'
  <1> DEFINE m == worker[w].msg
             d == BindDeadline(worker[w])
  <1> USE DEF IInv
  <1>0. /\ worker[w] \in Worker /\ m \in Msgs /\ rows[m] \in Row /\ now \in Nat
        /\ Busy(w) /\ worker[w].pc = "prepared" /\ worker[w].fp \in Contents
        /\ rows[m].token = worker[w].token /\ rows[m].status = "processing"
        /\ rows[m].fp \in {NoContent, worker[w].fp}
    BY DEF TypeOK, Worker, BindAllowed, Busy, Owned, ContentChanged, ContentInv
  <1>1. /\ d \in Nat /\ d <= worker[w].deadline
    BY <1>0, ConstantTypes DEF BindDeadline, ExpiresAt, MinOf, Row, Worker
  <1>2. /\ worker' \in [Workers -> Worker]
        /\ worker'[w].pc = "bound" /\ worker'[w].fp = worker[w].fp
        /\ worker'[w].msg = m /\ worker'[w].token = worker[w].token
        /\ worker'[w].deadline = worker[w].deadline
        /\ worker'[w].receipts = worker[w].receipts
        /\ worker'[w].since = worker[w].since
        /\ \A v \in Workers : v # w => worker'[v] = worker[v]
        /\ \A v \in Workers : worker[v].msg \in Msgs
    BY <1>0 DEF TypeOK, BindAllowed, Worker, Stages
  <1>3. /\ rows' \in [Msgs -> Row]
        /\ rows'[m] = [rows[m] EXCEPT !.fp = worker[w].fp, !.deadline = d]
        /\ rows'[m].fp = worker[w].fp /\ rows'[m].deadline = d
        /\ \A n \in Msgs : n # m => rows'[n] = rows[n]
        /\ UNCHANGED <<now, paused, consumed, provider>>
    BY <1>0, <1>1 DEF TypeOK, BindAllowed, Row
  <1>4. ASSUME NEW n \in Msgs
        PROVE  /\ rows'[n].status = rows[n].status
               /\ rows'[n].token = rows[n].token
               /\ rows'[n].lease = rows[n].lease
               /\ rows'[n].attempts = rows[n].attempts
               /\ rows'[n].budget = rows[n].budget
               /\ rows'[n].occurred = rows[n].occurred
               /\ rows'[n].receipts = rows[n].receipts
               /\ rows[n].fp # NoContent => rows'[n].fp = rows[n].fp
    <2>1. CASE n = m
      BY <2>1, <1>0, <1>3 DEF Row
    <2>2. CASE n # m
      BY <2>2, <1>3
    <2> QED
      BY <2>1, <2>2
  <1>5. /\ rows'[m].fp = worker[w].fp /\ rows'[m].deadline = d
        /\ \A n \in Msgs : n # m => rows'[n] = rows[n]
        /\ UNCHANGED <<now, provider>>
    BY <1>3
  <1>6. TypeOK' /\ BudgetRespected'
    BY <1>2, <1>3, <1>4 DEF TypeOK, BudgetRespected
  <1>7. RowInv'
    <2>1. d <= rows[m].occurred + MaxAge
      BY <1>0, <1>1, ConstantTypes DEF ClaimInv, RowOf, Row, Worker
    <2>2. d # None
      BY <1>1, ConstantTypes
    <2> QED
      BY <1>4, <1>5, <2>1, <2>2 DEF RowInv
  <1>8. ClaimInv'
    BY <1>0, <1>2, <1>4, <1>5 DEF ClaimInv, Busy, RowOf
  <1>9. OrderInv'
    <2> SUFFICES ASSUME NEW v \in Workers, Busy(v)', NEW e \in Earlier[worker'[v].msg]
                 PROVE  rows'[e].status \in Done
      BY DEF OrderInv
    <2>1. worker'[v].msg = worker[v].msg /\ Busy(v)
      BY <1>0, <1>2 DEF Busy
    <2> QED
      BY <1>2, <1>4, <2>1, EarlierType DEF OrderInv
  <1>10. ContentInv'
    <2>1. \A v \in Workers : worker'[v].pc \in {"prepared", "bound", "sending"}
                               => worker'[v].fp \in Contents
      BY <1>0, <1>2 DEF ContentInv
    <2>2. \A v \in Workers : worker'[v].pc \in {"bound", "sending"}
                               => worker'[v].fp = RowOf(v)'.fp
      BY <1>0, <1>2, <1>4, <1>5, MessageAssumption DEF ContentInv, RowOf
    <2>3. \A n \in Msgs, i \in Requests : provider'[n][i].sent > 0 =>
            /\ rows'[n].status # "absent"
            /\ rows'[n].fp \in Contents /\ provider'[n][i].fp = rows'[n].fp
            /\ rows'[n].occurred <= provider'[n][i].at
      BY <1>4, <1>5, MessageAssumption DEF ContentInv
    <2> QED
      BY <2>1, <2>2, <2>3 DEF ContentInv
  <1>11. ReceiptInv'
    BY <1>0, <1>2, <1>4, <1>5 DEF ReceiptInv, PublishedMeansSent, Busy
  <1>12. TimelyInv'
    <2> SUFFICES ASSUME ~Stalls, NEW v \in Workers
                 PROVE  InTime(v)'
      BY DEF TimelyInv
    <2>1. InTime(v) /\ RowOf(v)' = rows'[worker'[v].msg] /\ worker[v].msg \in Msgs
      BY DEF TimelyInv, RowOf, TypeOK, Worker
    <2>2. CASE v # w
      BY <2>1, <2>2, <1>2, <1>3, <1>4 DEF InTime, RowOf, StageLimit
    <2>3. CASE v = w
      BY <2>1, <2>3, <1>0, <1>2, <1>3, <1>4 DEF InTime, RowOf, StageLimit, TimeLeft, Guarded
    <2> QED
      BY <2>2, <2>3
  <1> QED
    BY <1>6, <1>7, <1>8, <1>9, <1>10, <1>11, <1>12

\* An accepted request is submitted with the bound content and in time.
LEMMA SendAcceptedStep ==
    ASSUME IInv, NEW w \in Workers, SendAccepted(w)
    PROVE  IInv'
  <1> USE DEF IInv
  <1>0. PICK i \in Requests : /\ Submit(worker[w].msg, i, worker[w].fp)
                              /\ worker' = [worker EXCEPT ![w].receipts = @ \cup {i}]
    BY DEF SendAccepted
  <1>1. /\ worker[w].pc = "sending" /\ Busy(w)
        /\ UNCHANGED <<now, rows, paused, consumed>>
    BY DEF SendAccepted, Busy
  <1>2. ProviderKeeps /\ provider'[worker[w].msg][i].sent > 0
    BY <1>0, <1>1, SubmitKeeps
  <1> DEFINE R == worker[w].receipts \cup {i}
             l == [worker[w] EXCEPT !.receipts = R]
  <1>a. worker \in [Workers -> Worker] /\ worker[w] \in Worker /\ R \in SUBSET Requests
    BY <1>0 DEF TypeOK, Worker
  <1>b. worker' = [worker EXCEPT ![w] = l]
    BY <1>0, <1>a DEF Worker
  <1> HIDE DEF R
  <1>c. /\ l \in Worker /\ l.receipts = R /\ l.pc = worker[w].pc /\ l.msg = worker[w].msg
        /\ l.token = worker[w].token /\ l.deadline = worker[w].deadline
        /\ l.fp = worker[w].fp /\ l.since = worker[w].since /\ l.kind = worker[w].kind
    BY <1>a DEF Worker
  <1> HIDE DEF l
  <1>3. /\ worker' \in [Workers -> Worker]
        /\ worker'[w].receipts = worker[w].receipts \cup {i}
        /\ \A v \in Workers : v # w => worker'[v] = worker[v]
        /\ \A v \in Workers : /\ worker'[v].pc = worker[v].pc
                              /\ worker'[v].msg = worker[v].msg
                              /\ worker'[v].token = worker[v].token
                              /\ worker'[v].deadline = worker[v].deadline
                              /\ worker'[v].fp = worker[v].fp
                              /\ worker'[v].since = worker[v].since
    BY <1>a, <1>b, <1>c DEF R
  <1>4. TypeOK' /\ RowInv' /\ BudgetRespected'
    BY <1>1, <1>2, <1>3 DEF TypeOK, RowInv, BudgetRespected, ProviderKeeps
  <1>5. ClaimInv' /\ OrderInv'
    BY <1>1, <1>3 DEF ClaimInv, OrderInv, Busy, RowOf
  <1>6. ContentInv'
    BY <1>1, <1>2, <1>3 DEF ContentInv, RowOf, ProviderKeeps
  <1>7. ReceiptInv'
    BY <1>1, <1>2, <1>3, SentStays DEF ReceiptInv, PublishedMeansSent, Busy
  <1>8. TimelyInv'
    BY <1>1, <1>3 DEF TimelyInv, InTime, RowOf, StageLimit
  <1> QED
    BY <1>4, <1>5, <1>6, <1>7, <1>8

-----------------------------------------------------------------------------
(* Steps in which the owner of a row ends its claim.                       *)

\* The owner writes its row back without token and lease and becomes idle.  No other
\* worker holds the row's token, so none that keeps its timeouts works on the row.
LEMMA OwnerEnds ==
    ASSUME IInv, NEW w \in Workers, Busy(w), Owned(worker[w]),
           NEW r \in Row, rows' = [rows EXCEPT ![worker[w].msg] = r], Release(w),
           r.token = None, r.lease = None,
           r.status \in Statuses \ {"processing", "pending"},
           r.occurred = RowOf(w).occurred, r.attempts = RowOf(w).attempts,
           r.budget = RowOf(w).budget, r.fp = RowOf(w).fp,
           r.receipts \subseteq RowOf(w).receipts \cup worker[w].receipts,
           r.deadline # None, r.deadline <= RowOf(w).occurred + MaxAge,
           r.status = "failed" => r.attempts < r.budget,
           r.status = "published" => r.receipts = Requests,
           paused' \in BOOLEAN, UNCHANGED <<now, consumed, provider>>
    PROVE  IInv'
  <1> DEFINE m == worker[w].msg
  <1> USE DEF IInv
  <1>0. /\ m \in Msgs /\ rows[m] \in Row /\ now \in Nat
        /\ rows[m].token = worker[w].token /\ rows[m].status = "processing"
        /\ worker[w].cfg \in Contents \cup {NoContent}
        /\ \A v \in Workers : worker[v].msg \in Msgs /\ worker[v].token \in Nat \cup {None}
    BY DEF TypeOK, Worker, Owned
  <1>1. /\ worker' \in [Workers -> Worker]
        /\ worker'[w].pc = "idle" /\ ~Busy(w)'
        /\ \A v \in Workers : v # w => worker'[v] = worker[v]
    BY <1>0, IdleType DEF TypeOK, Release, Busy
  <1>2. /\ rows' \in [Msgs -> Row] /\ rows'[m] = r
        /\ \A n \in Msgs : n # m => rows'[n] = rows[n]
    BY <1>0 DEF TypeOK
  <1>3. /\ r.occurred = rows[m].occurred /\ r.attempts = rows[m].attempts
        /\ r.budget = rows[m].budget /\ r.fp = rows[m].fp
        /\ r.receipts \subseteq rows[m].receipts \cup worker[w].receipts
        /\ r.deadline <= rows[m].occurred + MaxAge
        /\ r.status # "processing" /\ r.status # "pending" /\ r.status # "absent"
    BY DEF RowOf, Statuses
  <1>4. TypeOK'
    BY <1>1, <1>2 DEF TypeOK
  <1>5. RowInv' /\ BudgetRespected'
    BY <1>0, <1>2, <1>3 DEF RowInv, BudgetRespected, Ready
  <1>6. ClaimInv'
    BY <1>0, <1>1, <1>2, <1>3 DEF ClaimInv, Busy, RowOf
  <1>7. OrderInv'
    <2> SUFFICES ASSUME NEW v \in Workers, Busy(v)', NEW e \in Earlier[worker'[v].msg]
                 PROVE  rows'[e].status \in Done
      BY DEF OrderInv
    <2>1. worker'[v].msg = worker[v].msg /\ Busy(v)
      BY <1>1 DEF Busy
    <2>2. rows[e].status \in Done /\ e \in Msgs
      BY <1>0, <2>1, EarlierType DEF OrderInv
    <2> QED
      BY <1>0, <1>2, <2>2 DEF Done
  <1>8. ContentInv'
    BY <1>0, <1>1, <1>2, <1>3 DEF ContentInv, RowOf
  <1>9. ReceiptInv'
    BY <1>0, <1>1, <1>2, <1>3 DEF ReceiptInv, PublishedMeansSent, Busy
  <1>10. TimelyInv'
    <2> SUFFICES ASSUME ~Stalls, NEW v \in Workers, worker'[v].pc \in Guarded
                 PROVE  InTime(v)'
      BY DEF TimelyInv, InTime
    <2>1. v # w /\ worker'[v] = worker[v]
      BY <1>1 DEF Guarded
    <2>2. InTime(v) /\ RowOf(v).token = worker[v].token /\ Busy(v)
      BY <2>1 DEF TimelyInv, InTime, Busy, Guarded
    <2>3. worker[v].msg # m
      BY <1>0, <2>1, <2>2 DEF ClaimInv, RowOf
    <2>4. RowOf(v)' = RowOf(v)
      BY <1>0, <1>2, <2>1, <2>3 DEF RowOf
    <2> QED
      BY <2>1, <2>2, <2>4 DEF InTime, StageLimit
  <1> QED
    BY <1>4, <1>5, <1>6, <1>7, <1>8, <1>9, <1>10

\* A bind refused over changed content parks the row as blocked.
LEMMA BindChangedStep ==
    ASSUME IInv, NEW w \in Workers, BindChanged(w)
    PROVE  IInv'
  <1> DEFINE r == ClearLease([RowOf(w) EXCEPT !.status = "blocked"])
  <1>1. RowOf(w) \in Row /\ worker[w] \in Worker /\ Busy(w) /\ Owned(worker[w])
    BY DEF IInv, TypeOK, BindChanged, RowOf, Worker, Busy
  <1>2. RowOf(w).deadline # None /\ RowOf(w).deadline <= RowOf(w).occurred + MaxAge
    BY <1>1 DEF IInv, RowInv, Owned, RowOf, Worker
  <1>3. /\ r \in Row /\ r.token = None /\ r.lease = None /\ r.status = "blocked"
        /\ r.occurred = RowOf(w).occurred /\ r.attempts = RowOf(w).attempts
        /\ r.budget = RowOf(w).budget /\ r.fp = RowOf(w).fp
        /\ r.receipts = RowOf(w).receipts /\ r.deadline = RowOf(w).deadline
    BY <1>1 DEF ClearLease, Row, Statuses
  <1>4. rows' = [rows EXCEPT ![worker[w].msg] = r] /\ Release(w)
        /\ paused' \in BOOLEAN /\ UNCHANGED <<now, consumed, provider>>
    BY DEF BindChanged, RowOf
  <1> HIDE DEF r
  <1> QED
    BY <1>1, <1>2, <1>3, <1>4, OwnerEnds DEF Statuses

\* A bind refused over its deadline gives the row up.
LEMMA BindExpiredStep ==
    ASSUME IInv, NEW w \in Workers, BindExpired(w)
    PROVE  IInv'
  <1> DEFINE d == BindDeadline(worker[w])
             r == ClearLease([GiveUp(RowOf(w), "skipped") EXCEPT !.deadline = d])
  <1>1. RowOf(w) \in Row /\ worker[w] \in Worker /\ Busy(w) /\ Owned(worker[w])
    BY DEF IInv, TypeOK, BindExpired, RowOf, Worker, Busy
  <1>2. d \in Nat /\ d <= RowOf(w).occurred + MaxAge
    <2>1. worker[w].deadline <= RowOf(w).occurred + MaxAge
      BY <1>1 DEF IInv, ClaimInv
    <2>2. d \in Nat /\ d <= worker[w].deadline
      BY <1>1, ConstantTypes DEF BindDeadline, ExpiresAt, MinOf, Row, Worker, RowOf
    <2> QED
      BY <1>1, <2>1, <2>2, ConstantTypes DEF Row, Worker
  <1>3. /\ r \in Row /\ r.token = None /\ r.lease = None
        /\ r.status \in {"skipped", "uncertain"}
        /\ r.occurred = RowOf(w).occurred /\ r.attempts = RowOf(w).attempts
        /\ r.budget = RowOf(w).budget /\ r.fp = RowOf(w).fp
        /\ r.receipts = RowOf(w).receipts /\ r.deadline = d
    BY <1>1, <1>2 DEF ClearLease, GiveUp, Row, Statuses
  <1>4. rows' = [rows EXCEPT ![worker[w].msg] = r] /\ Release(w)
        /\ paused' \in BOOLEAN /\ UNCHANGED <<now, consumed, provider>>
    BY DEF BindExpired, RowOf, IInv, TypeOK
  <1> HIDE DEF r, d
  <1> QED
    BY <1>1, <1>2, <1>3, <1>4, OwnerEnds, ConstantTypes DEF Statuses

\* Finish writes the outcome to the row it still owns.
LEMMA FinishAppliedStep ==
    ASSUME IInv, NEW w \in Workers, FinishApplied(w)
    PROVE  IInv'
  <1> DEFINE k == worker[w]
             st == NextStatus(k.kind, RowOf(w).attempts, RowOf(w).budget)
  <1>1. RowOf(w) \in Row /\ k \in Worker /\ Busy(w) /\ Owned(k) /\ now \in Nat
    BY DEF IInv, TypeOK, FinishApplied, RowOf, Worker, Busy
  <1>2. /\ RowOf(w).deadline # None /\ RowOf(w).deadline <= RowOf(w).occurred + MaxAge
        /\ k.kind = "accepted" => k.receipts = Requests
    BY <1>1 DEF IInv, RowInv, Owned, RowOf, Worker, ReceiptInv, FinishApplied
  <1>3. PICK delay \in NextDelay(k.token, k.retryAfter) :
               rows' = [rows EXCEPT ![k.msg] = FinishedRow(RowOf(w), k, delay)]
    BY DEF FinishApplied, RowOf
  <1>4. delay \in Nat
    BY <1>3, NextDelayType
  <1>5. /\ st \in {"published", "skipped", "blocked", "dead", "failed", "uncertain"}
        /\ st = "failed" => RowOf(w).attempts < RowOf(w).budget
        /\ st = "published" => k.kind = "accepted"
    BY <1>1, NextStatusType DEF Row, Worker
  <1> DEFINE f == [RowOf(w) EXCEPT !.receipts = RowOf(w).receipts \cup k.receipts,
                                   !.status = st, !.available = now + delay]
             r == FinishedRow(RowOf(w), k, delay)
  <1> HIDE DEF st
  <1>6. /\ f \in Row /\ f.status = st
        /\ f.occurred = RowOf(w).occurred /\ f.attempts = RowOf(w).attempts
        /\ f.budget = RowOf(w).budget /\ f.fp = RowOf(w).fp
        /\ f.receipts = RowOf(w).receipts \cup k.receipts
        /\ f.deadline = RowOf(w).deadline
    <2> DEFINE R == RowOf(w).receipts \cup k.receipts
    <2>1. R \in SUBSET Requests /\ now + delay \in Nat /\ st \in Statuses
      BY <1>1, <1>4, <1>5 DEF Row, Worker, Statuses
    <2> HIDE DEF R
    <2>2. f = [RowOf(w) EXCEPT !.receipts = R, !.status = st, !.available = now + delay]
      BY DEF R
    <2>3. /\ f \in Row /\ f.status = st /\ f.receipts = R
          /\ f.occurred = RowOf(w).occurred /\ f.attempts = RowOf(w).attempts
          /\ f.budget = RowOf(w).budget /\ f.fp = RowOf(w).fp
          /\ f.deadline = RowOf(w).deadline
      BY <1>1, <2>1, <2>2 DEF Row
    <2> QED
      BY <2>3 DEF R
  <1>7. r = ClearLease(f) \/ (st = "failed" /\ r = ClearLease(GiveUp(f, "dead")))
    BY DEF FinishedRow, MergeReceipts, st
  <1> HIDE DEF f, r
  <1>8. /\ r \in Row /\ r.token = None /\ r.lease = None
        /\ r.status = st \/ r.status \in {"dead", "uncertain"}
        /\ r.occurred = RowOf(w).occurred /\ r.attempts = RowOf(w).attempts
        /\ r.budget = RowOf(w).budget /\ r.fp = RowOf(w).fp
        /\ r.receipts = RowOf(w).receipts \cup k.receipts
        /\ r.deadline = RowOf(w).deadline
    BY <1>6, <1>7 DEF ClearLease, GiveUp, Row, Statuses
  <1>9. r.status = "published" => r.receipts = Requests
    <2>1. RowOf(w).receipts \subseteq Requests
      BY <1>1 DEF Row
    <2> QED
      BY <1>2, <1>5, <1>8, <2>1
  <1>10. /\ rows' = [rows EXCEPT ![worker[w].msg] = r] /\ Release(w)
         /\ paused' \in BOOLEAN /\ UNCHANGED <<now, consumed, provider>>
    BY <1>3 DEF FinishApplied, r, IInv, TypeOK
  <1> QED
    BY <1>1, <1>2, <1>5, <1>8, <1>9, <1>10, OwnerEnds DEF Statuses

-----------------------------------------------------------------------------
(* Steps that conclude an attempt.                                         *)

\* Steps that only decide on an outcome touch no row.
LEMMA ConcludeSteps ==
    ASSUME IInv, NEW w \in Workers,
           \/ PrepareRefused(w) \/ PrepareTimeout(w) \/ NoLongerEligible(w)
           \/ SendRefused(w) \/ SendUnknown(w) \/ SendAborted(w) \/ SendDone(w)
    PROVE  IInv'
  <1>0. worker[w].receipts \in SUBSET Requests /\ {} \in SUBSET Requests
    BY DEF IInv, TypeOK, Worker
  <1>1. CASE PrepareRefused(w)
    <2>1. PICK k \in Kinds \ {"accepted"} : Conclude(w, k, 0, {})
      BY <1>1 DEF PrepareRefused, Kinds
    <2> QED
      BY <1>0, <1>1, <2>1, UnchangedProviderKeeps, ToFinalizing DEF PrepareRefused, Busy
  <1>2. CASE PrepareTimeout(w)
    BY <1>0, <1>2, UnchangedProviderKeeps, ToFinalizing DEF PrepareTimeout, Busy, Kinds
  <1>3. CASE NoLongerEligible(w)
    BY <1>0, <1>3, UnchangedProviderKeeps, ToFinalizing DEF NoLongerEligible, Busy, Kinds
  <1>4. CASE SendRefused(w)
    <2>1. PICK k \in Kinds \ {"accepted"}, after \in Nat :
                 Conclude(w, k, after, worker[w].receipts)
      BY <1>4, ConstantTypes DEF SendRefused, Kinds
    <2> QED
      BY <1>0, <1>4, <2>1, UnchangedProviderKeeps, ToFinalizing DEF SendRefused, Busy
  <1>5. CASE SendUnknown(w)
    <2>1. ProviderKeeps
      BY <1>5, SubmitKeeps, UnchangedProviderKeeps DEF SendUnknown
    <2> QED
      BY <1>0, <1>5, <2>1, ToFinalizing DEF SendUnknown, Busy, Kinds
  <1>6. CASE SendAborted(w)
    <2>1. ProviderKeeps
      BY <1>6, SubmitKeeps, UnchangedProviderKeeps DEF SendAborted
    <2>2. PICK k \in {"uncertain", "blocked"} : Conclude(w, k, 0, {})
      BY <1>6 DEF SendAborted
    <2> QED
      BY <1>0, <1>6, <2>1, <2>2, ToFinalizing DEF SendAborted, Busy, Kinds
  <1>7. CASE SendDone(w)
    BY <1>0, <1>7, UnchangedProviderKeeps, ToFinalizing DEF SendDone, Busy, Kinds
  <1> QED
    BY <1>1, <1>2, <1>3, <1>4, <1>5, <1>6, <1>7

\* Steps that only release a worker touch no row.
LEMMA ReleaseSteps ==
    ASSUME IInv, NEW w \in Workers, BindLost(w) \/ FinishLost(w) \/ Crash(w)
    PROVE  IInv'
  <1>1. PICK c \in Contents \cup {NoContent} : worker' = [worker EXCEPT ![w] = Idle(c)]
    <2>1. worker[w].cfg \in Contents \cup {NoContent}
      BY DEF IInv, TypeOK, Worker
    <2> QED
      BY <2>1 DEF BindLost, FinishLost, Crash, Release
  <1> QED
    BY <1>1, ToIdle DEF BindLost, FinishLost, Crash

-----------------------------------------------------------------------------
(* The claim transaction: what it does to each row and to its worker.      *)

\* The claim leaves m alone, or gives up on it: it was queued or its lease had run out.
Spares(m, t) ==
    \/ rows'[m] = rows[m]
    \/ /\ rows[m].status \in Ready \/ LeaseExpired(rows[m], t)
       /\ rows'[m].status \in {"dead", "uncertain"}
       /\ rows'[m].occurred = rows[m].occurred
       /\ rows'[m].attempts = rows[m].attempts /\ rows'[m].budget = rows[m].budget
       /\ rows'[m].fp = rows[m].fp /\ rows'[m].receipts = rows[m].receipts
       /\ \/ rows'[m].token = None /\ rows'[m].lease = None
          \/ rows'[m].token = rows[m].token /\ rows'[m].lease = rows[m].lease
       /\ \/ rows'[m].deadline = rows[m].deadline
          \/ /\ rows'[m].deadline \in Nat
             /\ rows'[m].deadline <= rows[m].occurred + MaxAge
             /\ rows[m].deadline # None => rows'[m].deadline <= rows[m].deadline

\* The claim hands m to worker w, on a clock read at t.
Takes(w, m, t) ==
    LET d == ClaimDeadline(rows[m], t) IN
    /\ rows[m].status \in Ready \/ LeaseExpired(rows[m], t)
    /\ rows[m].attempts < rows[m].budget
    /\ \A e \in Earlier[m] : e # m /\ rows[e].status \in Done
    /\ d > t
    /\ rows'[m] = ClaimedRow(rows[m], t, d)
    /\ worker' = [worker EXCEPT ![w] =
                    [@ EXCEPT !.pc = "claimed", !.msg = m,
                              !.token = rows[m].attempts + 1, !.deadline = d,
                              !.receipts = rows[m].receipts, !.since = Stamp(t)]]

\* The deadline of a claim is within the age limit and never later than before.
LEMMA ClaimDeadlineType ==
    ASSUME NEW r \in Row, NEW t \in Nat
    PROVE  /\ ClaimDeadline(r, t) \in Nat
           /\ ClaimDeadline(r, t) <= r.occurred + MaxAge
           /\ r.deadline # None => ClaimDeadline(r, t) <= r.deadline
  BY ConstantTypes DEF ClaimDeadline, MinOf, Row

\* A claimed row holds a token and a lease.
LEMMA ClaimedRowLeased ==
    ASSUME NEW r \in Row, NEW t \in Nat, NEW d \in Nat
    PROVE  /\ ClaimedRow(r, t, d) \in Row
           /\ ClaimedRow(r, t, d).token \in Nat /\ ClaimedRow(r, t, d).lease \in Nat
  <1> DEFINE b == IF r.attempts = 0 THEN MaxAttempts ELSE r.budget
             a == r.attempts + 1
             l == t + LeaseSeconds
             c == ClaimedRow(r, t, d)
  <1>1. b \in Nat \ {0} /\ a \in Nat /\ l \in Nat
    BY ConstantTypes DEF Row
  <1>2. c = [r EXCEPT !.status = "processing", !.deadline = d, !.lease = l, !.budget = b,
                      !.attempts = a, !.token = a]
    BY DEF ClaimedRow, LeaseEnd, Row
  <1> HIDE DEF a, b, l, c
  <1>3. c \in Row /\ c.token = a /\ c.lease = l
    BY <1>1, <1>2 DEF Row, Statuses
  <1> QED
    BY <1>1, <1>3 DEF c

\* What one claim may do: sweep, and then nothing, give one row up or claim it.
LEMMA ClaimShape ==
    ASSUME IInv, NEW w \in Workers, Claim(w)
    PROVE  \E t \in Nat :
             /\ t <= now /\ now - t <= LockWait
             /\ \/ worker' = worker /\ \A m \in Msgs : Spares(m, t)
                \/ \E m \in Msgs : /\ Takes(w, m, t)
                                   /\ \A o \in Msgs : o # m => Spares(o, t)
  <1>0. rows \in [Msgs -> Row] /\ now \in Nat
    BY DEF IInv, TypeOK
  <1>1. PICK t \in ClockReads : ClaimAt(w, t)
    BY DEF Claim
  <1>10. PICK S \in SweepSets(t) :
           \/ rows' = Swept(S) /\ worker' = worker
           \/ \E m \in Claimable(Swept(S), t) : ClaimRow(w, m, Swept(S), t)
    BY <1>1 DEF ClaimAt, FirstOf
  <1> DEFINE rs == Swept(S)
  <1>2. t \in Nat /\ t <= now /\ now - t <= LockWait
    BY <1>0 DEF ClockReads
  <1>3. S \subseteq Expired(t)
    BY DEF SweepSets
  <1>4. \A m \in Msgs : \/ m \notin S /\ rs[m] = rows[m]
                        \/ m \in S /\ rs[m] = ClearLease(GiveUp(rows[m], "dead"))
    BY DEF Swept
  <1>5. ASSUME NEW m \in Msgs, rows'[m] = rs[m]
        PROVE  Spares(m, t)
    <2>1. CASE m \notin S
      BY <1>4, <1>5, <2>1 DEF Spares
    <2>2. CASE m \in S
      <3>1. rows[m].status \in Ready \/ LeaseExpired(rows[m], t)
        BY <1>3, <2>2 DEF Expired
      <3>2. rows'[m] = ClearLease(GiveUp(rows[m], "dead"))
        BY <1>4, <1>5, <2>2
      <3> QED
        BY <1>0, <3>1, <3>2 DEF Spares, ClearLease, GiveUp, Row
    <2> QED
      BY <2>1, <2>2
  <1>6. ASSUME NEW m \in Claimable(rs, t)
        PROVE  /\ m \in Msgs /\ m \notin S /\ rs[m] = rows[m]
               /\ rows[m].status \in Ready \/ LeaseExpired(rows[m], t)
               /\ rows[m].attempts < rows[m].budget
               /\ \A e \in Earlier[m] : e # m /\ rows[e].status \in Done
    <2>1. /\ m \in Msgs
          /\ rs[m].status \in Ready \/ LeaseExpired(rs[m], t)
          /\ rs[m].attempts < rs[m].budget
          /\ \A e \in Earlier[m] : rs[e].status \in Done
      BY DEF Claimable, Unblocked
    <2>2. ASSUME NEW o \in S
          PROVE  o \in Msgs /\ rs[o].status \in {"dead", "uncertain"}
      <3>1. o \in Msgs
        BY <1>3 DEF Expired
      <3>2. rows[o] \in Row /\ rs[o] = ClearLease(GiveUp(rows[o], "dead"))
        BY <1>0, <1>4, <3>1
      <3> QED
        BY <3>1, <3>2 DEF ClearLease, GiveUp, Row
    <2>3. m \notin S /\ rs[m] = rows[m]
      BY <1>4, <2>1, <2>2 DEF Ready, LeaseExpired
    <2>4. ASSUME NEW e \in Earlier[m]
          PROVE  e # m /\ rows[e].status \in Done
      <3>1. e \in Msgs /\ rs[e].status \in Done
        BY <2>1, EarlierType
      <3>2. e \notin S
        BY <2>2, <3>1 DEF Done
      <3> QED
        BY <1>4, <2>1, <3>1, <3>2 DEF Done, Ready, LeaseExpired
    <2> QED
      BY <2>1, <2>3, <2>4
  <1>7. CASE rows' = rs /\ worker' = worker
    BY <1>2, <1>5, <1>7
  <1>8. ASSUME NEW m \in Claimable(rs, t), ClaimDeadline(rs[m], t) <= t,
               rows' = [rs EXCEPT ![m] = TooOld(rs[m], ClaimDeadline(rs[m], t))],
               worker' = worker
        PROVE  \A o \in Msgs : Spares(o, t)
    <2> DEFINE d == ClaimDeadline(rows[m], t)
    <2>0. m \in Msgs /\ rs[m] = rows[m] /\ rows[m] \in Row
      BY <1>0, <1>6, <1>8
    <2>1. rows'[m] = TooOld(rows[m], d) /\ \A o \in Msgs : o # m => rows'[o] = rs[o]
      BY <1>8, <2>0 DEF Swept
    <2>2. /\ d \in Nat /\ d <= rows[m].occurred + MaxAge
          /\ rows[m].deadline # None => d <= rows[m].deadline
      BY <1>2, <2>0, ClaimDeadlineType
    <2> HIDE DEF d
    <2>3. /\ rows'[m].status \in {"dead", "uncertain"} /\ rows'[m].deadline = d
          /\ rows'[m].occurred = rows[m].occurred
          /\ rows'[m].attempts = rows[m].attempts /\ rows'[m].budget = rows[m].budget
          /\ rows'[m].fp = rows[m].fp /\ rows'[m].receipts = rows[m].receipts
          /\ rows'[m].token = rows[m].token /\ rows'[m].lease = rows[m].lease
      BY <2>0, <2>1 DEF TooOld, GiveUp, Row
    <2>4. rows[m].status \in Ready \/ LeaseExpired(rows[m], t)
      BY <1>6
    <2>5. Spares(m, t)
      BY <2>2, <2>3, <2>4 DEF Spares
    <2> QED
      BY <1>5, <2>1, <2>5
  <1>9. ASSUME NEW m \in Claimable(rs, t), ClaimDeadline(rs[m], t) > t,
               rows' = [rs EXCEPT ![m] = ClaimedRow(rs[m], t, ClaimDeadline(rs[m], t))],
               worker' = [worker EXCEPT ![w] =
                  [@ EXCEPT !.pc = "claimed", !.msg = m,
                            !.token = rs[m].attempts + 1,
                            !.deadline = ClaimDeadline(rs[m], t),
                            !.receipts = rs[m].receipts, !.since = Stamp(t)]]
        PROVE  m \in Msgs /\ Takes(w, m, t) /\ \A o \in Msgs : o # m => Spares(o, t)
    <2>0. m \in Msgs /\ rs[m] = rows[m]
      BY <1>6, <1>9
    <2>1. /\ rows'[m] = ClaimedRow(rows[m], t, ClaimDeadline(rows[m], t))
          /\ \A o \in Msgs : o # m => rows'[o] = rs[o]
      BY <1>9, <2>0 DEF Swept
    <2>2. Takes(w, m, t)
      BY <1>6, <1>9, <2>0, <2>1 DEF Takes
    <2> QED
      BY <1>5, <2>0, <2>1, <2>2
  <1>11. ASSUME NEW m \in Claimable(rs, t), ClaimRow(w, m, rs, t)
         PROVE  \/ worker' = worker /\ \A o \in Msgs : Spares(o, t)
                \/ m \in Msgs /\ Takes(w, m, t) /\ \A o \in Msgs : o # m => Spares(o, t)
    BY <1>8, <1>9, <1>11 DEF ClaimRow
  <1> QED
    BY <1>2, <1>7, <1>10, <1>11

\* The rows after a claim are of their type.
LEMMA ClaimRowsType ==
    ASSUME IInv, NEW w \in Workers, Claim(w)
    PROVE  /\ rows' \in [Msgs -> Row]
           /\ \A m \in Msgs : (rows'[m].token = None) <=> (rows'[m].lease = None)
  <1>0. /\ rows \in [Msgs -> Row] /\ now \in Nat
        /\ \A m \in Msgs : (rows[m].token = None) <=> (rows[m].lease = None)
    BY DEF IInv, TypeOK
  <1>1. PICK t \in ClockReads : ClaimAt(w, t)
    BY DEF Claim
  <1>2. t \in Nat
    BY <1>0 DEF ClockReads
  <1>3. PICK S \in SweepSets(t) :
           \/ rows' = Swept(S)
           \/ \E m \in Claimable(Swept(S), t) : ClaimRow(w, m, Swept(S), t)
    BY <1>1 DEF ClaimAt, FirstOf
  <1> DEFINE rs == Swept(S)
  <1>4. /\ rs \in [Msgs -> Row]
        /\ \A m \in Msgs : (rs[m].token = None) <=> (rs[m].lease = None)
    <2>1. ASSUME NEW m \in Msgs
          PROVE  /\ ClearLease(GiveUp(rows[m], "dead")) \in Row
                 /\ ClearLease(GiveUp(rows[m], "dead")).token = None
                 /\ ClearLease(GiveUp(rows[m], "dead")).lease = None
      BY <1>0, GiveUpType, ClearLeaseType DEF Statuses
    <2> QED
      BY <1>0, <2>1 DEF Swept
  <1>5. ASSUME NEW m \in Claimable(rs, t), ClaimRow(w, m, rs, t)
        PROVE  /\ rows' \in [Msgs -> Row]
               /\ \A o \in Msgs : (rows'[o].token = None) <=> (rows'[o].lease = None)
    <2> DEFINE d == ClaimDeadline(rs[m], t)
    <2>1. m \in Msgs /\ rs[m] \in Row /\ d \in Nat
      BY <1>2, <1>4, ClaimDeadlineType DEF Claimable
    <2>2. CASE rows' = [rs EXCEPT ![m] = TooOld(rs[m], d)]
      <3>1. /\ TooOld(rs[m], d) \in Row
            /\ TooOld(rs[m], d).token = rs[m].token /\ TooOld(rs[m], d).lease = rs[m].lease
        BY <2>1 DEF TooOld, GiveUp, Row, Statuses
      <3> HIDE DEF rs, d
      <3> QED
        BY <1>4, <2>1, <2>2, <3>1
    <2>3. CASE rows' = [rs EXCEPT ![m] = ClaimedRow(rs[m], t, d)]
      <3>1. /\ ClaimedRow(rs[m], t, d) \in Row
            /\ ClaimedRow(rs[m], t, d).token \in Nat /\ ClaimedRow(rs[m], t, d).lease \in Nat
        <4>1. rs[m] \in Row /\ d \in Nat /\ t \in Nat
          BY <1>2, <2>1
        <4> HIDE DEF rs, d
        <4> QED
          BY <4>1, ClaimedRowLeased
      <3> HIDE DEF rs, d
      <3> QED
        BY <1>4, <2>1, <2>3, <3>1, ConstantTypes
    <2> QED
      BY <1>5, <2>2, <2>3 DEF ClaimRow
  <1> QED
    BY <1>3, <1>4, <1>5

\* What a spared row keeps.
LEMMA SparesKeep ==
    ASSUME NEW m \in Msgs, NEW t, Spares(m, t)
    PROVE  /\ rows[m].status \notin Ready \cup {"processing"} => rows'[m] = rows[m]
           /\ rows'[m].status \in Ready \cup {"processing", "absent", "published"}
                => rows'[m] = rows[m]
           /\ rows'[m].occurred = rows[m].occurred
           /\ rows'[m].attempts = rows[m].attempts /\ rows'[m].budget = rows[m].budget
           /\ rows'[m].fp = rows[m].fp /\ rows'[m].receipts = rows[m].receipts
           /\ ~LeaseExpired(rows[m], t) /\ rows[m].status \notin Ready => rows'[m] = rows[m]
  BY DEF Spares, Ready, LeaseExpired

\* A worker that keeps its timeouts still has a running lease.
LEMMA LeaseLive ==
    ASSUME IInv, ~Stalls, NEW w \in Workers, worker[w].pc \in Guarded
    PROVE  RowOf(w).status = "processing" /\ now < RowOf(w).lease
  <1>1. /\ worker[w] \in Worker /\ RowOf(w) \in Row /\ now \in Nat /\ InTime(w)
    BY DEF IInv, TypeOK, RowOf, Worker, TimelyInv
  <1>2. StageLimit(worker[w]) <= TimeLeft(worker[w].pc)
        /\ StageLimit(worker[w]) \in Nat /\ TimeLeft(worker[w].pc) \in Nat
    BY ConstantTypes DEF StageLimit, TimeLeft, Guarded
  <1> QED
    BY <1>1, <1>2, ConstantTypes DEF InTime, Row, Worker

\* A claim preserves the invariant.
LEMMA ClaimStep ==
    ASSUME IInv, NEW w \in Workers, Claim(w)
    PROVE  IInv'
  <1> USE DEF IInv
  <1>0. /\ now \in Nat /\ rows \in [Msgs -> Row] /\ worker \in [Workers -> Worker]
        /\ \A v \in Workers : worker[v].msg \in Msgs /\ worker[v].token \in Nat \cup {None}
        /\ \A m \in Msgs : rows[m].attempts \in Nat
    BY DEF TypeOK, Worker, Row
  <1>1. UNCHANGED <<now, paused, consumed, provider>> /\ worker[w].pc = "idle"
    BY DEF Claim
  <1>2. /\ rows' \in [Msgs -> Row]
        /\ \A m \in Msgs : (rows'[m].token = None) <=> (rows'[m].lease = None)
    BY ClaimRowsType
  <1>3. PICK t \in Nat :
             /\ t <= now /\ now - t <= LockWait
             /\ \/ worker' = worker /\ \A m \in Msgs : Spares(m, t)
                \/ \E m \in Msgs : /\ Takes(w, m, t)
                                   /\ \A o \in Msgs : o # m => Spares(o, t)
    BY ClaimShape
  <1>4. ASSUME NEW m \in Msgs, Spares(m, t)
        PROVE  /\ rows'[m].status = "processing" =>
                    rows'[m].token # None /\ rows'[m].deadline # None
               /\ rows'[m].token # None => rows'[m].token <= rows'[m].attempts
               /\ rows'[m].deadline # None => rows'[m].deadline <= rows'[m].occurred + MaxAge
               /\ rows'[m].occurred <= now
               /\ rows'[m].status = "absent" => rows'[m].attempts = 0
               /\ rows'[m].attempts <= rows'[m].budget
               /\ rows'[m].budget <= MaxReplayAttempts
               /\ rows'[m].status \in Ready => rows'[m].attempts < rows'[m].budget
    <2>1. /\ rows[m].status = "processing" => rows[m].token # None /\ rows[m].deadline # None
          /\ rows[m].token # None => rows[m].token <= rows[m].attempts
          /\ rows[m].deadline # None => rows[m].deadline <= rows[m].occurred + MaxAge
          /\ rows[m].occurred <= now
          /\ rows[m].status = "absent" => rows[m].attempts = 0
      BY DEF RowInv
    <2>4. /\ rows[m].attempts <= rows[m].budget
          /\ rows[m].budget <= MaxReplayAttempts
          /\ rows[m].status \in Ready => rows[m].attempts < rows[m].budget
      BY DEF BudgetRespected
    <2>2. CASE rows'[m] = rows[m]
      BY <2>1, <2>2, <2>4
    <2>3. CASE rows'[m] # rows[m]
      BY <1>4, <2>1, <2>3, <2>4 DEF Spares, Ready
    <2> QED
      BY <2>2, <2>3
  <1>5. ASSUME NEW v \in Workers, Busy(v), NEW e \in Earlier[worker[v].msg], Spares(e, t)
        PROVE  rows'[e].status \in Done
    BY <1>5, <1>0, EarlierType DEF OrderInv, Spares, Done, Ready, LeaseExpired
  <1>6. ASSUME ~Stalls, NEW v \in Workers, worker[v].pc \in Guarded
        PROVE  RowOf(v).status \notin Ready /\ ~LeaseExpired(RowOf(v), t)
    <2>1. RowOf(v).status = "processing" /\ now < RowOf(v).lease /\ RowOf(v) \in Row
      BY <1>0, <1>6, LeaseLive DEF RowOf
    <2> QED
      BY <1>0, <1>3, <2>1, ConstantTypes DEF Ready, LeaseExpired, Row
  <1>7. CASE worker' = worker /\ \A m \in Msgs : Spares(m, t)
    <2>0. \A m \in Msgs :
            /\ rows'[m].status \in {"processing", "absent", "published"} => rows'[m] = rows[m]
            /\ rows[m].status \notin Ready \cup {"processing"} => rows'[m] = rows[m]
            /\ rows'[m].occurred = rows[m].occurred
            /\ rows'[m].attempts = rows[m].attempts
            /\ rows'[m].fp = rows[m].fp /\ rows'[m].receipts = rows[m].receipts
            /\ ~LeaseExpired(rows[m], t) /\ rows[m].status \notin Ready
                 => rows'[m] = rows[m]
      BY <1>7, SparesKeep
    <2>1. TypeOK'
      BY <1>1, <1>2, <1>7 DEF TypeOK
    <2>2. RowInv' /\ BudgetRespected'
      BY <1>1, <1>4, <1>7 DEF RowInv, BudgetRespected
    <2>3. ClaimInv'
      BY <1>0, <1>7, <2>0 DEF ClaimInv, Busy, RowOf
    <2>4. OrderInv'
      BY <1>0, <1>5, <1>7, EarlierType DEF OrderInv, Busy
    <2>5. ContentInv'
      BY <1>0, <1>1, <1>7, <2>0 DEF ContentInv, RowOf
    <2>6. ReceiptInv'
      BY <1>1, <1>7, <2>0 DEF ReceiptInv, PublishedMeansSent
    <2>7. TimelyInv'
      <3> SUFFICES ASSUME ~Stalls, NEW v \in Workers, worker[v].pc \in Guarded
                   PROVE  InTime(v)'
        BY <1>7 DEF TimelyInv, InTime
      <3>1. RowOf(v)' = RowOf(v)
        BY <1>0, <1>6, <1>7, <2>0 DEF RowOf
      <3> QED
        BY <1>1, <1>7, <3>1 DEF TimelyInv, InTime, StageLimit
    <2> QED
      BY <2>1, <2>2, <2>3, <2>4, <2>5, <2>6, <2>7
  <1>8. ASSUME NEW m \in Msgs, Takes(w, m, t), \A o \in Msgs : o # m => Spares(o, t)
        PROVE  IInv'
    <2> DEFINE d == ClaimDeadline(rows[m], t)
    <2>1. /\ rows[m] \in Row /\ d \in Nat /\ d <= rows[m].occurred + MaxAge
          /\ Stamp(t) \in Nat /\ (~Stalls => Stamp(t) = t)
      BY <1>0, ClaimDeadlineType, StampType
    <2>2. /\ rows'[m].status = "processing" /\ rows'[m].deadline = d
          /\ rows'[m].lease = t + LeaseSeconds /\ rows'[m].token = rows[m].attempts + 1
          /\ rows'[m].attempts = rows[m].attempts + 1
          /\ rows'[m].occurred = rows[m].occurred
          /\ rows[m].attempts = 0 => rows'[m].budget = MaxAttempts
          /\ rows[m].attempts # 0 => rows'[m].budget = rows[m].budget
          /\ rows'[m].fp = rows[m].fp /\ rows'[m].receipts = rows[m].receipts
      <3>1. rows'[m] = ClaimedRow(rows[m], t, d)
        BY <1>8 DEF Takes
      <3>2. t \in Nat /\ d \in Nat /\ rows[m] \in Row
        BY <2>1
      <3> HIDE DEF d
      <3>3. ASSUME NEW c, c = ClaimedRow(rows[m], t, d)
            PROVE  /\ c.status = "processing" /\ c.deadline = d
                   /\ c.lease = t + LeaseSeconds /\ c.token = rows[m].attempts + 1
                   /\ c.attempts = rows[m].attempts + 1 /\ c.occurred = rows[m].occurred
                   /\ c.fp = rows[m].fp /\ c.receipts = rows[m].receipts
        BY <3>2, <3>3 DEF ClaimedRow, LeaseEnd, Row
      <3>4. ASSUME NEW c, c = ClaimedRow(rows[m], t, d), rows[m].attempts = 0
            PROVE  c.budget = MaxAttempts
        BY <3>2, <3>4 DEF ClaimedRow, Row
      <3>5. ASSUME NEW c, c = ClaimedRow(rows[m], t, d), rows[m].attempts # 0
            PROVE  c.budget = rows[m].budget
        BY <3>2, <3>5 DEF ClaimedRow, Row
      <3> QED
        BY <3>1, <3>3, <3>4, <3>5
    <2>3. /\ worker' \in [Workers -> Worker]
          /\ worker'[w].pc = "claimed" /\ worker'[w].msg = m /\ worker'[w].deadline = d
          /\ worker'[w].token = rows[m].attempts + 1
          /\ worker'[w].receipts = rows[m].receipts /\ worker'[w].since = Stamp(t)
          /\ \A v \in Workers : v # w => worker'[v] = worker[v]
      <3> DEFINE a == rows[m].attempts + 1
                 R == rows[m].receipts
                 s == Stamp(t)
                 k == [worker[w] EXCEPT !.pc = "claimed", !.msg = m, !.token = a,
                                        !.deadline = d, !.receipts = R, !.since = s]
      <3>1. worker' = [worker EXCEPT ![w] = k]
        BY <1>8 DEF Takes
      <3>2. a \in Nat /\ R \in SUBSET Requests /\ s \in Nat /\ worker[w] \in Worker
        BY <1>0, <2>1 DEF Row
      <3> HIDE DEF d, a, R, s
      <3>3. /\ k \in Worker /\ k.pc = "claimed" /\ k.msg = m /\ k.deadline = d
            /\ k.token = a /\ k.receipts = R /\ k.since = s
        BY <2>1, <3>2 DEF Worker, Stages
      <3> HIDE DEF k
      <3> QED
        BY <1>0, <3>1, <3>3 DEF a, R, s
    <2> HIDE DEF d
    <2>4. /\ rows[m].status \in Ready \/ LeaseExpired(rows[m], t)
          /\ rows[m].attempts < rows[m].budget
          /\ \A e \in Earlier[m] : e # m /\ rows[e].status \in Done
          /\ rows[m].status # "absent" /\ rows[m].status \notin Done
      BY <1>8 DEF Takes, Ready, LeaseExpired, Done
    <2>5. \A o \in Msgs : o # m =>
            /\ rows'[o].status \in {"processing", "absent", "published"} => rows'[o] = rows[o]
            /\ rows[o].status \notin Ready \cup {"processing"} => rows'[o] = rows[o]
            /\ rows'[o].occurred = rows[o].occurred
            /\ rows'[o].attempts = rows[o].attempts
            /\ rows'[o].fp = rows[o].fp /\ rows'[o].receipts = rows[o].receipts
            /\ ~LeaseExpired(rows[o], t) /\ rows[o].status \notin Ready
                 => rows'[o] = rows[o]
      BY <1>8, SparesKeep
    <2>6. TypeOK'
      BY <1>1, <1>2, <2>3 DEF TypeOK
    <2>7. RowInv'
      BY <1>1, <1>4, <1>8, <2>1, <2>2, ConstantTypes DEF RowInv, Row
    <2>8. BudgetRespected'
      BY <1>0, <1>4, <1>8, <2>1, <2>2, <2>4, ConstantTypes DEF BudgetRespected, Ready, Row
    <2>9. ClaimInv'
      <3>1. ASSUME NEW v \in Workers, v # w, Busy(v)
            PROVE  /\ RowOf(v)'.status # "absent"
                   /\ worker[v].token <= RowOf(v)'.attempts
                   /\ worker[v].deadline <= RowOf(v)'.occurred + MaxAge
                   /\ worker[v].pc \in {"claimed", "prepared"}
                        /\ RowOf(v)'.status = "processing" /\ RowOf(v)'.token = worker[v].token
                        => RowOf(v)'.deadline = worker[v].deadline
                   /\ worker[v].msg = m => worker[v].token <= rows[m].attempts
                   /\ worker[v].token \in Nat
        <4>1. /\ worker[v].token \in Nat /\ worker'[v] = worker[v]
              /\ RowOf(v).status # "absent"
              /\ worker[v].token <= RowOf(v).attempts
              /\ worker[v].deadline <= RowOf(v).occurred + MaxAge
              /\ worker[v].pc \in {"claimed", "prepared"} /\ RowOf(v).status = "processing"
                   /\ RowOf(v).token = worker[v].token
                   => RowOf(v).deadline = worker[v].deadline
          BY <1>0, <2>3, <3>1 DEF ClaimInv
        <4>2. CASE worker[v].msg = m
          BY <1>0, <2>2, <4>1, <4>2 DEF RowOf
        <4>3. CASE worker[v].msg # m
          BY <1>0, <2>5, <4>1, <4>3 DEF RowOf
        <4> QED
          BY <4>2, <4>3
      <3>2. /\ worker'[w].token # None /\ RowOf(w)'.status # "absent"
            /\ worker'[w].token <= RowOf(w)'.attempts
            /\ worker'[w].deadline <= RowOf(w)'.occurred + MaxAge
            /\ RowOf(w)'.deadline = worker'[w].deadline
        BY <1>0, <2>1, <2>2, <2>3, ConstantTypes DEF RowOf
      <3>3. \A v, u \in Workers : v # u /\ Busy(v)' /\ Busy(u)' /\ worker'[v].msg = worker'[u].msg
                                   => worker'[v].token # worker'[u].token
        BY <1>0, <2>3, <3>1 DEF Busy, ClaimInv
      <3> QED
        BY <2>3, <3>1, <3>2, <3>3, ConstantTypes DEF ClaimInv, Busy
    <2>10. OrderInv'
      <3> SUFFICES ASSUME NEW v \in Workers, Busy(v)', NEW e \in Earlier[worker'[v].msg]
                   PROVE  rows'[e].status \in Done
        BY DEF OrderInv
      <3>1. rows[e].status \in Done /\ e \in Msgs
        BY <1>0, <2>3, <2>4, EarlierType DEF OrderInv, Busy
      <3> QED
        BY <2>4, <2>5, <3>1 DEF Done, Ready
    <2>11. ContentInv'
      BY <1>0, <1>1, <2>2, <2>3, <2>4, <2>5 DEF ContentInv, RowOf
    <2>12. ReceiptInv'
      BY <1>0, <1>1, <2>2, <2>3, <2>5 DEF ReceiptInv, PublishedMeansSent
    <2>13. TimelyInv'
      <3> SUFFICES ASSUME ~Stalls, NEW v \in Workers, worker'[v].pc \in Guarded
                   PROVE  InTime(v)'
        BY DEF TimelyInv, InTime
      <3>1. CASE v = w
        <4>1. /\ StageLimit(worker'[w]) = DbSeconds + PrepareSeconds
              /\ TimeLeft(worker'[w].pc) = DbSeconds + PrepareSeconds + DbSeconds + SendSeconds
          BY <2>3 DEF StageLimit, TimeLeft
        <4>2. /\ now <= t + (DbSeconds + PrepareSeconds)
              /\ t + (DbSeconds + PrepareSeconds + DbSeconds + SendSeconds) < t + LeaseSeconds
          BY <1>0, <1>3, ConstantTypes, LeaseAssumption, LockAssumption
        <4> QED
          BY <1>1, <2>1, <2>2, <2>3, <3>1, <4>1, <4>2 DEF InTime, RowOf
      <3>2. CASE v # w
        <4>1. worker'[v] = worker[v] /\ worker[v].pc \in Guarded
          BY <2>3, <3>2
        <4>2. worker[v].msg # m
          BY <1>6, <2>4, <4>1 DEF RowOf
        <4>3. RowOf(v)' = RowOf(v)
          BY <1>0, <1>6, <2>5, <4>1, <4>2 DEF RowOf
        <4> QED
          BY <1>1, <4>1, <4>3 DEF TimelyInv, InTime, StageLimit
      <3> QED
        BY <3>1, <3>2
    <2> QED
      BY <2>6, <2>7, <2>8, <2>9, <2>10, <2>11, <2>12, <2>13
  <1> QED
    BY <1>3, <1>7, <1>8

-----------------------------------------------------------------------------
(* Producer, operator and clock                                            *)

\* A row that becomes pending, new or replayed, disturbs no claim.
LEMMA OpensRow ==
    ASSUME IInv, NEW m \in Msgs, NEW r \in Row, rows' = [rows EXCEPT ![m] = r],
           r.status = "pending", r.token = None, r.lease = None,
           r.occurred <= now, r.deadline # None => r.deadline <= r.occurred + MaxAge,
           r.attempts < r.budget, r.budget <= MaxReplayAttempts,
           rows[m].status \notin Done \cup {"processing"},
           \/ rows[m].status = "absent" /\ r.receipts = {}
           \/ /\ rows[m].status # "absent"
              /\ r.occurred = rows[m].occurred /\ r.attempts = rows[m].attempts
              /\ r.fp = rows[m].fp /\ r.receipts = rows[m].receipts,
           UNCHANGED <<now, paused, worker, consumed, provider>>
    PROVE  IInv'
  <1> USE DEF IInv
  <1>0. /\ now \in Nat /\ rows \in [Msgs -> Row] /\ rows' \in [Msgs -> Row]
        /\ \A w \in Workers : worker[w].msg \in Msgs
        /\ rows'[m] = r /\ \A o \in Msgs : o # m => rows'[o] = rows[o]
        /\ r.attempts \in Nat /\ r.budget \in Nat
    BY DEF TypeOK, Worker, Row
  <1>1. TypeOK'
    <2>1. \A o \in Msgs : (rows'[o].token = None) <=> (rows'[o].lease = None)
      BY <1>0 DEF TypeOK
    <2> QED
      BY <1>0, <2>1 DEF TypeOK
  <1>2. RowInv'
    BY <1>0 DEF RowInv
  <1>3. BudgetRespected'
    BY <1>0 DEF BudgetRespected
  <1>4. \A w \in Workers : Busy(w) =>
          /\ RowOf(w).status # "absent"
          /\ RowOf(w)'.status # "absent"
          /\ RowOf(w)'.attempts = RowOf(w).attempts
          /\ RowOf(w)'.occurred = RowOf(w).occurred
          /\ RowOf(w)'.fp = RowOf(w).fp
          /\ RowOf(w)'.status = "processing" \/ RowOf(w).status = "processing"
               => RowOf(w)' = RowOf(w)
    BY <1>0 DEF ClaimInv, RowOf
  <1>5. ClaimInv'
    BY <1>4 DEF ClaimInv, Busy
  <1>6. OrderInv'
    BY <1>0, EarlierType DEF OrderInv, Busy
  <1>7. ContentInv'
    <2>1. \A w \in Workers : worker[w].pc \in {"bound", "sending"}
                                => Busy(w) /\ worker[w].fp = RowOf(w).fp
      BY DEF ContentInv, Busy
    <2>2. ASSUME NEW o \in Msgs, NEW i \in Requests, provider[o][i].sent > 0
          PROVE  /\ rows'[o].status # "absent"
                 /\ rows'[o].fp \in Contents /\ provider[o][i].fp = rows'[o].fp
                 /\ rows'[o].occurred <= provider[o][i].at
      <3>1. /\ rows[o].status # "absent"
            /\ rows[o].fp \in Contents /\ provider[o][i].fp = rows[o].fp
            /\ rows[o].occurred <= provider[o][i].at
        BY <2>2 DEF ContentInv
      <3> QED
        BY <1>0, <3>1
    <2> QED
      BY <1>4, <2>1, <2>2 DEF ContentInv
  <1>8. ReceiptInv'
    <2>1. ASSUME NEW o \in Msgs
          PROVE  /\ rows'[o].status = "published" => rows'[o].receipts = Requests
                 /\ \A i \in rows'[o].receipts : provider[o][i].sent > 0
      BY <1>0 DEF ReceiptInv, PublishedMeansSent
    <2> QED
      BY <2>1 DEF ReceiptInv, PublishedMeansSent
  <1>9. TimelyInv'
    <2> SUFFICES ASSUME ~Stalls, NEW w \in Workers, worker[w].pc \in Guarded
                 PROVE  InTime(w)'
      BY DEF TimelyInv, InTime
    <2>1. InTime(w) /\ Busy(w) /\ RowOf(w).status = "processing"
      BY DEF TimelyInv, InTime, Busy, Guarded
    <2>2. RowOf(w)' = RowOf(w)
      BY <1>4, <2>1
    <2> QED
      BY <2>1, <2>2 DEF InTime, StageLimit
  <1> QED
    BY <1>1, <1>2, <1>3, <1>5, <1>6, <1>7, <1>8, <1>9

\* A new message preserves the invariant.
LEMMA EnqueueStep ==
    ASSUME IInv, NEW m \in Msgs, Enqueue(m)
    PROVE  IInv'
  <1> DEFINE r == [AbsentRow EXCEPT !.status = "pending", !.occurred = now,
                                    !.available = now]
  <1>1. now \in Nat
    BY DEF IInv, TypeOK
  <1>2. /\ r \in Row /\ r.status = "pending" /\ r.token = None /\ r.lease = None
        /\ r.occurred = now /\ r.deadline = None /\ r.attempts = 0
        /\ r.budget = DefaultBudget /\ r.receipts = {}
    BY <1>1, AbsentRowType DEF AbsentRow, Row, Statuses
  <1>3. /\ rows' = [rows EXCEPT ![m] = r] /\ rows[m].status = "absent"
        /\ UNCHANGED <<now, paused, worker, consumed, provider>>
    BY DEF Enqueue
  <1>4. r.occurred <= now /\ r.attempts < r.budget /\ r.budget <= MaxReplayAttempts
    BY <1>1, <1>2, ConstantTypes
  <1>5. rows[m].status \notin Done \cup {"processing"}
    BY <1>3 DEF Done
  <1> HIDE DEF r
  <1> QED
    BY <1>2, <1>3, <1>4, <1>5, OpensRow

\* A replay grants attempts below the cap and touches no evidence.
LEMMA ReplayStep ==
    ASSUME IInv, NEW m \in Msgs, Replay(m)
    PROVE  IInv'
  <1> DEFINE r == ReplayedRow(rows[m])
             b == MinOf(MaxReplayAttempts, rows[m].attempts + ReplayGrant)
  <1>1. /\ now \in Nat /\ rows[m] \in Row /\ rows[m].attempts \in Nat
        /\ rows[m].occurred <= now
        /\ rows[m].deadline # None => rows[m].deadline <= rows[m].occurred + MaxAge
    BY DEF IInv, TypeOK, Row, RowInv
  <1>2. /\ rows' = [rows EXCEPT ![m] = r]
        /\ rows[m].status \in {"dead", "blocked"} /\ rows[m].attempts < MaxReplayAttempts
        /\ UNCHANGED <<now, paused, worker, consumed, provider>>
    BY DEF Replay, Replayable
  <1>3. b \in Nat \ {0} /\ rows[m].attempts < b /\ b <= MaxReplayAttempts
    BY <1>1, <1>2, ConstantTypes DEF MinOf
  <1>4. r = [rows[m] EXCEPT !.budget = b, !.status = "pending", !.available = now,
                            !.token = None, !.lease = None]
    BY <1>1 DEF ReplayedRow, ClearLease, Row
  <1> HIDE DEF r, b
  <1>5. /\ r \in Row /\ r.status = "pending" /\ r.token = None /\ r.lease = None
        /\ r.occurred = rows[m].occurred /\ r.deadline = rows[m].deadline
        /\ r.attempts = rows[m].attempts /\ r.budget = b
        /\ r.fp = rows[m].fp /\ r.receipts = rows[m].receipts
    BY <1>1, <1>3, <1>4 DEF Row, Statuses
  <1>6. rows[m].status \notin Done \cup {"processing"} /\ rows[m].status # "absent"
    BY <1>2 DEF Done
  <1> QED
    BY <1>1, <1>2, <1>3, <1>5, <1>6, OpensRow

\* Consume and Resume touch neither rows nor workers.
LEMMA FlagSteps ==
    ASSUME IInv, Resume \/ \E m \in Msgs : Consume(m)
    PROVE  IInv'
  <1>1. /\ UNCHANGED <<now, rows, worker, provider>>
        /\ paused' \in BOOLEAN /\ consumed' \in [Msgs -> BOOLEAN]
    BY DEF IInv, TypeOK, Resume, Consume
  <1> QED
    BY <1>1 DEF IInv, TypeOK, RowInv, BudgetRespected, ClaimInv, OrderInv, ContentInv,
                ReceiptInv, PublishedMeansSent, TimelyInv, InTime, RowOf, Busy, StageLimit

\* Time passes only while every bounded stage has time left.
LEMMA TickStep ==
    ASSUME IInv, Tick
    PROVE  IInv'
  <1>1. /\ now \in Nat /\ now' = now + 1 /\ UNCHANGED <<rows, paused, worker, consumed, provider>>
        /\ Stalls \/ \A w \in Workers : Timely(worker[w])
        /\ rows \in [Msgs -> Row] /\ worker \in [Workers -> Worker]
    BY DEF IInv, TypeOK, Tick
  <1>2. TypeOK'
    BY <1>1 DEF IInv, TypeOK
  <1>3. RowInv'
    <2>1. \A m \in Msgs : rows[m].occurred \in Nat
      BY <1>1 DEF Row
    <2> QED
      BY <1>1, <2>1 DEF IInv, RowInv
  <1>4. BudgetRespected' /\ ClaimInv' /\ OrderInv' /\ ContentInv' /\ ReceiptInv'
    BY <1>1 DEF IInv, BudgetRespected, ClaimInv, OrderInv, ContentInv, ReceiptInv,
                PublishedMeansSent, RowOf, Busy
  <1>5. TimelyInv'
    <2> SUFFICES ASSUME ~Stalls, NEW w \in Workers, worker[w].pc \in Guarded
                 PROVE  InTime(w)'
      BY <1>1 DEF TimelyInv, InTime
    <2>1. InTime(w) /\ now < worker[w].since + StageLimit(worker[w])
      BY <1>1 DEF IInv, TimelyInv, Timely, Guarded
    <2>2. worker[w].since + StageLimit(worker[w]) \in Nat
      BY <1>1, ConstantTypes DEF Worker, StageLimit
    <2>3. now' <= worker[w].since + StageLimit(worker[w])
      BY <1>1, <2>1, <2>2
    <2> QED
      BY <1>1, <2>1, <2>3 DEF InTime, RowOf, StageLimit
  <1> QED
    BY <1>2, <1>3, <1>4, <1>5 DEF IInv

-----------------------------------------------------------------------------
(* The theorems                                                            *)

\* The empty outbox satisfies the invariant.
LEMMA InitIInv ==
    ASSUME Init
    PROVE  IInv
  <1>1. /\ now = 0 /\ rows \in [Msgs -> Row] /\ \A m \in Msgs : rows[m] = AbsentRow
        /\ provider \in [Msgs -> [Requests -> Key]]
        /\ \A m \in Msgs, i \in Requests : provider[m][i].sent = 0
    BY AbsentRowType DEF Init, FreshKey, Key
  <1>2. worker \in [Workers -> Worker] /\ \A w \in Workers : worker[w].pc = "idle"
    <2>1. \A k \in {Idle(c) : c \in Contents \cup {NoContent}} :
             k \in Worker /\ k.pc = "idle"
      BY IdleType
    <2>2. worker \in [Workers -> {Idle(c) : c \in Contents \cup {NoContent}}]
      BY DEF Init
    <2> QED
      BY <2>1, <2>2
  <1>3. TypeOK
    <2>1. \A m \in Msgs : rows[m].token = None /\ rows[m].lease = None
      BY <1>1 DEF AbsentRow
    <2>2. /\ now \in Nat /\ paused \in BOOLEAN /\ consumed \in [Msgs -> BOOLEAN]
      BY DEF Init
    <2> QED
      BY <1>1, <1>2, <2>1, <2>2 DEF TypeOK
  <1>4. RowInv /\ BudgetRespected
    BY <1>1, ConstantTypes DEF RowInv, BudgetRespected, AbsentRow, Ready
  <1>5. ClaimInv /\ OrderInv /\ TimelyInv
    BY <1>2 DEF ClaimInv, OrderInv, TimelyInv, InTime, Busy, Guarded
  <1>6. ContentInv /\ ReceiptInv
    BY <1>1, <1>2 DEF ContentInv, ReceiptInv, PublishedMeansSent, AbsentRow
  <1> QED
    BY <1>3, <1>4, <1>5, <1>6 DEF IInv

\* Every step preserves the invariant.
LEMMA NextIInv ==
    ASSUME IInv, [Next]_vars
    PROVE  IInv'
  <1>1. CASE Tick
    BY <1>1, TickStep
  <1>2. CASE Resume \/ \E m \in Msgs : Consume(m)
    BY <1>2, FlagSteps
  <1>3. CASE \E m \in Msgs : Enqueue(m) \/ Replay(m)
    BY <1>3, EnqueueStep, ReplayStep
  <1>4. CASE \E w \in Workers : Claim(w)
    BY <1>4, ClaimStep
  <1>5. CASE \E w \in Workers : Crash(w)
    BY <1>5, ReleaseSteps
  <1>6. ASSUME NEW w \in Workers, WorkStep(w)
        PROVE  IInv'
    <2>1. CASE PrepareStep(w)
      BY <2>1, ConcludeSteps, PreparedStep DEF PrepareStep
    <2>2. CASE BindStep(w)
      BY <2>2, ReleaseSteps, BindChangedStep, BindExpiredStep, BindAllowedStep DEF BindStep
    <2>3. CASE SendStep(w)
      BY <2>3, ConcludeSteps, StartSendingStep, SendAcceptedStep DEF SendStep
    <2>4. CASE FinishStep(w)
      BY <2>4, ReleaseSteps, FinishAppliedStep DEF FinishStep
    <2> QED
      BY <1>6, <2>1, <2>2, <2>3, <2>4 DEF WorkStep
  <1>7. CASE UNCHANGED vars
    BY <1>7 DEF vars, IInv, TypeOK, RowInv, BudgetRespected, ClaimInv, OrderInv,
                ContentInv, ReceiptInv, PublishedMeansSent, TimelyInv, InTime, RowOf,
                Busy, StageLimit
  <1> QED
    BY <1>1, <1>2, <1>3, <1>4, <1>5, <1>6, <1>7 DEF Next

\* The inductive invariant: rows, claims, content, receipts and leases stay consistent
\* under every interleaving of workers, crashes, operators and the clock.
THEOREM Invariance == Spec => []IInv
  <1>1. Init => IInv
    BY InitIInv
  <1>2. IInv /\ [Next]_vars => IInv'
    BY NextIInv
  <1> QED
    BY <1>1, <1>2, PTL DEF Spec

\* Every state is well typed and every lease has its token.
THEOREM TypeCorrect == Spec => []TypeOK
  <1>1. IInv => TypeOK
    BY DEF IInv
  <1> QED
    BY <1>1, Invariance, PTL

\* Whatever is sent, or was ever accepted by the provider, is the content bound to
\* the row, across stalls, redeployments and replays.
THEOREM ContentIsBound == Spec => []BoundContent
  <1>1. IInv => BoundContent
    BY DEF IInv, ContentInv, BoundContent, RowOf
  <1> QED
    BY <1>1, Invariance, PTL

\* No message is submitted ahead of an earlier version of its aggregate.
THEOREM OrderIsKept == Spec => []AggregateOrder
  <1>1. IInv => AggregateOrder
    BY DEF IInv, OrderInv, AggregateOrder, Busy
  <1> QED
    BY <1>1, Invariance, PTL

\* Published rows are complete, and receipts stand for emails the provider took.
THEOREM PublishedIsSent == Spec => []PublishedMeansSent
  <1>1. IInv => PublishedMeansSent
    BY DEF IInv, ReceiptInv
  <1> QED
    BY <1>1, Invariance, PTL

\* Attempts stay within budget and cap, and no waiting row is out of attempts.
THEOREM BudgetIsRespected == Spec => []BudgetRespected
  <1>1. IInv => BudgetRespected
    BY DEF IInv
  <1> QED
    BY <1>1, Invariance, PTL

\* While processes keep their timeouts, no two workers submit one message at a time.
THEOREM SubmissionIsExclusive == ~Stalls => (Spec => []ExclusiveSubmission)
  <1>1. ASSUME IInv, ~Stalls
        PROVE  ExclusiveSubmission
    <2> SUFFICES ASSUME NEW v \in Workers, NEW w \in Workers, v # w,
                        worker[v].pc = "sending", worker[w].pc = "sending",
                        worker[v].msg = worker[w].msg
                 PROVE  FALSE
      BY DEF ExclusiveSubmission
    <2>1. worker[v].token # worker[w].token
      BY <1>1 DEF IInv, ClaimInv, Busy
    <2>2. RowOf(v).token = worker[v].token /\ RowOf(w).token = worker[w].token
      BY <1>1 DEF IInv, TimelyInv, InTime, Guarded
    <2> QED
      BY <2>1, <2>2 DEF RowOf
  <1>2. ASSUME ~Stalls
        PROVE  IInv => ExclusiveSubmission
    BY <1>1, <1>2
  <1>3. ASSUME ~Stalls
        PROVE  Spec => []ExclusiveSubmission
    BY <1>2, <1>3, Invariance, PTL
  <1> QED
    BY <1>3

\* A submission of a process that keeps its timeouts falls inside the life of the key
\* of any earlier one.
LEMMA StillRemembered ==
    ASSUME IInv, ~Stalls, NEW w \in Workers, worker[w].pc = "sending",
           NEW i \in Requests, provider[worker[w].msg][i].sent > 0
    PROVE  Remembered(provider[worker[w].msg][i])
  <1> DEFINE k == worker[w]
             p == provider[k.msg][i]
  <1>1. /\ k \in Worker /\ k.msg \in Msgs /\ now \in Nat /\ k.since \in Nat
        /\ k.deadline \in Nat /\ RowOf(w).occurred \in Nat /\ p.at \in Nat
    BY DEF IInv, TypeOK, Worker, RowOf, Row, Key
  <1>2. RowOf(w).occurred <= p.at
    BY <1>1 DEF IInv, ContentInv, RowOf
  <1>3. k.deadline <= RowOf(w).occurred + MaxAge
    BY DEF IInv, ClaimInv, Busy
  <1>4. now <= k.since + SendSeconds /\ k.since < k.deadline
    <2>1. StageLimit(k) = SendSeconds
      BY DEF StageLimit
    <2> QED
      BY <2>1 DEF IInv, TimelyInv, InTime, Guarded
  <1>5. MaxAge \in Nat /\ SendSeconds \in Nat /\ KeyWindow \in Nat
        /\ MaxAge + SendSeconds <= KeyWindow
    BY ConstantTypes, WindowAssumption
  <1> HIDE DEF k
  <1>6. now - p.at < KeyWindow
    <2> HIDE DEF p
    <2> QED
      BY <1>1, <1>2, <1>3, <1>4, <1>5
  <1> QED
    BY <1>6 DEF Remembered, k

\* Only a submission changes what the provider keeps.
LEMMA ProviderSteps ==
    ASSUME [Next]_vars, provider' # provider
    PROVE  \E w \in Workers, i \in Requests :
               worker[w].pc = "sending" /\ Submit(worker[w].msg, i, worker[w].fp)
  BY DEF Next, vars, Tick, Resume, Enqueue, Consume, Replay, Claim, Crash, WorkStep,
         PrepareStep, PrepareRefused, PrepareTimeout, Prepared, BindStep, BindLost,
         BindChanged, BindExpired, BindAllowed, SendStep, NoLongerEligible, StartSending,
         SendAccepted, SendRefused, SendUnknown, SendAborted, SendDone, FinishStep,
         FinishLost, FinishApplied

\* While processes keep their timeouts, the provider sends at most one email for every
\* request, however often a message is retried, reclaimed after a crash or replayed.
THEOREM EmailIsSingle == ~Stalls => (Spec => []SingleEmail)
  <1>1. ASSUME Init
        PROVE  SingleEmail
    BY <1>1 DEF Init, FreshKey, SingleEmail
  <1>2. ASSUME ~Stalls, IInv, SingleEmail, [Next]_vars
        PROVE  SingleEmail'
    <2>1. CASE provider' = provider
      BY <1>2, <2>1 DEF SingleEmail
    <2>2. CASE provider' # provider
      <3>1. PICK w \in Workers, i \in Requests :
                worker[w].pc = "sending" /\ Submit(worker[w].msg, i, worker[w].fp)
        BY <1>2, <2>2, ProviderSteps
      <3>2. worker[w].msg \in Msgs /\ provider \in [Msgs -> [Requests -> Key]]
        BY <1>2 DEF IInv, TypeOK, Worker
      <3> DEFINE m == worker[w].msg
                 q == IF Remembered(provider[m][i]) THEN provider[m][i]
                      ELSE [fp |-> worker[w].fp, at |-> now, sent |-> provider[m][i].sent + 1]
      <3>3. provider' = [provider EXCEPT ![m][i] = q]
        BY <3>1 DEF Submit
      <3>4. q.sent <= 1
        <4>1. provider[m][i].sent \in Nat /\ provider[m][i].sent <= 1
          BY <1>2, <3>2 DEF SingleEmail, Key
        <4>2. CASE provider[m][i].sent > 0
          BY <1>2, <3>1, <4>1, <4>2, StillRemembered
        <4>3. CASE provider[m][i].sent = 0
          BY <4>3 DEF Remembered
        <4> QED
          BY <4>1, <4>2, <4>3
      <3> HIDE DEF q
      <3>5. \A o \in Msgs, j \in Requests :
               provider'[o][j] = IF o = m /\ j = i THEN q ELSE provider[o][j]
        BY <3>2, <3>3
      <3> QED
        BY <1>2, <3>4, <3>5 DEF SingleEmail
    <2> QED
      BY <2>1, <2>2
  <1>3. ASSUME ~Stalls
        PROVE  Spec => []SingleEmail
    <2>1. Init => SingleEmail
      BY <1>1
    <2>2. IInv /\ SingleEmail /\ [Next]_vars => SingleEmail'
      BY <1>2, <1>3
    <2> QED
      BY <2>1, <2>2, Invariance, PTL DEF Spec
  <1> QED
    BY <1>3

-----------------------------------------------------------------------------
(* What a step may do to a row                                             *)

\* Receipts grow and a deadline, once set, never moves later.
Holds(r, s) ==
    /\ r.receipts \subseteq s.receipts
    /\ r.deadline # None => s.deadline # None /\ s.deadline <= r.deadline

RowStep(m) ==
    \/ rows'[m] = rows[m]
    \/ /\ rows[m].status \notin Done \cup {"uncertain"}
       /\ rows'[m].status # "absent"
       /\ rows[m].status = "absent" \/ Holds(rows[m], rows'[m])

\* A step that replaces one row by s.
LEMMA OneRowStep ==
    ASSUME IInv, NEW m \in Msgs, NEW s, rows' = [rows EXCEPT ![m] = s],
           rows[m].status \notin Done \cup {"uncertain"}, s.status # "absent",
           rows[m].status = "absent" \/ Holds(rows[m], s)
    PROVE  \A o \in Msgs : RowStep(o)
  <1>1. rows'[m] = s /\ \A o \in Msgs : o # m => rows'[o] = rows[o]
    BY DEF IInv, TypeOK
  <1> QED
    BY <1>1 DEF RowStep

\* The transactions of a claim's owner.
LEMMA OwnerRowStep ==
    ASSUME IInv, NEW w \in Workers,
           BindChanged(w) \/ BindExpired(w) \/ BindAllowed(w) \/ FinishApplied(w)
    PROVE  \A o \in Msgs : RowStep(o)
  <1> DEFINE k == worker[w]
             m == k.msg
  <1>1. /\ k \in Worker /\ m \in Msgs /\ rows[m] \in Row /\ now \in Nat
        /\ k.deadline \in Nat /\ k.token \in Nat \cup {None}
    BY DEF IInv, TypeOK, Worker
  <1>2. /\ rows[m].status = "processing" /\ rows[m].token = k.token /\ Busy(w)
        /\ rows[m].deadline # None
    BY <1>1 DEF BindChanged, BindExpired, BindAllowed, FinishApplied, Owned, Busy,
                IInv, RowInv
  <1>3. rows[m].status \notin Done \cup {"uncertain"}
    BY <1>2 DEF Done
  <1>4. ASSUME k.pc = "prepared"
        PROVE  BindDeadline(k) \in Nat /\ BindDeadline(k) <= rows[m].deadline
    <2>1. rows[m].deadline = k.deadline
      BY <1>1, <1>2, <1>4 DEF IInv, ClaimInv, RowOf
    <2> QED
      BY <1>1, <2>1, ConstantTypes DEF BindDeadline, ExpiresAt, MinOf, Row
  <1>5. CASE BindChanged(w)
    <2> DEFINE s == ClearLease([rows[m] EXCEPT !.status = "blocked"])
    <2>1. rows' = [rows EXCEPT ![m] = s]
      BY <1>5 DEF BindChanged
    <2>2. s.status = "blocked" /\ s.receipts = rows[m].receipts /\ s.deadline = rows[m].deadline
      BY <1>1 DEF ClearLease, Row
    <2>3. Holds(rows[m], s)
      BY <1>1, <2>2 DEF Holds, Row
    <2> HIDE DEF s
    <2> QED
      BY <1>1, <1>3, <2>1, <2>2, <2>3, OneRowStep
  <1>6. CASE BindExpired(w)
    <2> DEFINE d == BindDeadline(k)
               s == ClearLease([GiveUp(rows[m], "skipped") EXCEPT !.deadline = d])
    <2>1. rows' = [rows EXCEPT ![m] = s] /\ d \in Nat /\ d <= rows[m].deadline
      BY <1>4, <1>6 DEF BindExpired
    <2>2. /\ s.status \in {"skipped", "uncertain"}
          /\ s.receipts = rows[m].receipts /\ s.deadline = d
      BY <1>1 DEF ClearLease, GiveUp, Row
    <2>3. Holds(rows[m], s)
      BY <2>1, <2>2, ConstantTypes DEF Holds
    <2> HIDE DEF s, d
    <2> QED
      BY <1>1, <1>3, <2>1, <2>2, <2>3, OneRowStep
  <1>7. CASE BindAllowed(w)
    <2> DEFINE d == BindDeadline(k)
               s == [rows[m] EXCEPT !.fp = k.fp, !.deadline = d]
    <2>1. rows' = [rows EXCEPT ![m] = s] /\ d \in Nat /\ d <= rows[m].deadline
      BY <1>4, <1>7 DEF BindAllowed
    <2>2. /\ s.status = "processing"
          /\ s.receipts = rows[m].receipts /\ s.deadline = d
      BY <1>1, <1>2 DEF Row
    <2>3. Holds(rows[m], s)
      BY <2>1, <2>2, ConstantTypes DEF Holds
    <2> HIDE DEF s, d
    <2> QED
      BY <1>1, <1>3, <2>1, <2>2, <2>3, OneRowStep
  <1>8. CASE FinishApplied(w)
    <2>1. PICK delay \in NextDelay(k.token, k.retryAfter) :
                 rows' = [rows EXCEPT ![m] = FinishedRow(rows[m], k, delay)]
      BY <1>8 DEF FinishApplied
    <2> DEFINE st == NextStatus(k.kind, rows[m].attempts, rows[m].budget)
               f == [rows[m] EXCEPT !.receipts = rows[m].receipts \cup k.receipts,
                                    !.status = st, !.available = now + delay]
               s == FinishedRow(rows[m], k, delay)
    <2>2. st \in {"published", "skipped", "blocked", "dead", "failed", "uncertain"}
      BY <1>1, NextStatusType DEF Row, Worker
    <2>3. s = ClearLease(f) \/ s = ClearLease(GiveUp(f, "dead"))
      BY DEF FinishedRow, MergeReceipts
    <2>4. /\ f.status = st /\ f.receipts = rows[m].receipts \cup k.receipts
          /\ f.deadline = rows[m].deadline
          /\ f = [f EXCEPT !.status = st]
      BY <1>1 DEF Row
    <2> HIDE DEF st
    <2>5. /\ ClearLease(f).status = st /\ ClearLease(f).receipts = f.receipts
          /\ ClearLease(f).deadline = f.deadline
          /\ ClearLease(GiveUp(f, "dead")).status \in {"dead", "uncertain"}
          /\ ClearLease(GiveUp(f, "dead")).receipts = f.receipts
          /\ ClearLease(GiveUp(f, "dead")).deadline = f.deadline
      BY <1>1 DEF ClearLease, GiveUp, Row
    <2> HIDE DEF f, s
    <2>6. s.status # "absent" /\ Holds(rows[m], s)
      BY <1>1, <2>2, <2>3, <2>4, <2>5 DEF Holds, Row
    <2> QED
      BY <1>1, <1>3, <2>1, <2>6, OneRowStep DEF s
  <1> QED
    BY <1>5, <1>6, <1>7, <1>8

\* Claims: swept rows keep their evidence, the claimed one keeps or lowers its deadline.
LEMMA ClaimRowStep ==
    ASSUME IInv, NEW w \in Workers, Claim(w)
    PROVE  \A o \in Msgs : RowStep(o)
  <1>0. rows \in [Msgs -> Row]
    BY DEF IInv, TypeOK
  <1>1. PICK t \in Nat :
             \/ \A m \in Msgs : Spares(m, t)
             \/ \E m \in Msgs : Takes(w, m, t) /\ \A o \in Msgs : o # m => Spares(o, t)
    BY ClaimShape
  <1>2. ASSUME NEW o \in Msgs, Spares(o, t)
        PROVE  RowStep(o)
    <2>1. rows[o] \in Row
      BY <1>0
    <2> QED
      BY <1>2, <2>1, ConstantTypes DEF Spares, RowStep, Holds, Row, Ready, LeaseExpired, Done
  <1>3. ASSUME NEW o \in Msgs, Takes(w, o, t)
        PROVE  RowStep(o)
    <2> DEFINE d == ClaimDeadline(rows[o], t)
    <2>1. /\ rows[o] \in Row /\ d \in Nat /\ rows'[o] = ClaimedRow(rows[o], t, d)
          /\ rows[o].deadline # None => d <= rows[o].deadline
          /\ rows[o].status \in Ready \cup {"processing"}
      BY <1>0, <1>3, ClaimDeadlineType DEF Takes, LeaseExpired
    <2> HIDE DEF d
    <2>2. /\ rows'[o].status = "processing" /\ rows'[o].deadline = d
          /\ rows'[o].receipts = rows[o].receipts
      BY <2>1 DEF ClaimedRow, Row
    <2> QED
      BY <2>1, <2>2, ConstantTypes DEF RowStep, Holds, Ready, Done
  <1> QED
    BY <1>1, <1>2, <1>3

\* What one step may do to a row.
LEMMA RowSteps ==
    ASSUME IInv, [Next]_vars
    PROVE  \A o \in Msgs : RowStep(o)
  <1>1. CASE \E m \in Msgs : Enqueue(m)
    <2>1. PICK m \in Msgs : Enqueue(m)
      BY <1>1
    <2> DEFINE s == [AbsentRow EXCEPT !.status = "pending", !.occurred = now,
                                      !.available = now]
    <2>2. rows' = [rows EXCEPT ![m] = s] /\ rows[m].status = "absent"
      BY <2>1 DEF Enqueue
    <2>3. s.status = "pending"
      BY DEF AbsentRow
    <2> HIDE DEF s
    <2> QED
      BY <2>2, <2>3, OneRowStep DEF Done
  <1>2. CASE \E m \in Msgs : Replay(m)
    <2>1. PICK m \in Msgs : Replay(m)
      BY <1>2
    <2>2. /\ rows[m] \in Row /\ rows[m].status \in {"dead", "blocked"}
          /\ rows' = [rows EXCEPT ![m] = ReplayedRow(rows[m])]
      BY <2>1 DEF IInv, TypeOK, Replay, Replayable
    <2> DEFINE s == ReplayedRow(rows[m])
    <2>3. /\ s.status = "pending" /\ s.receipts = rows[m].receipts
          /\ s.deadline = rows[m].deadline
      BY <2>2 DEF ReplayedRow, ClearLease, Row
    <2>4. Holds(rows[m], s)
      BY <2>2, <2>3 DEF Holds, Row
    <2> HIDE DEF s
    <2> QED
      BY <2>2, <2>3, <2>4, OneRowStep DEF Done, s
  <1>3. CASE \E w \in Workers : Claim(w)
    BY <1>3, ClaimRowStep
  <1>4. CASE \E w \in Workers : \/ BindChanged(w) \/ BindExpired(w)
                                \/ BindAllowed(w) \/ FinishApplied(w)
    BY <1>4, OwnerRowStep
  <1>5. CASE UNCHANGED rows
    BY <1>5 DEF RowStep
  <1> QED
    BY <1>1, <1>2, <1>3, <1>4, <1>5
       DEF Next, vars, Tick, Resume, Consume, Crash, WorkStep, PrepareStep,
           PrepareRefused, PrepareTimeout, Prepared, BindStep, BindLost, SendStep,
           NoLongerEligible, StartSending, SendAccepted, SendRefused, SendUnknown,
           SendAborted, SendDone, FinishStep, FinishLost

\* No late finish and no replay takes a row out of published, skipped or uncertain.
THEOREM FinalIsFinal == Spec => FinalStatus
  <1>1. IInv /\ [Next]_vars =>
          [\A m \in Msgs : rows[m].status \in Done \cup {"uncertain"}
                              => rows'[m].status = rows[m].status]_vars
    BY RowSteps DEF RowStep
  <1> QED
    BY <1>1, Invariance, PTL DEF Spec, FinalStatus

\* Rows not yet enqueued hold nothing.
AbsentInv == \A m \in Msgs : rows[m].status = "absent" => rows[m] = AbsentRow

\* Recorded receipts are never lost and no deadline is ever extended.
THEOREM EvidenceIsKept == Spec => EvidenceKept
  <1> DEFINE Kept == \A m \in Msgs :
                       /\ rows[m].receipts \subseteq rows'[m].receipts
                       /\ rows[m].deadline # None =>
                            /\ rows'[m].deadline # None
                            /\ rows'[m].deadline <= rows[m].deadline
  <1>1. Init => AbsentInv
    BY DEF Init, AbsentInv
  <1>2. AbsentInv /\ IInv /\ [Next]_vars => AbsentInv'
    BY RowSteps DEF AbsentInv, RowStep
  <1>3. AbsentInv /\ IInv /\ [Next]_vars => Kept
    <2> SUFFICES ASSUME AbsentInv, IInv, [Next]_vars, NEW m \in Msgs
                 PROVE  Holds(rows[m], rows'[m])
      BY DEF Holds
    <2>1. rows[m] \in Row /\ RowStep(m)
      BY RowSteps DEF IInv, TypeOK
    <2>2. CASE rows[m].status = "absent"
      <3>1. rows[m].receipts = {} /\ rows[m].deadline = None
        BY <2>2 DEF AbsentInv, AbsentRow
      <3> QED
        BY <3>1 DEF Holds
    <2>3. CASE rows'[m] = rows[m]
      BY <2>1, <2>3 DEF Holds, Row
    <2> QED
      BY <2>1, <2>2, <2>3 DEF RowStep
  <1>4. AbsentInv /\ IInv /\ [Next]_vars => [Kept]_vars
    BY <1>3
  <1> QED
    BY <1>1, <1>2, <1>4, Invariance, PTL DEF Spec, EvidenceKept

-----------------------------------------------------------------------------
(* Leased delivery implements Delivery, step by step                       *)

InWork == Ready \cup {"processing"}

\* The abstract state of a row follows from its status.
LEMMA AbstractStates ==
    ASSUME NEW r \in Row
    PROVE  /\ AbstractState(r) \in {"new", "open", "sent", "skipped", "parked", "unknown"}
           /\ r.status = "absent" <=> AbstractState(r) = "new"
           /\ r.status \in InWork <=> AbstractState(r) = "open"
           /\ r.status = "published" <=> AbstractState(r) = "sent"
           /\ r.status \in Done <=> AbstractState(r) \in {"sent", "skipped"}
           /\ r.status \in {"dead", "blocked"} <=> AbstractState(r) = "parked"
  <1>1. r.status \in Statuses \cup {"absent"}
    BY DEF Row
  <1> QED
    BY <1>1 DEF AbstractState, Statuses, InWork, Ready, Done

\* Workers change only rows that are still in work.
LEMMA WorkersTouchOpenRows ==
    ASSUME IInv, [Next]_vars, \A m \in Msgs : ~Enqueue(m) /\ ~Replay(m), NEW o \in Msgs
    PROVE  rows'[o] = rows[o] \/ rows[o].status \in InWork
  <1>0. rows \in [Msgs -> Row]
    BY DEF IInv, TypeOK
  <1>1. CASE \E w \in Workers : Claim(w)
    <2>1. PICK w \in Workers : Claim(w)
      BY <1>1
    <2>2. PICK t \in Nat :
             \/ \A m \in Msgs : Spares(m, t)
             \/ \E m \in Msgs : Takes(w, m, t) /\ \A p \in Msgs : p # m => Spares(p, t)
      BY <2>1, ClaimShape
    <2>3. Spares(o, t) \/ Takes(w, o, t)
      BY <2>2
    <2> QED
      BY <2>3 DEF Spares, Takes, LeaseExpired, InWork
  <1>2. CASE \E w \in Workers : \/ BindChanged(w) \/ BindExpired(w)
                                \/ BindAllowed(w) \/ FinishApplied(w)
    <2>1. PICK w \in Workers : \/ BindChanged(w) \/ BindExpired(w)
                               \/ BindAllowed(w) \/ FinishApplied(w)
      BY <1>2
    <2>2. /\ Owned(worker[w])
          /\ \E s : rows' = [rows EXCEPT ![worker[w].msg] = s]
      BY <2>1 DEF BindChanged, BindExpired, BindAllowed, FinishApplied
    <2> QED
      BY <1>0, <2>2 DEF Owned, InWork
  <1>3. CASE UNCHANGED rows
    BY <1>3
  <1> QED
    BY <1>1, <1>2, <1>3
       DEF Next, vars, Tick, Resume, Consume, Crash, WorkStep, PrepareStep,
           PrepareRefused, PrepareTimeout, Prepared, BindStep, BindLost, SendStep,
           NoLongerEligible, StartSending, SendAccepted, SendRefused, SendUnknown,
           SendAborted, SendDone, FinishStep, FinishLost

\* A submission commits nothing.
LEMMA SubmissionKeepsRows ==
    ASSUME [Next]_vars, provider' # provider
    PROVE  rows' = rows
  BY DEF Next, vars, Tick, Resume, Enqueue, Consume, Replay, Claim, Crash, WorkStep,
         PrepareStep, PrepareRefused, PrepareTimeout, Prepared, BindStep, BindLost,
         BindChanged, BindExpired, BindAllowed, SendStep, NoLongerEligible, StartSending,
         SendAccepted, SendRefused, SendUnknown, SendAborted, SendDone, FinishStep,
         FinishLost, FinishApplied

\* The step of Delivery that a step of the workers, the producer or an operator is.
AbstractStep == [Promise!Next]_<<[m \in Msgs |-> AbstractState(rows[m])],
                                 [m \in Msgs |-> [i \in Requests |-> provider[m][i].sent]]>>

\* An enqueued or replayed message opens.
LEMMA OpeningIsOpen ==
    ASSUME IInv, NEW m \in Msgs, Enqueue(m) \/ Replay(m)
    PROVE  Promise!Open(m)
  <1>0. rows \in [Msgs -> Row] /\ rows[m] \in Row
    BY DEF IInv, TypeOK
  <1>1. PICK s : /\ rows' = [rows EXCEPT ![m] = s] /\ s.status = "pending"
                 /\ rows[m].status \in {"absent", "dead", "blocked"} /\ provider' = provider
    <2>1. CASE Enqueue(m)
      <3> DEFINE s == [AbsentRow EXCEPT !.status = "pending", !.occurred = now,
                                        !.available = now]
      <3>1. s.status = "pending"
        BY DEF AbsentRow
      <3>2. rows' = [rows EXCEPT ![m] = s] /\ rows[m].status = "absent" /\ provider' = provider
        BY <2>1 DEF Enqueue
      <3> HIDE DEF s
      <3> QED
        BY <3>1, <3>2
    <2>2. CASE Replay(m)
      <3> DEFINE s == ReplayedRow(rows[m])
      <3>1. s.status = "pending"
        BY <1>0 DEF ReplayedRow, ClearLease, Row
      <3>2. /\ rows' = [rows EXCEPT ![m] = s] /\ rows[m].status \in {"dead", "blocked"}
            /\ provider' = provider
        BY <2>2 DEF Replay, Replayable
      <3> HIDE DEF s
      <3> QED
        BY <3>1, <3>2
    <2> QED
      BY <2>1, <2>2
  <1>2. AbstractState(s) = "open"
    BY <1>1 DEF AbstractState
  <1>3. AbstractState(rows[m]) \in {"new", "parked"}
    BY <1>0, <1>1, AbstractStates
  <1>4. [o \in Msgs |-> AbstractState(rows'[o])]
          = [[o \in Msgs |-> AbstractState(rows[o])] EXCEPT ![m] = "open"]
    BY <1>0, <1>1, <1>2
  <1>5. [o \in Msgs |-> [i \in Requests |-> provider'[o][i].sent]]
          = [o \in Msgs |-> [i \in Requests |-> provider[o][i].sent]]
    BY <1>1
  <1> QED
    BY <1>3, <1>4, <1>5 DEF Promise!Open

\* A submission under a new key is the one email of its request: its message is open, for
\* its worker still owns it, and every earlier version has ended for good.
LEMMA SubmissionIsEmail ==
    ASSUME IInv, SingleEmail, ~Stalls, [Next]_vars, provider' # provider
    PROVE  \E m \in Msgs, i \in Requests : Promise!Email(m, i)
  <1>1. PICK w \in Workers, i \in Requests :
            worker[w].pc = "sending" /\ Submit(worker[w].msg, i, worker[w].fp)
    BY ProviderSteps
  <1>0. PICK m \in Msgs : m = worker[w].msg
    BY DEF IInv, TypeOK, Worker
  <1> DEFINE q == [fp |-> worker[w].fp, at |-> now, sent |-> provider[m][i].sent + 1]
  <1>2. /\ rows \in [Msgs -> Row] /\ Earlier[m] \subseteq Msgs
        /\ provider \in [Msgs -> [Requests -> Key]]
    BY MessageAssumption DEF IInv, TypeOK
  <1>3. ~Remembered(provider[m][i]) /\ provider' = [provider EXCEPT ![m][i] = q]
    BY <1>0, <1>1, <1>2 DEF Submit
  <1>4. provider[m][i].sent = 0
    <2>1. provider[m][i].sent \in Nat
      BY <1>2 DEF Key
    <2> QED
      BY <1>0, <1>1, <1>3, <2>1, StillRemembered
  <1>5. AbstractState(rows[m]) = "open"
    <2>1. rows[m].status = "processing"
      BY <1>0, <1>1 DEF IInv, TimelyInv, InTime, Guarded, RowOf
    <2> QED
      BY <1>2, <2>1, AbstractStates DEF InWork
  <1>6. \A e \in Earlier[m] : AbstractState(rows[e]) \in {"sent", "skipped"}
    <2>1. \A e \in Earlier[m] : rows[e].status \in Done
      BY <1>0, <1>1 DEF IInv, OrderInv, Busy
    <2> QED
      BY <1>2, <2>1, AbstractStates
  <1> DEFINE state  == [o \in Msgs |-> AbstractState(rows[o])]
             emails == [o \in Msgs |-> [j \in Requests |-> provider[o][j].sent]]
  <1>7. [o \in Msgs |-> AbstractState(rows'[o])] = state
    BY SubmissionKeepsRows
  <1>8. [o \in Msgs |-> [j \in Requests |-> provider'[o][j].sent]]
          = [emails EXCEPT ![m][i] = 1]
    <2>1. q.sent = 1
      BY <1>4
    <2> HIDE DEF q
    <2>2. \A o \in Msgs, j \in Requests :
             provider'[o][j].sent = IF o = m /\ j = i THEN 1 ELSE provider[o][j].sent
      BY <1>2, <1>3, <2>1
    <2>3. [j \in Requests |-> provider'[m][j].sent] = [emails[m] EXCEPT ![i] = 1]
      BY <1>2, <2>2
    <2>4. \A o \in Msgs : o # m => [j \in Requests |-> provider'[o][j].sent] = emails[o]
      BY <2>2
    <2> QED
      BY <1>2, <2>3, <2>4
  <1>9. Promise!Email(m, i)
    BY <1>2, <1>4, <1>5, <1>6, <1>7, <1>8 DEF Promise!Email
  <1> QED
    BY <1>9

\* Everything else ends open messages, or changes nothing that Delivery knows of.
LEMMA OtherStepsEnd ==
    ASSUME IInv, IInv', SingleEmail, [Next]_vars, provider' = provider,
           \A m \in Msgs : ~Enqueue(m) /\ ~Replay(m)
    PROVE  Promise!End
  <1>1. /\ rows \in [Msgs -> Row] /\ rows' \in [Msgs -> Row]
        /\ provider \in [Msgs -> [Requests -> Key]]
    BY DEF IInv, TypeOK
  <1>2. ASSUME NEW m \in Msgs, AbstractState(rows'[m]) # AbstractState(rows[m])
        PROVE  /\ AbstractState(rows[m]) = "open"
               /\ AbstractState(rows'[m]) \in {"sent", "skipped", "parked", "unknown"}
               /\ AbstractState(rows'[m]) = "sent" => \A i \in Requests : provider[m][i].sent = 1
    <2>0. rows[m] \in Row /\ rows'[m] \in Row
      BY <1>1
    <2>1. rows[m].status \in InWork /\ rows'[m] # rows[m]
      BY <1>2, WorkersTouchOpenRows
    <2>2. rows'[m].status # "absent"
      BY <2>1, RowSteps DEF RowStep
    <2>3. ASSUME rows'[m].status = "published", NEW i \in Requests
          PROVE  provider[m][i].sent = 1
      <3>1. rows'[m].receipts = Requests /\ \A j \in rows'[m].receipts : provider'[m][j].sent > 0
        BY <2>3 DEF IInv, ReceiptInv, PublishedMeansSent
      <3>2. provider[m][i].sent \in Nat /\ provider[m][i].sent > 0 /\ provider[m][i].sent <= 1
        BY <1>1, <3>1 DEF SingleEmail, Key
      <3> QED
        BY <3>2
    <2>4. AbstractState(rows[m]) = "open" /\ AbstractState(rows'[m]) # "open"
      BY <1>2, <2>0, <2>1, AbstractStates
    <2> QED
      BY <2>0, <2>2, <2>3, <2>4, AbstractStates
  <1> DEFINE state  == [m \in Msgs |-> AbstractState(rows[m])]
             emails == [m \in Msgs |-> [i \in Requests |-> provider[m][i].sent]]
             after  == [m \in Msgs |-> AbstractState(rows'[m])]
  <1>3. after \in [Msgs -> {"new", "open", "sent", "skipped", "parked", "unknown"}]
    BY <1>1, AbstractStates
  <1>4. [m \in Msgs |-> [i \in Requests |-> provider'[m][i].sent]] = emails
    OBVIOUS
  <1>5. ASSUME NEW m \in Msgs
        PROVE  after[m] = state[m] \/ Promise!MayEnd(m, after[m])
    BY <1>2 DEF Promise!MayEnd
  <1> QED
    BY <1>3, <1>4, <1>5 DEF Promise!End, Promise!States

\* While processes keep their timeouts, every behaviour of leased delivery is one of
\* Delivery: one email per request, sent only while its message is open and in the order
\* of its aggregate, and published only when complete.
THEOREM DeliveryIsImplemented == ~Stalls => (Spec => RefinesDelivery)
  <1>1. Init => Promise!Init
    <2> SUFFICES ASSUME Init
                 PROVE  Promise!Init
      OBVIOUS
    <2>1. AbstractState(AbsentRow) = "new"
      BY DEF AbstractState, AbsentRow
    <2>2. [m \in Msgs |-> AbstractState(rows[m])] = [m \in Msgs |-> "new"]
      BY <2>1 DEF Init
    <2>3. [m \in Msgs |-> [i \in Requests |-> provider[m][i].sent]]
            = [m \in Msgs |-> [i \in Requests |-> 0]]
      BY DEF Init, FreshKey
    <2> QED
      BY <2>2, <2>3 DEF Promise!Init
  <1>2. ASSUME ~Stalls, IInv, IInv', SingleEmail, [Next]_vars
        PROVE  AbstractStep
    <2>1. CASE provider' # provider
      BY <1>2, <2>1, SubmissionIsEmail DEF Promise!Next, AbstractStep
    <2>2. CASE \E m \in Msgs : Enqueue(m) \/ Replay(m)
      BY <1>2, <2>2, OpeningIsOpen DEF Promise!Next, AbstractStep
    <2>3. CASE provider' = provider /\ \A m \in Msgs : ~Enqueue(m) /\ ~Replay(m)
      BY <1>2, <2>3, OtherStepsEnd DEF Promise!Next, AbstractStep
    <2> QED
      BY <2>1, <2>2, <2>3
  <1>3. ASSUME ~Stalls
        PROVE  Spec => RefinesDelivery
    <2>1. IInv /\ IInv' /\ SingleEmail /\ [Next]_vars => AbstractStep
      BY <1>2, <1>3
    <2>2. Spec => []SingleEmail
      BY <1>3, EmailIsSingle
    <2> QED
      BY <1>1, <2>1, <2>2, Invariance, PTL DEF Spec, RefinesDelivery, Promise!Spec, AbstractStep
  <1> QED
    BY <1>3
=============================================================================
