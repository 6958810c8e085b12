--------------------------- MODULE JobLeaseProofs ---------------------------
(* Proofs of the safety properties of JobLease, for any jobs and bounds. *)
EXTENDS JobLease, TLAPS

\* The constants, one fact each.
LEMMA ConstantTypes ==
    /\ MaxAttempts \in Nat \ {0} /\ Lease \in Nat \ {0} /\ MaxRetryDelay \in Nat \ {0}
    /\ Beats \in Nat /\ Stale \in Nat /\ Shorten \in BOOLEAN
    /\ Expiries \subseteq Nat \ {0} /\ Jitters \subseteq Nat /\ StartDelays \subseteq Nat
  BY JobAssumption

\* A step that rewrites one job and drops or keeps claims: the new row must be well
\* shaped, and holders with time left must not be disturbed.
Shaped(r) ==
    /\ r \in Job /\ r.attempts <= r.max
    /\ r.status = "running" <=> r.token # NoToken
    /\ r.status \in Ended <=> r.finished
    /\ r.status \in Waiting => r.attempts < r.max
    /\ r.status = "succeeded" => r.result = r.attempts
    /\ r.status = "running" => r.token = r.attempts
    /\ r.status = "absent" => r.attempts = 0

\* The row part of the invariant, row by row.
LEMMA ShapedRows ==
    ASSUME IInv, NEW j \in Jobs
    PROVE  Shaped(jobs[j])
  BY DEF IInv, TypeOK, NotStranded, ResultOfLastAttempt, TokenInv, Shaped

\* Well-shaped rows and the facts about claims make up the invariant.
LEMMA RowsSuffice ==
    ASSUME jobs' \in [Jobs -> Job], \A j \in Jobs : Shaped(jobs'[j]),
           claims' \subseteq Claimed, ClaimInv', ~Shorten => HolderInv'
    PROVE  IInv'
  BY DEF IInv, TypeOK, NotStranded, ResultOfLastAttempt, TokenInv, Shaped

\* The row of a job not yet enqueued is of the type of jobs.
LEMMA AbsentJobType ==
    /\ AbsentJob \in Job /\ AbsentJob.attempts = 0 /\ AbsentJob.token = 0
    /\ AbsentJob.finished = FALSE /\ AbsentJob.status = "absent"
  <1>1. -Stale \in Int /\ 1 \in 1 .. MaxAttempts
    BY ConstantTypes
  <1> QED
    BY <1>1 DEF AbsentJob, Job, Status, Waiting, Ended, NoToken

\* Enqueue adds a pending job that nobody holds.
LEMMA EnqueueStep ==
    ASSUME IInv, NEW j \in Jobs, Enqueue(j)
    PROVE  IInv'
  <1>1. PICK m \in 1 .. MaxAttempts, d \in StartDelays :
            Update(j, [AbsentJob EXCEPT !.status = "pending", !.max = m, !.delay = d])
    BY DEF Enqueue
  <1> DEFINE r == [AbsentJob EXCEPT !.status = "pending", !.max = m, !.delay = d]
  <1>2. /\ jobs \in [Jobs -> Job] /\ jobs[j].status = "absent" /\ claims' = claims
        /\ claims \subseteq Claimed
    BY DEF IInv, TypeOK, Enqueue
  <1>3. m \in Nat /\ 0 < m /\ d \in Int
    BY ConstantTypes
  <1>4. Shaped(r) /\ r.attempts = 0
    <2>1. /\ AbsentJob \in Job /\ AbsentJob.attempts = 0 /\ AbsentJob.token = 0
          /\ AbsentJob.finished = FALSE
      BY AbsentJobType
    <2>2. /\ r \in Job /\ r.status = "pending" /\ r.max = m
          /\ r.attempts = AbsentJob.attempts /\ r.token = AbsentJob.token
          /\ r.finished = AbsentJob.finished
      BY <1>3, <2>1 DEF Job, Status, Waiting
    <2> HIDE DEF r
    <2> QED
      BY <1>3, <2>1, <2>2 DEF Shaped, Waiting, Ended, NoToken
  <1>5. jobs' = [jobs EXCEPT ![j] = r]
    BY <1>1 DEF Update
  <1> HIDE DEF r
  <1>6. /\ jobs' \in [Jobs -> Job] /\ jobs'[j] = r
        /\ \A k \in Jobs : k # j => jobs'[k] = jobs[k]
    BY <1>2, <1>4, <1>5 DEF Shaped
  <1>7. \A k \in Jobs : Shaped(jobs'[k])
    BY <1>4, <1>6, ShapedRows
  <1>8. \A c \in claims : c.job \in Jobs /\ c.job # j /\ jobs'[c.job] = jobs[c.job]
    <2>1. jobs[j].attempts = 0
      BY <1>2 DEF IInv, TokenInv
    <2>2. ASSUME NEW c \in claims
          PROVE  c.job # j
      BY <1>2, <2>1 DEF IInv, ClaimInv, Claimed
    <2> QED
      BY <1>2, <1>6, <2>2 DEF Claimed
  <1>9. ClaimInv' /\ (~Shorten => HolderInv')
    BY <1>2, <1>8 DEF IInv, ClaimInv, HolderInv
  <1> QED
    BY <1>2, <1>6, <1>7, <1>9, RowsSuffice

\* A waiting or running row that changes while no holder has time left on it, or only
\* loses its own holder, keeps the invariant.
LEMMA OneRowStep ==
    ASSUME IInv, NEW j \in Jobs, NEW r, Update(j, r), Shaped(r),
           r.attempts = jobs[j].attempts, claims' \subseteq claims,
           ~Shorten => \A c \in claims' : c.job = j => ~(c.until > 0)
    PROVE  IInv'
  <1>1. /\ jobs \in [Jobs -> Job] /\ claims \subseteq Claimed
        /\ claims' \subseteq Claimed
    BY DEF IInv, TypeOK
  <1>2. /\ jobs' \in [Jobs -> Job] /\ jobs'[j] = r
        /\ \A k \in Jobs : k # j => jobs'[k] = jobs[k]
    BY <1>1 DEF Update, Shaped
  <1>3. \A k \in Jobs : Shaped(jobs'[k])
    BY <1>2, ShapedRows
  <1>4. \A c \in claims : c.job \in Jobs /\ jobs'[c.job].attempts = jobs[c.job].attempts
    BY <1>1, <1>2 DEF Claimed
  <1>5. ClaimInv'
    BY <1>4 DEF IInv, ClaimInv
  <1>6. ASSUME ~Shorten, NEW c \in claims', c.until > 0
        PROVE  /\ jobs'[c.job].status = "running" /\ jobs'[c.job].token = c.token
               /\ c.until <= jobs'[c.job].lease
    <2>1. c \in claims /\ c.job # j /\ jobs'[c.job] = jobs[c.job]
      BY <1>2, <1>4, <1>6
    <2> QED
      BY <1>6, <2>1 DEF IInv, HolderInv
  <1>7. ~Shorten => HolderInv'
    BY <1>6 DEF HolderInv
  <1> QED
    BY <1>1, <1>2, <1>3, <1>5, <1>7, RowsSuffice

\* Only the owner has time left on a running job.
LEMMA OwnerOnly ==
    ASSUME IInv, ~Shorten, NEW c \in claims, jobs[c.job].token = c.token,
           NEW d \in claims, d.job = c.job, d.until > 0
    PROVE  d = c
  BY DEF IInv, HolderInv, ClaimInv

\* Cancel takes a waiting job, which has no holder with time left.
LEMMA CancelStep ==
    ASSUME IInv, NEW j \in Jobs, Cancel(j)
    PROVE  IInv'
  <1> DEFINE r == [jobs[j] EXCEPT !.status = "cancelled", !.finished = TRUE]
  <1>1. Shaped(jobs[j]) /\ jobs[j].status \in Waiting /\ Update(j, r) /\ claims' = claims
    BY ShapedRows DEF Cancel, Cancellable
  <1>2. /\ r \in Job /\ r.status = "cancelled" /\ r.finished = TRUE
        /\ r.attempts = jobs[j].attempts /\ r.max = jobs[j].max /\ r.token = jobs[j].token
    BY <1>1 DEF Shaped, Job, Status, Waiting, Ended
  <1> HIDE DEF r
  <1>3. Shaped(r)
    BY <1>1, <1>2 DEF Shaped, Waiting, Ended
  <1>4. ~Shorten => \A c \in claims : c.job = j => ~(c.until > 0)
    BY <1>1 DEF IInv, HolderInv, Waiting
  <1> QED
    BY <1>1, <1>2, <1>3, <1>4, OneRowStep

\* A row whose lease is cleared, ended or waiting with an attempt left.
LEMMA ClearedShape ==
    ASSUME NEW r \in Job, NEW q \in Job, Shaped(r), r.status = "running",
           q.attempts = r.attempts, q.max = r.max,
           q.status \in {"succeeded", "failed", "retrying"},
           q.finished <=> q.status # "retrying",
           q.status = "retrying" => q.attempts < q.max,
           q.status = "succeeded" => q.result = q.attempts
    PROVE  Shaped(ClearLease(q)) /\ ClearLease(q).attempts = r.attempts
  <1>1. -Stale \in Int
    BY ConstantTypes
  <1> DEFINE k == ClearLease(q)
  <1>2. /\ k \in Job /\ k.status = q.status /\ k.attempts = q.attempts /\ k.max = q.max
        /\ k.token = NoToken /\ k.finished = q.finished /\ k.result = q.result
    BY <1>1 DEF ClearLease, Job, NoToken
  <1> HIDE DEF k
  <1>3. Shaped(k)
    BY <1>2 DEF Shaped, Waiting, Ended
  <1> QED
    BY <1>2, <1>3 DEF k

\* Complete stores the result of the attempt that holds the token, the last one.
LEMMA CompleteStep ==
    ASSUME IInv, NEW c \in claims, Complete(c)
    PROVE  IInv'
  <1> DEFINE r == jobs[c.job]
             q == [r EXCEPT !.status = "succeeded", !.result = c.token, !.finished = TRUE]
  <1>1. /\ c.job \in Jobs /\ c.token \in Nat /\ r.status = "running" /\ r.token = c.token
        /\ Update(c.job, ClearLease(q)) /\ claims' = claims \ {c}
    BY DEF IInv, TypeOK, Claimed, Complete, CompletedJob, Owned
  <1>2. Shaped(r) /\ r \in Job
    BY <1>1, ShapedRows DEF Shaped
  <1>3. /\ q \in Job /\ q.attempts = r.attempts /\ q.max = r.max
        /\ q.status = "succeeded" /\ q.finished = TRUE /\ q.result = c.token
    BY <1>1, <1>2 DEF Job, Status, Ended
  <1>4. q.result = q.attempts
    BY <1>1, <1>2, <1>3 DEF Shaped
  <1> HIDE DEF q
  <1>5. Shaped(ClearLease(q)) /\ ClearLease(q).attempts = r.attempts
    BY <1>1, <1>2, <1>3, <1>4, ClearedShape
  <1>6. ~Shorten => \A d \in claims' : d.job = c.job => ~(d.until > 0)
    BY <1>1, OwnerOnly
  <1> QED
    BY <1>1, <1>5, <1>6, OneRowStep

\* The capped exponential delay is a number.
LEMMA BackoffType ==
    ASSUME NEW n \in Nat
    PROVE  Backoff(n) \in Int
  BY ConstantTypes DEF Backoff

\* A retried job is failed, or waits with an attempt left.
LEMMA RetriedShape ==
    ASSUME NEW r \in Job, Shaped(r), r.status = "running", NEW d \in Int
    PROVE  Shaped(RetriedJob(r, d)) /\ RetriedJob(r, d).attempts = r.attempts
  <1>0. r.attempts \in Nat /\ r.max \in Nat
    BY ConstantTypes DEF Job
  <1>1. CASE Exhausted(r)
    <2> DEFINE q == [r EXCEPT !.status = "failed", !.finished = TRUE]
    <2>1. /\ q \in Job /\ q.attempts = r.attempts /\ q.max = r.max
          /\ q.status = "failed" /\ q.finished = TRUE
      BY DEF Job, Status, Ended
    <2>2. RetriedJob(r, d) = ClearLease(q)
      BY <1>1 DEF RetriedJob
    <2> HIDE DEF q
    <2> QED
      BY <2>1, <2>2, ClearedShape
  <1>2. CASE ~Exhausted(r)
    <2> DEFINE q == [r EXCEPT !.status = "retrying", !.finished = FALSE, !.delay = d]
    <2>1. /\ q \in Job /\ q.attempts = r.attempts /\ q.max = r.max
          /\ q.status = "retrying" /\ q.finished = FALSE
      BY DEF Job, Status, Waiting
    <2>2. RetriedJob(r, d) = ClearLease(q) /\ q.attempts < q.max
      BY <1>0, <1>2, <2>1 DEF RetriedJob, Exhausted
    <2> HIDE DEF q
    <2> QED
      BY <2>1, <2>2, ClearedShape
  <1> QED
    BY <1>1, <1>2

\* Retry releases the job of the holder that owns it.
LEMMA RetryStep ==
    ASSUME IInv, NEW c \in claims, Retry(c)
    PROVE  IInv'
  <1> DEFINE r == jobs[c.job]
  <1>1. PICK s \in 0 .. Stale, jitter \in Jitters :
             Owned(c, s) /\ Update(c.job, RetriedJob(r, Backoff(r.attempts) + jitter - s))
    BY DEF Retry
  <1>2. c.job \in Jobs /\ claims' = claims \ {c} /\ r.status = "running" /\ r.token = c.token
    BY <1>1 DEF IInv, TypeOK, Claimed, Retry, Owned
  <1>3. Shaped(r) /\ r \in Job /\ r.attempts \in Nat
    BY <1>2, ShapedRows DEF Shaped, Job
  <1> DEFINE d == Backoff(r.attempts) + jitter - s
  <1>4. d \in Int
    <2>1. Backoff(r.attempts) \in Int /\ jitter \in Int /\ s \in Int
      BY <1>3, BackoffType, ConstantTypes
    <2> QED
      BY <2>1
  <1>5. Update(c.job, RetriedJob(r, d))
    BY <1>1
  <1> HIDE DEF d
  <1>6. Shaped(RetriedJob(r, d)) /\ RetriedJob(r, d).attempts = r.attempts
    BY <1>2, <1>3, <1>4, RetriedShape
  <1>7. ~Shorten => \A e \in claims' : e.job = c.job => ~(e.until > 0)
    BY <1>2, OwnerOnly
  <1> QED
    BY <1>2, <1>5, <1>6, <1>7, OneRowStep

\* A lease that is extended still covers its holder, whether or not it learns of it.
LEMMA HeartbeatStep ==
    ASSUME IInv, NEW c \in claims, Heartbeat(c)
    PROVE  IInv'
  <1> DEFINE r == jobs[c.job]
  <1>0. PICK s \in 0 .. Stale, x \in Expiries :
             /\ Owned(c, s) /\ (Shorten \/ x - s >= r.lease)
             /\ Update(c.job, [r EXCEPT !.lease = x - s])
             /\ \E until \in {x - s, c.until} :
                   claims' = (claims \ {c}) \cup
                               {[c EXCEPT !.until = until, !.beats = @ - 1]}
    BY DEF Heartbeat
  <1> DEFINE e == x - s
  <1>1. /\ Owned(c, s) /\ (Shorten \/ e >= r.lease)
        /\ Update(c.job, [r EXCEPT !.lease = e])
        /\ \E until \in {e, c.until} :
              claims' = (claims \ {c}) \cup
                          {[c EXCEPT !.until = until, !.beats = @ - 1]}
    BY <1>0
  <1>e. e \in Int
    BY ConstantTypes
  <1> HIDE DEF e
  <1>2. PICK until \in {e, c.until} :
             claims' = (claims \ {c}) \cup {[c EXCEPT !.until = until, !.beats = @ - 1]}
    BY <1>1
  <1> DEFINE b == [c EXCEPT !.until = until, !.beats = @ - 1]
             q == [r EXCEPT !.lease = e]
  <1>3. /\ c \in Claimed /\ c.job \in Jobs /\ c.token \in Nat \ {0} /\ c.until \in Int
        /\ c.beats \in 0 .. Beats /\ c.beats > 0 /\ e \in Int
        /\ r.status = "running" /\ r.token = c.token
        /\ jobs \in [Jobs -> Job] /\ claims \subseteq Claimed
    BY <1>1, <1>e, ConstantTypes DEF IInv, TypeOK, Claimed, Heartbeat, Owned
  <1>4. Shaped(r) /\ r \in Job /\ r.lease \in Int
    BY <1>3, ShapedRows DEF Shaped, Job
  <1>5. b \in Claimed /\ b.job = c.job /\ b.token = c.token /\ b.until = until
    <2>1. c.beats - 1 \in 0 .. Beats /\ until \in Int
      BY <1>3, ConstantTypes
    <2> QED
      BY <1>3, <2>1 DEF Claimed
  <1>6. /\ q \in Job /\ q.status = r.status /\ q.attempts = r.attempts /\ q.max = r.max
        /\ q.token = r.token /\ q.lease = e /\ q.finished = r.finished /\ q.result = r.result
    BY <1>3, <1>4 DEF Job
  <1>7. jobs' = [jobs EXCEPT ![c.job] = q]
    BY <1>1 DEF Update
  <1> HIDE DEF b, q
  <1>8. Shaped(q)
    BY <1>4, <1>6 DEF Shaped
  <1>9. /\ jobs' \in [Jobs -> Job] /\ jobs'[c.job] = q
        /\ \A k \in Jobs : k # c.job => jobs'[k] = jobs[k]
    BY <1>3, <1>6, <1>7
  <1>10. \A k \in Jobs : Shaped(jobs'[k])
    BY <1>8, <1>9, ShapedRows
  <1>11. claims' = (claims \ {c}) \cup {b} /\ claims' \subseteq Claimed
    BY <1>2, <1>3, <1>5 DEF b
  <1>12. \A d \in claims : /\ d.job \in Jobs
                           /\ jobs'[d.job].attempts = jobs[d.job].attempts
    BY <1>3, <1>6, <1>9 DEF Claimed
  <1>13. ClaimInv'
    <2>1. \A d \in claims \ {c} : d.job = c.job => d.token # c.token
      BY DEF IInv, ClaimInv
    <2>2. b.token <= jobs'[b.job].attempts
      BY <1>5, <1>12 DEF IInv, ClaimInv
    <2> QED
      BY <1>5, <1>11, <1>12, <2>1, <2>2 DEF IInv, ClaimInv
  <1>14. ASSUME ~Shorten, NEW d \in claims', d.until > 0
         PROVE  /\ jobs'[d.job].status = "running" /\ jobs'[d.job].token = d.token
                /\ d.until <= jobs'[d.job].lease
    <2>1. e >= r.lease /\ r.lease \in Int /\ q.lease = e
      BY <1>1, <1>4, <1>6, <1>14
    <2>2. CASE d = b
      <3>1. d.until <= e
        <4>1. CASE until = e
          BY <1>3, <1>5, <2>2, <4>1
        <4>2. CASE until = c.until
          <5>1. c.until <= r.lease
            BY <1>5, <1>14, <2>2, <4>2 DEF IInv, HolderInv
          <5> QED
            BY <1>3, <1>5, <2>1, <2>2, <4>2, <5>1
        <4> QED
          BY <4>1, <4>2
      <3> QED
        BY <1>3, <1>5, <1>6, <1>9, <2>2, <3>1
    <2>3. CASE d # b
      <3>1. d \in claims /\ d # c
        BY <1>11, <2>3
      <3>2. d.job # c.job
        BY <1>3, <1>14, <3>1, OwnerOnly
      <3>3. jobs'[d.job] = jobs[d.job]
        BY <1>9, <1>12, <3>1, <3>2
      <3> QED
        BY <1>14, <3>1, <3>3 DEF IInv, HolderInv
    <2> QED
      BY <2>2, <2>3
  <1>15. ~Shorten => HolderInv'
    BY <1>14 DEF HolderInv
  <1> QED
    BY <1>9, <1>10, <1>11, <1>13, <1>15, RowsSuffice

\* A holder that disappears leaves the table as it is.
LEMMA AbandonStep ==
    ASSUME IInv, NEW c \in claims, Abandon(c)
    PROVE  IInv'
  <1>1. jobs' = jobs /\ claims' \subseteq claims
    BY DEF Abandon
  <1> QED
    BY <1>1 DEF IInv, TypeOK, NotStranded, ResultOfLastAttempt, TokenInv, ClaimInv, HolderInv

\* A claimed job runs under the token of its new attempt.
LEMMA ClaimedShape ==
    ASSUME NEW r \in Job, Shaped(r), r.status \in Waiting, r.attempts < r.max,
           NEW s \in 0 .. Stale
    PROVE  /\ Shaped(ClaimedJob(r, s))
           /\ ClaimedJob(r, s).status = "running"
           /\ ClaimedJob(r, s).attempts = r.attempts + 1
           /\ ClaimedJob(r, s).token = r.attempts + 1
           /\ ClaimedJob(r, s).lease = Lease - s
  <1> DEFINE a == r.attempts + 1
             l == Lease - s
             q == ClaimedJob(r, s)
  <1>1. /\ r.attempts \in Nat /\ r.max \in Nat /\ a \in Nat /\ a # 0 /\ a <= r.max
        /\ l \in Int
    BY ConstantTypes DEF Job
  <1>2. q = [r EXCEPT !.status = "running", !.attempts = a, !.token = a,
                      !.lease = l, !.finished = FALSE]
    BY DEF ClaimedJob, Job
  <1> HIDE DEF a, l, q
  <1>3. /\ q \in Job /\ q.status = "running" /\ q.attempts = a /\ q.token = a
        /\ q.lease = l /\ q.finished = FALSE /\ q.max = r.max
    BY <1>1, <1>2 DEF Job, Status
  <1>4. Shaped(q)
    BY <1>1, <1>3 DEF Shaped, Waiting, Ended, NoToken
  <1> QED
    BY <1>3, <1>4 DEF q, a, l

\* Claim hands out due jobs, which have no holder with time left, under new tokens.
LEMMA ClaimStep ==
    ASSUME IInv, Claim
    PROVE  IInv'
  <1>1. PICK s \in 0 .. Stale : \E S \in SUBSET Due(s) :
            /\ jobs' = [j \in Jobs |-> IF j \in S THEN ClaimedJob(jobs[j], s) ELSE jobs[j]]
            /\ claims' = claims \cup
                 {[job |-> j, token |-> jobs[j].attempts + 1, until |-> Lease - s,
                   beats |-> Beats] : j \in S}
    BY DEF Claim
  <1>2. PICK S \in SUBSET Due(s) :
            /\ jobs' = [j \in Jobs |-> IF j \in S THEN ClaimedJob(jobs[j], s) ELSE jobs[j]]
            /\ claims' = claims \cup
                 {[job |-> j, token |-> jobs[j].attempts + 1, until |-> Lease - s,
                   beats |-> Beats] : j \in S}
    BY <1>1
  <1> DEFINE New(j) == [job |-> j, token |-> jobs[j].attempts + 1, until |-> Lease - s,
                        beats |-> Beats]
  <1>3. /\ jobs \in [Jobs -> Job] /\ claims \subseteq Claimed
        /\ \A j \in Jobs : jobs[j].attempts \in Nat
        /\ \A c \in claims : c.job \in Jobs /\ c.token \in Nat /\ c.until \in Int
    BY DEF IInv, TypeOK, Claimed, Job
  <1>4. ASSUME NEW j \in S
        PROVE  /\ j \in Jobs /\ jobs[j].status \in Waiting
               /\ Shaped(jobs'[j]) /\ jobs'[j].status = "running"
               /\ jobs'[j].attempts = jobs[j].attempts + 1
               /\ jobs'[j].token = jobs[j].attempts + 1 /\ jobs'[j].lease = Lease - s
    <2>1. j \in Jobs /\ jobs[j].status \in Waiting /\ jobs[j].attempts < jobs[j].max
      BY DEF Due
    <2>2. jobs[j] \in Job /\ Shaped(jobs[j]) /\ jobs'[j] = ClaimedJob(jobs[j], s)
      BY <1>2, <1>3, <2>1, ShapedRows
    <2> QED
      BY <2>1, <2>2, ClaimedShape
  <1>5. ASSUME NEW j \in Jobs, j \notin S
        PROVE  jobs'[j] = jobs[j]
    BY <1>2, <1>5
  <1>6. \A j \in Jobs : Shaped(jobs'[j])
    BY <1>4, <1>5, ShapedRows
  <1>7. jobs' \in [Jobs -> Job]
    BY <1>2, <1>6 DEF Shaped
  <1>8. \A c \in claims' : c \in claims \/ \E j \in S : c = New(j)
    BY <1>2
  <1>9. ASSUME NEW j \in S
        PROVE  /\ New(j) \in Claimed /\ New(j).job = j
               /\ New(j).token = jobs[j].attempts + 1 /\ New(j).until = Lease - s
    <2>1. Lease - s \in Int /\ Beats \in 0 .. Beats /\ jobs[j].attempts + 1 \in Nat \ {0}
      BY <1>3, <1>4, ConstantTypes
    <2> QED
      BY <1>4, <2>1 DEF Claimed
  <1> HIDE DEF New
  <1>10. claims' \subseteq Claimed
    BY <1>3, <1>8, <1>9
  <1>11. ASSUME NEW c \in claims
         PROVE  /\ c.token <= jobs[c.job].attempts
                /\ c.token <= jobs'[c.job].attempts
    <2>1. c.token <= jobs[c.job].attempts /\ jobs[c.job].attempts \in Nat /\ c.token \in Nat
      BY <1>3 DEF IInv, ClaimInv
    <2> QED
      BY <1>3, <1>4, <1>5, <2>1
  <1>12. ClaimInv'
    <2>1. ASSUME NEW c \in claims'
          PROVE  c.token <= jobs'[c.job].attempts
      BY <1>3, <1>4, <1>8, <1>9, <1>11
    <2>2. ASSUME NEW c \in claims', NEW d \in claims', c.job = d.job, c.token = d.token
          PROVE  c = d
      <3>1. CASE c \in claims /\ d \in claims
        BY <2>2, <3>1 DEF IInv, ClaimInv
      <3>2. ASSUME NEW a \in claims, NEW j \in S, a.job = j
            PROVE  a.token # New(j).token
        BY <1>3, <1>4, <1>9, <1>11, <3>2
      <3>3. CASE c \notin claims /\ d \notin claims
        BY <1>8, <1>9, <2>2, <3>3
      <3> QED
        BY <1>8, <1>9, <2>2, <3>1, <3>2, <3>3
    <2> QED
      BY <2>1, <2>2 DEF ClaimInv
  <1>13. ASSUME ~Shorten, NEW c \in claims', c.until > 0
         PROVE  /\ jobs'[c.job].status = "running" /\ jobs'[c.job].token = c.token
                /\ c.until <= jobs'[c.job].lease
    <2>1. CASE c \in claims
      <3>1. /\ jobs[c.job].status = "running" /\ jobs[c.job].token = c.token
            /\ c.until <= jobs[c.job].lease
        BY <1>13, <2>1 DEF IInv, HolderInv
      <3>2. c.job \in Jobs /\ c.job \notin S
        BY <1>3, <1>4, <2>1, <3>1 DEF Waiting
      <3> QED
        BY <1>5, <3>1, <3>2
    <2>2. ASSUME NEW j \in S, c = New(j)
          PROVE  /\ jobs'[c.job].status = "running" /\ jobs'[c.job].token = c.token
                 /\ c.until <= jobs'[c.job].lease
      <3>1. Lease - s <= Lease - s
        BY ConstantTypes
      <3> QED
        BY <1>4, <1>9, <2>2, <3>1
    <2> QED
      BY <1>8, <2>1, <2>2
  <1>14. ~Shorten => HolderInv'
    BY <1>13 DEF HolderInv
  <1> QED
    BY <1>6, <1>7, <1>10, <1>12, <1>14, RowsSuffice

\* A recovered job is failed or waits with an attempt left.
LEMMA RecoveredShape ==
    ASSUME NEW r \in Job, Shaped(r), r.status = "running", NEW s \in 0 .. Stale
    PROVE  Shaped(RecoveredJob(r, s)) /\ RecoveredJob(r, s).attempts = r.attempts
  <1>0. r.attempts \in Nat /\ r.max \in Nat /\ -s \in Int
    BY ConstantTypes DEF Job
  <1>1. CASE Exhausted(r)
    <2> DEFINE q == [r EXCEPT !.status = "failed", !.finished = TRUE, !.delay = -s]
    <2>1. /\ q \in Job /\ q.attempts = r.attempts /\ q.max = r.max
          /\ q.status = "failed" /\ q.finished = TRUE
      BY <1>0 DEF Job, Status, Ended
    <2>2. Exhausted(r) = TRUE
      BY <1>1 DEF Exhausted
    <2>3. RecoveredJob(r, s) = ClearLease(q)
      BY <2>2 DEF RecoveredJob
    <2> HIDE DEF q
    <2> QED
      BY <2>1, <2>3, ClearedShape
  <1>2. CASE ~Exhausted(r)
    <2> DEFINE q == [r EXCEPT !.status = "retrying", !.finished = FALSE, !.delay = -s]
    <2>1. /\ q \in Job /\ q.attempts = r.attempts /\ q.max = r.max
          /\ q.status = "retrying" /\ q.finished = FALSE
      BY <1>0 DEF Job, Status, Waiting
    <2>2. Exhausted(r) = FALSE
      BY <1>2 DEF Exhausted
    <2>3. RecoveredJob(r, s) = ClearLease(q)
      BY <2>2 DEF RecoveredJob
    <2>4. q.attempts < q.max
      BY <1>0, <1>2, <2>1 DEF Exhausted
    <2> HIDE DEF q
    <2> QED
      BY <2>1, <2>3, <2>4, ClearedShape
  <1> QED
    BY <1>1, <1>2

\* Recovery takes a job only from holders whose time is over.
LEMMA RecoverStep ==
    ASSUME IInv, Recover
    PROVE  IInv'
  <1>1. PICK s \in 0 .. Stale : \E S \in SUBSET {j \in Jobs : LeaseOver(jobs[j], s)} :
            jobs' = [j \in Jobs |-> IF j \in S THEN RecoveredJob(jobs[j], s) ELSE jobs[j]]
    BY DEF Recover
  <1>2. PICK S \in SUBSET {j \in Jobs : LeaseOver(jobs[j], s)} :
            jobs' = [j \in Jobs |-> IF j \in S THEN RecoveredJob(jobs[j], s) ELSE jobs[j]]
    BY <1>1
  <1>3. /\ jobs \in [Jobs -> Job] /\ claims \subseteq Claimed /\ claims' = claims
        /\ \A j \in Jobs : jobs[j].lease \in Int
        /\ \A c \in claims : c.job \in Jobs /\ c.until \in Int
    BY DEF IInv, TypeOK, Claimed, Job, Recover
  <1>4. ASSUME NEW j \in S
        PROVE  /\ j \in Jobs /\ jobs[j].lease <= 0
               /\ Shaped(jobs'[j]) /\ jobs'[j].attempts = jobs[j].attempts
    <2>1. j \in Jobs /\ jobs[j].status = "running" /\ jobs[j].lease <= -s
      BY DEF LeaseOver
    <2>2. jobs[j] \in Job /\ Shaped(jobs[j]) /\ jobs'[j] = RecoveredJob(jobs[j], s)
      BY <1>2, <1>3, <2>1, ShapedRows
    <2>3. jobs[j].lease <= 0
      BY <1>3, <2>1, ConstantTypes
    <2> QED
      BY <2>1, <2>2, <2>3, RecoveredShape
  <1>5. ASSUME NEW j \in Jobs, j \notin S
        PROVE  jobs'[j] = jobs[j]
    BY <1>2, <1>5
  <1>6. \A j \in Jobs : Shaped(jobs'[j])
    BY <1>4, <1>5, ShapedRows
  <1>7. jobs' \in [Jobs -> Job]
    BY <1>2, <1>6 DEF Shaped
  <1>8. \A j \in Jobs : jobs'[j].attempts = jobs[j].attempts
    BY <1>4, <1>5
  <1>9. ClaimInv'
    BY <1>3, <1>8 DEF IInv, ClaimInv
  <1>10. ASSUME ~Shorten, NEW c \in claims', c.until > 0
         PROVE  /\ jobs'[c.job].status = "running" /\ jobs'[c.job].token = c.token
                /\ c.until <= jobs'[c.job].lease
    <2>1. /\ jobs[c.job].status = "running" /\ jobs[c.job].token = c.token
          /\ c.until <= jobs[c.job].lease
      BY <1>3, <1>10 DEF IInv, HolderInv
    <2>2. c.job \notin S
      BY <1>3, <1>4, <1>10, <2>1
    <2> QED
      BY <1>3, <1>5, <2>1, <2>2
  <1>11. ~Shorten => HolderInv'
    BY <1>10 DEF HolderInv
  <1> QED
    BY <1>3, <1>6, <1>7, <1>9, <1>11, RowsSuffice

\* The clock moves every expiry by the same amount until it is long past.
LEMMA SoonerFacts ==
    ASSUME NEW t \in Int
    PROVE  /\ Sooner(t) \in Int
           /\ Sooner(t) > 0 => t > 0
           /\ \A u \in Int : t <= u => Sooner(t) <= Sooner(u)
  BY ConstantTypes DEF Sooner

\* Time passes for the rows and for the holders alike.
LEMMA TickStep ==
    ASSUME IInv, Tick
    PROVE  IInv'
  <1>1. /\ jobs \in [Jobs -> Job] /\ claims \subseteq Claimed
        /\ \A j \in Jobs : jobs[j].lease \in Int /\ jobs[j].delay \in Int
        /\ \A c \in claims : c.job \in Jobs /\ c.until \in Int
    BY DEF IInv, TypeOK, Claimed, Job
  <1>2. ASSUME NEW j \in Jobs
        PROVE  /\ Shaped(jobs'[j]) /\ jobs'[j].lease = Sooner(jobs[j].lease)
               /\ jobs'[j].status = jobs[j].status /\ jobs'[j].token = jobs[j].token
               /\ jobs'[j].attempts = jobs[j].attempts
    <2> DEFINE r == jobs[j]
               dl == Sooner(r.delay)
               le == Sooner(r.lease)
               q == [r EXCEPT !.delay = dl, !.lease = le]
    <2>1. r \in Job /\ Shaped(r) /\ dl \in Int /\ le \in Int
      BY <1>1, ShapedRows, SoonerFacts
    <2>2. jobs'[j] = q
      BY <2>1 DEF Tick, Job
    <2> HIDE DEF dl, le
    <2>3. /\ q \in Job /\ q.status = r.status /\ q.attempts = r.attempts /\ q.max = r.max
          /\ q.token = r.token /\ q.lease = le /\ q.finished = r.finished
          /\ q.result = r.result
      BY <2>1 DEF Job
    <2> HIDE DEF q
    <2>4. Shaped(q)
      BY <2>1, <2>3 DEF Shaped
    <2> QED
      BY <2>2, <2>3, <2>4 DEF le
  <1>3. jobs' \in [Jobs -> Job]
    <2>1. jobs' = [j \in Jobs |-> jobs'[j]]
      BY DEF Tick
    <2> QED
      BY <1>2, <2>1 DEF Shaped
  <1>4. ASSUME NEW d \in claims'
        PROVE  \E c \in claims : /\ d = [c EXCEPT !.until = Sooner(c.until)]
                                 /\ d \in Claimed /\ d.job = c.job /\ d.token = c.token
                                 /\ d.until = Sooner(c.until)
    <2>1. PICK c \in claims : d = [c EXCEPT !.until = Sooner(c.until)]
      BY <1>1 DEF Tick, Claimed
    <2>2. c \in Claimed /\ Sooner(c.until) \in Int
      BY <1>1, SoonerFacts
    <2> DEFINE u == Sooner(c.until)
    <2> HIDE DEF u
    <2>3. /\ [c EXCEPT !.until = u] \in Claimed
          /\ [c EXCEPT !.until = u].job = c.job
          /\ [c EXCEPT !.until = u].token = c.token
          /\ [c EXCEPT !.until = u].until = u
      BY <2>2 DEF Claimed, u
    <2> QED
      BY <2>1, <2>3 DEF u
  <1>5. claims' \subseteq Claimed
    BY <1>4
  <1>6. ClaimInv'
    <2>1. ASSUME NEW d \in claims'
          PROVE  d.token <= jobs'[d.job].attempts
      BY <1>1, <1>2, <1>4 DEF IInv, ClaimInv
    <2>2. ASSUME NEW d \in claims', NEW e \in claims', d.job = e.job, d.token = e.token
          PROVE  d = e
      <3>1. PICK a \in claims : /\ d = [a EXCEPT !.until = Sooner(a.until)]
                                /\ d.job = a.job /\ d.token = a.token
        BY <1>4
      <3>2. PICK b \in claims : /\ e = [b EXCEPT !.until = Sooner(b.until)]
                                /\ e.job = b.job /\ e.token = b.token
        BY <1>4
      <3>3. a = b
        BY <2>2, <3>1, <3>2 DEF IInv, ClaimInv
      <3> QED
        BY <3>1, <3>2, <3>3
    <2> QED
      BY <2>1, <2>2 DEF ClaimInv
  <1>7. ASSUME ~Shorten, NEW d \in claims', d.until > 0
        PROVE  /\ jobs'[d.job].status = "running" /\ jobs'[d.job].token = d.token
               /\ d.until <= jobs'[d.job].lease
    <2>1. PICK c \in claims : /\ d.job = c.job /\ d.token = c.token
                              /\ d.until = Sooner(c.until)
      BY <1>4
    <2>2. c.until > 0
      BY <1>1, <1>7, <2>1, SoonerFacts
    <2>3. /\ jobs[c.job].status = "running" /\ jobs[c.job].token = c.token
          /\ c.until <= jobs[c.job].lease
      BY <1>7, <2>2 DEF IInv, HolderInv
    <2>4. Sooner(c.until) <= Sooner(jobs[c.job].lease)
      BY <1>1, <2>3, SoonerFacts
    <2> QED
      BY <1>1, <1>2, <2>1, <2>3, <2>4
  <1>8. ~Shorten => HolderInv'
    BY <1>7 DEF HolderInv
  <1> QED
    BY <1>2, <1>3, <1>5, <1>6, <1>8, RowsSuffice

-----------------------------------------------------------------------------

\* An empty table without holders satisfies the invariant.
LEMMA InitIInv == Init => IInv
  <1> SUFFICES ASSUME Init PROVE IInv
    OBVIOUS
  <1>1. jobs = [j \in Jobs |-> AbsentJob] /\ claims = {}
    BY DEF Init
  <1>2. jobs \in [Jobs -> Job] /\ \A j \in Jobs : jobs[j] = AbsentJob
    BY <1>1, AbsentJobType
  <1>3. TypeOK
    <2>1. \A j \in Jobs : jobs[j].max \in Nat \ {0}
      BY <1>2, ConstantTypes DEF Job
    <2> QED
      BY <1>1, <1>2, <2>1, AbsentJobType DEF TypeOK, NoToken, Ended
  <1>4. NotStranded /\ ResultOfLastAttempt /\ TokenInv
    BY <1>2, AbsentJobType DEF NotStranded, ResultOfLastAttempt, TokenInv, Waiting
  <1>5. ClaimInv /\ HolderInv
    BY <1>1 DEF ClaimInv, HolderInv
  <1> QED
    BY <1>3, <1>4, <1>5 DEF IInv

\* Every operation of the service preserves the invariant.
LEMMA NextIInv == IInv /\ [Next]_vars => IInv'
  <1> SUFFICES ASSUME IInv, [Next]_vars PROVE IInv'
    OBVIOUS
  <1>1. CASE Claim
    BY <1>1, ClaimStep
  <1>2. CASE Recover
    BY <1>2, RecoverStep
  <1>3. CASE Tick
    BY <1>3, TickStep
  <1>4. CASE \E j \in Jobs : Enqueue(j) \/ Cancel(j)
    BY <1>4, EnqueueStep, CancelStep
  <1>5. CASE \E c \in claims : Heartbeat(c) \/ Complete(c) \/ Retry(c) \/ Abandon(c)
    BY <1>5, HeartbeatStep, CompleteStep, RetryStep, AbandonStep
  <1>6. CASE UNCHANGED vars
    BY <1>6 DEF vars, IInv, TypeOK, NotStranded, ResultOfLastAttempt, TokenInv, ClaimInv,
                HolderInv
  <1> QED
    BY <1>1, <1>2, <1>3, <1>4, <1>5, <1>6 DEF Next

\* The invariant holds in every reachable state of the job service.
THEOREM JobInvariance == Spec => []IInv
  BY InitIInv, NextIInv, PTL DEF Spec

\* The columns of the jobs table stay consistent: attempts within max_attempts, a lease
\* exactly while the job runs, finished_at exactly once it has ended.
THEOREM JobTypeCorrect == Spec => []TypeOK
  <1>1. IInv => TypeOK
    BY DEF IInv
  <1> QED
    BY <1>1, JobInvariance, PTL

\* No retry and no recovery leaves a waiting job that can never be claimed.
THEOREM NoJobIsStranded == Spec => []NotStranded
  <1>1. IInv => NotStranded
    BY DEF IInv
  <1> QED
    BY <1>1, JobInvariance, PTL

\* A late holder never stores the result of an attempt that was recovered and run again.
THEOREM ResultsAreCurrent == Spec => []ResultOfLastAttempt
  <1>1. IInv => ResultOfLastAttempt
    BY DEF IInv
  <1> QED
    BY <1>1, JobInvariance, PTL

\* If heartbeats never shorten a lease, no two holders with time left work on one job.
THEOREM HolderIsAlone == ~Shorten => (Spec => []OneHolder)
  <1>1. ASSUME IInv, ~Shorten
        PROVE  OneHolder
    BY <1>1 DEF IInv, HolderInv, ClaimInv, OneHolder
  <1>2. ASSUME ~Shorten
        PROVE  IInv => OneHolder
    BY <1>1, <1>2
  <1>3. ASSUME ~Shorten
        PROVE  Spec => []OneHolder
    BY <1>2, <1>3, JobInvariance, PTL
  <1> QED
    BY <1>3

\* Nothing an operation may do changes the status or the result of an ended job.
LEMMA EndedStep ==
    ASSUME IInv, [Next]_vars, NEW j \in Jobs, jobs[j].status \in Ended
    PROVE  jobs'[j].status = jobs[j].status /\ jobs'[j].result = jobs[j].result
  <1>1. jobs \in [Jobs -> Job] /\ jobs[j].status \notin Waiting \cup {"running", "absent"}
    BY DEF IInv, TypeOK, Ended, Waiting
  <1>2. ASSUME NEW k \in Jobs, NEW r, Update(k, r), k # j
        PROVE  jobs'[j] = jobs[j]
    BY <1>1, <1>2 DEF Update
  <1>3. CASE Claim
    BY <1>1, <1>3 DEF Claim, Due
  <1>4. CASE Recover
    BY <1>1, <1>4 DEF Recover, LeaseOver
  <1>5. CASE Tick
    <2>1. jobs'[j] = [jobs[j] EXCEPT !.delay = Sooner(@), !.lease = Sooner(@)]
      BY <1>5 DEF Tick
    <2> QED
      BY <1>1, <2>1 DEF Job
  <1>6. ASSUME NEW k \in Jobs, Enqueue(k) \/ Cancel(k)
        PROVE  jobs'[j] = jobs[j]
    <2>1. jobs[k].status \in Waiting \cup {"absent"} /\ \E r : Update(k, r)
      BY <1>6 DEF Enqueue, Cancel, Cancellable
    <2> QED
      BY <1>1, <1>2, <2>1
  <1>7. ASSUME NEW c \in claims, Heartbeat(c) \/ Complete(c) \/ Retry(c) \/ Abandon(c)
        PROVE  jobs'[j] = jobs[j]
    <2>1. CASE Abandon(c)
      BY <2>1 DEF Abandon
    <2>2. CASE Heartbeat(c) \/ Complete(c) \/ Retry(c)
      <3>1. jobs[c.job].status = "running" /\ \E r : Update(c.job, r)
        BY <2>2 DEF Heartbeat, Complete, Retry, Owned
      <3>2. c.job \in Jobs
        BY DEF IInv, TypeOK, Claimed
      <3> QED
        BY <1>1, <1>2, <3>1, <3>2
    <2> QED
      BY <1>7, <2>1, <2>2
  <1>8. CASE UNCHANGED vars
    BY <1>8 DEF vars
  <1> QED
    BY <1>3, <1>4, <1>5, <1>6, <1>7, <1>8 DEF Next

\* Succeeded, failed and cancelled jobs are never touched again by a late complete, retry,
\* heartbeat, cancel or recovery.
THEOREM JobsEndForGood == Spec => EndedForGood
  <1>1. IInv /\ [Next]_vars =>
          [\A j \in Jobs : jobs[j].status \in Ended =>
             /\ jobs'[j].status = jobs[j].status
             /\ jobs'[j].result = jobs[j].result]_vars
    BY EndedStep
  <1> QED
    BY <1>1, JobInvariance, PTL DEF Spec, EndedForGood
=============================================================================
