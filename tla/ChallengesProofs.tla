-------------------------- MODULE ChallengesProofs --------------------------
(* Proofs of the safety properties of Challenges, for any addresses, requests and limits. *)
EXTENDS Challenges, FiniteSetTheorems, TLAPS

\* Which operations reach which stage, and what their requests carry.
Shape(r) ==
    /\ r.pc = "idle" <=> r.op = "none"
    /\ r.pc # "idle" => r.email \in Emails
    /\ r.op = "issue" => r.pc \in {"lock", "locked"}
    /\ r.op = "consume" => r.id # 0
    /\ r.op = "external" => r.pc # "consumed"
    /\ r.op \in {"external", "bootstrap"} => r.purpose = "registration"
    /\ r.op = "bootstrap" => r.pc \in {"insert", "commit"}
    /\ r.pc = "insert" => r.purpose = "registration"
    /\ r.pc = "user" => r.purpose = "password_reset"

\* The locks that a request at this stage has.
HasEmail(r, e)  == r.pc \notin {"idle", "lock"} /\ r.op # "bootstrap" /\ r.email = e
HasInsert(r, e) == r.pc = "commit" /\ r.purpose = "registration" /\ r.email = e
HasUser(r, e)   == r.pc = "commit" /\ r.purpose = "password_reset" /\ r.email = e

ShapeInv == \A q \in Requests : Shape(req[q])

\* The locks are those that the stages say, so two requests never share one.
LockInv ==
    \A q \in Requests, e \in Emails :
        /\ held[e] = q <=> HasEmail(req[q], e)
        /\ inserting[e] = q <=> HasInsert(req[q], e)
        /\ userLock[e] = q <=> HasUser(req[q], e)

\* What a request found under the lock of its address is so until it commits.
Accepted(r) ==
    r.op = "consume" /\ r.pc \notin {"lock", "locked"} =>
        /\ rows[r.email][r.purpose].id = r.id
        /\ ~rows[r.email][r.purpose].consumed
        /\ rows[r.email][r.purpose].attempts < ChallengeAttempts

\* What it found when it inserted the user, or locked its row, is so until it commits.
Entitled(r) ==
    r.pc = "commit" => /\ r.purpose = "registration" => ~users[r.email].exists
                       /\ r.purpose = "password_reset" => Resettable(users[r.email])

RequestInv == \A q \in Requests : Accepted(req[q]) /\ Entitled(req[q]) /\ req[q].id <= issued

\* Identifiers are given out once, in order.
IdInv ==
    /\ \A e \in Emails, p \in Purposes : rows[e][p].id <= issued
    /\ \A e, f \in Emails, p, o \in Purposes :
          rows[e][p].id # 0 /\ rows[e][p].id = rows[f][o].id => e = f /\ p = o
    /\ \A i \in Ids : i > issued => effects[i] = 0 /\ wrong[i] = 0

\* The attempts of a row count the wrong answers to its challenge.
CountInv ==
    /\ \A e \in Emails, p \in Purposes :
          rows[e][p].id # 0 => wrong[rows[e][p].id] <= rows[e][p].attempts
    /\ \A e \in Emails : created[e] = IF users[e].exists THEN 1 ELSE 0

Issuers == {q \in Requests : req[q].op = "issue"}

IssueInv == issued + Cardinality(Issuers) <= MaxIssued

IInv ==
    /\ TypeOK /\ ShapeInv /\ LockInv /\ RequestInv /\ IdInv /\ CountInv /\ IssueInv
    /\ EffectsOnce /\ BoundedGuesses

-----------------------------------------------------------------------------
(* Facts about constants and records                                       *)

\* The constants, one fact each.
LEMMA ConstantTypes ==
    ASSUME ChallengeAssumption
    PROVE  /\ ChallengeSeconds \in Nat \ {0} /\ ResendSeconds \in Nat \ {0}
           /\ ChallengeAttempts \in Nat \ {0} /\ MaxIssued \in Nat \ {0}
           /\ AgeCap \in Nat /\ None \notin Emails /\ None \notin Requests
           /\ IsFiniteSet(Requests)
  BY DEF ChallengeAssumption, AgeCap

\* A challenge's row, or none, has columns of these types, and its number tells which.
LEMMA RowFacts ==
    ASSUME ChallengeAssumption, NEW r \in Row \cup {NoRow}
    PROVE  /\ r.id \in 0 .. MaxIssued /\ r.attempts \in 0 .. ChallengeAttempts
           /\ r.age \in 0 .. AgeCap /\ r.consumed \in BOOLEAN
           /\ (r # NoRow) <=> (r.id # 0)
           /\ r.id # 0 => r.id \in Ids /\ r \in Row
  <1>1. CASE r \in Row
    BY <1>1, ConstantTypes DEF Row, NoRow, Ids
  <1>2. CASE r = NoRow
    BY <1>2, ConstantTypes DEF NoRow
  <1> QED
    BY <1>1, <1>2

\* The rows that operations write are rows.
LEMMA RowTypes ==
    ASSUME ChallengeAssumption, NEW r \in Row \cup {NoRow}
    PROVE  /\ Older(r) \in Row \cup {NoRow} /\ Older(r).id = r.id
           /\ Older(r).attempts = r.attempts /\ Older(r).consumed = r.consumed
           /\ \A i \in Ids : /\ NewRow(i) \in Row /\ NewRow(i).id = i
                             /\ NewRow(i).attempts = 0 /\ NewRow(i).consumed = FALSE
           /\ r.id # 0 /\ r.attempts < ChallengeAttempts =>
                 /\ Answered(r) \in Row /\ Answered(r).id = r.id
                 /\ Answered(r).attempts = r.attempts + 1
                 /\ Answered(r).consumed = r.consumed
  <1>1. \A i \in Ids : /\ NewRow(i) \in Row /\ NewRow(i).id = i
                       /\ NewRow(i).attempts = 0 /\ NewRow(i).consumed = FALSE
    BY ConstantTypes DEF NewRow, Row
  <1>2. /\ Older(r) \in Row \cup {NoRow} /\ Older(r).id = r.id
        /\ Older(r).attempts = r.attempts /\ Older(r).consumed = r.consumed
    <2>1. CASE r.age < AgeCap
      <3>1. r \in Row /\ r.age + 1 \in 0 .. AgeCap
        BY <2>1, RowFacts, ConstantTypes DEF NoRow
      <3>2. Older(r) = [r EXCEPT !.age = r.age + 1]
        BY <2>1 DEF Older
      <3> QED
        BY <3>1, <3>2 DEF Row
    <2>2. CASE ~(r.age < AgeCap)
      BY <2>2 DEF Older
    <2> QED
      BY <2>1, <2>2
  <1>3. ASSUME r.id # 0, r.attempts < ChallengeAttempts
        PROVE  /\ Answered(r) \in Row /\ Answered(r).id = r.id
               /\ Answered(r).attempts = r.attempts + 1
               /\ Answered(r).consumed = r.consumed
    <2>1. r \in Row /\ r.attempts + 1 \in 0 .. ChallengeAttempts
      BY <1>3, RowFacts, ConstantTypes
    <2> QED
      BY <2>1 DEF Row, Answered
  <1> QED
    BY <1>1, <1>2, <1>3

\* A request that is over.
LEMMA IdleFacts ==
    /\ Idle \in Request /\ Shape(Idle) /\ Idle.pc = "idle" /\ Idle.op = "none" /\ Idle.id = 0
    /\ \A e \in Emails : ~HasEmail(Idle, e) /\ ~HasInsert(Idle, e) /\ ~HasUser(Idle, e)
  BY DEF Idle, Request, Stages, Purposes, Shape, HasEmail, HasInsert, HasUser

\* The rows of the addresses, one by one.
LEMMA TableFacts ==
    ASSUME TypeOK, NEW e \in Emails, NEW p \in Purposes
    PROVE  rows[e][p] \in Row \cup {NoRow} /\ users[e] \in User
  BY DEF TypeOK

-----------------------------------------------------------------------------
(* Steps of one request                                                    *)

\* The part of the invariant about stages and locks.
ControlInv ==
    /\ {held, userLock, inserting} \subseteq [Emails -> Requests \cup {None}]
    /\ req \in [Requests -> Request] /\ ShapeInv /\ LockInv

\* Requests follow one another's locks: q moves to r, and takes or gives back what r says.
LEMMA Move ==
    ASSUME ControlInv, NEW q \in Requests, NEW r \in Request, Shape(r),
           req' = [req EXCEPT ![q] = r],
           {held, userLock, inserting}' \subseteq [Emails -> Requests \cup {None}],
           \A e \in Emails : /\ held'[e] = q <=> HasEmail(r, e)
                             /\ inserting'[e] = q <=> HasInsert(r, e)
                             /\ userLock'[e] = q <=> HasUser(r, e),
           \A e \in Emails, p \in Requests : p # q =>
                             /\ held'[e] = p <=> held[e] = p
                             /\ inserting'[e] = p <=> inserting[e] = p
                             /\ userLock'[e] = p <=> userLock[e] = p
    PROVE  /\ ControlInv' /\ req'[q] = r
           /\ \A p \in Requests : p # q => req'[p] = req[p]
  <1>1. /\ req' \in [Requests -> Request] /\ req'[q] = r
        /\ \A p \in Requests : p # q => req'[p] = req[p]
    BY DEF ControlInv
  <1>2. ShapeInv'
    BY <1>1 DEF ControlInv, ShapeInv
  <1>3. LockInv'
    BY <1>1 DEF ControlInv, LockInv
  <1> QED
    BY <1>1, <1>2, <1>3 DEF ControlInv

\* The end of a transaction gives its locks back and nobody else's.
LEMMA FinishMoves ==
    ASSUME ChallengeAssumption, ControlInv, NEW q \in Requests, Finish(q)
    PROVE  /\ ControlInv' /\ req'[q] = Idle
           /\ \A p \in Requests : p # q => req'[p] = req[p]
  <1>1. None \notin Requests /\ Idle \in Request /\ Shape(Idle)
    BY ConstantTypes, IdleFacts
  <1>2. req' = [req EXCEPT ![q] = Idle]
    BY DEF Finish
  <1>3. {held, userLock, inserting}' \subseteq [Emails -> Requests \cup {None}]
    BY DEF ControlInv, Finish, Freed
  <1>4. \A e \in Emails : /\ held'[e] = q <=> HasEmail(Idle, e)
                          /\ inserting'[e] = q <=> HasInsert(Idle, e)
                          /\ userLock'[e] = q <=> HasUser(Idle, e)
    BY <1>1, IdleFacts DEF Finish, Freed
  <1>5. \A e \in Emails, p \in Requests : p # q =>
                          /\ held'[e] = p <=> held[e] = p
                          /\ inserting'[e] = p <=> inserting[e] = p
                          /\ userLock'[e] = p <=> userLock[e] = p
    BY <1>1 DEF Finish, Freed
  <1> QED
    BY <1>1, <1>2, <1>3, <1>4, <1>5, Move

\* A step of q that leaves tables and history alone keeps the invariant if q was entitled
\* to go where it goes.
LEMMA LocalStep ==
    ASSUME IInv, NEW q \in Requests, UNCHANGED <<tables, history>>, ControlInv',
           \A p \in Requests : p # q => req'[p] = req[p],
           Accepted(req'[q]), Entitled(req'[q]), req'[q].id <= issued, IssueInv'
    PROVE  IInv'
  <1>1. TypeOK' /\ ShapeInv' /\ LockInv'
    BY DEF IInv, TypeOK, ControlInv, tables, history
  <1>2. RequestInv'
    BY DEF IInv, RequestInv, Accepted, Entitled, tables, history
  <1>3. IdInv' /\ CountInv' /\ EffectsOnce' /\ BoundedGuesses'
    BY DEF IInv, IdInv, CountInv, EffectsOnce, BoundedGuesses, tables, history
  <1> QED
    BY <1>1, <1>2, <1>3 DEF IInv

\* Steps that neither issue a challenge nor admit a request to issue one.
LEMMA NoNewIssuers ==
    ASSUME ChallengeAssumption, IInv, issued' = issued,
           \A p \in Requests : req'[p].op = "issue" => req[p].op = "issue"
    PROVE  IssueInv'
  <1>1. Issuers \in SUBSET Requests /\ Issuers' \in SUBSET Issuers
    BY DEF Issuers
  <1>2. IsFiniteSet(Issuers)
    BY <1>1, ConstantTypes, FS_Subset
  <1>3. Cardinality(Issuers') <= Cardinality(Issuers)
    BY <1>1, <1>2, FS_Subset
  <1>4. Cardinality(Issuers) \in Nat /\ Cardinality(Issuers') \in Nat
    BY <1>1, <1>2, FS_Subset, FS_CardinalityType
  <1>5. issued \in Nat /\ MaxIssued \in Nat
    BY ConstantTypes DEF IInv, TypeOK
  <1> QED
    BY <1>3, <1>4, <1>5 DEF IInv, IssueInv

\* The invariant holds of stages and locks, and of the request q.
LEMMA InvariantFacts ==
    ASSUME IInv, NEW q \in Requests
    PROVE  /\ ControlInv /\ Shape(req[q]) /\ req[q] \in Request
           /\ req[q].pc # "idle" => req[q].email \in Emails
           /\ req[q].purpose \in Purposes /\ req[q].id \in Ids \cup {0}
           /\ Accepted(req[q]) /\ Entitled(req[q]) /\ req[q].id <= issued
  BY DEF IInv, TypeOK, ControlInv, ShapeInv, Shape, RequestInv, Request

\* A request that rolls back leaves no trace.
LEMMA RollbackStep ==
    ASSUME ChallengeAssumption, IInv, NEW q \in Requests, Rollback(q)
    PROVE  IInv'
  <1>1. /\ ControlInv' /\ req'[q] = Idle /\ UNCHANGED <<tables, history>>
        /\ \A p \in Requests : p # q => req'[p] = req[p]
    BY InvariantFacts, FinishMoves DEF Rollback
  <1>2. IssueInv'
    BY <1>1, IdleFacts, NoNewIssuers DEF history
  <1>3. Accepted(req'[q]) /\ Entitled(req'[q]) /\ req'[q].id <= issued
    BY <1>1, IdleFacts DEF Accepted, Entitled, IInv, TypeOK
  <1> QED
    BY <1>1, <1>2, <1>3, LocalStep

\* A request arrives, at the wait for its address or, bootstrapping, at its insert.
LEMMA StartStep ==
    ASSUME ChallengeAssumption, IInv, NEW q \in Requests, NEW op, NEW pc, NEW e \in Emails,
           NEW p \in Purposes, NEW i \in Ids \cup {0}, Start(q, op, e, p, i, pc),
           \/ pc = "lock" /\ op \in {"issue", "consume", "external"}
           \/ pc = "insert" /\ op = "bootstrap",
           op = "consume" => i # 0, op \in {"external", "bootstrap"} => p = "registration",
           i <= issued, op = "issue" => Allowance
    PROVE  IInv'
  <1> DEFINE r == [pc |-> pc, op |-> op, email |-> e, purpose |-> p, id |-> i]
  <1>1. /\ r \in Request /\ Shape(r) /\ r.pc = pc /\ r.op = op /\ r.id = i
        /\ r.email = e /\ r.purpose = p
    BY DEF Request, Stages, Shape
  <1>2. /\ req' = [req EXCEPT ![q] = r] /\ UNCHANGED <<tables, locks, history>>
        /\ req[q].pc = "idle"
    BY DEF Start
  <1> HIDE DEF r
  <1>3. \A f \in Emails : ~HasEmail(r, f) /\ ~HasInsert(r, f) /\ ~HasUser(r, f)
    BY <1>1 DEF HasEmail, HasInsert, HasUser
  <1>4. \A f \in Emails : held[f] # q /\ inserting[f] # q /\ userLock[f] # q
    BY <1>2 DEF IInv, LockInv, HasEmail, HasInsert, HasUser
  <1>5. ControlInv
    BY InvariantFacts
  <1>6. /\ ControlInv' /\ req'[q] = r
        /\ \A o \in Requests : o # q => req'[o] = req[o]
    <2>1. {held, userLock, inserting}' \subseteq [Emails -> Requests \cup {None}]
      BY <1>2, <1>5 DEF ControlInv, locks
    <2>2. held' = held /\ inserting' = inserting /\ userLock' = userLock
      BY <1>2 DEF locks
    <2> QED
      BY <1>1, <1>2, <1>3, <1>4, <1>5, <2>1, <2>2, Move
  <1>7. req[q].op = "none"
    BY <1>2 DEF IInv, ShapeInv, Shape
  <1>8. IssueInv'
    <2>1. CASE op # "issue"
      BY <1>1, <1>2, <1>6, <2>1, NoNewIssuers DEF history
    <2>2. CASE op = "issue"
      <3>1. Issuers' = Issuers \cup {q} /\ q \notin Issuers /\ issued' = issued
        BY <1>1, <1>2, <1>6, <1>7, <2>2 DEF Issuers, history
      <3>2. IsFiniteSet(Issuers)
        BY ConstantTypes, FS_Subset DEF Issuers
      <3>3. Cardinality(Issuers') = Cardinality(Issuers) + 1 /\ Cardinality(Issuers) \in Nat
        BY <3>1, <3>2, FS_AddElement, FS_CardinalityType
      <3>4. issued + Cardinality(Issuers) < MaxIssued /\ issued \in Nat /\ MaxIssued \in Nat
        BY <2>2, ConstantTypes DEF Allowance, Issuers, IInv, TypeOK
      <3> QED
        BY <3>1, <3>3, <3>4 DEF IssueInv
    <2> QED
      BY <2>1, <2>2
  <1>9. Accepted(r) /\ Entitled(r) /\ r.id <= issued
    BY <1>1 DEF Accepted, Entitled
  <1> QED
    BY <1>2, <1>6, <1>8, <1>9, LocalStep

\* begin_registration, begin_reset, the completions, external logins and bootstrap.
LEMMA ArriveStep ==
    ASSUME ChallengeAssumption, IInv, NEW q \in Requests, Arrive(q)
    PROVE  IInv'
  <1>1. 0 <= issued /\ 0 \in Ids \cup {0}
    BY DEF IInv, TypeOK
  <1>2. CASE BeginRegistration(q)
    BY <1>1, <1>2, StartStep DEF BeginRegistration, Purposes
  <1>3. CASE BeginReset(q)
    BY <1>1, <1>3, StartStep DEF BeginReset, Purposes
  <1>4. CASE Complete(q)
    <2>1. PICK e \in Emails, p \in Purposes, purpose \in Purposes :
              /\ rows[e][p] # NoRow
              /\ Start(q, "consume", e, purpose, rows[e][p].id, "lock")
      BY <1>4 DEF Complete
    <2>2. rows[e][p].id # 0 /\ rows[e][p].id \in Ids /\ rows[e][p].id <= issued
      BY <2>1, TableFacts, RowFacts DEF IInv, IdInv
    <2> QED
      BY <2>1, <2>2, StartStep
  <1>5. CASE ExternalLogin(q)
    BY <1>1, <1>5, StartStep DEF ExternalLogin, Purposes
  <1>6. CASE Bootstrap(q)
    BY <1>1, <1>6, StartStep DEF Bootstrap, Purposes
  <1> QED
    BY <1>2, <1>3, <1>4, <1>5, <1>6 DEF Arrive

\* A request goes on to a later stage, with the same operation, address and challenge.
LEMMA GotoFacts ==
    ASSUME IInv, NEW q \in Requests, NEW pc \in Stages, Goto(q, pc)
    PROVE  \E r \in Request :
               /\ req' = [req EXCEPT ![q] = r] /\ r.pc = pc /\ r.op = req[q].op
               /\ r.email = req[q].email /\ r.purpose = req[q].purpose /\ r.id = req[q].id
  <1> DEFINE r == [req[q] EXCEPT !.pc = pc]
  <1>1. req' = [req EXCEPT ![q] = r]
    BY DEF Goto, IInv, TypeOK
  <1>2. /\ r \in Request /\ r.pc = pc /\ r.op = req[q].op
        /\ r.email = req[q].email /\ r.purpose = req[q].purpose /\ r.id = req[q].id
    BY InvariantFacts DEF Request
  <1> HIDE DEF r
  <1> QED
    BY <1>1, <1>2

\* The same, with what the rest of the invariant asks of the new stage.
LEMMA GotoStep ==
    ASSUME ChallengeAssumption, IInv, NEW q \in Requests, NEW pc \in Stages \ {"idle", "lock"},
           NEW r \in Request, req' = [req EXCEPT ![q] = r],
           r.pc = pc, r.op = req[q].op, r.email = req[q].email, r.purpose = req[q].purpose,
           r.id = req[q].id, req[q].pc \notin {"idle", "commit"}, Shape(r),
           UNCHANGED <<tables, history>>, Accepted(r), Entitled(r),
           held' = (IF req[q].pc = "lock" THEN [held EXCEPT ![r.email] = q] ELSE held),
           inserting' = (IF pc = "commit" /\ r.purpose = "registration"
                         THEN [inserting EXCEPT ![r.email] = q] ELSE inserting),
           userLock' = (IF pc = "commit" /\ r.purpose = "password_reset"
                        THEN [userLock EXCEPT ![r.email] = q] ELSE userLock),
           req[q].pc = "lock" => held[r.email] = None,
           pc = "commit" /\ r.purpose = "registration" => inserting[r.email] = None,
           pc = "commit" /\ r.purpose = "password_reset" => userLock[r.email] = None
    PROVE  IInv'
  <1>1. ControlInv /\ Shape(req[q]) /\ r.email \in Emails /\ None \notin Requests
    BY InvariantFacts, ConstantTypes
  <1>2. {held, userLock, inserting}' \subseteq [Emails -> Requests \cup {None}]
    BY <1>1 DEF ControlInv
  <1>3. \A e \in Emails : /\ held'[e] = q <=> HasEmail(r, e)
                          /\ inserting'[e] = q <=> HasInsert(r, e)
                          /\ userLock'[e] = q <=> HasUser(r, e)
    BY <1>1 DEF ControlInv, LockInv, HasEmail, HasInsert, HasUser, Shape
  <1>4. \A e \in Emails, p \in Requests : p # q =>
                          /\ held'[e] = p <=> held[e] = p
                          /\ inserting'[e] = p <=> inserting[e] = p
                          /\ userLock'[e] = p <=> userLock[e] = p
    BY <1>1 DEF ControlInv
  <1>5. /\ ControlInv' /\ req'[q] = r
        /\ \A p \in Requests : p # q => req'[p] = req[p]
    BY <1>1, <1>2, <1>3, <1>4, Move
  <1>6. IssueInv'
    BY <1>5, NoNewIssuers DEF history
  <1> QED
    BY <1>5, <1>6, InvariantFacts, LocalStep

\* The lock of an address is taken when it is free.
LEMMA LockEmailStep ==
    ASSUME ChallengeAssumption, IInv, NEW q \in Requests, LockEmail(q)
    PROVE  IInv'
  <1>1. PICK r \in Request :
            /\ req' = [req EXCEPT ![q] = r] /\ r.pc = "locked" /\ r.op = req[q].op
            /\ r.email = req[q].email /\ r.purpose = req[q].purpose /\ r.id = req[q].id
    BY GotoFacts DEF LockEmail, Stages
  <1>2. /\ req[q].pc = "lock" /\ held[r.email] = None
        /\ held' = [held EXCEPT ![r.email] = q]
        /\ UNCHANGED <<tables, userLock, inserting, history>>
    BY <1>1 DEF LockEmail, EmailFree
  <1>3. Shape(r) /\ Accepted(r) /\ Entitled(r)
    BY <1>1, <1>2, InvariantFacts DEF Shape, Accepted, Entitled
  <1> QED
    BY <1>1, <1>2, <1>3, GotoStep DEF Stages

\* What the fresh, locked read shows is what Accepted asks for.
LEMMA AcceptStep ==
    ASSUME ChallengeAssumption, IInv, NEW q \in Requests, Accept(q)
    PROVE  IInv'
  <1>1. PICK r \in Request :
            /\ req' = [req EXCEPT ![q] = r] /\ r.pc = "consumed" /\ r.op = req[q].op
            /\ r.email = req[q].email /\ r.purpose = req[q].purpose /\ r.id = req[q].id
    BY GotoFacts DEF Accept, Stages
  <1>2. /\ req[q].pc = "locked" /\ req[q].op = "consume"
        /\ UNCHANGED <<tables, held, userLock, inserting, history>>
    BY DEF Accept, locks
  <1>3. Shape(r) /\ Accepted(r) /\ Entitled(r)
    BY <1>1, <1>2, InvariantFacts DEF Shape, Accepted, Entitled, Accept, Found, Answerable
  <1> QED
    BY <1>1, <1>2, <1>3, GotoStep DEF Stages

\* The unlocked read of the account decides between giving up and going on.
LEMMA FindUserStep ==
    ASSUME ChallengeAssumption, IInv, NEW q \in Requests, FindUser(q)
    PROVE  IInv'
  <1>1. CASE Withdraw(q)
    BY <1>1, RollbackStep DEF Withdraw
  <1>2. CASE ~Withdraw(q)
    <2>1. PICK pc \in {"insert", "user"} :
              /\ Goto(q, pc) /\ UNCHANGED <<tables, held, userLock, inserting, history>>
              /\ pc = "insert" => req[q].purpose = "registration"
              /\ pc = "user" => req[q].purpose = "password_reset"
      BY <1>2 DEF FindUser, locks
    <2>2. PICK r \in Request :
              /\ req' = [req EXCEPT ![q] = r] /\ r.pc = pc /\ r.op = req[q].op
              /\ r.email = req[q].email /\ r.purpose = req[q].purpose /\ r.id = req[q].id
      BY <2>1, GotoFacts DEF Stages
    <2>3. \/ req[q].pc = "consumed" /\ req[q].op = "consume"
          \/ req[q].pc = "locked" /\ req[q].op = "external"
      BY DEF FindUser
    <2>4. Shape(r) /\ Accepted(r) /\ Entitled(r)
      BY <2>1, <2>2, <2>3, InvariantFacts DEF Shape, Accepted, Entitled
    <2> QED
      BY <2>1, <2>2, <2>3, <2>4, GotoStep DEF Stages
  <1> QED
    BY <1>1, <1>2

\* The flushed insert: the unique constraint has checked that there is no account.
LEMMA InsertUserStep ==
    ASSUME ChallengeAssumption, IInv, NEW q \in Requests, InsertUser(q)
    PROVE  IInv'
  <1>1. CASE Rollback(q)
    BY <1>1, RollbackStep
  <1>2. CASE ~Rollback(q)
    <2>1. PICK r \in Request :
              /\ req' = [req EXCEPT ![q] = r] /\ r.pc = "commit" /\ r.op = req[q].op
              /\ r.email = req[q].email /\ r.purpose = req[q].purpose /\ r.id = req[q].id
      BY <1>2, GotoFacts DEF InsertUser, Stages
    <2>2. /\ req[q].pc = "insert" /\ inserting[r.email] = None /\ ~users[r.email].exists
          /\ inserting' = [inserting EXCEPT ![r.email] = q]
          /\ UNCHANGED <<tables, held, userLock, history>>
      BY <1>2, <2>1 DEF InsertUser, Unique
    <2>3. Shape(r) /\ Accepted(r) /\ Entitled(r) /\ r.purpose = "registration"
      BY <2>1, <2>2, InvariantFacts DEF Shape, Accepted, Entitled
    <2> QED
      BY <2>1, <2>2, <2>3, GotoStep DEF Stages
  <1> QED
    BY <1>1, <1>2

\* The locked row of the account, checked once more.
LEMMA LockUserStep ==
    ASSUME ChallengeAssumption, IInv, NEW q \in Requests, LockUser(q)
    PROVE  IInv'
  <1>1. CASE Withdraw(q)
    BY <1>1, RollbackStep DEF Withdraw
  <1>2. CASE ~Withdraw(q)
    <2>1. PICK r \in Request :
              /\ req' = [req EXCEPT ![q] = r] /\ r.pc = "commit" /\ r.op = req[q].op
              /\ r.email = req[q].email /\ r.purpose = req[q].purpose /\ r.id = req[q].id
      BY <1>2, GotoFacts DEF LockUser, Stages
    <2>2. /\ req[q].pc = "user" /\ userLock[r.email] = None /\ Resettable(users[r.email])
          /\ userLock' = [userLock EXCEPT ![r.email] = q]
          /\ UNCHANGED <<tables, held, inserting, history>>
      BY <1>2, <2>1 DEF LockUser, ResetAllowed
    <2>3. Shape(r) /\ Accepted(r) /\ Entitled(r) /\ r.purpose = "password_reset"
      BY <2>1, <2>2, InvariantFacts DEF Shape, Accepted, Entitled
    <2> QED
      BY <2>1, <2>2, <2>3, GotoStep DEF Stages
  <1> QED
    BY <1>1, <1>2

-----------------------------------------------------------------------------
(* Steps that write the tables                                             *)

\* Whoever finds a challenge has its row before it.
LEMMA FoundRow ==
    ASSUME ChallengeAssumption, IInv, NEW q \in Requests, req[q].op = "consume", Found(q)
    PROVE  /\ req[q].email \in Emails /\ req[q].purpose \in Purposes
           /\ req[q].id \in Ids /\ req[q].id # 0
           /\ rows[req[q].email][req[q].purpose].id = req[q].id
           /\ rows[req[q].email][req[q].purpose] \in Row
  BY InvariantFacts, TableFacts, RowFacts DEF Shape, Found, IInv

\* A step of q that ends its transaction and rewrites challenges only of an address whose
\* lock it has, and no account that another is about to commit: what other requests have
\* found stays as it was.
LEMMA FinishStep ==
    ASSUME ChallengeAssumption, IInv, NEW q \in Requests, Finish(q),
           \A f \in Emails, p \in Purposes :
               rows'[f][p] = rows[f][p] \/ HasEmail(req[q], f),
           issued' \in Nat, issued <= issued',
           \A f \in Emails, p \in Requests :
               p # q /\ (inserting[f] = p \/ userLock[f] = p) => users'[f] = users[f]
    PROVE  /\ ControlInv' /\ RequestInv' /\ req'[q] = Idle
           /\ \A p \in Requests : p # q => req'[p] = req[p]
  <1>1. /\ ControlInv' /\ req'[q] = Idle
        /\ \A p \in Requests : p # q => req'[p] = req[p]
    BY InvariantFacts, FinishMoves
  <1>3. ASSUME NEW p \in Requests, p # q
        PROVE  Accepted(req[p])' /\ Entitled(req[p])' /\ req[p].id <= issued'
    <2>1. Accepted(req[p])'
      <3> SUFFICES ASSUME req[p].op = "consume", req[p].pc \notin {"lock", "locked"}
                   PROVE  /\ rows'[req[p].email][req[p].purpose].id = req[p].id
                          /\ ~rows'[req[p].email][req[p].purpose].consumed
                          /\ rows'[req[p].email][req[p].purpose].attempts < ChallengeAttempts
        BY <1>1, <1>3 DEF Accepted
      <3>1. req[p].pc # "idle" /\ req[p].email \in Emails /\ req[p].purpose \in Purposes
        BY InvariantFacts DEF Shape
      <3>2. held[req[p].email] = p
        BY <3>1, InvariantFacts DEF IInv, LockInv, HasEmail, Shape
      <3>3. ~HasEmail(req[q], req[p].email)
        BY <1>3, <3>1, <3>2 DEF IInv, LockInv
      <3> QED
        BY <3>1, <3>3, InvariantFacts DEF Accepted
    <2>2. Entitled(req[p])'
      <3> SUFFICES ASSUME req[p].pc = "commit"
                   PROVE  /\ req[p].purpose = "registration" => ~users'[req[p].email].exists
                          /\ req[p].purpose = "password_reset" =>
                                Resettable(users'[req[p].email])
        BY <1>1, <1>3 DEF Entitled, Resettable
      <3>1. req[p].email \in Emails
        BY InvariantFacts
      <3>2. /\ req[p].purpose = "registration" => inserting[req[p].email] = p
            /\ req[p].purpose = "password_reset" => userLock[req[p].email] = p
        BY <3>1 DEF IInv, LockInv, HasInsert, HasUser
      <3> QED
        BY <1>3, <3>1, <3>2, InvariantFacts DEF Entitled
    <2>3. req[p].id <= issued'
      <3>1. req[p].id \in Int /\ req[p].id <= issued /\ issued <= issued' /\ issued \in Int
        BY InvariantFacts DEF IInv, TypeOK, Ids
      <3> QED
        BY <3>1
    <2> QED
      BY <2>1, <2>2, <2>3
  <1>4. Accepted(Idle)' /\ Entitled(Idle)' /\ Idle.id <= issued'
    BY IdleFacts DEF Accepted, Entitled
  <1>5. RequestInv'
    BY <1>1, <1>3, <1>4 DEF RequestInv, Accepted, Entitled
  <1> QED
    BY <1>1, <1>5, IdleFacts

\* The rest of the invariant, about the tables and their history, and their types.
DataInv == IdInv /\ CountInv /\ EffectsOnce /\ BoundedGuesses

TableTypes ==
    /\ users \in [Emails -> User] /\ rows \in [Emails -> [Purposes -> Row \cup {NoRow}]]
    /\ issued \in 0 .. MaxIssued
    /\ effects \in [Ids -> Nat] /\ wrong \in [Ids -> Nat] /\ created \in [Emails -> Nat]

\* The invariant in parts.
LEMMA Parts == IInv => TableTypes /\ DataInv
  BY DEF IInv, TypeOK, TableTypes, DataInv

\* And put together again after a step.
LEMMA PartsSuffice ==
    ASSUME ControlInv', RequestInv', TableTypes', DataInv', IssueInv'
    PROVE  IInv'
  BY DEF IInv, TypeOK, TableTypes, DataInv, ControlInv

\* A new challenge takes the next number, which nothing else has had.
LEMMA IssueStep ==
    ASSUME ChallengeAssumption, IInv, NEW q \in Requests, Issue(q)
    PROVE  IInv'
  <1> DEFINE e == req[q].email
             o == req[q].purpose
             i == issued + 1
  <1>1. /\ req[q].pc = "locked" /\ req[q].op = "issue" /\ Finish(q)
        /\ UNCHANGED <<users, effects, wrong, created>>
    BY DEF Issue
  <1>2. e \in Emails /\ o \in Purposes /\ HasEmail(req[q], e)
    BY <1>1, InvariantFacts DEF HasEmail
  <1>3. CASE UNCHANGED <<issued, rows>>
    BY <1>1, <1>3, RollbackStep DEF Rollback, tables, history
  <1>4. CASE issued' = i /\ rows' = [rows EXCEPT ![e][o] = NewRow(i)]
    <2> HIDE DEF e, o
    <2>1. /\ TableTypes /\ DataInv /\ MaxIssued \in Nat /\ issued \in Nat
          /\ ChallengeAttempts \in Nat
      BY Parts, ConstantTypes DEF TableTypes
    <2>2. /\ IsFiniteSet(Issuers) /\ q \in Issuers
          /\ Cardinality(Issuers \ {q}) = Cardinality(Issuers) - 1
          /\ Cardinality(Issuers) \in Nat /\ Cardinality(Issuers \ {q}) \in Nat
      <3>1. IsFiniteSet(Issuers) /\ q \in Issuers
        BY <1>1, ConstantTypes, FS_Subset DEF Issuers
      <3> QED
        BY <3>1, FS_RemoveElement, FS_CardinalityType
    <2>3. i \in Ids /\ i # 0 /\ i \in Nat /\ i + Cardinality(Issuers \ {q}) <= MaxIssued
      BY <2>1, <2>2 DEF IInv, IssueInv, Ids
    <2>4. /\ NewRow(i) \in Row /\ NewRow(i).id = i /\ NewRow(i).attempts = 0
          /\ NewRow(i).consumed = FALSE
      BY <1>2, <2>3, RowTypes, TableFacts DEF IInv
    <2>5. /\ rows' \in [Emails -> [Purposes -> Row \cup {NoRow}]] /\ rows'[e][o] = NewRow(i)
          /\ \A f \in Emails, p \in Purposes : <<f, p>> # <<e, o>> => rows'[f][p] = rows[f][p]
      BY <1>2, <1>4, <2>1, <2>4 DEF TableTypes
    <2>6. /\ ControlInv' /\ RequestInv' /\ req'[q] = Idle
          /\ \A p \in Requests : p # q => req'[p] = req[p]
      BY <1>1, <1>2, <1>4, <2>1, <2>3, <2>5, FinishStep
    <2>7. TableTypes'
      BY <1>1, <1>4, <2>1, <2>3, <2>5 DEF TableTypes, Ids
    <2>8. \A f \in Emails, p \in Purposes :
              /\ rows[f][p] \in Row \cup {NoRow} /\ rows[f][p].id \in 0 .. issued
              /\ rows[f][p].id # i
      BY <2>1, <2>3, TableFacts, RowFacts DEF DataInv, IdInv, IInv
    <2>9. effects[i] = 0 /\ wrong[i] = 0
      BY <2>1, <2>3 DEF DataInv, IdInv
    <2>10. IdInv'
      BY <1>1, <1>4, <2>1, <2>3, <2>4, <2>5, <2>8 DEF DataInv, IdInv, Ids
    <2>11. CountInv'
      BY <1>1, <1>2, <2>1, <2>4, <2>5, <2>9 DEF DataInv, CountInv
    <2>12. EffectsOnce' /\ BoundedGuesses'
      BY <1>1, <1>2, <2>1, <2>4, <2>5, <2>9 DEF DataInv, EffectsOnce, BoundedGuesses
    <2>13. IssueInv'
      <3>1. Issuers' = Issuers \ {q}
        BY <2>6, IdleFacts DEF Issuers
      <3> QED
        BY <1>4, <2>3, <3>1 DEF IssueInv
    <2> QED
      BY <2>6, <2>7, <2>10, <2>11, <2>12, <2>13, PartsSuffice DEF DataInv
  <1> QED
    BY <1>3, <1>4 DEF Issue

\* An answer counts an attempt of the row it is about.
LEMMA RefuseStep ==
    ASSUME ChallengeAssumption, IInv, NEW q \in Requests, Refuse(q)
    PROVE  IInv'
  <1> DEFINE e == req[q].email
             o == req[q].purpose
             i == req[q].id
  <1>1. /\ req[q].pc = "locked" /\ req[q].op = "consume" /\ Finish(q)
        /\ UNCHANGED <<users, issued, effects, created>>
    BY DEF Refuse
  <1>2. CASE ~(Found(q) /\ Answerable(rows[e][o]))
    BY <1>1, <1>2, RollbackStep DEF Refuse, Rollback, tables, history
  <1>3. CASE Found(q) /\ Answerable(rows[e][o])
    <2>1. /\ e \in Emails /\ o \in Purposes /\ i \in Ids /\ i # 0 /\ HasEmail(req[q], e)
          /\ rows[e][o].id = i /\ rows[e][o] \in Row
      BY <1>1, <1>3, FoundRow DEF HasEmail
    <2>2. /\ rows[e][o].attempts < ChallengeAttempts
          /\ rows' = [rows EXCEPT ![e][o] = Answered(rows[e][o])]
          /\ wrong' = [wrong EXCEPT ![i] = @ + 1]
      BY <1>3, <2>1 DEF Refuse, Answerable
    <2> HIDE DEF e, o, i
    <2>3. TableTypes /\ DataInv /\ ChallengeAttempts \in Nat
      BY Parts, ConstantTypes
    <2>4. /\ Answered(rows[e][o]) \in Row /\ Answered(rows[e][o]).id = i
          /\ Answered(rows[e][o]).attempts = rows[e][o].attempts + 1
          /\ Answered(rows[e][o]).consumed = rows[e][o].consumed
          /\ rows[e][o].attempts \in Nat
      <3>1. rows[e][o] \in Row \cup {NoRow} /\ rows[e][o].id # 0
        BY <2>1
      <3>2. rows[e][o].attempts \in Nat
        BY <2>3, <3>1, RowFacts
      <3> QED
        BY <2>1, <2>2, <3>1, <3>2, RowTypes
    <2>5. /\ rows' \in [Emails -> [Purposes -> Row \cup {NoRow}]]
          /\ rows'[e][o] = Answered(rows[e][o])
          /\ \A f \in Emails, p \in Purposes : <<f, p>> # <<e, o>> => rows'[f][p] = rows[f][p]
      BY <2>1, <2>2, <2>3, <2>4 DEF TableTypes
    <2>6. /\ ControlInv' /\ RequestInv' /\ req'[q] = Idle
          /\ \A p \in Requests : p # q => req'[p] = req[p]
      BY <1>1, <2>1, <2>3, <2>5, FinishStep DEF TableTypes
    <2>7. /\ wrong' \in [Ids -> Nat] /\ wrong'[i] = wrong[i] + 1
          /\ wrong[i] \in Nat /\ \A j \in Ids : j # i => wrong'[j] = wrong[j]
      BY <2>1, <2>2, <2>3 DEF TableTypes
    <2>8. TableTypes'
      BY <1>1, <2>3, <2>5, <2>7 DEF TableTypes
    <2>9. \A f \in Emails, p \in Purposes :
              /\ rows[f][p].id = rows'[f][p].id
              /\ rows[f][p].id # 0 => rows[f][p].id \in Ids
              /\ <<f, p>> # <<e, o>> => rows[f][p].id # i
      BY <2>1, <2>3, <2>4, <2>5, TableFacts, RowFacts DEF DataInv, IdInv, IInv
    <2>10. i <= issued
      BY InvariantFacts DEF i
    <2>11. IdInv'
      <3>1. \A j \in Ids : j > issued => j # i
        BY <2>1, <2>3, <2>10 DEF Ids, TableTypes
      <3> QED
        BY <1>1, <2>3, <2>7, <2>9, <3>1 DEF DataInv, IdInv
    <2>12. wrong'[i] <= rows'[e][o].attempts /\ wrong'[i] <= ChallengeAttempts
      <3>1. wrong[i] <= rows[e][o].attempts
        BY <2>1, <2>3 DEF DataInv, CountInv
      <3> QED
        BY <2>2, <2>3, <2>4, <2>5, <2>7, <3>1
    <2>13. CountInv'
      BY <1>1, <2>1, <2>3, <2>4, <2>5, <2>7, <2>9, <2>12 DEF DataInv, CountInv
    <2>14. EffectsOnce' /\ BoundedGuesses'
      <3>1. \A f \in Emails, p \in Purposes :
                /\ rows'[f][p].consumed = rows[f][p].consumed
                /\ rows[f][p] # NoRow <=> rows[f][p].id # 0
                /\ rows'[f][p] # NoRow <=> rows'[f][p].id # 0
        BY <2>3, <2>4, <2>5, RowFacts DEF TableTypes
      <3> QED
        BY <1>1, <2>3, <2>7, <2>9, <2>12, <3>1 DEF DataInv, EffectsOnce, BoundedGuesses
    <2>15. IssueInv'
      BY <1>1, <2>6, IdleFacts, NoNewIssuers
    <2> QED
      BY <2>6, <2>8, <2>11, <2>13, <2>14, <2>15, PartsSuffice DEF DataInv
  <1> QED
    BY <1>2, <1>3

\* What a commit does to the challenge it consumes: the row was still there, not consumed,
\* and with an attempt left, since nobody else had the lock of the address.
LEMMA CommitRow ==
    ASSUME ChallengeAssumption, IInv, NEW q \in Requests, Commit(q), req[q].op = "consume"
    PROVE  /\ req[q].email \in Emails /\ req[q].purpose \in Purposes /\ req[q].id \in Ids
           /\ rows[req[q].email][req[q].purpose].id = req[q].id
           /\ ~rows[req[q].email][req[q].purpose].consumed
           /\ effects[req[q].id] = 0 /\ effects' = [effects EXCEPT ![req[q].id] = 1]
           /\ \E r \in Row :
                 /\ r.id = req[q].id /\ r.consumed = TRUE
                 /\ r.attempts = rows[req[q].email][req[q].purpose].attempts + 1
                 /\ rows' = [rows EXCEPT ![req[q].email][req[q].purpose] = r]
  <1> DEFINE e == req[q].email
             o == req[q].purpose
             i == req[q].id
             x == rows[e][o]
  <1>1. /\ req[q].pc = "commit" /\ Found(q)
        /\ rows' = [rows EXCEPT ![e][o] = [Answered(@) EXCEPT !.consumed = TRUE]]
        /\ effects' = [effects EXCEPT ![i] = @ + 1]
    BY DEF Commit
  <1>2. /\ e \in Emails /\ o \in Purposes /\ i \in Ids /\ i # 0 /\ x.id = i /\ x \in Row
    BY <1>1, FoundRow
  <1>3. ~x.consumed /\ x.attempts < ChallengeAttempts
    BY <1>1, InvariantFacts DEF Accepted
  <1>4. TableTypes /\ DataInv
    BY Parts
  <1>5. effects[i] = 0 /\ effects' = [effects EXCEPT ![i] = 1]
    <2>1. x # NoRow
      BY <1>2, RowFacts
    <2>2. effects[i] # 1
      BY <1>2, <1>3, <1>4, <2>1 DEF DataInv, EffectsOnce
    <2>3. effects[i] \in Nat /\ effects[i] <= 1
      BY <1>2, <1>4 DEF DataInv, EffectsOnce, TableTypes
    <2>4. effects[i] = 0
      BY <2>2, <2>3
    <2> QED
      BY <1>1, <1>2, <1>4, <2>4 DEF TableTypes
  <1> DEFINE r == [Answered(x) EXCEPT !.consumed = TRUE]
  <1>6. /\ Answered(x) \in Row /\ Answered(x).id = x.id
        /\ Answered(x).attempts = x.attempts + 1
    <2>1. x \in Row \cup {NoRow} /\ x.id # 0
      BY <1>2
    <2> QED
      BY <1>3, <2>1, RowTypes
  <1>7. r \in Row /\ r.id = i /\ r.consumed = TRUE /\ r.attempts = x.attempts + 1
    BY <1>2, <1>6 DEF Row
  <1>8. rows' = [rows EXCEPT ![e][o] = r]
    BY <1>1, <1>2, <1>4 DEF TableTypes
  <1> HIDE DEF r, x, e, o, i
  <1>9. \E z \in Row : /\ z.id = i /\ z.consumed = TRUE /\ z.attempts = x.attempts + 1
                       /\ rows' = [rows EXCEPT ![e][o] = z]
    BY <1>7, <1>8
  <1> QED
    BY <1>2, <1>3, <1>5, <1>9 DEF x, e, o, i

\* What a commit does to the account: it is new, or it is the one whose row is locked.
LEMMA CommitUser ==
    ASSUME ChallengeAssumption, IInv, NEW q \in Requests, Commit(q)
    PROVE  /\ users' \in [Emails -> User] /\ created' \in [Emails -> Nat]
           /\ \A e \in Emails : created'[e] = IF users'[e].exists THEN 1 ELSE 0
           /\ \A f \in Emails, p \in Requests :
                  p # q /\ (inserting[f] = p \/ userLock[f] = p) => users'[f] = users[f]
  <1> DEFINE e == req[q].email
  <1>1. req[q].pc = "commit" /\ e \in Emails /\ TableTypes /\ DataInv
    BY InvariantFacts, Parts DEF Commit
  <1>2. CASE /\ req[q].purpose = "registration"
             /\ users' = [users EXCEPT ![e] = NewUser(req[q].op)]
             /\ created' = [created EXCEPT ![e] = @ + 1]
    <2>1. ~users[e].exists /\ created[e] = 0
      BY <1>1, <1>2, InvariantFacts DEF Entitled, DataInv, CountInv
    <2>2. NewUser(req[q].op) \in User /\ NewUser(req[q].op).exists
      BY DEF NewUser, User
    <2>3. /\ users' \in [Emails -> User] /\ users'[e].exists
          /\ \A f \in Emails : f # e => users'[f] = users[f]
      BY <1>1, <1>2, <2>2 DEF TableTypes
    <2>4. /\ created' \in [Emails -> Nat] /\ created'[e] = 1
          /\ \A f \in Emails : f # e => created'[f] = created[f]
      BY <1>1, <1>2, <2>1 DEF TableTypes
    <2>5. \A f \in Emails : created'[f] = IF users'[f].exists THEN 1 ELSE 0
      BY <1>1, <2>3, <2>4 DEF DataInv, CountInv
    <2>6. ASSUME NEW p \in Requests, p # q
          PROVE  inserting[e] # p /\ userLock[e] # p
      <3>1. inserting[e] = q
        BY <1>1, <1>2 DEF IInv, LockInv, HasInsert
      <3>2. ASSUME userLock[e] = p
            PROVE  FALSE
        <4>1. HasUser(req[p], e)
          BY <1>1, <3>2 DEF IInv, LockInv
        <4> QED
          BY <2>1, <4>1, InvariantFacts DEF HasUser, Entitled, Resettable
      <3> QED
        BY <2>6, <3>1, <3>2
    <2> QED
      BY <2>3, <2>4, <2>5, <2>6
  <1>3. CASE UNCHANGED <<users, created>>
    BY <1>1, <1>3 DEF TableTypes, DataInv, CountInv
  <1> QED
    BY <1>2, <1>3 DEF Commit

\* The commit of an account or a password, with the challenge that it consumes.
LEMMA CommitStep ==
    ASSUME ChallengeAssumption, IInv, NEW q \in Requests, Commit(q)
    PROVE  IInv'
  <1>1. /\ req[q].pc = "commit" /\ Finish(q) /\ UNCHANGED <<issued, wrong>>
        /\ TableTypes /\ DataInv /\ ChallengeAttempts \in Nat
    BY Parts, ConstantTypes DEF Commit
  <1>2. /\ users' \in [Emails -> User] /\ created' \in [Emails -> Nat]
        /\ \A f \in Emails : created'[f] = IF users'[f].exists THEN 1 ELSE 0
        /\ \A f \in Emails, p \in Requests :
               p # q /\ (inserting[f] = p \/ userLock[f] = p) => users'[f] = users[f]
    BY CommitUser
  <1>3. \A f \in Emails : created'[f] <= 1
    BY <1>2
  <1>4. CASE req[q].op # "consume"
    <2>1. UNCHANGED <<rows, effects>>
      BY <1>4 DEF Commit
    <2>2. /\ ControlInv' /\ RequestInv' /\ req'[q] = Idle
          /\ \A p \in Requests : p # q => req'[p] = req[p]
      BY <1>1, <1>2, <2>1, FinishStep DEF TableTypes
    <2>3. TableTypes' /\ DataInv'
      BY <1>1, <1>2, <1>3, <2>1
         DEF TableTypes, DataInv, IdInv, CountInv, EffectsOnce, BoundedGuesses
    <2>4. IssueInv'
      BY <1>1, <2>2, IdleFacts, NoNewIssuers
    <2> QED
      BY <2>2, <2>3, <2>4, PartsSuffice
  <1>5. CASE req[q].op = "consume"
    <2> DEFINE e == req[q].email
               o == req[q].purpose
               i == req[q].id
    <2>1. /\ e \in Emails /\ o \in Purposes /\ i \in Ids /\ rows[e][o].id = i
          /\ effects[i] = 0 /\ effects' = [effects EXCEPT ![i] = 1]
      BY <1>5, CommitRow
    <2>2. PICK r \in Row : /\ r.id = i /\ r.consumed = TRUE
                           /\ r.attempts = rows[e][o].attempts + 1
                           /\ rows' = [rows EXCEPT ![e][o] = r]
      BY <1>5, CommitRow
    <2>3. HasEmail(req[q], e) /\ i <= issued
      BY <1>1, <1>5, InvariantFacts DEF HasEmail
    <2> HIDE DEF e, o, i
    <2>4. /\ rows' \in [Emails -> [Purposes -> Row \cup {NoRow}]] /\ rows'[e][o] = r
          /\ \A f \in Emails, p \in Purposes : <<f, p>> # <<e, o>> => rows'[f][p] = rows[f][p]
      BY <1>1, <2>1, <2>2 DEF TableTypes
    <2>5. /\ ControlInv' /\ RequestInv' /\ req'[q] = Idle
          /\ \A p \in Requests : p # q => req'[p] = req[p]
      BY <1>1, <1>2, <2>3, <2>4, FinishStep DEF TableTypes
    <2>6. /\ effects' \in [Ids -> Nat] /\ effects'[i] = 1
          /\ \A j \in Ids : j # i => effects'[j] = effects[j]
      BY <1>1, <2>1 DEF TableTypes
    <2>7. TableTypes'
      BY <1>1, <1>2, <2>4, <2>6 DEF TableTypes
    <2>8. /\ i # 0 /\ \A f \in Emails, p \in Purposes :
              /\ rows[f][p].id = rows'[f][p].id
              /\ rows[f][p].id # 0 => rows[f][p].id \in Ids
              /\ rows[f][p] # NoRow <=> rows[f][p].id # 0
              /\ rows'[f][p] # NoRow <=> rows'[f][p].id # 0
              /\ <<f, p>> # <<e, o>> => rows[f][p].id # i
      <3>1. i # 0
        BY <2>1 DEF Ids
      <3>2. ASSUME NEW f \in Emails, NEW p \in Purposes
            PROVE  /\ rows[f][p].id = rows'[f][p].id
                   /\ rows[f][p].id # 0 => rows[f][p].id \in Ids
                   /\ rows[f][p] # NoRow <=> rows[f][p].id # 0
                   /\ rows'[f][p] # NoRow <=> rows'[f][p].id # 0
        BY <1>1, <2>1, <2>2, <2>4, RowFacts DEF TableTypes
      <3>3. ASSUME NEW f \in Emails, NEW p \in Purposes, <<f, p>> # <<e, o>>
            PROVE  rows[f][p].id # i
        BY <1>1, <2>1, <3>1, <3>3 DEF DataInv, IdInv
      <3> QED
        BY <3>1, <3>2, <3>3
    <2>9. IdInv'
      <3>1. \A j \in Ids : j > issued => j # i
        BY <1>1, <2>1, <2>3 DEF Ids, TableTypes
      <3> QED
        BY <1>1, <2>6, <2>8, <3>1 DEF DataInv, IdInv
    <2>10. CountInv'
      <3>1. wrong[i] <= r.attempts
        <4>1. wrong[i] <= rows[e][o].attempts /\ wrong[i] \in Nat
          BY <1>1, <2>1, <2>8 DEF DataInv, CountInv, TableTypes
        <4>2. rows[e][o].attempts \in Nat
          BY <1>1, <2>1, RowFacts DEF TableTypes
        <4> QED
          BY <2>2, <4>1, <4>2
      <3> QED
        BY <1>1, <1>2, <2>1, <2>4, <2>8, <3>1 DEF DataInv, CountInv
    <2>11. EffectsOnce' /\ BoundedGuesses'
      <3>1. \A j \in Ids : effects'[j] <= 1
        BY <1>1, <2>6 DEF DataInv, EffectsOnce
      <3>2. ASSUME NEW f \in Emails, NEW p \in Purposes, rows'[f][p] # NoRow
            PROVE  rows'[f][p].consumed <=> effects'[rows'[f][p].id] = 1
        <4>1. CASE f = e /\ p = o
          BY <2>2, <2>4, <2>6, <4>1
        <4>2. CASE <<f, p>> # <<e, o>>
          BY <1>1, <2>4, <2>6, <2>8, <3>2, <4>2 DEF DataInv, EffectsOnce
        <4> QED
          BY <4>1, <4>2
      <3> QED
        BY <1>1, <1>3, <3>1, <3>2 DEF DataInv, EffectsOnce, BoundedGuesses
    <2>12. IssueInv'
      BY <1>1, <2>5, IdleFacts, NoNewIssuers
    <2> QED
      BY <2>5, <2>7, <2>9, <2>10, <2>11, <2>12, PartsSuffice DEF DataInv
  <1> QED
    BY <1>4, <1>5

-----------------------------------------------------------------------------
(* Administrators and time                                                 *)

\* change_access leaves accounts alone whose row is locked.
LEMMA ChangeAccessStep ==
    ASSUME ChallengeAssumption, IInv, NEW e \in Emails, ChangeAccess(e)
    PROVE  IInv'
  <1>1. TableTypes /\ DataInv /\ UNCHANGED <<rows, locks, req, history>>
    BY Parts DEF ChangeAccess
  <1>2. /\ users' \in [Emails -> User] /\ users'[e].exists = users[e].exists
        /\ \A f \in Emails : f # e => users'[f] = users[f]
        /\ users[e].exists /\ userLock[e] = None
    BY <1>1 DEF ChangeAccess, TableTypes, User
  <1>3. ControlInv' /\ IssueInv' /\ TableTypes' /\ DataInv'
    <2>1. \A f \in Emails : users'[f].exists = users[f].exists
      BY <1>2
    <2>2. ControlInv' /\ IssueInv'
      BY <1>1 DEF locks, history, IInv, TypeOK, ControlInv, ShapeInv, LockInv, IssueInv, Issuers
    <2>3. TableTypes'
      BY <1>1, <1>2 DEF history, TableTypes
    <2>4. CountInv'
      BY <1>1, <2>1 DEF history, DataInv, CountInv
    <2>5. IdInv' /\ EffectsOnce' /\ BoundedGuesses'
      BY <1>1 DEF history, DataInv, IdInv, EffectsOnce, BoundedGuesses
    <2> QED
      BY <2>2, <2>3, <2>4, <2>5 DEF DataInv
  <1>4. RequestInv'
    <2> SUFFICES ASSUME NEW q \in Requests
                 PROVE  Accepted(req[q])' /\ Entitled(req[q])' /\ req[q].id <= issued
      BY <1>1 DEF RequestInv, history
    <2>1. Accepted(req[q])' /\ req[q].id <= issued
      BY <1>1, InvariantFacts DEF Accepted
    <2>2. Entitled(req[q])'
      <3> SUFFICES ASSUME req[q].pc = "commit"
                   PROVE  /\ req[q].purpose = "registration" => ~users'[req[q].email].exists
                          /\ req[q].purpose = "password_reset" =>
                                Resettable(users'[req[q].email])
        BY <1>1 DEF Entitled, Resettable
      <3>1. req[q].email \in Emails /\ Entitled(req[q])
        BY InvariantFacts
      <3>2. req[q].purpose = "password_reset" => req[q].email # e
        BY <1>2, <3>1, ConstantTypes DEF IInv, LockInv, HasUser
      <3> QED
        BY <1>2, <3>1, <3>2 DEF Entitled
    <2> QED
      BY <2>1, <2>2
  <1> QED
    BY <1>3, <1>4, PartsSuffice

\* Time changes nothing but ages.
LEMMA TickStep ==
    ASSUME ChallengeAssumption, IInv, Tick
    PROVE  IInv'
  <1>1. TableTypes /\ DataInv /\ UNCHANGED <<users, locks, req, history>>
    BY Parts DEF Tick
  <1>2. ASSUME NEW f \in Emails, NEW p \in Purposes
        PROVE  /\ rows'[f][p] \in Row \cup {NoRow} /\ rows'[f][p].id = rows[f][p].id
               /\ rows'[f][p].attempts = rows[f][p].attempts
               /\ rows'[f][p].consumed = rows[f][p].consumed
               /\ (rows'[f][p] # NoRow) <=> (rows[f][p] # NoRow)
    <2>1. rows[f][p] \in Row \cup {NoRow} /\ rows'[f][p] = Older(rows[f][p])
      BY <1>1 DEF TableTypes, Tick
    <2>2. /\ rows'[f][p] \in Row \cup {NoRow} /\ rows'[f][p].id = rows[f][p].id
          /\ rows'[f][p].attempts = rows[f][p].attempts
          /\ rows'[f][p].consumed = rows[f][p].consumed
      BY <2>1, RowTypes
    <2>3. (rows[f][p] # NoRow) <=> (rows[f][p].id # 0)
      BY <2>1, RowFacts
    <2>4. (rows'[f][p] # NoRow) <=> (rows'[f][p].id # 0)
      BY <2>2, RowFacts
    <2> QED
      BY <2>2, <2>3, <2>4
  <1>3. ControlInv' /\ IssueInv'
    BY <1>1 DEF locks, history, IInv, TypeOK, ControlInv, ShapeInv, LockInv, IssueInv, Issuers
  <1>4. TableTypes'
    BY <1>1, <1>2 DEF Tick, TableTypes, history
  <1>5. DataInv'
    BY <1>1, <1>2 DEF history, DataInv, IdInv, CountInv, EffectsOnce, BoundedGuesses
  <1>6. RequestInv'
    <2> SUFFICES ASSUME NEW q \in Requests
                 PROVE  Accepted(req[q])' /\ Entitled(req[q])' /\ req[q].id <= issued
      BY <1>1 DEF RequestInv, history
    <2>1. Entitled(req[q])' /\ req[q].id <= issued
      BY <1>1, InvariantFacts DEF Entitled
    <2>2. Accepted(req[q])'
      BY <1>1, <1>2, InvariantFacts DEF Accepted, Shape
    <2> QED
      BY <2>1, <2>2
  <1> QED
    BY <1>3, <1>4, <1>5, <1>6, PartsSuffice

-----------------------------------------------------------------------------
(* Theorems                                                                *)

\* The inductive invariant holds at the start.
LEMMA InitIInv ==
    ASSUME ChallengeAssumption, Init
    PROVE  IInv
  <1>1. Idle \in Request /\ Shape(Idle) /\ Idle.pc = "idle" /\ Idle.op = "none" /\ Idle.id = 0
    BY IdleFacts
  <1>2. NoRow.id = 0 /\ MaxIssued \in Nat /\ ChallengeAttempts \in Nat /\ None \notin Requests
    BY ConstantTypes DEF NoRow
  <1>3. TypeOK
    BY <1>1, <1>2 DEF Init, TypeOK, User
  <1>4. ShapeInv /\ LockInv
    BY <1>1, <1>2, IdleFacts DEF Init, ShapeInv, LockInv
  <1>5. RequestInv /\ IdInv /\ CountInv
    BY <1>1, <1>2 DEF Init, RequestInv, Accepted, Entitled, IdInv, CountInv
  <1>6. EffectsOnce /\ BoundedGuesses
    BY <1>2 DEF Init, EffectsOnce, BoundedGuesses
  <1>7. IssueInv
    <2>1. Issuers = {}
      BY <1>1 DEF Init, Issuers
    <2> QED
      BY <1>2, <2>1, FS_EmptySet DEF Init, IssueInv
  <1> QED
    BY <1>3, <1>4, <1>5, <1>6, <1>7 DEF IInv

\* Every step keeps it.
LEMMA NextIInv ==
    ASSUME ChallengeAssumption, IInv, [Next]_vars
    PROVE  IInv'
  <1>1. CASE UNCHANGED vars
    BY <1>1 DEF vars, IInv, TypeOK, ShapeInv, LockInv, RequestInv, Accepted, Entitled, IdInv,
                CountInv, IssueInv, Issuers, EffectsOnce, BoundedGuesses
  <1>2. ASSUME NEW q \in Requests, Arrive(q) \/ Wait(q) \/ Proceed(q) \/ Fail(q)
        PROVE  IInv'
    BY <1>2, ArriveStep, LockEmailStep, InsertUserStep, LockUserStep, IssueStep, RefuseStep,
       AcceptStep, FindUserStep, CommitStep, RollbackStep DEF Wait, Proceed, Fail
  <1> QED
    BY <1>1, <1>2, ChangeAccessStep, TickStep DEF Next

\* The invariant holds in every reachable state.
LEMMA InvariantHolds ==
    ASSUME ChallengeAssumption
    PROVE  Spec => []IInv
  <1>1. Init => IInv
    BY InitIInv
  <1>2. IInv /\ [Next]_vars => IInv'
    BY NextIInv
  <1> QED
    BY <1>1, <1>2, PTL DEF Spec

\* Columns, locals and locks keep their domains, for any number of requests: the attempts
\* of a challenge never pass challenge_attempts.
THEOREM TypeCorrect ==
    ASSUME ChallengeAssumption
    PROVE  Spec => []TypeOK
  <1>1. IInv => TypeOK
    BY DEF IInv
  <1> QED
    BY <1>1, InvariantHolds, PTL

\* A challenge is consumed exactly with its effect and takes effect once, and an address
\* gets one account, for any number of concurrent registrations, logins and bootstraps.
THEOREM EffectsOnlyOnce ==
    ASSUME ChallengeAssumption
    PROVE  Spec => []EffectsOnce
  <1>1. IInv => EffectsOnce
    BY DEF IInv
  <1> QED
    BY <1>1, InvariantHolds, PTL

\* challenge_attempts bounds the wrong answers to a challenge, however many requests
\* answer it at a time.
THEOREM GuessesBounded ==
    ASSUME ChallengeAssumption
    PROVE  Spec => []BoundedGuesses
  <1>1. IInv => BoundedGuesses
    BY DEF IInv
  <1> QED
    BY <1>1, InvariantHolds, PTL

\* Challenges take effect by commits that consume them.
LEMMA EffectsByCommit ==
    ASSUME [Next]_vars, effects' # effects
    PROVE  \E q \in Requests : Commit(q) /\ req[q].op = "consume"
  <1>1. ASSUME NEW q \in Requests, Arrive(q) \/ Wait(q) \/ Proceed(q) \/ Fail(q)
        PROVE  Commit(q) /\ req[q].op = "consume"
    BY <1>1 DEF Arrive, BeginRegistration, BeginReset, Complete, ExternalLogin, Bootstrap,
        Start, Wait, LockEmail, InsertUser, LockUser, Proceed, Issue, Refuse, Accept, FindUser,
        Commit, Fail, Withdraw, Rollback, history
  <1> QED
    BY <1>1 DEF Next, vars, ChangeAccess, Tick, history

\* A step that makes a challenge take effect is justified.
LEMMA StepJustified ==
    ASSUME ChallengeAssumption, IInv, [Next]_vars
    PROVE  Justified
  <1>1. TableTypes /\ DataInv
    BY Parts
  <1>2. \A e \in Emails, p \in Purposes : rows[e][p] # NoRow <=> rows[e][p].id # 0
    BY <1>1, RowFacts DEF TableTypes
  <1>3. CASE effects' = effects
    <2>1. \A i \in Ids : ~(effects'[i] > effects[i])
      BY <1>1, <1>3 DEF TableTypes
    <2>2. \A e \in Emails, p \in Purposes : rows[e][p] # NoRow => rows[e][p].id \in Ids
      BY <1>1, RowFacts DEF TableTypes
    <2> QED
      BY <2>1, <2>2 DEF Justified, Applied, Purposes
  <1>4. CASE effects' # effects
    <2>1. PICK q \in Requests : Commit(q) /\ req[q].op = "consume"
      BY <1>4, EffectsByCommit
    <2> DEFINE e == req[q].email
               o == req[q].purpose
               i == req[q].id
    <2>2. /\ e \in Emails /\ o \in Purposes /\ i \in Ids /\ rows[e][o].id = i
          /\ effects' = [effects EXCEPT ![i] = 1]
      BY <2>1, CommitRow
    <2>3. i # 0 /\ \A j \in Ids : j # i => ~(effects'[j] > effects[j])
      BY <1>1, <2>2 DEF TableTypes, Ids
    <2>4. rows[e][o] # NoRow
      BY <1>2, <2>2, <2>3
    <2>5. o = "password_reset" => users[e].active
      BY <2>1, InvariantFacts DEF Commit, Entitled, Resettable
    <2> HIDE DEF e, o, i
    <2>6. ASSUME NEW f \in Emails, Applied(f, "password_reset")
          PROVE  users[f].active
      <3>1. /\ rows[f]["password_reset"] # NoRow /\ rows[f]["password_reset"].id \in Ids
            /\ rows[f]["password_reset"].id # 0
        BY <1>1, <2>6, RowFacts DEF Applied, TableTypes, Purposes
      <3>2. rows[f]["password_reset"].id = i
        BY <2>3, <2>6, <3>1 DEF Applied
      <3>3. f = e /\ o = "password_reset"
        BY <1>1, <2>2, <2>3, <3>2 DEF DataInv, IdInv, Purposes
      <3> QED
        BY <2>5, <3>3
    <2> QED
      BY <2>2, <2>3, <2>4, <2>6 DEF Justified
  <1> QED
    BY <1>3, <1>4

\* Only a current challenge takes effect, and a password is reset of an active account
\* only, whatever has happened since the request read either without a lock.
THEOREM OnlyJustifiedEffects ==
    ASSUME ChallengeAssumption
    PROVE  Spec => EffectsJustified
  <1>1. IInv /\ [Next]_vars => [Justified]_vars
    BY StepJustified
  <1> QED
    BY <1>1, InvariantHolds, PTL DEF Spec, EffectsJustified

\* The waits are ordered: for an address one waits without any lock, and for an insert or
\* a user row for a request that has all its locks.
LEMMA WaitsOrdered ==
    ASSUME ChallengeAssumption, IInv
    PROVE  WaitsEnd
  <1> SUFFICES ASSUME NEW S \in (SUBSET Requests) \ {{}}
               PROVE  \E q \in S : \A p \in Awaited(q) : p \notin S /\ req[p].pc # "idle"
    BY DEF WaitsEnd
  <1>0. S # {} /\ \A q \in S : q \in Requests
    OBVIOUS
  <1>1. ASSUME NEW q \in S, NEW p \in Awaited(q)
        PROVE  /\ q \in Requests /\ p \in Requests /\ req[q].email \in Emails
               /\ req[q].pc \in {"lock", "insert", "user"}
               /\ req[q].pc = "lock" => req[p].pc \notin {"idle", "lock"}
               /\ req[q].pc # "lock" => req[p].pc = "commit"
    <2>1. q \in Requests /\ req[q].pc \in {"lock", "insert", "user"}
      BY <1>0, <1>1 DEF Awaited
    <2>2. req[q].email \in Emails /\ ControlInv
      BY <2>1, InvariantFacts
    <2>3. /\ req[q].pc = "lock" => p = held[req[q].email]
          /\ req[q].pc = "insert" => p = inserting[req[q].email]
          /\ req[q].pc = "user" => p = userLock[req[q].email]
          /\ p # None
      BY <1>1 DEF Awaited
    <2>4. p \in Requests
      BY <2>1, <2>2, <2>3 DEF ControlInv
    <2> QED
      BY <2>1, <2>2, <2>3, <2>4 DEF ControlInv, LockInv, HasEmail, HasInsert, HasUser
  <1>2. CASE \E q \in S : req[q].pc \notin {"lock", "insert", "user"}
    BY <1>1, <1>2
  <1>3. CASE /\ \A q \in S : req[q].pc \in {"lock", "insert", "user"}
             /\ \E q \in S : req[q].pc # "lock"
    BY <1>1, <1>3
  <1>4. CASE \A q \in S : req[q].pc = "lock"
    BY <1>0, <1>1, <1>4
  <1> QED
    BY <1>2, <1>3, <1>4

\* No set of requests wait for each other, however many there are.
THEOREM NoDeadlock ==
    ASSUME ChallengeAssumption
    PROVE  Spec => []WaitsEnd
  <1>1. IInv => WaitsEnd
    BY WaitsOrdered
  <1> QED
    BY <1>1, InvariantHolds, PTL
=============================================================================
