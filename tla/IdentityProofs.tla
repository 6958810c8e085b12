--------------------------- MODULE IdentityProofs ---------------------------
(* Proofs of the safety properties of Accounts, alone and beside ExternalIdentities, and of
   ExternalIdentities, for any accounts, sessions, requests, subjects, attempts and callbacks. *)
EXTENDS ExternalIdentities, FiniteSetTheorems, TLAPS

SessionOps == {"logout", "logout_all", "write", "reauthenticate", "change_access"}

Administrator == [role |-> "admin", active |-> TRUE]

\* Which operations reach which stage, and what their requests carry.
Shape(r) ==
    /\ r.pc = "idle" => r.op = "login"
    /\ r.pc # "idle" /\ r.op # "bootstrap" => r.user \in Users
    /\ r.op \in {"change_access", "bootstrap"} => r.target \in Users
    /\ r.op \in SessionOps => r.sid \in Sids
    /\ r.pc \in {"resolve", "hint"} => r.op \in SessionOps
    /\ r.pc = "member" => r.op \in {"change_access", "bootstrap"}
    /\ r.pc = "user" => r.op \notin {"logout", "bootstrap"}
    /\ r.pc = "target" => r.op = "change_access"
    /\ r.pc = "previous" => r.op = "login" /\ r.sid \in Sids
    /\ r.pc = "revoke" => r.op = "logout"
    /\ r.op \in {"write", "reauthenticate", "bootstrap"} => r.victims = {}
    /\ r.op = "bootstrap" => r.access = Administrator
    /\ r.late => r.op \in SessionOps /\ r.pc = "resolve"

ShapeInv == \A q \in Requests : Shape(req[q])

\* The locks that a request at this stage has.
HasMember(r) ==
    \/ r.op = "bootstrap" /\ r.pc = "commit"
    \/ r.op = "change_access" /\ r.pc \in {"user", "target", "commit"}

HasRow(r, u) ==
    \/ /\ r.pc \in {"target", "previous", "commit"} /\ r.op \notin {"logout", "bootstrap"}
       /\ r.user = u
    \/ r.pc = "commit" /\ r.op = "change_access" /\ r.target = u

\* The locks are those that the stages say, so two requests never share one.
LockInv ==
    \A q \in Requests : /\ member = q <=> HasMember(req[q])
                        /\ \A u \in Users : userLock[u] = q <=> HasRow(req[q], u)

\* Requests are about accounts and sessions that exist.
Named(r) ==
    /\ r.pc # "idle" /\ r.op # "bootstrap" => users[r.user].exists
    /\ r.op = "change_access" => users[r.target].exists
    /\ r.op \in SessionOps => /\ sess[r.sid].status # "none" /\ sess[r.sid].user = r.user
                              /\ r.late => sess[r.sid].status # "open"

\* What was checked under the lock of an account is so until the commit.
Checked(r) ==
    /\ r.op = "login" /\ r.pc \in {"previous", "commit"} =>
          users[r.user].active /\ r.password = users[r.user].password
    /\ r.op \in {"write", "change_access", "reauthenticate"} /\ r.pc \in {"target", "commit"} =>
          /\ users[r.user].active
          /\ r.op = "change_access" => users[r.user].role = "admin"
          /\ sess[r.sid].status # "revoked"

\* A request that is about to change an account ends all its sessions, and knows what it
\* changes; and those it ends belong to an account that it has locked.
Prepared(r) ==
    r.pc = "commit" =>
        /\ r.op = "reset" => OpenSessions(r.user) \subseteq r.victims
        /\ r.op \in {"reset", "logout_all"} => \A s \in r.victims : sess[s].user = r.user
        /\ r.op = "change_access" =>
              /\ OpenSessions(r.target) \subseteq r.victims
              /\ \A s \in r.victims : sess[s].user = r.target
              /\ r.old = AccessOf(r.target)
              /\ Admin(r.target) /\ r.access # Administrator =>
                    \E u \in Users \ {r.target} : Admin(u)
        /\ r.op = "bootstrap" => \A u \in Users : ~Admin(u)

RequestInv == \A q \in Requests : Named(req[q]) /\ Checked(req[q]) /\ Prepared(req[q])

\* Sessions belong to accounts, and accounts to be are blank.
RowInv ==
    /\ \A s \in Sids : sess[s].status # "none" =>
           sess[s].user \in Users /\ users[sess[s].user].exists
    /\ \A s \in Sids : sess[s].status = "none" => sess[s].user = None
    /\ \A u \in Users : ~users[u].exists => users[u].role = "customer" /\ users[u].active

\* The passwords that accounts may still get are within their bound.
Resets(u) ==
    {q \in Requests : req[q].op = "reset" /\ req[q].user = u /\ req[q].pc # "invalidate"}

PasswordInv == \A u \in Users : users[u].password + Cardinality(Resets(u)) <= MaxPassword

TableTypes ==
    /\ users \in [Users -> User] /\ sess \in [Sids -> Session] /\ hints \subseteq Sids
    /\ audit \in [user : Users \cup {None}, old : Access, new : Access]

\* Stages and locks; the row of an account may be locked by a callback as well.
ControlInv ==
    /\ member \in Requests \cup {None}
    /\ userLock \in [Users -> Requests \cup Callbacks \cup {None}]
    /\ req \in [Requests -> Request] /\ ShapeInv /\ LockInv

AccountInv ==
    TableTypes /\ ControlInv /\ RequestInv /\ RowInv /\ PasswordInv /\ SessionsCurrent

-----------------------------------------------------------------------------
(* Facts about constants, records and parts of the invariant               *)

\* The constants, one fact each.
LEMMA ConstantTypes ==
    ASSUME AccountAssumption
    PROVE  /\ MaxPassword \in Nat /\ 1 <= MaxPassword /\ Accesses \subseteq Access
           /\ None \notin Users /\ None \notin Sids /\ None \notin Requests
           /\ IsFiniteSet(Requests) /\ Operations \subseteq AllOperations
  BY DEF AccountAssumption

\* The invariant in parts.
LEMMA Parts == AccountInv => TableTypes /\ ControlInv /\ RowInv /\ SessionsCurrent /\ RequestInv
  BY DEF AccountInv

\* And put together again after a step.
LEMMA PartsSuffice ==
    ASSUME TableTypes', ControlInv', RequestInv', RowInv', PasswordInv', SessionsCurrent'
    PROVE  AccountInv'
  BY DEF AccountInv

\* What the invariant says of one request.
LEMMA RequestFacts ==
    ASSUME AccountInv, NEW q \in Requests
    PROVE  /\ req[q] \in Request /\ Shape(req[q])
           /\ Named(req[q]) /\ Checked(req[q]) /\ Prepared(req[q])
           /\ member = q <=> HasMember(req[q])
           /\ \A u \in Users : userLock[u] = q <=> HasRow(req[q], u)
  BY DEF AccountInv, ControlInv, ShapeInv, LockInv, RequestInv

\* A request at another stage.
LEMMA WithPc ==
    ASSUME NEW r \in Request, NEW pc \in Stages, NEW n, n = [r EXCEPT !.pc = pc]
    PROVE  /\ n \in Request /\ n.pc = pc /\ n.op = r.op /\ n.user = r.user /\ n.sid = r.sid
           /\ n.password = r.password /\ n.target = r.target /\ n.access = r.access
           /\ n.old = r.old /\ n.victims = r.victims /\ n.late = r.late
  BY DEF Request

\* A request at another stage that has settled whose sessions it ends.
LEMMA WithVictims ==
    ASSUME NEW r \in Request, NEW pc \in Stages, NEW v \in SUBSET Sids,
           NEW n, n = [r EXCEPT !.pc = pc, !.victims = v]
    PROVE  /\ n \in Request /\ n.pc = pc /\ n.op = r.op /\ n.user = r.user /\ n.sid = r.sid
           /\ n.password = r.password /\ n.target = r.target /\ n.access = r.access
           /\ n.old = r.old /\ n.victims = v /\ n.late = r.late
  BY DEF Request

\* A request that is over.
LEMMA IdleFacts ==
    ASSUME AccountAssumption
    PROVE  /\ Idle \in Request /\ Shape(Idle) /\ Idle.pc = "idle" /\ Idle.op = "login"
           /\ Idle.victims = {} /\ Idle.late = FALSE
           /\ Named(Idle) /\ Checked(Idle) /\ Prepared(Idle)
           /\ ~HasMember(Idle) /\ \A u \in Users : ~HasRow(Idle, u)
  <1>1. /\ Idle \in Request /\ Idle.pc = "idle" /\ Idle.op = "login"
        /\ Idle.victims = {} /\ Idle.late = FALSE
    BY ConstantTypes DEF Idle, Request, Stages, AllOperations, Customer, Access, Roles
  <1> QED
    BY <1>1 DEF Shape, Named, Checked, Prepared, HasMember, HasRow, SessionOps

-----------------------------------------------------------------------------
(* Steps of one request                                                    *)

\* Request q becomes r, and takes or gives back what r says.
LEMMA Move ==
    ASSUME ControlInv, NEW q \in Requests, NEW r \in Request, Shape(r),
           req' = [req EXCEPT ![q] = r],
           member' \in Requests \cup {None},
           userLock' \in [Users -> Requests \cup Callbacks \cup {None}],
           member' = q <=> HasMember(r),
           \A p \in Requests : p # q => (member' = p <=> member = p),
           \A u \in Users : userLock'[u] = q <=> HasRow(r, u),
           \A u \in Users, p \in Requests : p # q => (userLock'[u] = p <=> userLock[u] = p)
    PROVE  /\ ControlInv' /\ req'[q] = r
           /\ \A p \in Requests : p # q => req'[p] = req[p]
  <1>1. /\ req' \in [Requests -> Request] /\ req'[q] = r
        /\ \A p \in Requests : p # q => req'[p] = req[p]
    BY DEF ControlInv
  <1>2. ShapeInv'
    BY <1>1 DEF ControlInv, ShapeInv
  <1>3. LockInv'
    BY <1>1 DEF ControlInv, LockInv
  <1> QED
    BY <1>1, <1>2, <1>3 DEF ControlInv

\* The end of a transaction gives its locks back and nobody else's.
LEMMA EndMoves ==
    ASSUME AccountAssumption, AccountInv, NEW q \in Requests, NEW pc \in {"idle", "invalidate"},
           EndAt(q, pc), pc = "invalidate" => req[q].pc = "commit"
    PROVE  /\ ControlInv'
           /\ req'[q] = IF pc = "idle" THEN Idle ELSE [req[q] EXCEPT !.pc = pc]
           /\ \A p \in Requests : p # q => req'[p] = req[p]
  <1> DEFINE r == IF pc = "idle" THEN Idle ELSE [req[q] EXCEPT !.pc = pc]
  <1>1. req' = [req EXCEPT ![q] = r]
    BY Parts DEF EndAt, ControlInv
  <1>2. /\ r \in Request /\ Shape(r) /\ ~HasMember(r) /\ \A u \in Users : ~HasRow(r, u)
    <2>1. CASE pc = "idle"
      BY <2>1, IdleFacts
    <2>2. CASE pc = "invalidate"
      <3>1. /\ r \in Request /\ r.pc = "invalidate" /\ r.op = req[q].op
            /\ r.user = req[q].user /\ r.sid = req[q].sid /\ r.target = req[q].target
            /\ r.access = req[q].access /\ r.victims = req[q].victims /\ r.late = req[q].late
        BY <2>2, RequestFacts, WithPc DEF Stages
      <3> HIDE DEF r
      <3>2. Shape(req[q]) /\ req[q].pc = "commit"
        BY <2>2, RequestFacts
      <3> QED
        BY <3>1, <3>2 DEF Shape, HasMember, HasRow
    <2> QED
      BY <2>1, <2>2
  <1> HIDE DEF r
  <1>3. ControlInv /\ None \notin Requests
    BY Parts, ConstantTypes
  <1>4. /\ member' \in Requests \cup {None}
        /\ userLock' \in [Users -> Requests \cup Callbacks \cup {None}]
        /\ member' # q /\ \A p \in Requests : p # q => (member' = p <=> member = p)
        /\ \A u \in Users : userLock'[u] # q
        /\ \A u \in Users, p \in Requests : p # q => (userLock'[u] = p <=> userLock[u] = p)
    BY <1>3 DEF EndAt, ControlInv
  <1>5. /\ ControlInv' /\ req'[q] = r
        /\ \A p \in Requests : p # q => req'[p] = req[p]
    BY <1>1, <1>2, <1>3, <1>4, Move
  <1> QED
    BY <1>5 DEF r

\* Steps that neither reset a password nor admit a request to do so.
LEMMA NoNewResets ==
    ASSUME AccountAssumption, AccountInv,
           \A u \in Users : users'[u].password = users[u].password,
           \A p \in Requests : req'[p].op = "reset" /\ req'[p].pc # "invalidate" =>
               /\ req[p].op = "reset" /\ req[p].pc # "invalidate"
               /\ req'[p].user = req[p].user
    PROVE  PasswordInv'
  <1> SUFFICES ASSUME NEW u \in Users
               PROVE  users'[u].password + Cardinality(Resets(u)') <= MaxPassword
    BY DEF PasswordInv
  <1>1. Resets(u) \in SUBSET Requests /\ Resets(u)' \in SUBSET Resets(u)
    BY DEF Resets
  <1>2. IsFiniteSet(Resets(u))
    BY <1>1, ConstantTypes, FS_Subset
  <1>3. Cardinality(Resets(u)') <= Cardinality(Resets(u))
    BY <1>1, <1>2, FS_Subset
  <1>4. Cardinality(Resets(u)) \in Nat /\ Cardinality(Resets(u)') \in Nat
    BY <1>1, <1>2, FS_Subset, FS_CardinalityType
  <1>5. users[u].password \in Nat /\ MaxPassword \in Nat
    BY ConstantTypes DEF AccountInv, TableTypes, User
  <1>6. users[u].password + Cardinality(Resets(u)) <= MaxPassword
    BY DEF AccountInv, PasswordInv
  <1> QED
    BY <1>3, <1>4, <1>5, <1>6

\* A step of q on hints and locks keeps the invariant if q has checked what its new stage
\* asks for.
LEMMA LocalStep ==
    ASSUME AccountInv, NEW q \in Requests, UNCHANGED <<users, sess, audit>>, hints' \subseteq Sids,
           ControlInv', \A p \in Requests : p # q => req'[p] = req[p],
           Named(req'[q]), Checked(req'[q]), Prepared(req'[q]), PasswordInv'
    PROVE  AccountInv'
  <1>1. TableTypes' /\ RowInv' /\ SessionsCurrent'
    BY Parts DEF TableTypes, RowInv, SessionsCurrent
  <1>2. RequestInv'
    <2> SUFFICES ASSUME NEW p \in Requests
                 PROVE  Named(req[p])' /\ Checked(req[p])' /\ Prepared(req[p])'
      BY DEF RequestInv
    <2>1. Named(req'[p]) /\ Checked(req'[p]) /\ Prepared(req'[p])
      BY RequestFacts
    <2> QED
      BY <2>1 DEF Named, Checked, Prepared, OpenSessions, AccessOf, Admin
  <1> QED
    BY <1>1, <1>2, PartsSuffice

\* A request that rolls back leaves no trace.
LEMMA RollbackStep ==
    ASSUME AccountAssumption, AccountInv, NEW q \in Requests, Rollback(q)
    PROVE  AccountInv'
  <1>1. /\ ControlInv' /\ req'[q] = Idle /\ UNCHANGED <<users, sess, hints, audit>>
        /\ \A p \in Requests : p # q => req'[p] = req[p]
    BY EndMoves DEF Rollback, tables
  <1>2. PasswordInv'
    BY <1>1, IdleFacts, NoNewResets
  <1> QED
    BY <1>1, <1>2, IdleFacts, Parts, LocalStep DEF TableTypes

\* A request that goes on keeps its locks and takes the free ones its new stage asks for.
LEMMA TakeStep ==
    ASSUME AccountAssumption, AccountInv, NEW q \in Requests, NEW r \in Request, Shape(r),
           req' = [req EXCEPT ![q] = r], UNCHANGED <<users, sess, audit>>, hints' \subseteq Sids,
           Named(r), Checked(r), Prepared(r),
           member' = (IF HasMember(r) THEN q ELSE member),
           HasMember(r) => member \in {None, q}, HasMember(req[q]) => HasMember(r),
           userLock' = [u \in Users |-> IF HasRow(r, u) THEN q ELSE userLock[u]],
           \A u \in Users : /\ HasRow(r, u) => userLock[u] \in {None, q}
                            /\ HasRow(req[q], u) => HasRow(r, u),
           \/ PasswordInv'
           \/ r.op = "reset" /\ r.pc # "invalidate" =>
                 req[q].op = "reset" /\ req[q].pc # "invalidate" /\ r.user = req[q].user
    PROVE  AccountInv'
  <1>1. ControlInv /\ None \notin Requests
    BY Parts, ConstantTypes
  <1>2. /\ member = q => HasMember(r)
        /\ \A u \in Users : userLock[u] = q => HasRow(r, u)
    BY RequestFacts
  <1>3. /\ member' \in Requests \cup {None}
        /\ userLock' \in [Users -> Requests \cup Callbacks \cup {None}]
        /\ member' = q <=> HasMember(r)
        /\ \A p \in Requests : p # q => (member' = p <=> member = p)
    BY <1>1, <1>2 DEF ControlInv
  <1>4. /\ \A u \in Users : userLock'[u] = q <=> HasRow(r, u)
        /\ \A u \in Users, p \in Requests : p # q => (userLock'[u] = p <=> userLock[u] = p)
    BY <1>1, <1>2 DEF ControlInv
  <1>5. /\ ControlInv' /\ req'[q] = r
        /\ \A p \in Requests : p # q => req'[p] = req[p]
    BY <1>1, <1>3, <1>4, Move
  <1>6. PasswordInv'
    BY <1>5, NoNewResets
  <1> QED
    BY <1>5, <1>6, LocalStep

\* The same, without any new lock.
LEMMA GoStep ==
    ASSUME AccountAssumption, AccountInv, NEW q \in Requests, NEW r \in Request, Shape(r),
           req' = [req EXCEPT ![q] = r], UNCHANGED <<users, sess, audit, member, userLock>>,
           hints' \subseteq Sids, Named(r), Checked(r), Prepared(r),
           HasMember(r) <=> HasMember(req[q]),
           \A u \in Users : HasRow(r, u) <=> HasRow(req[q], u),
           \/ PasswordInv'
           \/ r.op = "reset" /\ r.pc # "invalidate" =>
                 req[q].op = "reset" /\ req[q].pc # "invalidate" /\ r.user = req[q].user
    PROVE  AccountInv'
  <1>1. /\ member = q <=> HasMember(r)
        /\ \A u \in Users : userLock[u] = q <=> HasRow(r, u)
    BY RequestFacts
  <1>2. userLock \in [Users -> Requests \cup Callbacks \cup {None}]
    BY Parts DEF ControlInv
  <1>3. userLock' = [u \in Users |-> IF HasRow(r, u) THEN q ELSE userLock[u]]
    BY <1>1, <1>2
  <1>4. member' = (IF HasMember(r) THEN q ELSE member)
    BY <1>1
  <1> QED
    BY <1>1, <1>3, <1>4, TakeStep

\* A request arrives and has no lock yet.
LEMMA StartStep ==
    ASSUME AccountAssumption, AccountInv, NEW q \in Requests, NEW r \in Request, Start(q, r),
           Shape(r), r.pc \in {"resolve", "member", "user"},
           r.pc = "user" => r.op # "change_access", Named(r),
           r.op = "reset" => PasswordInv'
    PROVE  AccountInv'
  <1>1. /\ req[q].pc = "idle" /\ req' = [req EXCEPT ![q] = r]
        /\ UNCHANGED <<users, sess, audit, hints, member, userLock>>
    BY DEF Start, tables, locks
  <1>2. Checked(r) /\ Prepared(r)
    BY DEF Checked, Prepared
  <1>3. ~HasMember(r) /\ ~HasMember(req[q])
    BY <1>1 DEF HasMember
  <1>4. \A u \in Users : ~HasRow(r, u) /\ ~HasRow(req[q], u)
    BY <1>1 DEF HasRow
  <1>5. hints' \subseteq Sids
    BY <1>1, Parts DEF TableTypes
  <1> QED
    BY <1>1, <1>2, <1>3, <1>4, <1>5, GoStep

\* A request that presents a session is about its account.
LEMMA SessionRequest ==
    ASSUME AccountAssumption, AccountInv, NEW q \in Requests, NEW s \in Presented,
           NEW r \in Request, Start(q, r), r.pc = "resolve", r.op \in SessionOps,
           r.user = sess[s].user, r.sid = s, r.victims = {},
           r.late => sess[s].status # "open",
           r.op = "change_access" => r.target \in Users /\ users[r.target].exists
    PROVE  AccountInv'
  <1>1. /\ s \in Sids /\ sess[s].status # "none" /\ sess[s].user \in Users
        /\ users[sess[s].user].exists
    BY Parts DEF Presented, RowInv
  <1>2. Shape(r)
    BY <1>1 DEF Shape, SessionOps
  <1>3. Named(r)
    BY <1>1 DEF Named
  <1> QED
    BY <1>2, <1>3, StartStep DEF SessionOps

\* Presented sessions and the passwords of their accounts.
LEMMA PresentedFacts ==
    ASSUME AccountAssumption, AccountInv, NEW s \in Presented
    PROVE  /\ s \in Sids /\ sess[s].user \in Users /\ (sess[s].status # "open") \in BOOLEAN
           /\ \A p \in 1 .. users[sess[s].user].password : p \in 0 .. MaxPassword
  <1>1. s \in Sids /\ sess[s].user \in Users
    BY Parts DEF Presented, RowInv
  <1>2. users[sess[s].user].password \in 0 .. MaxPassword /\ MaxPassword \in Nat
    BY <1>1, Parts, ConstantTypes DEF TableTypes, User
  <1> QED
    BY <1>1, <1>2

\* Requests of a session arrive.
LEMMA WithSessionStep ==
    ASSUME AccountAssumption, AccountInv, NEW q \in Requests,
           WithSession(q) \/ Reauthenticate(q) \/ ChangeAccess(q)
    PROVE  AccountInv'
  <1>1. Idle \in Request /\ Idle.victims = {}
    BY IdleFacts
  <1>2. CASE WithSession(q)
    <2>1. PICK s \in Presented, op \in {"logout", "logout_all", "write"} :
              Start(q, [Idle EXCEPT !.pc = "resolve", !.op = op, !.user = sess[s].user,
                                    !.sid = s, !.late = sess[s].status # "open"])
      BY <1>2 DEF WithSession
    <2> DEFINE l == sess[s].status # "open"
               r == [Idle EXCEPT !.pc = "resolve", !.op = op, !.user = sess[s].user,
                                 !.sid = s, !.late = l]
    <2>2. l \in BOOLEAN /\ s \in Sids /\ sess[s].user \in Users /\ op \in AllOperations
      BY PresentedFacts DEF AllOperations
    <2> HIDE DEF l
    <2>3. /\ r \in Request /\ r.pc = "resolve" /\ r.op = op /\ r.user = sess[s].user
          /\ r.sid = s /\ r.victims = {} /\ r.late = l
      BY <1>1, <2>2 DEF Request, Stages
    <2>4. Start(q, r)
      BY <2>1 DEF l
    <2> HIDE DEF r
    <2> QED
      BY <2>3, <2>4, SessionRequest DEF l, SessionOps
  <1>3. CASE Reauthenticate(q)
    <2>5. PICK s \in Presented : \E p \in 1 .. users[sess[s].user].password :
              Start(q, [Idle EXCEPT !.pc = "resolve", !.op = "reauthenticate",
                                    !.user = sess[s].user, !.sid = s, !.password = p,
                                    !.late = sess[s].status # "open"])
      BY <1>3 DEF Reauthenticate
    <2>1. PICK p \in 1 .. users[sess[s].user].password :
              Start(q, [Idle EXCEPT !.pc = "resolve", !.op = "reauthenticate",
                                    !.user = sess[s].user, !.sid = s, !.password = p,
                                    !.late = sess[s].status # "open"])
      BY <2>5
    <2> DEFINE l == sess[s].status # "open"
               r == [Idle EXCEPT !.pc = "resolve", !.op = "reauthenticate",
                                 !.user = sess[s].user, !.sid = s, !.password = p,
                                 !.late = l]
    <2>2. l \in BOOLEAN /\ s \in Sids /\ sess[s].user \in Users /\ p \in 0 .. MaxPassword
      BY PresentedFacts
    <2> HIDE DEF l
    <2>3. /\ r \in Request /\ r.pc = "resolve" /\ r.op = "reauthenticate"
          /\ r.user = sess[s].user /\ r.sid = s /\ r.victims = {} /\ r.late = l
      BY <1>1, <2>2 DEF Request, Stages, AllOperations
    <2>4. Start(q, r)
      BY <2>1 DEF l
    <2> HIDE DEF r
    <2> QED
      BY <2>3, <2>4, SessionRequest DEF l, SessionOps
  <1>4. CASE ChangeAccess(q)
    <2>1. PICK s \in Presented, t \in Users, a \in Accesses :
              /\ users[t].exists
              /\ Start(q, [Idle EXCEPT !.pc = "resolve", !.op = "change_access",
                                       !.user = sess[s].user, !.sid = s, !.target = t,
                                       !.access = a, !.late = sess[s].status # "open"])
      BY <1>4 DEF ChangeAccess
    <2> DEFINE l == sess[s].status # "open"
               r == [Idle EXCEPT !.pc = "resolve", !.op = "change_access",
                                 !.user = sess[s].user, !.sid = s, !.target = t,
                                 !.access = a, !.late = l]
    <2>2. l \in BOOLEAN /\ s \in Sids /\ sess[s].user \in Users /\ a \in Access
      BY PresentedFacts, ConstantTypes
    <2> HIDE DEF l
    <2>3. /\ r \in Request /\ r.pc = "resolve" /\ r.op = "change_access"
          /\ r.user = sess[s].user /\ r.sid = s /\ r.victims = {} /\ r.late = l /\ r.target = t
      BY <1>1, <2>2 DEF Request, Stages, AllOperations
    <2>4. Start(q, r)
      BY <2>1 DEF l
    <2> HIDE DEF r
    <2> QED
      BY <2>1, <2>3, <2>4, SessionRequest DEF l, SessionOps
  <1> QED
    BY <1>2, <1>3, <1>4

\* A login arrives.
LEMMA LoginStep ==
    ASSUME AccountAssumption, AccountInv, NEW q \in Requests, Login(q)
    PROVE  AccountInv'
  <1>6. PICK u \in Users, s \in Presented \cup {None} : \E p \in 1 .. users[u].password :
            /\ users[u].exists
            /\ Start(q, [Idle EXCEPT !.pc = "user", !.op = "login", !.user = u, !.sid = s,
                                     !.password = p])
    BY DEF Login
  <1>1. PICK p \in 1 .. users[u].password :
            /\ users[u].exists
            /\ Start(q, [Idle EXCEPT !.pc = "user", !.op = "login", !.user = u, !.sid = s,
                                     !.password = p])
    BY <1>6
  <1> DEFINE r == [Idle EXCEPT !.pc = "user", !.op = "login", !.user = u, !.sid = s,
                               !.password = p]
  <1>2. p \in 0 .. MaxPassword /\ s \in Sids \cup {None}
    <2>1. users[u].password \in 0 .. MaxPassword /\ MaxPassword \in Nat
      BY Parts, ConstantTypes DEF TableTypes, User
    <2> QED
      BY <2>1 DEF Presented
  <1>3. /\ r \in Request /\ r.pc = "user" /\ r.op = "login" /\ r.user = u
        /\ r.late = FALSE
    BY <1>2, IdleFacts DEF Request, Stages, AllOperations
  <1> HIDE DEF r
  <1>4. Start(q, r)
    BY <1>1 DEF r
  <1>5. Shape(r) /\ Named(r)
    BY <1>1, <1>3 DEF Shape, Named, SessionOps
  <1> QED
    BY <1>3, <1>4, <1>5, StartStep

\* A reset arrives; the bound on passwords allows for it.
LEMMA ResetStep ==
    ASSUME AccountAssumption, AccountInv, NEW q \in Requests, Reset(q)
    PROVE  AccountInv'
  <1> DEFINE all == {p \in Requests : req[p].op = "reset"}
  <1>1. PICK u \in Users :
            /\ users[u].exists /\ users[u].password + Cardinality(all) < MaxPassword
            /\ Start(q, [Idle EXCEPT !.pc = "user", !.op = "reset", !.user = u])
    BY DEF Reset
  <1> DEFINE r == [Idle EXCEPT !.pc = "user", !.op = "reset", !.user = u]
  <1>2. /\ r \in Request /\ r.pc = "user" /\ r.op = "reset" /\ r.user = u /\ r.late = FALSE
    BY IdleFacts DEF Request, Stages, AllOperations
  <1>3. Start(q, r)
    BY <1>1
  <1> HIDE DEF r
  <1>4. Shape(r) /\ Named(r)
    BY <1>1, <1>2 DEF Shape, Named, SessionOps
  <1>5. /\ req[q].op = "login" /\ req'[q] = r /\ users' = users
        /\ \A p \in Requests : p # q => req'[p] = req[p]
    BY <1>3, RequestFacts, Parts DEF Start, Shape, ControlInv, tables
  <1>6. PasswordInv'
    <2> SUFFICES ASSUME NEW v \in Users
                 PROVE  users'[v].password + Cardinality(Resets(v)') <= MaxPassword
      BY DEF PasswordInv
    <2>1. CASE v # u
      <3>1. Resets(v)' = Resets(v)
        BY <1>2, <1>5, <2>1 DEF Resets
      <3> QED
        BY <1>5, <3>1 DEF AccountInv, PasswordInv
    <2>2. CASE v = u
      <3>1. Resets(u)' = Resets(u) \cup {q} /\ q \notin Resets(u)
        BY <1>2, <1>5 DEF Resets
      <3>2. all \in SUBSET Requests /\ Resets(u) \in SUBSET all
        BY DEF Resets
      <3> HIDE DEF all
      <3>3. IsFiniteSet(all)
        BY <3>2, ConstantTypes, FS_Subset
      <3>4. IsFiniteSet(Resets(u)) /\ Cardinality(Resets(u)) <= Cardinality(all)
        BY <3>2, <3>3, FS_Subset
      <3>5. Cardinality(Resets(u)') = Cardinality(Resets(u)) + 1
        BY <3>1, <3>4, FS_AddElement
      <3>6. /\ Cardinality(Resets(u)) \in Nat /\ Cardinality(all) \in Nat
            /\ users[u].password \in Nat /\ MaxPassword \in Nat
        BY <3>3, <3>4, FS_CardinalityType, Parts, ConstantTypes DEF TableTypes, User
      <3> QED
        BY <1>1, <1>5, <2>2, <3>4, <3>5, <3>6
    <2> QED
      BY <2>1, <2>2
  <1> QED
    BY <1>2, <1>3, <1>4, <1>6, StartStep

\* The bootstrap command starts.
LEMMA BootstrapStep ==
    ASSUME AccountAssumption, AccountInv, NEW q \in Requests, Bootstrap(q)
    PROVE  AccountInv'
  <1>1. PICK u \in Users :
            Start(q, [Idle EXCEPT !.pc = "member", !.op = "bootstrap", !.target = u,
                                  !.access = [role |-> "admin", active |-> TRUE]])
    BY DEF Bootstrap
  <1> DEFINE r == [Idle EXCEPT !.pc = "member", !.op = "bootstrap", !.target = u,
                               !.access = Administrator]
  <1>2. Administrator \in Access
    BY DEF Administrator, Access, Roles
  <1>3. /\ r \in Request /\ r.pc = "member" /\ r.op = "bootstrap" /\ r.target = u
        /\ r.late = FALSE /\ r.victims = {} /\ r.access = Administrator
    BY <1>2, IdleFacts DEF Request, Stages, AllOperations
  <1>4. Start(q, r)
    BY <1>1 DEF Administrator
  <1> HIDE DEF r
  <1>5. Shape(r) /\ Named(r)
    BY <1>3 DEF Shape, Named, SessionOps
  <1> QED
    BY <1>3, <1>4, <1>5, StartStep

\* All arrivals.
LEMMA ArriveStep ==
    ASSUME AccountAssumption, AccountInv, NEW q \in Requests, Arrive(q)
    PROVE  AccountInv'
  BY LoginStep, WithSessionStep, ResetStep, BootstrapStep DEF Arrive

\* A step to another stage, with nothing else changed in the request.
LEMMA GotoFacts ==
    ASSUME AccountInv, NEW q \in Requests, NEW pc \in Stages, Goto(q, pc)
    PROVE  \E r \in Request :
               /\ req' = [req EXCEPT ![q] = r] /\ r.pc = pc
               /\ r.op = req[q].op /\ r.user = req[q].user /\ r.sid = req[q].sid
               /\ r.password = req[q].password /\ r.target = req[q].target
               /\ r.access = req[q].access /\ r.old = req[q].old
               /\ r.victims = req[q].victims /\ r.late = req[q].late
  <1> DEFINE r == [req[q] EXCEPT !.pc = pc]
  <1>1. req' = [req EXCEPT ![q] = r]
    BY Parts DEF Goto, ControlInv
  <1>2. /\ r \in Request /\ r.pc = pc
        /\ r.op = req[q].op /\ r.user = req[q].user /\ r.sid = req[q].sid
        /\ r.password = req[q].password /\ r.target = req[q].target
        /\ r.access = req[q].access /\ r.old = req[q].old
        /\ r.victims = req[q].victims /\ r.late = req[q].late
    BY RequestFacts, WithPc
  <1> HIDE DEF r
  <1> QED
    BY <1>1, <1>2

\* resolve lets a live session pass, which had not ended when its request arrived.
LEMMA ResolveStep ==
    ASSUME AccountAssumption, AccountInv, NEW q \in Requests, Resolve(q)
    PROVE  AccountInv'
  <1>1. CASE Rollback(q)
    BY <1>1, RollbackStep
  <1>2. CASE ~Rollback(q)
    <2>1. /\ req[q].pc = "resolve" /\ Live(req[q].sid) /\ Goto(q, "hint")
          /\ UNCHANGED <<users, sess, audit, hints, member, userLock>>
      BY <1>2 DEF Resolve, Resolves, tables, locks
    <2>2. PICK r \in Request :
               /\ req' = [req EXCEPT ![q] = r] /\ r.pc = "hint"
               /\ r.op = req[q].op /\ r.user = req[q].user /\ r.sid = req[q].sid
               /\ r.target = req[q].target /\ r.access = req[q].access
               /\ r.victims = req[q].victims /\ r.late = req[q].late
      BY <2>1, GotoFacts DEF Stages
    <2>3. Shape(req[q]) /\ Named(req[q])
      BY RequestFacts
    <2>4. r.op \in SessionOps /\ ~r.late
      BY <2>1, <2>2, <2>3 DEF Shape, Named, Live
    <2>5. Shape(r) /\ Named(r) /\ Checked(r) /\ Prepared(r)
      BY <2>1, <2>2, <2>3, <2>4 DEF Shape, Named, Checked, Prepared
    <2>6. /\ ~HasMember(r) /\ ~HasMember(req[q])
          /\ \A u \in Users : ~HasRow(r, u) /\ ~HasRow(req[q], u)
      BY <2>1, <2>2 DEF HasMember, HasRow
    <2>7. hints' \subseteq Sids /\ (r.op # "reset")
      BY <2>1, <2>4, Parts DEF TableTypes, SessionOps
    <2> QED
      BY <2>1, <2>2, <2>5, <2>6, <2>7, GoStep
  <1> QED
    BY <1>1, <1>2

\* A hint is written or not, and the request goes on to its first lock.
LEMMA WriteHintStep ==
    ASSUME AccountAssumption, AccountInv, NEW q \in Requests, WriteHint(q)
    PROVE  AccountInv'
  <1>1. /\ req[q].pc = "hint" /\ Goto(q, AfterHint(req[q].op))
        /\ UNCHANGED <<users, sess, audit, member, userLock>>
    BY DEF WriteHint, locks
  <1>2. Shape(req[q]) /\ Named(req[q])
    BY RequestFacts
  <1>3. req[q].op \in SessionOps /\ req[q].sid \in Sids
    BY <1>1, <1>2 DEF Shape
  <1> DEFINE pc == AfterHint(req[q].op)
  <1>4. /\ pc \in {"revoke", "member", "user"}
        /\ (pc = "revoke") <=> (req[q].op = "logout")
        /\ (pc = "member") <=> (req[q].op = "change_access")
    BY DEF AfterHint
  <1> HIDE DEF pc
  <1>5. PICK r \in Request :
             /\ req' = [req EXCEPT ![q] = r] /\ r.pc = pc
             /\ r.op = req[q].op /\ r.user = req[q].user /\ r.sid = req[q].sid
             /\ r.target = req[q].target /\ r.access = req[q].access
             /\ r.victims = req[q].victims /\ r.late = req[q].late
    <2>1. pc \in Stages /\ Goto(q, pc)
      BY <1>1, <1>4 DEF Stages, pc
    <2> QED
      BY <2>1, GotoFacts
  <1>6. Shape(r) /\ Named(r) /\ Checked(r) /\ Prepared(r)
    BY <1>1, <1>2, <1>3, <1>4, <1>5 DEF Shape, Named, Checked, Prepared, SessionOps
  <1>7. /\ ~HasMember(r) /\ ~HasMember(req[q])
        /\ \A u \in Users : ~HasRow(r, u) /\ ~HasRow(req[q], u)
    BY <1>1, <1>3, <1>4, <1>5 DEF HasMember, HasRow, SessionOps
  <1>8. hints' \subseteq Sids /\ (r.op # "reset")
    BY <1>3, <1>5, Parts DEF TableTypes, SessionOps, WriteHint, Cached
  <1> QED
    BY <1>1, <1>5, <1>6, <1>7, <1>8, GoStep

\* The membership lock; the bootstrap command has looked for administrators under it.
LEMMA LockMembershipStep ==
    ASSUME AccountAssumption, AccountInv, NEW q \in Requests, LockMembership(q)
    PROVE  AccountInv'
  <1>1. CASE Rollback(q)
    BY <1>1, RollbackStep
  <1>2. CASE ~Rollback(q)
    <2> DEFINE pc == IF req[q].op = "bootstrap" THEN "commit" ELSE "user"
    <2>1. /\ req[q].pc = "member" /\ member = None /\ member' = q /\ Goto(q, pc)
          /\ req[q].op = "bootstrap" => \A u \in Users : ~Admin(u)
          /\ UNCHANGED <<users, sess, audit, hints, userLock>>
      BY <1>2 DEF LockMembership, MembershipFree, tables
    <2>2. PICK r \in Request :
               /\ req' = [req EXCEPT ![q] = r] /\ r.pc = pc
               /\ r.op = req[q].op /\ r.user = req[q].user /\ r.sid = req[q].sid
               /\ r.target = req[q].target /\ r.access = req[q].access
               /\ r.victims = req[q].victims /\ r.late = req[q].late
      BY <2>1, GotoFacts DEF Stages
    <2>3. Shape(req[q]) /\ Named(req[q]) /\ req[q].op \in {"change_access", "bootstrap"}
      BY <2>1, RequestFacts DEF Shape
    <2>4. Shape(r) /\ Named(r) /\ Checked(r) /\ Prepared(r)
      BY <2>1, <2>2, <2>3 DEF Shape, Named, Checked, Prepared
    <2>5. HasMember(r) /\ \A u \in Users : ~HasRow(r, u) /\ ~HasRow(req[q], u)
      BY <2>1, <2>2, <2>3 DEF HasMember, HasRow
    <2>6. userLock' = [u \in Users |-> IF HasRow(r, u) THEN q ELSE userLock[u]]
      BY <2>1, <2>5, Parts DEF ControlInv
    <2>7. hints' \subseteq Sids /\ (r.op # "reset") /\ member' = IF HasMember(r) THEN q ELSE member
      BY <2>1, <2>2, <2>3, <2>5, Parts DEF TableTypes
    <2> QED
      BY <2>1, <2>2, <2>4, <2>5, <2>6, <2>7, TakeStep
  <1> QED
    BY <1>1, <1>2

\* The row of the account: what the operation checks under its lock is what Checked and
\* Prepared ask for.
LEMMA LockUserStep ==
    ASSUME AccountAssumption, AccountInv, NEW q \in Requests, LockUser(q)
    PROVE  AccountInv'
  <1>1. CASE Rollback(q)
    BY <1>1, RollbackStep
  <1>2. CASE ~Rollback(q)
    <2> DEFINE o == req[q]
               pc == AfterUser(o)
               v == IF o.op \in {"logout_all", "reset"} THEN Victims(q) ELSE {}
               r == [o EXCEPT !.pc = pc, !.victims = v]
    <2>1. /\ o.pc = "user" /\ userLock[o.user] \in {None, q} /\ Granted(q)
          /\ userLock' = [userLock EXCEPT ![o.user] = q]
          /\ req' = [req EXCEPT ![q].pc = pc, ![q].victims = v]
          /\ UNCHANGED <<users, sess, audit, hints, member>>
      BY <1>2 DEF LockUser, tables
    <2>2. /\ Shape(o) /\ Named(o) /\ o \in Request /\ o.op \notin {"logout", "bootstrap"}
          /\ o.user \in Users
      BY <2>1, RequestFacts DEF Shape
    <2>3. /\ pc \in {"previous", "target", "commit"} /\ pc \in Stages
          /\ (pc = "previous") => (o.op = "login" /\ o.sid # None)
          /\ (pc = "target") <=> (o.op = "change_access")
      BY DEF AfterUser, Stages
    <2>4. /\ v \in SUBSET Sids
          /\ o.op \notin {"logout_all", "reset"} => v = {}
          /\ o.op \in {"logout_all", "reset"} => v = OpenSessions(o.user)
      BY DEF Victims, OpenSessions
    <2>5. req' = [req EXCEPT ![q] = r]
      <3>1. req \in [Requests -> Request]
        BY Parts DEF ControlInv
      <3> HIDE DEF pc, v
      <3> QED
        BY <2>1, <3>1
    <2> HIDE DEF pc, v
    <2>6. /\ r \in Request /\ r.pc = pc /\ r.op = o.op /\ r.user = o.user /\ r.sid = o.sid
          /\ r.password = o.password /\ r.target = o.target /\ r.access = o.access
          /\ r.old = o.old /\ r.victims = v /\ r.late = o.late
      BY <2>2, <2>3, <2>4 DEF Request
    <2> HIDE DEF r
    <2>7. Shape(r)
      BY <2>1, <2>2, <2>3, <2>4, <2>6 DEF Shape, Request
    <2>8. Named(r)
      BY <2>1, <2>2, <2>3, <2>6 DEF Named, Request
    <2>9. Checked(r)
      <3>1. o.op = "login" => users[o.user].active /\ o.password = users[o.user].password
        BY <2>1 DEF Granted, PasswordValid
      <3>2. o.op \in {"write", "change_access", "reauthenticate"} =>
               /\ users[o.user].active /\ sess[o.sid].status # "revoked"
               /\ o.op = "change_access" => users[o.user].role = "admin"
        BY <2>1, <2>2 DEF Granted, Authorized, Permitted, Live, Named, SessionOps
      <3> QED
        BY <2>6, <3>1, <3>2 DEF Checked
    <2>10. Prepared(r)
      BY <2>2, <2>3, <2>4, <2>6 DEF Prepared, OpenSessions
    <2>11. /\ HasMember(r) <=> HasMember(o)
           /\ \A u \in Users : ~HasRow(o, u) /\ (HasRow(r, u) <=> u = o.user)
      BY <2>1, <2>2, <2>3, <2>6 DEF HasMember, HasRow
    <2>12. userLock' = [u \in Users |-> IF HasRow(r, u) THEN q ELSE userLock[u]]
      BY <2>1, <2>2, <2>11, Parts DEF ControlInv
    <2>13. /\ member' = (IF HasMember(r) THEN q ELSE member)
           /\ HasMember(r) => member \in {None, q}
      BY <2>1, <2>11, RequestFacts
    <2>14. hints' \subseteq Sids
      BY <2>1, Parts DEF TableTypes
    <2>15. \A u \in Users : /\ HasRow(r, u) => userLock[u] \in {None, q}
                            /\ HasRow(req[q], u) => HasRow(r, u)
      BY <2>1, <2>11
    <2>16. r.op = "reset" /\ r.pc # "invalidate" =>
              req[q].op = "reset" /\ req[q].pc # "invalidate" /\ r.user = req[q].user
      BY <2>1, <2>6
    <2>17. r \in Request /\ (HasMember(req[q]) => HasMember(r)) /\ UNCHANGED <<users, sess, audit>>
      BY <2>1, <2>6, <2>11
    <2> HIDE DEF o
    <2> QED
      BY <2>5, <2>7, <2>8, <2>9, <2>10, <2>12, <2>13, <2>14, <2>15, <2>16, <2>17, TakeStep
  <1> QED
    BY <1>1, <1>2

\* The row of the target: change_access decides under both locks, and membership.
LEMMA LockTargetStep ==
    ASSUME AccountAssumption, AccountInv, NEW q \in Requests, LockTarget(q)
    PROVE  AccountInv'
  <1>1. CASE Rollback(q)
    BY <1>1, RollbackStep
  <1>2. CASE ~Rollback(q)
    <2> DEFINE o == req[q]
               t == o.target
               v == TargetVictims(q)
               a == AccessOf(t)
               r == [o EXCEPT !.pc = "commit", !.old = a, !.victims = v]
    <2>1. /\ o.pc = "target" /\ userLock[t] \in {None, q} /\ ChangeAllowed(t, o.access)
          /\ userLock' = [userLock EXCEPT ![t] = q] /\ req' = [req EXCEPT ![q] = r]
          /\ UNCHANGED <<users, sess, audit, hints, member>>
      BY <1>2, Parts DEF LockTarget, tables, ControlInv
    <2>2. /\ Shape(o) /\ Named(o) /\ Checked(o) /\ o \in Request /\ o.op = "change_access"
          /\ t \in Users
      BY <2>1, RequestFacts DEF Shape
    <2>3. v \in SUBSET Sids /\ v = OpenSessions(t) /\ a \in Access
      BY <2>2, Parts DEF TargetVictims, OpenSessions, AccessOf, TableTypes, User, Access
    <2> HIDE DEF v, a
    <2>4. /\ r \in Request /\ r.pc = "commit" /\ r.op = o.op /\ r.user = o.user
          /\ r.sid = o.sid /\ r.target = t /\ r.access = o.access
          /\ r.old = a /\ r.victims = v /\ r.late = o.late
      BY <2>2, <2>3 DEF Request, Stages
    <2> HIDE DEF r
    <2>5. Shape(r) /\ Named(r) /\ Checked(r)
      BY <2>1, <2>2, <2>4 DEF Shape, Named, Checked
    <2>6. Prepared(r)
      BY <2>1, <2>2, <2>3, <2>4
         DEF Prepared, OpenSessions, ChangeAllowed, LastAdmin, Administrator, a
    <2>7. /\ HasMember(r) /\ HasMember(o)
          /\ \A u \in Users : /\ HasRow(r, u) <=> u \in {o.user, t}
                              /\ HasRow(o, u) <=> u = o.user
      BY <2>1, <2>2, <2>4 DEF HasMember, HasRow
    <2>8. userLock[o.user] = q /\ member = q
      BY <2>1, <2>2, <2>7, RequestFacts DEF Shape
    <2>9. userLock' = [u \in Users |-> IF HasRow(r, u) THEN q ELSE userLock[u]]
      BY <2>1, <2>2, <2>7, <2>8, Parts DEF ControlInv
    <2>10. hints' \subseteq Sids
      BY <2>1, Parts DEF TableTypes
    <2> QED
      BY <2>1, <2>2, <2>4, <2>5, <2>6, <2>7, <2>8, <2>9, <2>10, TakeStep
  <1> QED
    BY <1>1, <1>2

\* A login may find a session to replace; a logout has one to end.
LEMMA PreviousStep ==
    ASSUME AccountAssumption, AccountInv, NEW q \in Requests, Previous(q) \/ RevokeOwn(q)
    PROVE  AccountInv'
  <1>1. /\ Shape(req[q]) /\ Named(req[q]) /\ Checked(req[q]) /\ req[q] \in Request
        /\ req \in [Requests -> Request] /\ hints \subseteq Sids
    BY RequestFacts, Parts DEF ControlInv, TableTypes
  <1>2. /\ \/ req[q].pc = "previous" /\ req[q].op = "login"
           \/ req[q].pc = "revoke" /\ req[q].op = "logout"
        /\ req[q].sid \in Sids /\ UNCHANGED <<users, sess, audit, member, userLock>>
    BY <1>1 DEF Previous, RevokeOwn, Shape, SessionOps, tables, locks
  <1>3. hints' \subseteq Sids
    BY <1>1, <1>2 DEF Previous, RevokeOwn, Cached, tables
  <1>4. PICK v \in SUBSET Sids :
          req' = [req EXCEPT ![q] = [req[q] EXCEPT !.pc = "commit", !.victims = v]]
    <2>1. CASE Goto(q, "commit")
      <3>1. [req[q] EXCEPT !.pc = "commit"] =
              [req[q] EXCEPT !.pc = "commit", !.victims = req[q].victims]
        BY <1>1 DEF Request
      <3>2. req[q].victims \in SUBSET Sids
        BY <1>1 DEF Request
      <3> QED
        BY <1>1, <2>1, <3>1, <3>2 DEF Goto
    <2>2. CASE req' = [req EXCEPT ![q] = [@ EXCEPT !.pc = "commit", !.victims = {req[q].sid}]]
      BY <1>1, <1>2, <2>2
    <2> QED
      BY <2>1, <2>2 DEF Previous, RevokeOwn
  <1> DEFINE r == [req[q] EXCEPT !.pc = "commit", !.victims = v]
  <1>5. /\ r \in Request /\ r.pc = "commit" /\ r.op = req[q].op /\ r.user = req[q].user
        /\ r.sid = req[q].sid /\ r.password = req[q].password /\ r.late = req[q].late
        /\ req' = [req EXCEPT ![q] = r]
    BY <1>1, <1>4 DEF Stages, Request
  <1> HIDE DEF r
  <1>6. Shape(r) /\ Named(r) /\ Checked(r) /\ Prepared(r)
    BY <1>1, <1>2, <1>5 DEF Shape, Named, Checked, Prepared, SessionOps
  <1>7. /\ HasMember(r) <=> HasMember(req[q])
        /\ \A u \in Users : HasRow(r, u) <=> HasRow(req[q], u)
    BY <1>2, <1>5 DEF HasMember, HasRow
  <1> QED
    BY <1>2, <1>3, <1>5, <1>6, <1>7, GoStep

\* The callback after the commit.
LEMMA InvalidateStep ==
    ASSUME AccountAssumption, AccountInv, NEW q \in Requests, Invalidate(q)
    PROVE  AccountInv'
  <1>1. /\ req[q].pc = "invalidate" /\ req' = [req EXCEPT ![q] = Idle]
        /\ UNCHANGED <<users, sess, audit, member, userLock>>
    BY DEF Invalidate, locks
  <1>2. hints' \subseteq Sids
    BY Parts DEF TableTypes, Invalidate, Cached
  <1>3. ~HasMember(req[q]) /\ \A u \in Users : ~HasRow(req[q], u)
    BY <1>1 DEF HasMember, HasRow
  <1> QED
    BY <1>1, <1>2, <1>3, IdleFacts, GoStep

-----------------------------------------------------------------------------
(* Steps that write tables                                                 *)

\* A lock on a row is one on an account that exists.
LEMMA LockedExists ==
    ASSUME AccountInv, NEW u \in Users, NEW p \in Requests, userLock[u] = p
    PROVE  users[u].exists
  <1>1. HasRow(req[p], u) /\ Named(req[p])
    BY RequestFacts
  <1> QED
    BY <1>1 DEF HasRow, Named

\* What may happen to the tables while p has its locks.
Undisturbed(p) ==
    /\ \A u \in Users : userLock[u] = p =>
          users'[u] = users[u] /\ OpenSessions(u)' \subseteq OpenSessions(u)
    /\ \A s \in Sids : sess'[s].status = "revoked" /\ sess[s].status # "revoked" =>
          userLock[sess[s].user] # p
    /\ member = p => \A u \in Users : Admin(u)' = Admin(u)

\* What every step keeps of the tables: accounts and sessions are never deleted, and an
\* ended session stays so.
Monotone ==
    /\ \A u \in Users : users[u].exists => users'[u].exists
    /\ \A s \in Sids : sess[s].status # "none" =>
          /\ sess'[s].status # "none" /\ sess'[s].user = sess[s].user
          /\ sess[s].status # "open" => sess'[s].status # "open"

\* What a request has checked under its locks stays so while it has them.
LEMMA OthersKept ==
    ASSUME AccountAssumption, AccountInv, Monotone, NEW p \in Requests, Undisturbed(p),
           req'[p] = req[p]
    PROVE  Named(req[p])' /\ Checked(req[p])' /\ Prepared(req[p])'
  <1> DEFINE r == req[p]
  <1>1. /\ Shape(r) /\ Named(r) /\ Checked(r) /\ Prepared(r)
        /\ member = p <=> HasMember(r)
        /\ \A u \in Users : userLock[u] = p <=> HasRow(r, u)
    BY RequestFacts
  <1> HIDE DEF r
  <1>2. Named(r)'
    BY <1>1 DEF Monotone, Shape, Named, r
  <1>3. Checked(r)'
    <2>1. ASSUME r.op = "login", r.pc \in {"previous", "commit"}
          PROVE  users'[r.user].active /\ r.password = users'[r.user].password
      <3>1. r.user \in Users /\ HasRow(r, r.user)
        BY <1>1, <2>1 DEF Shape, HasRow
      <3> QED
        BY <1>1, <2>1, <3>1 DEF Checked, Undisturbed
    <2>2. ASSUME r.op \in {"write", "change_access", "reauthenticate"},
                 r.pc \in {"target", "commit"}
          PROVE  /\ users'[r.user].active
                 /\ r.op = "change_access" => users'[r.user].role = "admin"
                 /\ sess'[r.sid].status # "revoked"
      <3>1. r.user \in Users /\ HasRow(r, r.user) /\ r.sid \in Sids /\ sess[r.sid].user = r.user
        BY <1>1, <2>2 DEF Shape, HasRow, SessionOps, Named
      <3> QED
        BY <1>1, <2>2, <3>1 DEF Checked, Undisturbed
    <2> QED
      BY <2>1, <2>2 DEF Checked, r
  <1>4. Prepared(r)'
    <2> SUFFICES ASSUME r.pc = "commit"
                 PROVE  Prepared(r)'
      BY DEF Prepared, r
    <2>1. \A s \in Sids, u \in Users : sess[s].user = u => sess'[s].user = u
      BY Parts, ConstantTypes DEF RowInv, Monotone
    <2>2. r.victims \subseteq Sids
      BY RequestFacts DEF Request, r
    <2>3. r.op = "reset" => OpenSessions(r.user)' \subseteq r.victims
      BY <1>1 DEF Shape, HasRow, Prepared, Undisturbed, r
    <2>4. r.op \in {"reset", "logout_all"} => \A s \in r.victims : sess'[s].user = r.user
      BY <1>1, <2>1, <2>2 DEF Shape, Prepared
    <2>5. ASSUME r.op = "change_access"
          PROVE  /\ OpenSessions(r.target)' \subseteq r.victims
                 /\ \A s \in r.victims : sess'[s].user = r.target
                 /\ r.old = AccessOf(r.target)'
                 /\ Admin(r.target)' /\ r.access # Administrator =>
                       \E u \in Users \ {r.target} : Admin(u)'
      <3>1. r.target \in Users /\ HasRow(r, r.target) /\ HasMember(r)
        BY <1>1, <2>5 DEF Shape, HasRow, HasMember
      <3>2. users'[r.target] = users[r.target] /\ r.old = AccessOf(r.target)
        BY <1>1, <2>5, <3>1 DEF Prepared, Undisturbed
      <3>3. r.old = AccessOf(r.target)'
        BY <3>2 DEF AccessOf, r
      <3>4. OpenSessions(r.target)' \subseteq r.victims
        BY <1>1, <2>5, <3>1 DEF Prepared, Undisturbed, r
      <3>5. \A u \in Users : Admin(u)' = Admin(u)
        BY <1>1, <3>1 DEF Undisturbed
      <3>6. Admin(r.target)' = Admin(r.target)
        BY <3>1, <3>5 DEF r
      <3> QED
        BY <1>1, <2>1, <2>2, <2>5, <3>1, <3>3, <3>4, <3>5, <3>6 DEF Prepared
    <2>6. r.op = "bootstrap" => \A u \in Users : ~Admin(u)'
      BY <1>1 DEF HasMember, Prepared, Undisturbed
    <2> QED
      BY <2>3, <2>4, <2>5, <2>6 DEF Prepared, r
  <1> QED
    BY <1>2, <1>3, <1>4 DEF r

\* A step that writes tables keeps the invariant if it disturbs nobody else, and what it
\* writes is right; q is the request that commits, if one does.
LEMMA WriteStep ==
    ASSUME AccountAssumption, AccountInv, NEW q \in Requests \cup {None}, Monotone,
           TableTypes', ControlInv', RowInv', PasswordInv', SessionsCurrent',
           \A p \in Requests \ {q} : req'[p] = req[p] /\ Undisturbed(p),
           q \in Requests =>
               /\ req[q].pc = "commit"
               /\ req'[q] \in {Idle, [req[q] EXCEPT !.pc = "invalidate"]}
    PROVE  AccountInv'
  <1> SUFFICES ASSUME NEW p \in Requests
               PROVE  Named(req[p])' /\ Checked(req[p])' /\ Prepared(req[p])'
    BY PartsSuffice DEF RequestInv
  <1>1. CASE p # q
    BY <1>1, OthersKept
  <1>2. CASE p = q /\ req'[q] = Idle
    BY <1>2, IdleFacts DEF Named, Checked, Prepared, SessionOps
  <1>3. CASE p = q /\ req'[q] = [req[q] EXCEPT !.pc = "invalidate"]
    <2> DEFINE r == req'[q]
    <2>1. req[q] \in Request /\ Shape(req[q]) /\ Named(req[q]) /\ req[q].pc = "commit"
      BY <1>3, RequestFacts
    <2>2. /\ r.pc = "invalidate" /\ r.op = req[q].op /\ r.user = req[q].user
          /\ r.sid = req[q].sid /\ r.target = req[q].target /\ r.late = req[q].late
      BY <1>3, <2>1 DEF Request
    <2> HIDE DEF r
    <2>3. /\ r.op # "bootstrap" => users'[r.user].exists
          /\ r.op = "change_access" => users'[r.target].exists
          /\ r.op \in SessionOps => /\ sess'[r.sid].status # "none" /\ sess'[r.sid].user = r.user
                                    /\ r.late => sess'[r.sid].status # "open"
      BY <2>1, <2>2 DEF Shape, Named, Monotone
    <2> QED
      BY <1>3, <2>2, <2>3 DEF Named, Checked, Prepared, r
  <1> QED
    BY <1>1, <1>2, <1>3

\* Sessions of the table with some of them ended.
LEMMA EndedFacts ==
    ASSUME AccountInv, NEW q \in Requests
    PROVE  /\ Ended(q) \in [Sids -> Session]
           /\ \A s \in Sids :
                 /\ Ended(q)[s].user = sess[s].user /\ Ended(q)[s].password = sess[s].password
                 /\ Ended(q)[s].status =
                       IF s \in req[q].victims /\ sess[s].status = "open"
                       THEN EndedAs(req[q].op) ELSE sess[s].status
  <1>1. sess \in [Sids -> Session] /\ EndedAs(req[q].op) \in {"logged_out", "revoked"}
    BY Parts DEF TableTypes, EndedAs
  <1> QED
    BY <1>1 DEF Ended, Session

\* What a commit does to the sessions.
LEMMA SessionsWritten ==
    ASSUME AccountAssumption, AccountInv, NEW q \in Requests, Commit(q)
    PROVE  /\ sess' \in [Sids -> Session]
           /\ \A s \in Sids : sess[s].status # "none" =>
                 /\ sess'[s].status # "none" /\ sess'[s].user = sess[s].user
                 /\ sess'[s].password = sess[s].password
                 /\ sess[s].status # "open" => sess'[s].status = sess[s].status
                 /\ sess'[s].status = "open" /\ req[q].op # "reauthenticate" =>
                       s \notin req[q].victims
                 /\ sess'[s].status = "revoked" /\ sess[s].status # "revoked" =>
                       userLock[sess[s].user] = q
           /\ \A s \in Sids : sess[s].status = "none" /\ sess'[s] # sess[s] =>
                 req[q].op = "login" /\ sess'[s] = Issued(q)
  <1> DEFINE o == req[q]
  <1>1. /\ o.pc = "commit" /\ sess' \in SessionsAfter(q) /\ sess \in [Sids -> Session]
        /\ o \in Request /\ Shape(o) /\ Named(o) /\ Prepared(o)
        /\ \A u \in Users : userLock[u] = q <=> HasRow(o, u)
    BY Parts, RequestFacts DEF Commit, TableTypes
  <1>2. \A s \in Sids : s \in o.victims /\ EndedAs(o.op) = "revoked" => userLock[sess[s].user] = q
    BY <1>1 DEF Shape, Prepared, EndedAs, HasRow, AllOperations, Request
  <1>3. CASE o.op = "login"
    <2>1. PICK n \in Sids : sess[n].status = "none" /\ sess' = [Ended(q) EXCEPT ![n] = Issued(q)]
      BY <1>1, <1>3 DEF SessionsAfter
    <2>2. Issued(q) \in Session /\ EndedAs(o.op) = "logged_out"
      BY <1>1, <1>3 DEF Issued, Session, Request, EndedAs
    <2> HIDE DEF o
    <2>3. sess'[n] = Issued(q) /\ \A s \in Sids \ {n} : sess'[s] = Ended(q)[s]
      BY <2>1, EndedFacts
    <2>4. \A s \in Sids : sess[s].status = "none" => Ended(q)[s] = sess[s]
      BY DEF Ended
    <2> QED
      BY <1>3, <2>1, <2>2, <2>3, <2>4, EndedFacts DEF o
  <1>4. CASE o.op = "reauthenticate"
    <2>1. /\ sess' = [sess EXCEPT ![o.sid].recent = TRUE]
          /\ o.sid \in Sids /\ sess[o.sid].status # "none"
      BY <1>1, <1>4 DEF SessionsAfter, Shape, Named, SessionOps
    <2> QED
      BY <1>1, <1>4, <2>1 DEF Session
  <1>5. CASE o.op \notin {"login", "reauthenticate"}
    <2>1. sess' = Ended(q)
      BY <1>1, <1>5 DEF SessionsAfter
    <2>2. EndedAs(o.op) \in {"revoked", "logged_out"}
      BY DEF EndedAs
    <2>4. \A s \in Sids : sess[s].status = "none" => Ended(q)[s] = sess[s]
      BY DEF Ended
    <2> QED
      BY <1>2, <2>1, <2>2, <2>4, EndedFacts
  <1> QED
    BY <1>3, <1>4, <1>5

\* Nobody who resets a password waits for an account that does not exist.
LEMMA NoResetOfNobody ==
    ASSUME AccountInv, NEW u \in Users, ~users[u].exists
    PROVE  Resets(u) = {}
  BY RequestFacts DEF Resets, Shape, Named

\* What a commit does to the accounts, other than the new password of a reset.
LEMMA AccountsWritten ==
    ASSUME AccountAssumption, AccountInv, NEW q \in Requests, Commit(q)
    PROVE  /\ users' \in [Users -> User]
           /\ audit' \in [user : Users \cup {None}, old : Access, new : Access]
           /\ \A u \in Users :
                 /\ users[u].exists => users'[u].exists
                 /\ users'[u] # users[u] => userLock[u] = q \/ ~users[u].exists
                 /\ users'[u] # users[u] /\ users[u].exists =>
                      OpenSessions(u) \subseteq req[q].victims
                 /\ ~users'[u].exists => users'[u] = users[u]
                 /\ HasMember(req[q]) \/ Admin(u)' = Admin(u)
                 /\ users[u].exists /\ req[q].op # "reset" => users'[u].password = users[u].password
                 /\ ~users[u].exists => users'[u].password \in {users[u].password, 1}
                 /\ users[u].password > 0 => users'[u].password > 0
                 /\ users'[u].exists => users[u].exists \/ users'[u].password > 0
  <1> DEFINE o == req[q]
  <1>1. /\ o.pc = "commit" /\ Decide(q) /\ users \in [Users -> User]
        /\ audit \in [user : Users \cup {None}, old : Access, new : Access]
        /\ o \in Request /\ Shape(o) /\ Named(o) /\ Prepared(o)
        /\ \A u \in Users : userLock[u] = q <=> HasRow(o, u)
        /\ MaxPassword \in Nat /\ 1 <= MaxPassword
    BY Parts, RequestFacts, ConstantTypes DEF Commit, TableTypes
  <1>2. CASE o.op = "change_access"
    <2>1. /\ users' = [users EXCEPT ![o.target].role = o.access.role,
                                    ![o.target].active = o.access.active]
          /\ audit' = [user |-> o.target, old |-> o.old, new |-> o.access]
      BY <1>1, <1>2 DEF Decide, AuditRecord
    <2>2. /\ o.target \in Users /\ o.access \in Access /\ o.old \in Access /\ HasMember(o)
          /\ HasRow(o, o.target) /\ OpenSessions(o.target) \subseteq o.victims
          /\ users[o.target].exists
      BY <1>1, <1>2 DEF Shape, Request, HasMember, HasRow, Prepared, Named
    <2>3. o.access.role \in Roles /\ o.access.active \in BOOLEAN
      BY <2>2 DEF Access
    <2> HIDE DEF o
    <2>4. /\ users' \in [Users -> User] /\ \A u \in Users \ {o.target} : users'[u] = users[u]
          /\ users'[o.target].exists = users[o.target].exists
          /\ users'[o.target].password = users[o.target].password
      BY <1>1, <2>1, <2>2, <2>3 DEF User
    <2> QED
      BY <1>1, <1>2, <2>1, <2>2, <2>4 DEF o
  <1>3. CASE o.op = "bootstrap"
    <2>1. /\ users' = [users EXCEPT ![o.target] =
                         [exists |-> TRUE, role |-> "admin", active |-> TRUE, password |-> 1]]
          /\ audit' = [user |-> o.target, old |-> o.old, new |-> o.access]
          /\ ~users[o.target].exists
      BY <1>1, <1>3 DEF Decide, AuditRecord
    <2>2. o.target \in Users /\ o.access \in Access /\ o.old \in Access /\ HasMember(o)
      BY <1>1, <1>3 DEF Shape, Request, HasMember
    <2> HIDE DEF o
    <2>3. /\ users' \in [Users -> User] /\ \A u \in Users \ {o.target} : users'[u] = users[u]
          /\ users'[o.target].exists /\ users'[o.target].password = 1
      BY <1>1, <2>1, <2>2 DEF User, Roles
    <2> QED
      BY <1>1, <2>1, <2>2, <2>3 DEF o
  <1>4. CASE o.op = "reset"
    <2>1. users' = [users EXCEPT ![o.user].password = @ + 1] /\ audit' = audit
      BY <1>1, <1>4 DEF Decide
    <2>2. /\ o.user \in Users /\ HasRow(o, o.user) /\ OpenSessions(o.user) \subseteq o.victims
          /\ users[o.user].exists
      BY <1>1, <1>4 DEF Shape, HasRow, Prepared, Named
    <2>3. users[o.user].password + 1 <= MaxPassword
      <3>1. q \in Resets(o.user) /\ Resets(o.user) \in SUBSET Requests
        BY <1>1, <1>4 DEF Resets
      <3>2. IsFiniteSet(Resets(o.user)) /\ Cardinality(Resets(o.user)) \in Nat
        BY <3>1, ConstantTypes, FS_Subset, FS_CardinalityType
      <3>3. Cardinality(Resets(o.user)) # 0
        BY <3>1, <3>2, FS_EmptySet
      <3>4. users[o.user].password + Cardinality(Resets(o.user)) <= MaxPassword
        BY <2>2 DEF AccountInv, PasswordInv
      <3>5. users[o.user].password \in Nat
        BY <1>1, <2>2 DEF User
      <3> QED
        BY <1>1, <3>2, <3>3, <3>4, <3>5
    <2> HIDE DEF o
    <2>4. /\ users' \in [Users -> User] /\ \A u \in Users \ {o.user} : users'[u] = users[u]
          /\ users'[o.user].exists = users[o.user].exists
          /\ users'[o.user].role = users[o.user].role
          /\ users'[o.user].active = users[o.user].active /\ users'[o.user].password > 0
      <3>1. users[o.user] \in User /\ users[o.user].password + 1 \in 0 .. MaxPassword
        BY <1>1, <2>2, <2>3 DEF User
      <3> DEFINE n == [users[o.user] EXCEPT !.password = users[o.user].password + 1]
      <3>2. users' = [users EXCEPT ![o.user] = n]
        BY <1>1, <2>1
      <3>3. /\ n \in User /\ n.exists = users[o.user].exists /\ n.role = users[o.user].role
            /\ n.active = users[o.user].active /\ n.password > 0
        BY <3>1 DEF User
      <3> HIDE DEF n
      <3> QED
        BY <1>1, <2>2, <3>2, <3>3
    <2>5. \A u \in Users : Admin(u)' = Admin(u)
      BY <2>2, <2>4 DEF Admin
    <2> QED
      BY <1>1, <1>4, <2>1, <2>2, <2>4, <2>5 DEF o
  <1>5. CASE o.op \notin {"change_access", "bootstrap", "reset"}
    <2>1. users' = users /\ audit' = audit
      BY <1>1, <1>5 DEF Decide
    <2>2. \A u \in Users : Admin(u)' = Admin(u)
      BY <2>1 DEF Admin
    <2> QED
      BY <1>1, <2>1, <2>2
  <1> QED
    BY <1>2, <1>3, <1>4, <1>5

\* A commit gives back what a reset had of the bound on passwords.
LEMMA CommitPasswords ==
    ASSUME AccountAssumption, AccountInv, NEW q \in Requests, Commit(q),
           req'[q] = Idle \/ req'[q].pc = "invalidate",
           \A p \in Requests : p # q => req'[p] = req[p]
    PROVE  PasswordInv'
  <1> SUFFICES ASSUME NEW u \in Users
               PROVE  users'[u].password + Cardinality(Resets(u)') <= MaxPassword
    BY DEF PasswordInv
  <1>1. /\ users[u].password + Cardinality(Resets(u)) <= MaxPassword
        /\ users[u].password \in Nat /\ MaxPassword \in Nat /\ 1 <= MaxPassword
    BY ConstantTypes DEF AccountInv, PasswordInv, TableTypes, User
  <1>2. Resets(u)' \in SUBSET (Resets(u) \ {q}) /\ Resets(u) \in SUBSET Requests
    BY IdleFacts DEF Resets
  <1>3. IsFiniteSet(Resets(u)) /\ Cardinality(Resets(u)) \in Nat
    BY <1>2, ConstantTypes, FS_Subset, FS_CardinalityType
  <1>4. /\ IsFiniteSet(Resets(u) \ {q})
        /\ Cardinality(Resets(u) \ {q}) =
              IF q \in Resets(u) THEN Cardinality(Resets(u)) - 1 ELSE Cardinality(Resets(u))
    BY <1>3, FS_RemoveElement
  <1>5. Cardinality(Resets(u)') <= Cardinality(Resets(u) \ {q}) /\ Cardinality(Resets(u)') \in Nat
    BY <1>2, <1>4, FS_Subset, FS_CardinalityType
  <1>6. CASE users'[u].password = users[u].password
    BY <1>1, <1>3, <1>4, <1>5, <1>6
  <1>7. CASE users[u].exists /\ users'[u].password # users[u].password
    <2>1. req[q].op = "reset" /\ req[q].pc = "commit"
      BY <1>7, AccountsWritten DEF Commit
    <2>2. users' = [users EXCEPT ![req[q].user].password = @ + 1] /\ users \in [Users -> User]
      BY <2>1, Parts DEF Commit, Decide, TableTypes
    <2>3. u = req[q].user
      BY <1>7, <2>2
    <2>4. users'[u].password = users[u].password + 1
      BY <2>2, <2>3 DEF User
    <2>5. q \in Resets(u)
      BY <2>1, <2>3 DEF Resets
    <2> QED
      BY <1>1, <1>3, <1>4, <1>5, <2>4, <2>5
  <1>8. CASE ~users[u].exists /\ users'[u].password # users[u].password
    <2>1. users'[u].password = 1
      BY <1>8, AccountsWritten
    <2>2. Resets(u)' = {}
      BY <1>2, <1>8, NoResetOfNobody
    <2>3. Cardinality(Resets(u)') = 0
      BY <2>2, FS_EmptySet
    <2> QED
      BY <1>1, <2>1, <2>3
  <1> QED
    BY <1>6, <1>7, <1>8

\* A commit leaves open only sessions of the current password, of active accounts.
LEMMA CommitSessions ==
    ASSUME AccountAssumption, AccountInv, NEW q \in Requests, Commit(q)
    PROVE  RowInv' /\ SessionsCurrent'
  <1>1. /\ req[q].pc = "commit" /\ Shape(req[q]) /\ Named(req[q]) /\ Checked(req[q])
        /\ \A u \in Users : userLock[u] = q <=> HasRow(req[q], u)
    BY RequestFacts DEF Commit
  <1>2. RowInv /\ SessionsCurrent
    BY Parts
  <1>3. ASSUME req[q].op = "login"
        PROVE  /\ req[q].user \in Users /\ users[req[q].user].exists
               /\ users[req[q].user].active /\ users' = users
               /\ req[q].password = users[req[q].user].password
    BY <1>1, <1>3 DEF Shape, Named, Checked, Commit, Decide
  <1>4. RowInv'
    <2>1. \A s \in Sids : sess'[s].status # "none" =>
             sess'[s].user \in Users /\ users'[sess'[s].user].exists
      <3> SUFFICES ASSUME NEW s \in Sids, sess'[s].status # "none"
                   PROVE  sess'[s].user \in Users /\ users'[sess'[s].user].exists
        OBVIOUS
      <3>1. CASE sess[s].status # "none"
        BY <1>2, <3>1, SessionsWritten, AccountsWritten DEF RowInv
      <3>2. CASE sess[s].status = "none"
        <4>1. req[q].op = "login" /\ sess'[s] = Issued(q)
          BY <3>2, SessionsWritten
        <4> QED
          BY <1>3, <4>1 DEF Issued
      <3> QED
        BY <3>1, <3>2
    <2>2. \A s \in Sids : sess'[s].status = "none" => sess'[s].user = None
      <3> SUFFICES ASSUME NEW s \in Sids, sess'[s].status = "none"
                   PROVE  sess'[s].user = None
        OBVIOUS
      <3>1. sess[s].status = "none"
        BY SessionsWritten
      <3>2. Issued(q).status = "open"
        BY DEF Issued
      <3>3. sess'[s] = sess[s]
        BY <3>1, <3>2, SessionsWritten
      <3> QED
        BY <1>2, <3>1, <3>3 DEF RowInv
    <2>3. \A u \in Users : ~users'[u].exists => users'[u].role = "customer" /\ users'[u].active
      BY <1>2, AccountsWritten DEF RowInv
    <2> QED
      BY <2>1, <2>2, <2>3 DEF RowInv
  <1>5. ASSUME NEW s \in Sids, sess'[s].status = "open"
        PROVE  /\ sess'[s].password = users'[sess'[s].user].password
               /\ users'[sess'[s].user].active
    <2>1. CASE sess[s].status = "none"
      <3>1. req[q].op = "login" /\ sess'[s] = Issued(q)
        BY <1>5, <2>1, SessionsWritten
      <3> QED
        BY <1>3, <3>1 DEF Issued
    <2>2. CASE sess[s].status # "none"
      <3>1. /\ sess[s].status = "open" /\ sess'[s].user = sess[s].user
            /\ sess'[s].password = sess[s].password
            /\ req[q].op # "reauthenticate" => s \notin req[q].victims
        BY <1>5, <2>2, SessionsWritten
      <3>2. /\ sess[s].user \in Users /\ users[sess[s].user].exists
            /\ sess[s].password = users[sess[s].user].password
            /\ users[sess[s].user].active
        BY <1>2, <3>1 DEF RowInv, SessionsCurrent
      <3>3. s \in OpenSessions(sess[s].user)
        BY <3>1 DEF OpenSessions
      <3>4. req[q].op = "reauthenticate" => users' = users
        BY DEF Commit, Decide
      <3>5. users'[sess[s].user] = users[sess[s].user]
        BY <3>1, <3>2, <3>3, <3>4, AccountsWritten
      <3> QED
        BY <3>1, <3>2, <3>5
    <2> QED
      BY <2>1, <2>2
  <1> QED
    BY <1>4, <1>5 DEF SessionsCurrent

\* A commit.
LEMMA CommitStep ==
    ASSUME AccountAssumption, AccountInv, NEW q \in Requests, Commit(q)
    PROVE  AccountInv'
  <1> DEFINE pc == IF req[q].victims = {} THEN "idle" ELSE "invalidate"
  <1>1. req[q].pc = "commit" /\ EndAt(q, pc) /\ hints' = hints /\ pc \in {"idle", "invalidate"}
    BY DEF Commit
  <1> HIDE DEF pc
  <1>2. /\ ControlInv' /\ \A p \in Requests : p # q => req'[p] = req[p]
        /\ req'[q] = IF pc = "idle" THEN Idle ELSE [req[q] EXCEPT !.pc = pc]
    BY <1>1, EndMoves
  <1>3. req'[q] \in {Idle, [req[q] EXCEPT !.pc = "invalidate"]}
    BY <1>1, <1>2
  <1>4. req'[q] = Idle \/ req'[q].pc = "invalidate"
    BY <1>3, RequestFacts DEF Request
  <1>5. PasswordInv'
    BY <1>2, <1>4, CommitPasswords
  <1>6. RowInv' /\ SessionsCurrent'
    BY CommitSessions
  <1>7. TableTypes'
    BY <1>1, Parts, AccountsWritten, SessionsWritten DEF TableTypes
  <1>8. Monotone
    BY AccountsWritten, SessionsWritten DEF Monotone
  <1>9. ASSUME NEW p \in Requests, p # q
        PROVE  Undisturbed(p)
    <2>1. \A u \in Users : userLock[u] = p => users'[u] = users[u]
      BY <1>9, LockedExists, AccountsWritten
    <2>2. ASSUME NEW u \in Users, userLock[u] = p, NEW s \in OpenSessions(u)'
          PROVE  s \in OpenSessions(u)
      <3>1. s \in Sids /\ sess'[s].user = u /\ sess'[s].status = "open"
        BY <2>2 DEF OpenSessions
      <3>2. CASE sess[s].status # "none"
        BY <3>1, <3>2, SessionsWritten DEF OpenSessions
      <3>3. CASE sess[s].status = "none"
        <4>0. req[q].op = "login" /\ sess'[s] = Issued(q)
          BY <3>1, <3>3, SessionsWritten
        <4>1. req[q].op = "login" /\ u = req[q].user
          BY <3>1, <4>0 DEF Issued
        <4>2. HasRow(req[q], u)
          BY <1>1, <4>1 DEF HasRow
        <4>3. userLock[u] = q
          BY <4>2, RequestFacts
        <4> QED
          BY <1>9, <2>2, <4>3
      <3> QED
        BY <3>2, <3>3
    <2>3. ASSUME NEW s \in Sids, sess'[s].status = "revoked", sess[s].status # "revoked"
          PROVE  userLock[sess[s].user] # p
      <3>0. Issued(q).status = "open"
        BY DEF Issued
      <3>1. sess[s].status # "none"
        BY <2>3, <3>0, SessionsWritten
      <3> QED
        BY <1>9, <2>3, <3>1, SessionsWritten
    <2>4. member = p => \A u \in Users : Admin(u)' = Admin(u)
      <3>1. HasMember(req[q]) => member = q
        BY RequestFacts
      <3> QED
        BY <1>9, <3>1, AccountsWritten
    <2> QED
      BY <2>1, <2>2, <2>3, <2>4 DEF Undisturbed
  <1> QED
    BY <1>1, <1>2, <1>3, <1>5, <1>6, <1>7, <1>8, <1>9, WriteStep

\* Steps of nobody in particular: what they write is about no account that is locked.
LEMMA AloneStep ==
    ASSUME AccountAssumption, AccountInv, UNCHANGED <<audit, member, userLock, req>>,
           users' \in [Users -> User], sess' \in [Sids -> Session], hints' \subseteq Sids,
           \A u \in Users : /\ users'[u] # users[u] => ~users[u].exists
                            /\ users[u].exists => users'[u].exists
                            /\ Admin(u)' = Admin(u),
           \A s \in Sids : /\ sess'[s].user = sess[s].user
                           /\ sess[s].status # "none" => sess'[s].status # "none"
                           /\ sess'[s].status = "open" => sess[s].status = "open"
                           /\ sess'[s].status = "revoked" => sess[s].status = "revoked",
           RowInv', PasswordInv', SessionsCurrent'
    PROVE  AccountInv'
  <1>1. TableTypes' /\ ControlInv'
    BY Parts DEF TableTypes, ControlInv, ShapeInv, LockInv
  <1>2. Monotone
    BY DEF Monotone
  <1>3. ASSUME NEW p \in Requests
        PROVE  Undisturbed(p)
    <2>1. \A u \in Users : OpenSessions(u)' \subseteq OpenSessions(u)
      BY DEF OpenSessions
    <2> QED
      BY <2>1, LockedExists DEF Undisturbed
  <1>4. None \notin Requests
    BY ConstantTypes
  <1> QED
    BY <1>1, <1>2, <1>3, <1>4, WriteStep

\* An account is registered: nobody has a session of it, and nobody waits to reset its
\* password.
LEMMA RegisterStep ==
    ASSUME AccountAssumption, AccountInv, NEW n \in Users, Register(n)
    PROVE  AccountInv'
  <1>1. /\ users \in [Users -> User] /\ sess \in [Sids -> Session] /\ hints \subseteq Sids
        /\ MaxPassword \in Nat /\ 1 <= MaxPassword /\ RowInv /\ SessionsCurrent
    BY Parts, ConstantTypes DEF TableTypes
  <1>2. /\ ~users[n].exists /\ users' = [users EXCEPT ![n].exists = TRUE, ![n].password = 1]
        /\ UNCHANGED <<sess, hints, member, userLock, req, audit>>
    BY DEF Register, locks
  <1>3. /\ users' \in [Users -> User] /\ \A u \in Users \ {n} : users'[u] = users[u]
        /\ users'[n].exists /\ users'[n].password = 1 /\ users'[n].role = users[n].role
    <2> DEFINE r == [users[n] EXCEPT !.exists = TRUE, !.password = 1]
    <2>0. users[n] \in User /\ 1 \in 0 .. MaxPassword
      BY <1>1 DEF User
    <2>1. users' = [users EXCEPT ![n] = r]
      BY <1>1, <1>2, <2>0 DEF User
    <2>2. r \in User /\ r.exists /\ r.password = 1 /\ r.role = users[n].role
      BY <2>0 DEF User
    <2> HIDE DEF r
    <2> QED
      BY <1>1, <2>1, <2>2
  <1>4. users[n].role = "customer"
    BY <1>1, <1>2 DEF RowInv
  <1>5. \A u \in Users : Admin(u)' = Admin(u)
    BY <1>2, <1>3, <1>4 DEF Admin
  <1>6. RowInv'
    BY <1>1, <1>2, <1>3 DEF RowInv
  <1>7. SessionsCurrent'
    BY <1>1, <1>2, <1>3 DEF RowInv, SessionsCurrent
  <1>8. PasswordInv'
    <2> SUFFICES ASSUME NEW u \in Users
                 PROVE  users'[u].password + Cardinality(Resets(u)') <= MaxPassword
      BY DEF PasswordInv
    <2>1. Resets(u)' = Resets(u)
      BY <1>2 DEF Resets
    <2>2. CASE u # n
      BY <1>3, <2>1, <2>2 DEF AccountInv, PasswordInv
    <2>3. CASE u = n
      <3>1. Cardinality(Resets(u)') = 0
        BY <1>2, <2>1, <2>3, NoResetOfNobody, FS_EmptySet
      <3> QED
        BY <1>1, <1>3, <2>3, <3>1
    <2> QED
      BY <2>2, <2>3
  <1> QED
    BY <1>1, <1>2, <1>3, <1>5, <1>6, <1>7, <1>8, AloneStep

\* Time passes.
LEMMA AgeStep ==
    ASSUME AccountAssumption, AccountInv, NEW n \in Sids, Age(n) \/ Forget(n)
    PROVE  AccountInv'
  <1>1. /\ users \in [Users -> User] /\ sess \in [Sids -> Session] /\ hints \subseteq Sids
        /\ RowInv /\ SessionsCurrent
    BY Parts DEF TableTypes
  <1>2. /\ UNCHANGED <<users, audit, member, userLock, req>> /\ hints' \subseteq Sids
        /\ \/ sess' = sess
           \/ sess[n].status = "open" /\ sess' = [sess EXCEPT ![n].status = "expired"]
           \/ sess' = [sess EXCEPT ![n].recent = FALSE]
    BY <1>1 DEF Age, Forget, locks
  <1>3. /\ sess' \in [Sids -> Session]
        /\ \A s \in Sids : /\ sess'[s].user = sess[s].user /\ sess'[s].password = sess[s].password
                           /\ sess'[s].status = "none" <=> sess[s].status = "none"
                           /\ sess'[s].status = "open" => sess[s].status = "open"
                           /\ sess'[s].status = "revoked" => sess[s].status = "revoked"
    <2>1. CASE sess' = sess
      BY <1>1, <2>1
    <2>2. CASE sess[n].status = "open" /\ sess' = [sess EXCEPT ![n].status = "expired"]
      BY <1>1, <2>2 DEF Session
    <2>3. CASE sess' = [sess EXCEPT ![n].recent = FALSE]
      BY <1>1, <2>3 DEF Session
    <2> QED
      BY <1>2, <2>1, <2>2, <2>3
  <1>4. RowInv' /\ SessionsCurrent'
    BY <1>1, <1>2, <1>3 DEF RowInv, SessionsCurrent
  <1>5. PasswordInv'
    BY <1>2 DEF AccountInv, PasswordInv, Resets
  <1>6. \A u \in Users : Admin(u)' = Admin(u)
    BY <1>2 DEF Admin
  <1> QED
    BY <1>1, <1>2, <1>3, <1>4, <1>5, <1>6, AloneStep

-----------------------------------------------------------------------------
(* The invariant                                                           *)

\* The accounts and sessions at the start are in order.
LEMMA InitAccountInv ==
    ASSUME AccountAssumption, Init
    PROVE  AccountInv
  <1>1. /\ users = [u \in Users |-> InitialUser(u)] /\ sess = [s \in Sids |-> InitialSession(s)]
        /\ hints = {} /\ member = None /\ userLock = [u \in Users |-> None]
        /\ req = [q \in Requests |-> Idle]
        /\ audit = [user |-> None, old |-> Customer, new |-> Customer]
    BY DEF Init
  <1>2. /\ \A u \in Users : InitialUser(u) \in User
        /\ \A u \in Users : ~InitialUser(u).exists => InitialUser(u).role = "customer"
        /\ \A u \in Users : InitialUser(u).password <= 1 /\ InitialUser(u).active
        /\ \A u \in InitialAdmins \cup InitialUsers : InitialUser(u).exists
    <2> SUFFICES ASSUME NEW u \in Users
                 PROVE  /\ InitialUser(u) \in User
                        /\ ~InitialUser(u).exists => InitialUser(u).role = "customer"
                        /\ InitialUser(u).password <= 1 /\ InitialUser(u).active
                        /\ u \in InitialAdmins \cup InitialUsers => InitialUser(u).exists
      BY DEF AccountAssumption
    <2> DEFINE e == u \in InitialUsers \cup InitialAdmins
               l == IF u \in InitialAdmins THEN "admin" ELSE "customer"
               p == IF u \in (InitialUsers \cup InitialAdmins) \ Passwordless THEN 1 ELSE 0
    <2>1. /\ e \in BOOLEAN /\ l \in Roles /\ p \in 0 .. MaxPassword /\ p <= 1
          /\ ~e => l = "customer"
      BY ConstantTypes DEF Roles
    <2>2. InitialUser(u) = [exists |-> e, active |-> TRUE, role |-> l, password |-> p]
      BY DEF InitialUser
    <2>3. u \in InitialAdmins \cup InitialUsers => e
      OBVIOUS
    <2> HIDE DEF e, l, p
    <2> QED
      BY <2>1, <2>2, <2>3 DEF User
  <1>3. \A s \in Sids :
           /\ InitialSession(s) \in Session
           /\ InitialSession(s).status = "none" => InitialSession(s).user = None
           /\ InitialSession(s).status # "none" =>
                 /\ InitialSession(s).user \in Users
                 /\ InitialUser(InitialSession(s).user).exists
                 /\ InitialSession(s).password = InitialUser(InitialSession(s).user).password
    <2> SUFFICES ASSUME NEW s \in Sids
                 PROVE  /\ InitialSession(s) \in Session
                        /\ InitialSession(s).status = "none" => InitialSession(s).user = None
                        /\ InitialSession(s).status # "none" =>
                             /\ InitialSession(s).user \in Users
                             /\ InitialUser(InitialSession(s).user).exists
                             /\ InitialSession(s).password =
                                  InitialUser(InitialSession(s).user).password
      OBVIOUS
    <2>1. CASE Owner[s] = None
      BY <2>1, ConstantTypes DEF InitialSession, NoSession, Session
    <2>2. CASE Owner[s] # None
      <3>1. Owner[s] \in InitialAdmins \cup InitialUsers /\ Owner[s] \in Users
        BY <2>2 DEF AccountAssumption
      <3>2. InitialUser(Owner[s]).password \in 0 .. MaxPassword /\ InitialUser(Owner[s]).exists
        BY <1>2, <3>1 DEF User
      <3>3. InitialSession(s) = [user |-> Owner[s], password |-> InitialUser(Owner[s]).password,
                                 recent |-> TRUE, status |-> "open"]
        BY <2>2 DEF InitialSession
      <3> QED
        BY <3>1, <3>2, <3>3 DEF Session
    <2> QED
      BY <2>1, <2>2
  <1>4. /\ users \in [Users -> User] /\ sess \in [Sids -> Session] /\ hints \subseteq Sids
        /\ audit \in [user : Users \cup {None}, old : Access, new : Access]
    BY <1>1, <1>2, <1>3 DEF Customer, Access, Roles
  <1>5. \A q \in Requests : req[q] = Idle
    BY <1>1
  <1>6. /\ member \in Requests \cup {None} /\ req \in [Requests -> Request]
        /\ userLock \in [Users -> Requests \cup Callbacks \cup {None}]
    BY <1>1, IdleFacts
  <1>7. ShapeInv /\ RequestInv
    BY <1>5, IdleFacts DEF ShapeInv, RequestInv
  <1>8. LockInv
    BY <1>1, <1>5, IdleFacts, ConstantTypes DEF LockInv
  <1>9. RowInv /\ SessionsCurrent
    BY <1>1, <1>2, <1>3 DEF RowInv, SessionsCurrent
  <1>10. PasswordInv
    <2>1. \A u \in Users : Resets(u) = {}
      BY <1>5, IdleFacts DEF Resets
    <2>2. \A u \in Users : Cardinality(Resets(u)) = 0
      BY <2>1, FS_EmptySet
    <2> QED
      BY <1>1, <1>2, <2>2, ConstantTypes DEF PasswordInv, User
  <1> QED
    BY <1>4, <1>6, <1>7, <1>8, <1>9, <1>10 DEF AccountInv, TableTypes, ControlInv

\* Every action keeps the invariant.
LEMMA NextAccountInv ==
    ASSUME AccountAssumption, AccountInv, [Next]_vars
    PROVE  AccountInv'
  <1>1. ASSUME NEW q \in Requests, Arrive(q)
        PROVE  AccountInv'
    BY <1>1, ArriveStep
  <1>2. ASSUME NEW q \in Requests, Wait(q)
        PROVE  AccountInv'
    BY <1>2, LockMembershipStep, LockUserStep, LockTargetStep DEF Wait
  <1>3. ASSUME NEW q \in Requests, Proceed(q)
        PROVE  AccountInv'
    <2>1. CASE Resolve(q)
      BY <2>1, ResolveStep
    <2>2. CASE WriteHint(q)
      BY <2>2, WriteHintStep
    <2>3. CASE Previous(q) \/ RevokeOwn(q)
      BY <2>3, PreviousStep
    <2>4. CASE Commit(q)
      BY <2>4, CommitStep
    <2>5. CASE Invalidate(q)
      BY <2>5, InvalidateStep
    <2> QED
      BY <1>3, <2>1, <2>2, <2>3, <2>4, <2>5 DEF Proceed
  <1>4. ASSUME NEW q \in Requests, Fail(q)
        PROVE  AccountInv'
    BY <1>4, RollbackStep DEF Fail
  <1>5. ASSUME NEW u \in Users, Register(u)
        PROVE  AccountInv'
    BY <1>5, RegisterStep
  <1>6. ASSUME NEW s \in Sids, Age(s) \/ Forget(s)
        PROVE  AccountInv'
    BY <1>6, AgeStep
  <1>7. CASE UNCHANGED vars
    BY <1>7 DEF vars, AccountInv, TableTypes, ControlInv, ShapeInv, LockInv, RequestInv, RowInv,
           PasswordInv, Resets, SessionsCurrent, Named, Checked, Prepared, OpenSessions, AccessOf,
           Admin
  <1> QED
    BY <1>1, <1>2, <1>3, <1>4, <1>5, <1>6, <1>7 DEF Next

\* Alone, requests are the only ones to lock rows.
OwnLocks == userLock \in [Users -> Requests \cup {None}]

LEMMA NextOwnLocks ==
    ASSUME OwnLocks, [Next]_vars
    PROVE  OwnLocks'
  <1>1. ASSUME NEW q \in Requests, NEW pc, EndAt(q, pc)
        PROVE  OwnLocks'
    BY <1>1 DEF EndAt, OwnLocks
  <1>2. ASSUME NEW q \in Requests, NEW u, userLock' = [userLock EXCEPT ![u] = q]
        PROVE  OwnLocks'
    BY <1>2 DEF OwnLocks
  <1>3. CASE userLock' = userLock
    BY <1>3 DEF OwnLocks
  <1>4. ASSUME NEW q \in Requests, Arrive(q) \/ Wait(q) \/ Proceed(q) \/ Fail(q)
        PROVE  OwnLocks'
    BY <1>1, <1>2, <1>3, <1>4 DEF Arrive, Login, WithSession, Reauthenticate, ChangeAccess, Reset,
       Bootstrap, Start, Wait, LockMembership, LockUser, LockTarget, Rollback, Proceed, Resolve,
       WriteHint, Previous, RevokeOwn, Commit, Invalidate, Fail, locks
  <1> QED
    BY <1>3, <1>4 DEF Next, Register, Age, Forget, locks, vars

\* The invariant holds in every reachable state.
LEMMA InvariantHolds ==
    ASSUME AccountAssumption
    PROVE  Spec => [](AccountInv /\ OwnLocks)
  <1>1. Init => AccountInv /\ OwnLocks
    BY InitAccountInv DEF Init, OwnLocks
  <1>2. AccountInv /\ OwnLocks /\ [Next]_vars => (AccountInv /\ OwnLocks)'
    BY NextAccountInv, NextOwnLocks
  <1> QED
    BY <1>1, <1>2, PTL DEF Spec

-----------------------------------------------------------------------------
(* Theorems                                                                *)

\* Type correctness: columns and locals hold values of their domains, and a request that
\* has not reached its transaction has no lock.
THEOREM TypeCorrect ==
    ASSUME AccountAssumption
    PROVE  Spec => []TypeOK
  <1>1. ASSUME AccountInv, OwnLocks
        PROVE  TypeOK
    <2>1. ASSUME NEW q \in Requests, req[q].pc \in {"idle", "resolve", "hint"}
          PROVE  member # q /\ \A u \in Users : userLock[u] # q
      <3>1. ~HasMember(req[q]) /\ \A u \in Users : ~HasRow(req[q], u)
        BY <2>1 DEF HasMember, HasRow
      <3> QED
        BY <1>1, <3>1, RequestFacts
    <2> QED
      BY <1>1, <2>1 DEF AccountInv, OwnLocks, TypeOK, TableTypes, ControlInv
  <1> QED
    BY <1>1, InvariantHolds, PTL

\* Open sessions were opened with the password their account has now, and the account is
\* active: logins, resets and changes of access may interleave as they like.
THEOREM OnlyCurrentSessions ==
    ASSUME AccountAssumption
    PROVE  Spec => []SessionsCurrent
  <1>1. AccountInv => SessionsCurrent
    BY DEF AccountInv
  <1> QED
    BY <1>1, InvariantHolds, PTL

\* An ended session is of no use: not to a request that arrives with it, whatever Redis
\* holds, and not to one that is about to commit when the session is revoked.
THEOREM EndedSessionsUseless ==
    ASSUME AccountAssumption
    PROVE  Spec => []EndedIsUseless
  <1>1. ASSUME AccountInv
        PROVE  EndedIsUseless
    BY <1>1, RequestFacts DEF EndedIsUseless, Shape, Checked, Permitted
  <1> QED
    BY <1>1, InvariantHolds, PTL

\* Accounts that do not change need no explanation, and are no new administrators.
LEMMA AccessSame ==
    ASSUME RowInv, \A u \in Users : /\ users[u].exists => users'[u].exists
                                    /\ users'[u].role = users[u].role
                                    /\ users'[u].active = users[u].active
    PROVE  AccessStep
  BY DEF RowInv, AccessStep, SomeAdmin, Admin, ChangeExplained, AccessOf

\* A commit changes access as change_access and the bootstrap command have decided under
\* the membership lock.
LEMMA CommitAccess ==
    ASSUME AccountAssumption, AccountInv, NEW q \in Requests, Commit(q)
    PROVE  AccessStep
  <1> DEFINE o == req[q]
  <1>1. /\ o.pc = "commit" /\ Decide(q) /\ users \in [Users -> User] /\ RowInv
        /\ o \in Request /\ Shape(o) /\ Named(o) /\ Prepared(o)
    BY Parts, RequestFacts DEF Commit, TableTypes
  <1>2. CASE o.op = "change_access"
    <2> DEFINE t == o.target
    <2>1. /\ users' = [users EXCEPT ![t].role = o.access.role, ![t].active = o.access.active]
          /\ audit' = [user |-> t, old |-> o.old, new |-> o.access]
      BY <1>1, <1>2 DEF Decide, AuditRecord
    <2>2. /\ t \in Users /\ o.access \in Access /\ users[t].exists /\ o.old = AccessOf(t)
          /\ Admin(t) /\ o.access # Administrator => \E u \in Users \ {t} : Admin(u)
      BY <1>1, <1>2 DEF Shape, Request, Prepared, Named
    <2> HIDE DEF t, o
    <2>3. /\ \A u \in Users \ {t} : users'[u] = users[u]
          /\ users'[t].exists = users[t].exists
          /\ users'[t].role = o.access.role /\ users'[t].active = o.access.active
      BY <1>1, <2>1, <2>2 DEF User
    <2>4. \A u \in Users \ {t} : Admin(u)' = Admin(u)
      BY <2>3 DEF Admin
    <2>5. SomeAdmin => SomeAdmin'
      <3>1. CASE o.access = Administrator
        <4>1. users'[t].exists /\ users'[t].active /\ users'[t].role = "admin"
          BY <2>2, <2>3, <3>1 DEF Administrator
        <4> QED
          BY <2>2, <4>1 DEF SomeAdmin, Admin
      <3>2. CASE o.access # Administrator
        BY <2>2, <2>4, <3>2 DEF SomeAdmin
      <3> QED
        BY <3>1, <3>2
    <2>6. \A u \in Users : users[u].exists \/ users'[u].role # "admin"
      BY <1>1, <2>2, <2>3 DEF RowInv
    <2>7. o.access = [role |-> users'[t].role, active |-> users'[t].active]
      BY <2>2, <2>3 DEF Access
    <2>8. ChangeExplained
      <3> SUFFICES ASSUME NEW u \in Users, AccessOf(u)' # AccessOf(u)
                   PROVE  audit' = [user |-> u, old |-> AccessOf(u), new |-> AccessOf(u)']
        BY DEF ChangeExplained
      <3>1. u = t
        BY <2>3 DEF AccessOf
      <3>2. AccessOf(u)' = o.access
        BY <2>7, <3>1 DEF AccessOf
      <3> QED
        BY <2>1, <2>2, <3>1, <3>2
    <2> QED
      BY <2>5, <2>6, <2>8 DEF AccessStep
  <1>3. CASE o.op = "bootstrap"
    <2>1. /\ ~SomeAdmin /\ ~users[o.target].exists /\ o.target \in Users
          /\ \A u \in Users \ {o.target} : users'[u] = users[u]
      BY <1>1, <1>3 DEF Decide, Prepared, SomeAdmin, Shape
    <2>2. ChangeExplained
      BY <2>1 DEF ChangeExplained, AccessOf
    <2> QED
      BY <2>1, <2>2 DEF AccessStep
  <1>4. CASE o.op = "reset"
    <2>1. users' = [users EXCEPT ![o.user].password = @ + 1]
      BY <1>1, <1>4 DEF Decide
    <2>2. \A u \in Users : /\ users'[u].exists = users[u].exists
                           /\ users'[u].role = users[u].role
                           /\ users'[u].active = users[u].active
      BY <1>1, <2>1 DEF User
    <2> QED
      BY <1>1, <2>2, AccessSame
  <1>5. CASE o.op \notin {"change_access", "bootstrap", "reset"}
    <2>1. users' = users
      BY <1>1, <1>5 DEF Decide
    <2> QED
      BY <1>1, <2>1, AccessSame
  <1> QED
    BY <1>2, <1>3, <1>4, <1>5

\* Every step guards access.
LEMMA EveryAccessStep ==
    ASSUME AccountAssumption, AccountInv, [Next]_vars
    PROVE  AccessStep
  <1>1. RowInv /\ users \in [Users -> User]
    BY Parts DEF TableTypes
  <1>2. ASSUME NEW q \in Requests, Commit(q)
        PROVE  AccessStep
    BY <1>2, CommitAccess
  <1>3. ASSUME NEW u \in Users, Register(u)
        PROVE  AccessStep
    BY <1>1, <1>3, AccessSame DEF Register, User
  <1>4. CASE users' = users
    BY <1>1, <1>4, AccessSame
  <1> QED
    BY <1>2, <1>3, <1>4 DEF Next, Arrive, Login, WithSession, Reauthenticate, ChangeAccess, Reset,
       Bootstrap, Start, Wait, LockMembership, LockUser, LockTarget, Rollback, Proceed, Resolve,
       WriteHint, Previous, RevokeOwn, Invalidate, Fail, Age, Forget, vars, tables

\* An active administrator remains, bootstrap creates only the first one, and a change of
\* access appears with the audit record that tells what it replaced.
THEOREM AccessIsGuarded ==
    ASSUME AccountAssumption
    PROVE  Spec => AccessGuarded
  <1>1. AccountInv /\ [Next]_vars => AccessStep
    BY EveryAccessStep
  <1> QED
    BY <1>1, InvariantHolds, PTL DEF Spec, AccessGuarded

\* Waits are ordered: membership before the row of the account before that of the target,
\* and only the one that has the membership lock waits for a target.
LEMMA AwaitedFacts ==
    ASSUME AccountAssumption, AccountInv, NEW q \in Requests, NEW p \in Awaited(q)
    PROVE  /\ req[q].pc \in {"member", "user", "target"} /\ p \in Requests \cup Callbacks
           /\ req[q].pc = "member" => p \in Requests
           /\ p \notin Requests => \E u \in Users : userLock[u] = p
           /\ p \in Requests =>
                 /\ req[q].pc = "member" => req[p].pc \in {"user", "target", "commit"}
                 /\ req[q].pc = "user" => req[p].pc \in {"target", "previous", "commit"}
                 /\ req[q].pc = "target" => req[p].pc \in {"previous", "commit"}
  <1>1. req[q].pc \in {"member", "user", "target"} /\ p # None /\ p # q
    BY DEF Awaited
  <1>2. Shape(req[q]) /\ (HasMember(req[q]) => member = q)
    BY RequestFacts
  <1>3. /\ req[q].pc = "member" => p = member
        /\ req[q].pc = "user" => p = userLock[req[q].user] /\ req[q].user \in Users
        /\ req[q].pc = "target" => /\ p = userLock[req[q].target] /\ req[q].target \in Users
                                   /\ member = q
    BY <1>1, <1>2 DEF Awaited, Shape, HasMember
  <1>4. /\ p \in Requests \cup Callbacks /\ (req[q].pc = "member" => p \in Requests)
        /\ p \notin Requests => \E u \in Users : userLock[u] = p
    BY <1>1, <1>3, Parts DEF ControlInv
  <1>5. ASSUME p \in Requests
        PROVE  /\ req[q].pc = "member" => req[p].pc \in {"user", "target", "commit"}
               /\ req[q].pc = "user" => req[p].pc \in {"target", "previous", "commit"}
               /\ req[q].pc = "target" => req[p].pc \in {"previous", "commit"}
    <2>1. /\ Shape(req[p])
          /\ member = p <=> HasMember(req[p])
          /\ \A u \in Users : userLock[u] = p <=> HasRow(req[p], u)
      BY <1>5, RequestFacts
    <2> QED
      BY <1>1, <1>3, <2>1 DEF Shape, HasMember, HasRow
  <1> QED
    BY <1>1, <1>4, <1>5

\* So they end.
LEMMA WaitsOrdered ==
    ASSUME AccountAssumption, AccountInv
    PROVE  WaitsEnd
  <1> SUFFICES ASSUME NEW S \in (SUBSET Requests) \ {{}}
               PROVE  \E q \in S : \A p \in Awaited(q) :
                          p \notin S /\ (p \in Requests => req[p].pc # "idle")
    BY DEF WaitsEnd
  <1>0. S # {} /\ \A q \in S : q \in Requests
    OBVIOUS
  <1>1. ASSUME NEW q \in S, NEW p \in Awaited(q)
        PROVE  /\ req[q].pc \in {"member", "user", "target"}
               /\ p \in Requests =>
                     /\ req[q].pc = "member" => req[p].pc \in {"user", "target", "commit"}
                     /\ req[q].pc = "user" => req[p].pc \in {"target", "previous", "commit"}
                     /\ req[q].pc = "target" => req[p].pc \in {"previous", "commit"}
    BY <1>0, <1>1, AwaitedFacts
  <1>2. CASE \E q \in S : req[q].pc \notin {"member", "user", "target"}
    BY <1>0, <1>1, <1>2
  <1>3. CASE /\ \A q \in S : req[q].pc \in {"member", "user", "target"}
             /\ \E q \in S : req[q].pc = "target"
    BY <1>0, <1>1, <1>3
  <1>4. CASE /\ \A q \in S : req[q].pc \in {"member", "user"}
             /\ \E q \in S : req[q].pc = "user"
    BY <1>0, <1>1, <1>4
  <1>5. CASE \A q \in S : req[q].pc = "member"
    BY <1>0, <1>1, <1>5
  <1> QED
    BY <1>2, <1>3, <1>4, <1>5

\* No set of requests wait for each other, however many there are.
THEOREM NoDeadlock ==
    ASSUME AccountAssumption
    PROVE  Spec => []WaitsEnd
  <1>1. AccountInv => WaitsEnd
    BY WaitsOrdered
  <1> QED
    BY <1>1, InvariantHolds, PTL
-----------------------------------------------------------------------------
(* ExternalIdentities: the inductive invariant                             *)

\* What a callback or an unlink at this stage carries.
Form(r) ==
    /\ r.pc \in {"read", "owner", "email", "commit"} \/ (r.pc = "ext" /\ r.op # "login") =>
          r.user \in Users
    /\ r.pc \in {"ext", "owner", "email", "commit"} => r.subject \in Subjects
    /\ r.pc # "idle" /\ r.op # "unlink" => r.attempt \in Attempts
    /\ r.op = "unlink" => r.attempt = None
    /\ r.pc # "idle" /\ r.op # "login" => r.sid \in Sids
    /\ r.pc = "read" => r.op = "unlink"
    /\ r.pc = "email" => r.op = "login" /\ r.found = None
    /\ r.pc = "ext" /\ r.op = "login" => r.found = None
    /\ r.op = "login" /\ r.pc = "owner" => r.found = r.user
    /\ r.op = "login" /\ r.pc = "commit" => r.found \in {None, r.user}

\* A callback that is about an account, not about an address without one.
OfAccount(r) == r.op # "login" \/ (r.found # None /\ r.pc \in {"owner", "commit"})

\* The locks that decide: that of the subject for a callback, and that of the account for
\* all that have one.  An unlink has locked a subject that need not be the one it removes.
Holds(c, r) ==
    /\ r.pc \in {"owner", "email", "commit"} /\ r.op # "unlink" => extLock[r.subject] = c
    /\ r.pc = "commit" /\ OfAccount(r) => userLock[r.user] = c

\* The only stages with a lock, of a subject, of an address or of the row of an account.
LocksAt(c, r) ==
    /\ \A x \in Subjects : extLock[x] = c => r.pc \in {"owner", "email", "commit"}
    /\ \A u \in Users : emailLock[u] = c \/ userLock[u] = c => r.pc = "commit"

\* The account exists, and whoever logs in to it finds it active under its lock.
Known(r) ==
    r.pc # "idle" /\ OfAccount(r) =>
        /\ users[r.user].exists
        /\ r.op = "login" /\ r.pc = "commit" => users[r.user].active

\* A login that found no account still finds none.
Unlinked(r) ==
    r.op = "login" /\ r.found = None /\ r.pc \in {"email", "commit"} => identity[r.subject] = None

\* What an unlink removes is a way to log in of the account it has locked, and not the last.
Removable(r) ==
    r.op = "unlink" /\ r.pc = "commit" =>
        /\ identity[r.subject] = r.user
        /\ users[r.user].password > 0 \/ \E y \in Subjects \ {r.subject} : identity[y] = r.user

\* The attempt of a callback is gone from Redis, is used by nobody yet, and belongs to the
\* session of the callback.
Spent(r) ==
    r.pc # "idle" /\ r.op # "unlink" =>
        /\ attempts[r.attempt].status = "gone" /\ used[r.attempt] = 0
        /\ r.pc \in {"owner", "commit"} /\ r.op \in {"link", "reauthenticate"} =>
              r.sid = attempts[r.attempt].sid

Proven(r) == r.pc = "commit" /\ r.op \in {"link", "unlink"} => r.sid \in proved

CallbackOK(c, r) ==
    /\ Form(r) /\ Holds(c, r) /\ LocksAt(c, r) /\ Known(r) /\ Unlinked(r) /\ Removable(r)
    /\ Spent(r) /\ Proven(r)

CallbackInv == \A c \in Callbacks : CallbackOK(c, ext[c])

\* Nobody else has the attempt of a callback.
Alone(c, a) == \A d \in Callbacks \ {c} : ext[d].pc # "idle" => ext[d].attempt # a

AttemptInv ==
    /\ \A a \in Attempts : used[a] <= 1
    /\ \A c \in Callbacks : ext[c].pc # "idle" /\ ext[c].op # "unlink" => Alone(c, ext[c].attempt)

RecentProved == \A s \in Sids : sess[s].recent => s \in proved

\* The foreign key of external_identities.
LinkedExist == \A x \in Subjects : identity[x] # None => users[identity[x]].exists

ExtInv ==
    /\ ExtTypeOK /\ AccountInv /\ CallbackInv /\ AttemptInv /\ RecentProved
    /\ LoginMethodRemains /\ LinkedExist

-----------------------------------------------------------------------------
(* Requests beside callbacks                                               *)

\* The constants, one fact each.
LEMMA ExtConstantTypes ==
    ASSUME AccountAssumption, IdentityAssumption
    PROVE  /\ None \notin Users /\ None \notin Sids /\ None \notin Requests /\ None \notin Callbacks
           /\ None \notin Subjects /\ None \notin Attempts /\ Callbacks \cap Requests = {}
           /\ EmailOf \in [Subjects -> Users \cup {None}]
           /\ Linked \in [Subjects -> Users \cup {None}]
           /\ \A x \in Subjects : Linked[x] # None => Linked[x] \in InitialAdmins \cup InitialUsers
           /\ \A x \in Subjects : ProviderOf[x] \in Providers
  BY DEF AccountAssumption, IdentityAssumption, Providers

\* What a step of Accounts leaves to the callbacks: their locks stay, and so do the rows
\* they have locked; no account goes, none loses its password, and a new one has a password.
CallbackLocksKept == \A u \in Users, c \in Callbacks : userLock'[u] = c <=> userLock[u] = c

AccountsKept ==
    \A u \in Users :
        /\ users[u].exists => users'[u].exists
        /\ users[u].password > 0 => users'[u].password > 0
        /\ users'[u].exists => users[u].exists \/ users'[u].password > 0
        /\ users[u].exists /\ userLock[u] \in Callbacks => users'[u] = users[u]

\* Requests take locks that are free, and give back their own.
LEMMA RequestLocks ==
    ASSUME AccountAssumption, IdentityAssumption, AccountInv, Next
    PROVE  CallbackLocksKept
  <1>0. /\ userLock \in [Users -> Requests \cup Callbacks \cup {None}]
        /\ None \notin Callbacks /\ Callbacks \cap Requests = {}
    BY ExtConstantTypes, Parts DEF ControlInv
  <1>1. ASSUME NEW q \in Requests, NEW pc, EndAt(q, pc)
        PROVE  CallbackLocksKept
    BY <1>0, <1>1 DEF EndAt, CallbackLocksKept
  <1>2. ASSUME NEW q \in Requests, NEW n, userLock[n] \in {None, q},
               userLock' = [userLock EXCEPT ![n] = q]
        PROVE  CallbackLocksKept
    BY <1>0, <1>2 DEF CallbackLocksKept
  <1>3. CASE userLock' = userLock
    BY <1>3 DEF CallbackLocksKept
  <1>4. ASSUME NEW q \in Requests, Wait(q)
        PROVE  CallbackLocksKept
    <2>1. CASE LockMembership(q)
      BY <1>1, <1>3, <2>1 DEF LockMembership, Rollback
    <2>2. CASE LockUser(q)
      BY <1>1, <1>2, <2>2 DEF LockUser, Rollback
    <2>3. CASE LockTarget(q)
      BY <1>1, <1>2, <2>3 DEF LockTarget, Rollback
    <2> QED
      BY <1>4, <2>1, <2>2, <2>3 DEF Wait
  <1>5. ASSUME NEW q \in Requests, Arrive(q) \/ Proceed(q) \/ Fail(q)
        PROVE  CallbackLocksKept
    BY <1>1, <1>3, <1>5 DEF Arrive, Login, WithSession, Reauthenticate, ChangeAccess, Reset,
       Bootstrap, Start, Rollback, Proceed, Resolve, WriteHint, Previous, RevokeOwn, Commit,
       Invalidate, Fail, locks
  <1> QED
    BY <1>3, <1>4, <1>5 DEF Next, Register, Age, Forget, locks

\* Only commits and registrations write accounts, and only those that no callback has locked.
LEMMA RequestAccounts ==
    ASSUME AccountAssumption, IdentityAssumption, AccountInv, Next
    PROVE  AccountsKept
  <1>0. users \in [Users -> User] /\ Callbacks \cap Requests = {}
    BY ExtConstantTypes, Parts DEF TableTypes
  <1>1. ASSUME NEW q \in Requests, Commit(q)
        PROVE  AccountsKept
    BY <1>0, <1>1, AccountsWritten DEF AccountsKept
  <1>2. ASSUME NEW n \in Users, Register(n)
        PROVE  AccountsKept
    <2>1. ~users[n].exists /\ users' = [users EXCEPT ![n].exists = TRUE, ![n].password = 1]
      BY <1>2 DEF Register
    <2>2. /\ \A u \in Users \ {n} : users'[u] = users[u]
          /\ users'[n].exists /\ users'[n].password = 1
      BY <1>0, <2>1 DEF User
    <2>3. users'[n].password > 0
      BY <2>2
    <2> QED
      BY <2>1, <2>2, <2>3, Zenon DEF AccountsKept
  <1>3. CASE users' = users
    BY <1>3 DEF AccountsKept
  <1> QED
    BY <1>1, <1>2, <1>3 DEF Next, Arrive, Login, WithSession, Reauthenticate, ChangeAccess, Reset,
       Bootstrap, Start, Wait, LockMembership, LockUser, LockTarget, Rollback, Proceed, Resolve,
       WriteHint, Previous, RevokeOwn, Invalidate, Fail, Age, Forget, tables

\* Steps that leave the tables and the requests alone, with the locks of requests.
LEMMA AccountsUntouched ==
    ASSUME AccountInv, UNCHANGED <<users, sess, hints, member, req, audit>>,
           userLock' \in [Users -> Requests \cup Callbacks \cup {None}],
           \A q \in Requests, u \in Users : userLock'[u] = q <=> userLock[u] = q
    PROVE  AccountInv'
  <1>1. ControlInv'
    BY DEF AccountInv, ControlInv, ShapeInv, LockInv
  <1>2. TableTypes' /\ RowInv' /\ PasswordInv' /\ SessionsCurrent'
    BY DEF AccountInv, TableTypes, RowInv, PasswordInv, Resets, SessionsCurrent
  <1>3. RequestInv'
    BY DEF AccountInv, RequestInv, Named, Checked, Prepared, OpenSessions, AccessOf, Admin
  <1> QED
    BY <1>1, <1>2, <1>3, PartsSuffice

\* What the invariant says of one callback.
LEMMA CallbackFacts ==
    ASSUME ExtInv, NEW c \in Callbacks
    PROVE  /\ ext[c] \in Local /\ Form(ext[c]) /\ Holds(c, ext[c]) /\ LocksAt(c, ext[c])
           /\ Known(ext[c]) /\ Unlinked(ext[c]) /\ Removable(ext[c]) /\ Spent(ext[c])
           /\ Proven(ext[c])
  BY DEF ExtInv, ExtTypeOK, CallbackInv, CallbackOK

\* Requests of Accounts do not disturb callbacks.
LEMMA AccountsKeep ==
    ASSUME AccountAssumption, IdentityAssumption, ExtInv, AccountStep
    PROVE  ExtInv'
  <1>0. AccountInv /\ Next
    BY DEF ExtInv, AccountStep, Next
  <1>1. AccountInv' /\ CallbackLocksKept /\ AccountsKept
    BY <1>0, NextAccountInv, RequestLocks, RequestAccounts
  <1>2. /\ UNCHANGED <<identity, extLock, emailLock, attempts, ext, used>>
        /\ proved' = proved \cup ShownPassword
    BY DEF AccountStep, extLocks
  <1>3. ExtTypeOK'
    BY <1>2 DEF ExtInv, ExtTypeOK, ShownPassword
  <1>4. AttemptInv'
    BY <1>2 DEF ExtInv, AttemptInv, Alone
  <1>5. RecentProved'
    BY <1>2 DEF ExtInv, RecentProved, ShownPassword
  <1>6. LoginMethodRemains' /\ LinkedExist'
    BY <1>1, <1>2 DEF ExtInv, ExtTypeOK, LoginMethodRemains, LinkedExist, AccountsKept, Methods
  <1>7. CallbackInv'
    <2> SUFFICES ASSUME NEW c \in Callbacks
                 PROVE  CallbackOK(c, ext[c])'
      BY DEF CallbackInv
    <2>1. /\ ext[c] \in Local
          /\ Form(ext[c]) /\ Holds(c, ext[c]) /\ LocksAt(c, ext[c]) /\ Known(ext[c])
          /\ Unlinked(ext[c]) /\ Removable(ext[c]) /\ Spent(ext[c]) /\ Proven(ext[c])
      BY CallbackFacts
    <2>2. Form(ext[c])' /\ Unlinked(ext[c])' /\ Spent(ext[c])' /\ Proven(ext[c])'
      BY <1>2, <2>1 DEF Form, Unlinked, Spent, Proven
    <2>3. ext[c].pc # "idle" /\ OfAccount(ext[c]) => ext[c].user \in Users
      BY <2>1 DEF Form, OfAccount, Local
    <2>4. Holds(c, ext[c])' /\ LocksAt(c, ext[c])'
      BY <1>1, <1>2, <2>1, <2>3 DEF Holds, LocksAt, OfAccount, CallbackLocksKept
    <2>5. Known(ext[c])'
      BY <1>1, <1>2, <2>1, <2>3 DEF Holds, Known, OfAccount, AccountsKept
    <2>6. Removable(ext[c])'
      BY <1>1, <1>2, <2>1 DEF Form, Removable, AccountsKept
    <2> QED
      BY <2>2, <2>4, <2>5, <2>6 DEF CallbackOK
  <1> QED
    BY <1>1, <1>3, <1>4, <1>5, <1>6, <1>7 DEF ExtInv

-----------------------------------------------------------------------------
(* Steps of callbacks                                                      *)

\* A step of c takes and gives back its own locks only.
OwnLocksOnly(c) ==
    /\ extLock' \in [Subjects -> Callbacks \cup {None}]
    /\ emailLock' \in [Users -> Callbacks \cup {None}]
    /\ userLock' \in [Users -> Requests \cup Callbacks \cup {None}]
    /\ \A d \in Callbacks \ {c} :
          /\ \A x \in Subjects : extLock'[x] = d <=> extLock[x] = d
          /\ \A u \in Users : /\ emailLock'[u] = d <=> emailLock[u] = d
                              /\ userLock'[u] = d <=> userLock[u] = d
    /\ \A q \in Requests, u \in Users : userLock'[u] = q <=> userLock[u] = q

\* The locks of c after a step are those of stage r.
LocksFit(c, r) ==
    /\ r.pc \in {"owner", "email", "commit"} /\ r.op # "unlink" => extLock'[r.subject] = c
    /\ r.pc = "commit" /\ OfAccount(r) => userLock'[r.user] = c
    /\ \A x \in Subjects : extLock'[x] = c => r.pc \in {"owner", "email", "commit"}
    /\ \A u \in Users : emailLock'[u] = c \/ userLock'[u] = c => r.pc = "commit"

\* The types of the locks.
LEMMA LockTypes ==
    ASSUME ExtInv
    PROVE  /\ extLock \in [Subjects -> Callbacks \cup {None}]
           /\ emailLock \in [Users -> Callbacks \cup {None}]
           /\ userLock \in [Users -> Requests \cup Callbacks \cup {None}]
  BY DEF ExtInv, ExtTypeOK, AccountInv, ControlInv

\* A step of c leaves the other callbacks their locks.
LEMMA LocksKept ==
    ASSUME ExtInv, NEW c \in Callbacks, OwnLocksOnly(c), NEW d \in Callbacks \ {c}, ext'[d] = ext[d]
    PROVE  Holds(d, ext[d])' /\ LocksAt(d, ext[d])'
  <1>1. ext[d] \in Local /\ Form(ext[d]) /\ Holds(d, ext[d]) /\ LocksAt(d, ext[d])
    BY CallbackFacts
  <1> QED
    BY <1>1 DEF OwnLocksOnly, Form, Holds, LocksAt, OfAccount

\* Callback c becomes r, with locks of its own, and writes no table.
LEMMA MoveStep ==
    ASSUME AccountAssumption, IdentityAssumption, ExtInv, NEW c \in Callbacks, NEW r \in Local,
           ext' = [ext EXCEPT ![c] = r],
           UNCHANGED <<users, sess, hints, member, req, audit, identity, attempts, proved, used>>,
           OwnLocksOnly(c), LocksFit(c, r),
           Form(r), Known(r), Unlinked(r), Removable(r), Spent(r), Proven(r),
           r.pc # "idle" /\ r.op # "unlink" =>
               r.attempt = ext[c].attempt /\ ext[c].pc # "idle" /\ ext[c].op # "unlink"
    PROVE  ExtInv'
  <1>1. /\ ext \in [Callbacks -> Local] /\ ext'[c] = r
        /\ \A d \in Callbacks : d # c => ext'[d] = ext[d]
    BY DEF ExtInv, ExtTypeOK
  <1>2. ExtTypeOK'
    BY <1>1 DEF ExtInv, ExtTypeOK, OwnLocksOnly
  <1>3. AccountInv'
    BY AccountsUntouched DEF ExtInv, OwnLocksOnly
  <1>4. RecentProved' /\ LoginMethodRemains' /\ LinkedExist'
    BY DEF ExtInv, RecentProved, LoginMethodRemains, LinkedExist, Methods
  <1>5. AttemptInv'
    <2> SUFFICES ASSUME NEW d \in Callbacks, ext'[d].pc # "idle", ext'[d].op # "unlink",
                        NEW e \in Callbacks \ {d}, ext'[e].pc # "idle"
                 PROVE  ext'[e].attempt # ext'[d].attempt
      BY DEF ExtInv, AttemptInv, Alone
    <2>1. /\ \A b \in Callbacks : Form(ext[b])
          /\ \A b \in Callbacks :
               ext[b].pc # "idle" /\ ext[b].op # "unlink" => Alone(b, ext[b].attempt)
      BY CallbackFacts DEF ExtInv, AttemptInv
    <2>2. CASE ext'[e].op = "unlink"
      BY <1>1, <2>1, <2>2, ExtConstantTypes DEF Form
    <2>3. CASE ext'[e].op # "unlink"
      <3>1. /\ ext'[d].attempt = ext[d].attempt /\ ext[d].pc # "idle" /\ ext[d].op # "unlink"
            /\ ext'[e].attempt = ext[e].attempt /\ ext[e].pc # "idle"
        BY <1>1, <2>3
      <3> QED
        BY <2>1, <3>1 DEF Alone
    <2> QED
      BY <2>2, <2>3
  <1>6. CallbackInv'
    <2> SUFFICES ASSUME NEW d \in Callbacks
                 PROVE  CallbackOK(d, ext[d])'
      BY DEF CallbackInv
    <2>1. /\ Form(ext'[d]) /\ Known(ext'[d]) /\ Unlinked(ext'[d]) /\ Removable(ext'[d])
          /\ Spent(ext'[d]) /\ Proven(ext'[d])
      BY <1>1, CallbackFacts
    <2>2. CASE d # c
      <3>1. Holds(d, ext[d])' /\ LocksAt(d, ext[d])'
        BY <1>1, <2>2, LocksKept
      <3> QED
        BY <2>1, <3>1
           DEF CallbackOK, Form, Known, OfAccount, Unlinked, Removable, Spent, Proven
    <2>3. CASE d = c
      <3>1. Holds(d, ext[d])' /\ LocksAt(d, ext[d])'
        BY <1>1, <2>3 DEF LocksFit, Holds, LocksAt, OfAccount
      <3> QED
        BY <2>1, <3>1
           DEF CallbackOK, Form, Known, OfAccount, Unlinked, Removable, Spent, Proven
    <2> QED
      BY <2>2, <2>3
  <1> QED
    BY <1>2, <1>3, <1>4, <1>5, <1>6 DEF ExtInv

\* A callback that is over.
LEMMA IdleExtFacts ==
    /\ IdleExt \in Local /\ IdleExt.pc = "idle" /\ IdleExt.op = "login" /\ Form(IdleExt)
    /\ Known(IdleExt) /\ Unlinked(IdleExt) /\ Removable(IdleExt) /\ Spent(IdleExt)
    /\ Proven(IdleExt)
  <1>1. IdleExt \in Local /\ IdleExt.pc = "idle" /\ IdleExt.op = "login"
    BY DEF IdleExt, Local
  <1> QED
    BY <1>1 DEF Form, Known, Unlinked, Removable, Spent, Proven

\* The end of the transaction of c gives back its locks only.
LEMMA EndExtFacts ==
    ASSUME AccountAssumption, IdentityAssumption, ExtInv, NEW c \in Callbacks, EndExt(c)
    PROVE  /\ OwnLocksOnly(c) /\ LocksFit(c, IdleExt)
           /\ ext' = [ext EXCEPT ![c] = IdleExt] /\ UNCHANGED <<hints, member, req, audit>>
  <1>1. /\ extLock' = [x \in Subjects |-> IF extLock[x] = c THEN None ELSE extLock[x]]
        /\ emailLock' = [u \in Users |-> IF emailLock[u] = c THEN None ELSE emailLock[u]]
        /\ userLock' = [u \in Users |-> IF userLock[u] = c THEN None ELSE userLock[u]]
        /\ ext' = [ext EXCEPT ![c] = IdleExt] /\ UNCHANGED <<hints, member, req, audit>>
    BY DEF EndExt
  <1>2. /\ None \notin Callbacks /\ None \notin Requests /\ Callbacks \cap Requests = {}
        /\ IdleExt.pc = "idle"
    BY ExtConstantTypes, IdleExtFacts
  <1>3. OwnLocksOnly(c)
    BY <1>1, <1>2, LockTypes DEF OwnLocksOnly
  <1>4. LocksFit(c, IdleExt)
    BY <1>1, <1>2 DEF LocksFit
  <1> QED
    BY <1>1, <1>3, <1>4

\* A handshake that fails.
LEMMA DenyStep ==
    ASSUME AccountAssumption, IdentityAssumption, ExtInv, NEW c \in Callbacks, Deny(c)
    PROVE  ExtInv'
  <1>1. EndExt(c) /\ UNCHANGED <<users, sess, identity, attempts, proved, used>>
    BY DEF Deny, extTables
  <1> QED
    BY <1>1, EndExtFacts, IdleExtFacts, MoveStep

\* unlink up to the lock of the subject it has read.
LEMMA UnlinkStep ==
    ASSUME AccountAssumption, IdentityAssumption, ExtInv, NEW c \in Callbacks,
           Unlink(c) \/ ReadLink(c), ~Deny(c)
    PROVE  ExtInv'
  <1>1. PICK r : /\ r \in Local /\ r.pc \in {"read", "ext"} /\ r.op = "unlink" /\ Form(r)
                 /\ users[r.user].exists /\ ext[c].pc \in {"idle", "read"}
                 /\ Step(c, r) /\ UNCHANGED <<userLock, extLock, emailLock>>
    <2>1. CASE Unlink(c)
      <3>1. PICK s \in Presented, p \in Providers :
               Step(c, [IdleExt EXCEPT !.pc = "read", !.op = "unlink", !.sid = s,
                                       !.user = sess[s].user, !.provider = p])
        BY <2>1 DEF Unlink
      <3> DEFINE r == [IdleExt EXCEPT !.pc = "read", !.op = "unlink", !.sid = s,
                                      !.user = sess[s].user, !.provider = p]
      <3>2. s \in Sids /\ sess[s].user \in Users /\ users[sess[s].user].exists
        BY DEF ExtInv, AccountInv, RowInv, Presented
      <3>3. /\ r \in Local /\ r.pc = "read" /\ r.op = "unlink" /\ r.user = sess[s].user
            /\ r.sid = s /\ r.attempt = None
        BY <3>2 DEF IdleExt, Local
      <3>4. UNCHANGED <<userLock, extLock, emailLock>> /\ ext[c].pc = "idle"
        BY <2>1 DEF Unlink, extLocks
      <3> HIDE DEF r
      <3>5. Form(r)
        BY <3>2, <3>3 DEF Form
      <3> QED
        BY <3>1, <3>2, <3>3, <3>4, <3>5 DEF r
    <2>2. CASE ReadLink(c)
      <3>1. PICK x \in LinkedTo(ext[c].user, ext[c].provider) :
               /\ Step(c, [ext[c] EXCEPT !.pc = "ext", !.subject = x])
               /\ UNCHANGED <<userLock, extLock, emailLock>>
        BY <2>2 DEF ReadLink, extLocks
      <3> DEFINE r == [ext[c] EXCEPT !.pc = "ext", !.subject = x]
      <3>2. /\ x \in Subjects /\ ext[c].pc = "read" /\ ext[c] \in Local /\ Form(ext[c])
            /\ Known(ext[c])
        BY <2>2, CallbackFacts DEF LinkedTo, ReadLink
      <3>3. /\ r \in Local /\ r.pc = "ext" /\ r.op = ext[c].op /\ r.user = ext[c].user
            /\ r.sid = ext[c].sid /\ r.attempt = ext[c].attempt /\ r.subject = x
        BY <3>2 DEF Local
      <3> HIDE DEF r
      <3>4. Form(r) /\ r.op = "unlink"
        BY <3>2, <3>3 DEF Form
      <3>5. users[r.user].exists
        BY <3>2, <3>3, <3>4 DEF Known, OfAccount
      <3> QED
        BY <3>1, <3>2, <3>3, <3>4, <3>5 DEF r
    <2> QED
      BY <2>1, <2>2
  <1>2. Known(r) /\ Unlinked(r) /\ Removable(r) /\ Spent(r) /\ Proven(r)
    BY <1>1 DEF Known, Unlinked, Removable, Spent, Proven
  <1>3. /\ ext' = [ext EXCEPT ![c] = r]
        /\ UNCHANGED <<users, sess, hints, member, req, audit, identity, attempts, proved, used>>
    BY <1>1 DEF Step, extTables
  <1>4. OwnLocksOnly(c)
    BY <1>1, LockTypes DEF OwnLocksOnly
  <1>5. LocksFit(c, r)
    BY <1>1, CallbackFacts DEF LocksFit, LocksAt
  <1> QED
    BY <1>1, <1>2, <1>3, <1>4, <1>5, MoveStep

\* The lock of the subject, and what the identity says under it.
LEMMA LockExternalStep ==
    ASSUME AccountAssumption, IdentityAssumption, ExtInv, NEW c \in Callbacks, LockExternal(c)
    PROVE  ExtInv'
  <1>1. CASE Deny(c)
    BY <1>1, DenyStep
  <1>2. CASE ~Deny(c)
    <2> DEFINE o == ext[c]
               x == o.subject
    <2>1. /\ o.pc = "ext" /\ extLock[x] = None /\ BoundToSession(c)
          /\ o.op = "login" /\ identity[x] = None => EmailOf[x] # None
          /\ extLock' = [extLock EXCEPT ![x] = c] /\ UNCHANGED <<userLock, emailLock>>
      BY <1>2 DEF LockExternal
    <2>2. o \in Local /\ Form(o) /\ Known(o) /\ Spent(o) /\ LocksAt(c, o) /\ x \in Subjects
      BY <2>1, CallbackFacts DEF Form
    <2>3. identity[x] \in Users \cup {None} /\ EmailOf[x] \in Users \cup {None}
      BY <2>2, ExtConstantTypes DEF ExtInv, ExtTypeOK
    <2>4. PICK r : /\ r \in Local /\ Step(c, r) /\ r.op = o.op /\ r.subject = x
                   /\ r.attempt = o.attempt /\ r.sid = o.sid
                   /\ \/ r.pc = "owner" /\ r.op # "login" /\ r.user = o.user
                      \/ /\ r.pc = "owner" /\ r.op = "login" /\ r.user \in Users
                         /\ r.found = r.user /\ identity[x] = r.user
                      \/ /\ r.pc = "email" /\ r.op = "login" /\ r.user \in Users /\ r.found = None
                         /\ identity[x] = None
      <3>1. CASE o.op # "login"
        <4> DEFINE r == [o EXCEPT !.pc = "owner", !.found = identity[x]]
        <4>1. Step(c, r)
          BY <1>2, <3>1 DEF LockExternal
        <4>2. /\ r \in Local /\ r.op = o.op /\ r.subject = x /\ r.attempt = o.attempt
              /\ r.sid = o.sid /\ r.pc = "owner" /\ r.user = o.user
          BY <2>2, <2>3 DEF Local
        <4> HIDE DEF r
        <4> QED
          BY <3>1, <4>1, <4>2
      <3>2. CASE o.op = "login" /\ identity[x] # None
        <4> DEFINE r == [o EXCEPT !.pc = "owner", !.user = identity[x], !.found = identity[x]]
        <4>1. Step(c, r)
          BY <1>2, <3>2 DEF LockExternal
        <4>2. /\ r \in Local /\ r.op = o.op /\ r.subject = x /\ r.attempt = o.attempt
              /\ r.sid = o.sid /\ r.pc = "owner" /\ r.user = identity[x] /\ r.found = r.user
          BY <2>2, <2>3 DEF Local
        <4> HIDE DEF r
        <4> QED
          BY <2>3, <3>2, <4>1, <4>2
      <3>3. CASE o.op = "login" /\ identity[x] = None
        <4> DEFINE r == [o EXCEPT !.pc = "email", !.user = EmailOf[x]]
        <4>1. Step(c, r)
          BY <1>2, <3>3 DEF LockExternal
        <4>2. /\ r \in Local /\ r.op = o.op /\ r.subject = x /\ r.attempt = o.attempt
              /\ r.sid = o.sid /\ r.pc = "email" /\ r.user = EmailOf[x] /\ r.found = o.found
          BY <2>2, <2>3 DEF Local
        <4> HIDE DEF r
        <4>3. o.found = None /\ EmailOf[x] \in Users
          BY <2>1, <2>2, <2>3, <3>3 DEF Form
        <4> QED
          BY <3>3, <4>1, <4>2, <4>3
      <3> QED
        BY <3>1, <3>2, <3>3
    <2>5. Form(r)
      BY <2>1, <2>2, <2>4 DEF Form
    <2>6. Spent(r)
      BY <2>1, <2>2, <2>4 DEF Spent, BoundToSession
    <2>7. Unlinked(r) /\ Removable(r) /\ Proven(r)
      BY <2>4, ExtConstantTypes DEF Unlinked, Removable, Proven
    <2>8. Known(r)
      <3>1. r.op # "login" => users[r.user].exists
        BY <2>1, <2>2, <2>4 DEF Known, OfAccount
      <3>2. r.op = "login" /\ r.pc = "owner" => users[r.user].exists
        BY <2>2, <2>4, ExtConstantTypes DEF ExtInv, LinkedExist
      <3> QED
        BY <2>4, <3>1, <3>2 DEF Known, OfAccount
    <2>9. /\ ext' = [ext EXCEPT ![c] = r]
          /\ UNCHANGED <<users, sess, hints, member, req, audit, identity, attempts, proved, used>>
      BY <2>4 DEF Step, extTables
    <2>10. OwnLocksOnly(c)
      BY <2>1, <2>2, LockTypes, ExtConstantTypes DEF OwnLocksOnly
    <2>11. LocksFit(c, r)
      <3>1. extLock'[r.subject] = c
        BY <2>1, <2>2, <2>4, LockTypes
      <3> QED
        BY <2>1, <2>2, <2>4, <3>1 DEF LocksFit, LocksAt
    <2>12. ext[c].pc # "idle" /\ r.attempt = ext[c].attempt /\ r.op = ext[c].op
      BY <2>1, <2>4
    <2> HIDE DEF o, x
    <2> QED
      BY <2>4, <2>5, <2>6, <2>7, <2>8, <2>9, <2>10, <2>11, <2>12, MoveStep
  <1> QED
    BY <1>1, <1>2

\* The row of the account: what may be removed stays so until the commit.
LEMMA LockOwnerStep ==
    ASSUME AccountAssumption, IdentityAssumption, ExtInv, NEW c \in Callbacks, LockOwner(c)
    PROVE  ExtInv'
  <1>1. CASE Deny(c)
    BY <1>1, DenyStep
  <1>2. CASE ~Deny(c)
    <2> DEFINE o == ext[c]
               x == IF o.op = "unlink" THEN CHOOSE x \in LinkedTo(o.user, o.provider) : TRUE
                    ELSE o.subject
               r == [o EXCEPT !.pc = "commit", !.subject = x]
    <2>1. /\ o.pc = "owner" /\ userLock[o.user] = None /\ MayFinish(c)
          /\ userLock' = [userLock EXCEPT ![o.user] = c] /\ UNCHANGED <<extLock, emailLock>>
          /\ Step(c, [o EXCEPT !.pc = "commit",
                        !.subject = IF o.op = "unlink"
                                    THEN CHOOSE y \in LinkedTo(o.user, o.provider) : TRUE ELSE @])
      BY <1>2 DEF LockOwner, extLocks, OwnerFree
    <2>2. /\ o \in Local /\ Form(o) /\ Spent(o) /\ Holds(c, o) /\ LocksAt(c, o) /\ Known(o)
          /\ o.user \in Users
      BY <2>1, CallbackFacts DEF Form
    <2>3. o.op = "unlink" => /\ x \in Subjects /\ identity[x] = o.user
                             /\ Cardinality(Methods(o.user)) > 1 \/ users[o.user].password > 0
      BY <2>1 DEF MayFinish, LinkedTo
    <2>4. x \in Subjects /\ (o.op # "unlink" => x = o.subject)
      BY <2>1, <2>2, <2>3 DEF Form
    <2>5. Step(c, r)
      BY <2>1
    <2> HIDE DEF x
    <2>6. /\ r \in Local /\ r.pc = "commit" /\ r.op = o.op /\ r.subject = x /\ r.user = o.user
          /\ r.attempt = o.attempt /\ r.sid = o.sid /\ r.found = o.found
      BY <2>2, <2>4 DEF Local
    <2> HIDE DEF r
    <2>7. Form(r)
      BY <2>1, <2>2, <2>4, <2>6 DEF Form
    <2>8. Spent(r)
      BY <2>1, <2>2, <2>6 DEF Spent
    <2>9. Unlinked(r)
      BY <2>1, <2>2, <2>6, ExtConstantTypes DEF Unlinked, Form
    <2>10. Proven(r)
      <3>1. o.op \in {"link", "unlink"} => sess[o.sid].recent /\ o.sid \in Sids
        BY <2>1, <2>2 DEF MayFinish, Form
      <3> QED
        BY <2>6, <3>1 DEF Proven, ExtInv, RecentProved
    <2>11. Removable(r)
      <3> SUFFICES ASSUME o.op = "unlink", ~(users[o.user].password > 0)
                   PROVE  \E y \in Subjects \ {x} : identity[y] = o.user
        BY <2>3, <2>6 DEF Removable
      <3>1. Cardinality(Methods(o.user)) > 1 /\ x \in Methods(o.user)
        BY <2>3, <2>4 DEF Methods
      <3>2. Cardinality({x}) = 1
        BY FS_Singleton
      <3>3. Methods(o.user) # {x}
        BY <3>1, <3>2
      <3> QED
        BY <3>1, <3>3 DEF Methods
    <2>12. Known(r)
      <3>1. OfAccount(o)
        BY <2>1, <2>2, ExtConstantTypes DEF Form, OfAccount
      <3>2. o.op = "login" => users[o.user].active
        BY <2>1 DEF MayFinish
      <3> QED
        BY <2>1, <2>2, <2>6, <3>1, <3>2 DEF Known
    <2>13. /\ ext' = [ext EXCEPT ![c] = r]
           /\ UNCHANGED <<users, sess, hints, member, req, audit, identity, attempts, proved, used>>
      BY <2>5 DEF Step, extTables
    <2>14. OwnLocksOnly(c)
      BY <2>1, <2>2, LockTypes, ExtConstantTypes DEF OwnLocksOnly
    <2>15. LocksFit(c, r)
      <3>1. userLock'[r.user] = c
        BY <2>1, <2>2, <2>6, LockTypes
      <3>2. r.op # "unlink" => extLock'[r.subject] = c
        BY <2>1, <2>2, <2>4, <2>6 DEF Holds
      <3> QED
        BY <2>6, <3>1, <3>2 DEF LocksFit
    <2>16. /\ r \in Local /\ r.attempt = ext[c].attempt /\ r.op = ext[c].op /\ ext[c].pc # "idle"
      BY <2>1, <2>6
    <2> HIDE DEF o
    <2> QED
      BY <2>7, <2>8, <2>9, <2>10, <2>11, <2>12, <2>13, <2>14, <2>15, <2>16, MoveStep
  <1> QED
    BY <1>1, <1>2

\* The address for which an account is created.
LEMMA LockAddressStep ==
    ASSUME AccountAssumption, IdentityAssumption, ExtInv, NEW c \in Callbacks, LockAddress(c)
    PROVE  ExtInv'
  <1>1. CASE Deny(c)
    BY <1>1, DenyStep
  <1>2. CASE ~Deny(c)
    <2> DEFINE o == ext[c]
               r == [o EXCEPT !.pc = "commit"]
    <2>1. /\ o.pc = "email" /\ emailLock[o.user] = None
          /\ emailLock' = [emailLock EXCEPT ![o.user] = c]
          /\ Step(c, r) /\ UNCHANGED <<userLock, extLock>>
      BY <1>2 DEF LockAddress
    <2>2. /\ o \in Local /\ Form(o) /\ Spent(o) /\ Holds(c, o) /\ Unlinked(o) /\ o.op = "login"
          /\ o.found = None /\ o.user \in Users
      BY <2>1, CallbackFacts DEF Form
    <2>3. /\ r \in Local /\ r.pc = "commit" /\ r.op = o.op /\ r.subject = o.subject
          /\ r.user = o.user /\ r.attempt = o.attempt /\ r.sid = o.sid /\ r.found = o.found
      BY <2>2 DEF Local
    <2>4. /\ ext' = [ext EXCEPT ![c] = r]
          /\ UNCHANGED <<users, sess, hints, member, req, audit, identity, attempts, proved, used>>
      BY <2>1 DEF Step, extTables
    <2> HIDE DEF r
    <2>5. ~OfAccount(r)
      BY <2>2, <2>3 DEF OfAccount
    <2>6. Form(r) /\ Known(r) /\ Spent(r) /\ Unlinked(r) /\ Removable(r) /\ Proven(r)
      BY <2>1, <2>2, <2>3, <2>5 DEF Form, Known, Spent, Unlinked, Removable, Proven
    <2>7. OwnLocksOnly(c)
      BY <2>1, <2>2, LockTypes, ExtConstantTypes DEF OwnLocksOnly
    <2>8. LocksFit(c, r)
      <3>1. extLock'[r.subject] = c
        BY <2>1, <2>2, <2>3 DEF Holds
      <3> QED
        BY <2>3, <2>5, <3>1 DEF LocksFit
    <2>9. /\ r \in Local /\ r.attempt = ext[c].attempt /\ r.op = ext[c].op /\ ext[c].pc # "idle"
          /\ r.op # "unlink"
      BY <2>1, <2>2, <2>3
    <2> HIDE DEF o
    <2> QED
      BY <2>4, <2>6, <2>7, <2>8, <2>9, MoveStep
  <1> QED
    BY <1>1, <1>2

\* Browsers start attempts, which may expire.
LEMMA AttemptStep ==
    ASSUME AccountAssumption, IdentityAssumption, ExtInv, NEW a \in Attempts, Begin(a) \/ Expire(a)
    PROVE  ExtInv'
  <1>1. /\ UNCHANGED <<vars, identity, extLock, emailLock, ext, proved, used>>
        /\ attempts[a].status # "gone"
        /\ \E n \in Attempt : attempts' = [attempts EXCEPT ![a] = n]
    <2>1. CASE Begin(a)
      <3>1. PICK p \in Providers, i \in {"login", "link", "reauthenticate"},
                 s \in Sids \cup {None} :
               attempts' = [attempts EXCEPT ![a] =
                 [status |-> "stored", provider |-> p, intent |-> i, sid |-> s]]
        BY <2>1 DEF Begin
      <3>2. [status |-> "stored", provider |-> p, intent |-> i, sid |-> s] \in Attempt
        BY DEF Attempt
      <3> QED
        BY <2>1, <3>1, <3>2 DEF Begin, extLocks
    <2>2. CASE Expire(a)
      <3>1. attempts' = [attempts EXCEPT ![a] = [attempts[a] EXCEPT !.status = "gone"]]
        BY <2>2 DEF Expire, ExtInv, ExtTypeOK
      <3>2. [attempts[a] EXCEPT !.status = "gone"] \in Attempt
        BY DEF ExtInv, ExtTypeOK, Attempt
      <3> QED
        BY <2>2, <3>1, <3>2 DEF Expire, extLocks
    <2> QED
      BY <2>1, <2>2
  <1>2. /\ attempts' \in [Attempts -> Attempt] /\ used[a] = 0
        /\ \A b \in Attempts \ {a} : attempts'[b] = attempts[b]
    BY <1>1 DEF ExtInv, ExtTypeOK
  <1>3. ExtTypeOK'
    BY <1>1, <1>2 DEF ExtInv, ExtTypeOK
  <1>4. AccountInv'
    BY <1>1, AccountsUntouched, LockTypes DEF ExtInv, vars
  <1>5. AttemptInv' /\ RecentProved' /\ LoginMethodRemains' /\ LinkedExist'
    BY <1>1
       DEF ExtInv, AttemptInv, Alone, RecentProved, LoginMethodRemains, LinkedExist, Methods, vars
  <1>6. CallbackInv'
    <2> SUFFICES ASSUME NEW c \in Callbacks
                 PROVE  CallbackOK(c, ext[c])'
      BY DEF CallbackInv
    <2>1. /\ Form(ext[c]) /\ Holds(c, ext[c]) /\ LocksAt(c, ext[c]) /\ Known(ext[c])
          /\ Unlinked(ext[c]) /\ Removable(ext[c]) /\ Spent(ext[c]) /\ Proven(ext[c])
      BY CallbackFacts
    <2>2. Spent(ext[c])'
      BY <1>1, <1>2, <2>1 DEF Spent, Form
    <2> QED
      BY <1>1, <2>1, <2>2
         DEF CallbackOK, Form, Holds, LocksAt, Known, OfAccount, Unlinked, Removable, Proven, vars
  <1> QED
    BY <1>3, <1>4, <1>5, <1>6 DEF ExtInv

\* A callback takes its attempt from Redis, where nobody finds it again.
LEMMA CallbackStep ==
    ASSUME AccountAssumption, IdentityAssumption, ExtInv, NEW c \in Callbacks, Callback(c)
    PROVE  ExtInv'
  <1>0. PICK a \in Attempts, x \in Subjects, s \in Presented \cup {None} :
           /\ attempts[a].status = "stored" /\ attempts[a].provider = ProviderOf[x]
           /\ attempts[a].intent = "login" <=> s = None
           /\ attempts' = [attempts EXCEPT ![a] = Taken(a)]
           /\ \/ attempts[a].intent # "login" /\ ~Live(s) /\ UNCHANGED ext
              \/ /\ attempts[a].intent # "login" => Live(s)
                 /\ ext' = [ext EXCEPT ![c] =
                      [pc |-> "ext", op |-> attempts[a].intent, attempt |-> a, subject |-> x,
                       provider |-> ProviderOf[x], sid |-> s, found |-> None,
                       user |-> IF s = None THEN None ELSE sess[s].user]]
    BY Zenon DEF Callback
  <1>1. /\ attempts[a].status = "stored"
        /\ attempts[a].intent = "login" <=> s = None
        /\ attempts' = [attempts EXCEPT ![a] = Taken(a)]
        /\ \/ UNCHANGED ext
           \/ ext' = [ext EXCEPT ![c] =
                 [pc |-> "ext", op |-> attempts[a].intent, attempt |-> a, subject |-> x,
                  provider |-> ProviderOf[x], sid |-> s, found |-> None,
                  user |-> IF s = None THEN None ELSE sess[s].user]]
    BY <1>0
  <1>2. UNCHANGED <<vars, identity, extLock, emailLock, proved, used>> /\ ext[c].pc = "idle"
    BY DEF Callback, extLocks
  <1>3. /\ attempts \in [Attempts -> Attempt] /\ used[a] = 0 /\ ext \in [Callbacks -> Local]
        /\ attempts[a] \in Attempt
    BY <1>1 DEF ExtInv, ExtTypeOK
  <1>4. /\ attempts' \in [Attempts -> Attempt] /\ attempts'[a].status = "gone"
        /\ \A b \in Attempts \ {a} : attempts'[b] = attempts[b]
    <2>1. Taken(a) \in Attempt /\ Taken(a).status = "gone"
      BY <1>3 DEF Taken, Attempt
    <2> QED
      BY <1>1, <1>3, <2>1
  <1>5. \A d \in Callbacks : ext[d].pc # "idle" => ext[d].attempt # a
    BY <1>1, CallbackFacts, ExtConstantTypes DEF Form, Spent
  <1> DEFINE i == attempts[a].intent
             u == IF s = None THEN None ELSE sess[s].user
             r == [pc |-> "ext", op |-> i, attempt |-> a, subject |-> x,
                   provider |-> ProviderOf[x], sid |-> s, found |-> None, user |-> u]
  <1>6. /\ i \in {"login", "link", "reauthenticate"} /\ s \in Sids \cup {None}
        /\ u \in Users \cup {None} /\ ProviderOf[x] \in Providers
        /\ i # "login" => u \in Users /\ s \in Sids /\ users[u].exists
    <2>1. s # None => s \in Sids /\ sess[s].user \in Users /\ users[sess[s].user].exists
      BY DEF ExtInv, AccountInv, RowInv, Presented
    <2> QED
      BY <1>1, <1>3, <2>1, ExtConstantTypes DEF Attempt
  <1>7. ext' = ext \/ ext' = [ext EXCEPT ![c] = r]
    BY <1>1
  <1> HIDE DEF i, u
  <1>8. /\ r \in Local /\ r.pc = "ext" /\ r.op = i /\ r.attempt = a /\ r.subject = x
        /\ r.sid = s /\ r.user = u /\ r.found = None
    BY <1>6 DEF Local
  <1> HIDE DEF r
  <1>9. Form(r) /\ Known(r)
    BY <1>6, <1>8 DEF Form, Known, OfAccount
  <1>10. /\ ext' \in [Callbacks -> Local] /\ ext'[c] \in {ext[c], r}
         /\ \A d \in Callbacks : d # c => ext'[d] = ext[d]
    BY <1>3, <1>7, <1>8
  <1>11. ExtTypeOK'
    BY <1>2, <1>3, <1>4, <1>10 DEF ExtInv, ExtTypeOK
  <1>12. AccountInv'
    BY <1>2, AccountsUntouched, LockTypes DEF ExtInv, vars
  <1>13. RecentProved' /\ LoginMethodRemains' /\ LinkedExist'
    BY <1>2 DEF ExtInv, RecentProved, LoginMethodRemains, LinkedExist, Methods, vars
  <1>14. AttemptInv'
    <2> SUFFICES ASSUME NEW d \in Callbacks, ext'[d].pc # "idle", ext'[d].op # "unlink",
                        NEW e \in Callbacks \ {d}, ext'[e].pc # "idle"
                 PROVE  ext'[e].attempt # ext'[d].attempt
      BY <1>2 DEF ExtInv, AttemptInv, Alone
    <2>1. CASE d # c /\ e # c
      BY <1>10, <2>1 DEF ExtInv, AttemptInv, Alone
    <2>2. CASE d = c \/ e = c
      BY <1>2, <1>5, <1>8, <1>10, <2>2
    <2> QED
      BY <2>1, <2>2
  <1>15. CallbackInv'
    <2> SUFFICES ASSUME NEW d \in Callbacks
                 PROVE  CallbackOK(d, ext[d])'
      BY DEF CallbackInv
    <2>1. CASE ext'[d] = ext[d]
      <3>1. /\ Form(ext[d]) /\ Holds(d, ext[d]) /\ LocksAt(d, ext[d]) /\ Known(ext[d])
            /\ Unlinked(ext[d]) /\ Removable(ext[d]) /\ Spent(ext[d]) /\ Proven(ext[d])
        BY CallbackFacts
      <3>2. Spent(ext[d])'
        BY <1>2, <1>4, <1>5, <2>1, <3>1 DEF Spent, Form
      <3> QED
        BY <1>2, <2>1, <3>1, <3>2
           DEF CallbackOK, Form, Holds, LocksAt, Known, OfAccount, Unlinked, Removable, Proven, vars
    <2>2. CASE ext'[d] = r /\ d = c
      <3>1. Form(ext[d])'
        BY <1>9, <2>2 DEF Form
      <3>2. Holds(d, ext[d])' /\ Unlinked(ext[d])' /\ Removable(ext[d])' /\ Proven(ext[d])'
        BY <1>8, <2>2 DEF Holds, Unlinked, Removable, Proven
      <3>3. LocksAt(c, ext[c])
        BY CallbackFacts
      <3>4. LocksAt(d, ext[d])'
        BY <1>2, <2>2, <3>3 DEF LocksAt, vars
      <3>5. Known(ext[d])'
        BY <1>2, <1>9, <2>2 DEF Known, OfAccount, vars
      <3>6. Spent(ext[d])'
        BY <1>2, <1>3, <1>4, <1>8, <2>2 DEF Spent
      <3> QED
        BY <3>1, <3>2, <3>4, <3>5, <3>6 DEF CallbackOK
    <2> QED
      BY <1>10, <2>1, <2>2
  <1> QED
    BY <1>11, <1>12, <1>13, <1>14, <1>15 DEF ExtInv

-----------------------------------------------------------------------------
(* Commits of callbacks                                                    *)

\* What a commit may do to the identities: nothing, link a subject that its callback has
\* locked and that has no account, or remove the link that an unlink has found.
LinkWritten(c) ==
    LET r == ext[c]
    IN  /\ \A x \in Subjects \ {r.subject} : identity'[x] = identity[x]
        /\ \/ identity' = identity
           \/ r.op # "unlink" /\ identity[r.subject] = None
           \/ r.op = "unlink" /\ identity'[r.subject] = None

\* Accounts after a commit: those that existed are the same, a new one has a link.
OwnersWritten(c) ==
    \A u \in Users : /\ users[u].exists => users'[u] = users[u]
                     /\ users'[u].password = users[u].password
                     /\ users'[u].exists => users[u].exists \/ identity'[ext[c].subject] = u

\* A commit leaves every other callback what it has checked.
LEMMA CallbacksKept ==
    ASSUME AccountAssumption, IdentityAssumption, ExtInv, NEW c \in Callbacks, Finish(c),
           LinkWritten(c), OwnersWritten(c), proved \subseteq proved',
           NEW d \in Callbacks \ {c}, ext'[d] = ext[d]
    PROVE  CallbackOK(d, ext[d])'
  <1> DEFINE o == ext[c]
             r == ext[d]
  <1>1. /\ o.pc = "commit" /\ EndExt(c) /\ attempts' = attempts
        /\ used' = IF o.attempt = None THEN used ELSE [used EXCEPT ![o.attempt] = @ + 1]
    BY DEF Finish
  <1>2. /\ r \in Local /\ Form(r) /\ Holds(d, r) /\ Known(r) /\ Unlinked(r) /\ Removable(r)
        /\ Spent(r) /\ Proven(r) /\ Form(o) /\ Holds(c, o) /\ Removable(o)
    BY CallbackFacts
  <1>3. Form(r)'
    BY <1>2 DEF Form
  <1>4. Holds(d, r)' /\ LocksAt(d, r)'
    BY <1>1, EndExtFacts, LocksKept
  <1>5. Unlinked(r)'
    <2> SUFFICES ASSUME r.op = "login", r.found = None, r.pc \in {"email", "commit"}
                 PROVE  identity'[r.subject] = None
      BY DEF Unlinked
    <2>1. extLock[r.subject] = d /\ identity[r.subject] = None /\ r.subject \in Subjects
      BY <1>2 DEF Holds, Unlinked, Form
    <2>2. o.op # "unlink" => extLock[o.subject] = c
      BY <1>1, <1>2 DEF Holds
    <2> QED
      BY <2>1, <2>2 DEF LinkWritten
  <1>6. Removable(r)'
    <2> SUFFICES ASSUME r.op = "unlink", r.pc = "commit"
                 PROVE  /\ identity'[r.subject] = r.user
                        /\ \/ users'[r.user].password > 0
                           \/ \E y \in Subjects \ {r.subject} : identity'[y] = r.user
      BY DEF Removable
    <2>1. /\ userLock[r.user] = d /\ identity[r.subject] = r.user /\ r.user \in Users
          /\ r.subject \in Subjects
          /\ users[r.user].password > 0 \/ \E y \in Subjects \ {r.subject} : identity[y] = r.user
      BY <1>2 DEF Holds, OfAccount, Removable, Form
    <2>2. o.op = "unlink" => userLock[o.user] = c /\ identity[o.subject] = o.user
      BY <1>1, <1>2 DEF Holds, OfAccount, Removable
    <2>3. None \notin Users /\ o.subject \in Subjects
      BY <1>1, <1>2, ExtConstantTypes DEF Form
    <2>4. \A x \in Subjects : identity[x] = r.user => identity'[x] = r.user
      BY <2>1, <2>2, <2>3 DEF LinkWritten
    <2>5. users'[r.user].password = users[r.user].password
      BY <2>1 DEF OwnersWritten
    <2> QED
      BY <2>1, <2>4, <2>5
  <1>7. Spent(r)'
    <2> SUFFICES ASSUME r.pc # "idle", r.op # "unlink"
                 PROVE  used'[r.attempt] = used[r.attempt] /\ r.attempt \in Attempts
      BY <1>1, <1>2 DEF Spent
    <2>1. r.attempt \in Attempts /\ Alone(d, r.attempt)
      BY <1>2 DEF ExtInv, AttemptInv, Form
    <2>2. o.attempt # r.attempt
      BY <1>1, <2>1 DEF Alone
    <2>3. used \in [Attempts -> Nat]
      BY DEF ExtInv, ExtTypeOK
    <2> QED
      BY <1>1, <2>1, <2>2, <2>3
  <1>8. Proven(r)'
    BY <1>2 DEF Proven
  <1>9. Known(r)'
    <2>1. r.pc # "idle" /\ OfAccount(r) => r.user \in Users
      BY <1>2 DEF Form, OfAccount, Local
    <2>2. r.pc # "idle" /\ OfAccount(r) => users'[r.user] = users[r.user]
      BY <1>2, <2>1 DEF Known, OwnersWritten
    <2> QED
      BY <1>2, <2>2 DEF Known, OfAccount
  <1> QED
    BY <1>3, <1>4, <1>5, <1>6, <1>7, <1>8, <1>9 DEF CallbackOK

\* A commit that writes what it may keeps the invariant.
LEMMA FinishWrites ==
    ASSUME AccountAssumption, IdentityAssumption, ExtInv, NEW c \in Callbacks, Finish(c),
           LinkWritten(c), OwnersWritten(c), identity' \in [Subjects -> Users \cup {None}],
           proved \subseteq proved', proved' \subseteq Sids, RecentProved', LinkedExist',
           AccountInv'
    PROVE  ExtInv'
  <1> DEFINE o == ext[c]
  <1>1. /\ o.pc = "commit" /\ EndExt(c) /\ attempts' = attempts
        /\ used' = IF o.attempt = None THEN used ELSE [used EXCEPT ![o.attempt] = @ + 1]
    BY DEF Finish
  <1>2. Form(o) /\ Removable(o) /\ Spent(o) /\ None \notin Users /\ None \notin Attempts
    BY CallbackFacts, ExtConstantTypes
  <1>3. /\ ext' \in [Callbacks -> Local] /\ ext'[c] = IdleExt
        /\ \A d \in Callbacks \ {c} : ext'[d] = ext[d]
        /\ OwnLocksOnly(c) /\ LocksFit(c, IdleExt)
    BY <1>1, EndExtFacts, IdleExtFacts DEF ExtInv, ExtTypeOK
  <1>4. /\ used' \in [Attempts -> Nat]
        /\ \A a \in Attempts : /\ used'[a] # used[a] => attempts[a].status = "gone" /\ used'[a] = 1
                               /\ used[a] <= 1
    <2>1. used \in [Attempts -> Nat] /\ \A a \in Attempts : used[a] <= 1
      BY DEF ExtInv, ExtTypeOK, AttemptInv
    <2>2. CASE o.attempt = None
      BY <1>1, <2>1, <2>2
    <2>3. CASE o.attempt # None
      <3>1. /\ o.attempt \in Attempts /\ used[o.attempt] = 0 /\ attempts[o.attempt].status = "gone"
        BY <1>1, <1>2, <2>3 DEF Form, Spent
      <3> QED
        BY <1>1, <2>1, <2>3, <3>1
    <2> QED
      BY <2>2, <2>3
  <1>5. ExtTypeOK'
    BY <1>1, <1>3, <1>4 DEF ExtInv, ExtTypeOK, OwnLocksOnly
  <1>6. AttemptInv'
    <2>1. \A a \in Attempts : used'[a] <= 1
      BY <1>4
    <2>2. IdleExt.pc = "idle"
      BY IdleExtFacts
    <2> QED
      BY <1>3, <2>1, <2>2 DEF ExtInv, AttemptInv, Alone
  <1>7. LoginMethodRemains'
    <2> SUFFICES ASSUME NEW u \in Users, users'[u].exists, ~(users'[u].password > 0)
                 PROVE  \E x \in Subjects : identity'[x] = u
      BY DEF LoginMethodRemains, Methods
    <2>1. o.subject \in Subjects
      BY <1>1, <1>2 DEF Form
    <2>2. CASE ~users[u].exists
      BY <2>1, <2>2 DEF OwnersWritten
    <2>3. CASE users[u].exists
      <3>1. PICK x \in Subjects : identity[x] = u
        BY <2>3 DEF ExtInv, LoginMethodRemains, Methods, OwnersWritten
      <3>2. CASE identity'[x] = identity[x]
        BY <3>1, <3>2
      <3>3. CASE identity'[x] # identity[x]
        <4>1. x = o.subject /\ o.op = "unlink"
          BY <1>2, <3>1, <3>3 DEF LinkWritten
        <4>2. PICK y \in Subjects \ {o.subject} : identity[y] = u
          BY <1>1, <1>2, <3>1, <4>1 DEF Removable, OwnersWritten
        <4> QED
          BY <4>2 DEF LinkWritten
      <3> QED
        BY <3>2, <3>3
    <2> QED
      BY <2>2, <2>3
  <1>8. CallbackInv'
    <2> SUFFICES ASSUME NEW d \in Callbacks
                 PROVE  CallbackOK(d, ext[d])'
      BY DEF CallbackInv
    <2>1. CASE d = c
      <3>1. Holds(d, ext[d])' /\ LocksAt(d, ext[d])'
        BY <1>3, <2>1, IdleExtFacts DEF LocksFit, Holds, LocksAt
      <3> QED
        BY <1>3, <2>1, <3>1, IdleExtFacts
           DEF CallbackOK, Form, Known, Unlinked, Removable, Spent, Proven
    <2>2. CASE d # c
      BY <1>3, <2>2, CallbacksKept
    <2> QED
      BY <2>1, <2>2
  <1> QED
    BY <1>5, <1>6, <1>7, <1>8 DEF ExtInv

\* A commit of a callback that writes accounts and sessions keeps the invariant of Accounts,
\* if it writes no row that a request has locked.
LEMMA FinishAccounts ==
    ASSUME AccountAssumption, IdentityAssumption, ExtInv, NEW c \in Callbacks, EndExt(c), Monotone,
           users' \in [Users -> User], sess' \in [Sids -> Session], RowInv', SessionsCurrent',
           \A u \in Users : /\ users'[u].password = users[u].password
                            /\ Admin(u)' = Admin(u)
                            /\ users[u].exists => users'[u] = users[u],
           \A u \in Users, q \in Requests :
               userLock[u] = q => OpenSessions(u)' \subseteq OpenSessions(u),
           \A s \in Sids : sess'[s].status = "revoked" => sess[s].status = "revoked"
    PROVE  AccountInv'
  <1>1. OwnLocksOnly(c) /\ UNCHANGED <<hints, member, req, audit>>
    BY EndExtFacts
  <1>2. AccountInv /\ None \notin Requests
    BY ConstantTypes DEF ExtInv
  <1>3. ControlInv'
    BY <1>1, <1>2 DEF AccountInv, ControlInv, ShapeInv, LockInv, OwnLocksOnly
  <1>4. TableTypes'
    BY <1>1, <1>2 DEF AccountInv, TableTypes
  <1>5. PasswordInv'
    BY <1>1, <1>2, NoNewResets
  <1>6. ASSUME NEW p \in Requests
        PROVE  Undisturbed(p)
    BY <1>2, LockedExists DEF Undisturbed
  <1> QED
    BY <1>1, <1>2, <1>3, <1>4, <1>5, <1>6, WriteStep

\* A login opens a session of the current password for an account that is active: the one
\* it has locked, or a new one, of which no request knows.
LEMMA LoginAccounts ==
    ASSUME AccountAssumption, IdentityAssumption, ExtInv, NEW c \in Callbacks, ext[c].pc = "commit",
           CommitLogin(c), EndExt(c)
    PROVE  /\ AccountInv' /\ users' \in [Users -> User] /\ users'[ext[c].user].exists
           /\ \A u \in Users : /\ users'[u].password = users[u].password
                               /\ users[u].exists => users'[u] = users[u]
                               /\ u # ext[c].user => users'[u] = users[u]
           /\ \A s \in Sids : sess'[s].recent => sess[s].recent
  <1> DEFINE o == ext[c]
             t == o.user
             i == IssuedExternally(t)
  <1>1. /\ o.op = "login" /\ Form(o) /\ Holds(c, o) /\ Known(o) /\ t \in Users
    BY CallbackFacts DEF Form, CommitLogin
  <1>2. /\ users \in [Users -> User] /\ sess \in [Sids -> Session] /\ RowInv /\ SessionsCurrent
        /\ AccountInv
    BY DEF ExtInv, AccountInv, TableTypes
  <1>3. PICK n \in Sids : sess[n].status = "none" /\ sess' = [sess EXCEPT ![n] = i]
    BY DEF CommitLogin, FreeSids
  <1>4. /\ i \in Session /\ i.user = t /\ i.password = users[t].password /\ ~i.recent
        /\ i.status = "open"
    BY <1>1, <1>2 DEF IssuedExternally, Session, User
  <1> HIDE DEF i
  <1>5. /\ users' \in [Users -> User] /\ users'[t].exists /\ users'[t].active
        /\ users'[t].password = users[t].password /\ users'[t].role = users[t].role
        /\ users'[t].active = users[t].active
        /\ \A u \in Users : u # t => users'[u] = users[u]
        /\ users[t].exists => users'[t] = users[t]
        /\ ~users[t].exists \/ userLock[t] = c
    <2>1. CASE o.found = None
      <3>1. ~users[t].exists /\ users' = [users EXCEPT ![t].exists = TRUE]
        BY <2>1 DEF CommitLogin
      <3>2. users[t].active /\ users[t] \in User
        BY <1>1, <1>2, <3>1 DEF RowInv
      <3> QED
        BY <1>1, <1>2, <3>1, <3>2 DEF User
    <2>2. CASE o.found # None
      <3>1. users' = users /\ OfAccount(o)
        BY <1>1, <2>2 DEF CommitLogin, OfAccount
      <3>2. users[t].exists /\ users[t].active /\ userLock[t] = c
        BY <1>1, <3>1 DEF Known, Holds
      <3> QED
        BY <1>2, <3>1, <3>2
    <2> QED
      BY <2>1, <2>2
  <1> HIDE DEF o, t
  <1>6. /\ sess' \in [Sids -> Session] /\ sess'[n] = i
        /\ \A s \in Sids : s # n => sess'[s] = sess[s]
    BY <1>2, <1>3, <1>4
  <1>7. \A u \in Users : /\ users'[u].password = users[u].password
                         /\ users[u].exists => users'[u] = users[u] /\ users'[u].exists
    BY <1>5
  <1>8. Monotone
    BY <1>3, <1>6, <1>7 DEF Monotone
  <1>9. RowInv'
    BY <1>1, <1>2, <1>3, <1>4, <1>5, <1>6, <1>7 DEF RowInv
  <1>10. SessionsCurrent'
    BY <1>1, <1>2, <1>4, <1>5, <1>6, <1>7 DEF RowInv, SessionsCurrent
  <1>11. \A u \in Users : Admin(u)' = Admin(u)
    <2>1. ~users[t].exists => users[t].role = "customer"
      BY <1>1, <1>2 DEF RowInv
    <2> QED
      BY <1>5, <2>1 DEF Admin
  <1>12. ASSUME NEW u \in Users, NEW q \in Requests, userLock[u] = q
         PROVE  OpenSessions(u)' \subseteq OpenSessions(u)
    <2>1. users[u].exists /\ q # c
      BY <1>2, <1>12, LockedExists, ExtConstantTypes
    <2>2. u # t
      BY <1>5, <1>12, <2>1
    <2> QED
      BY <1>4, <1>6, <2>2 DEF OpenSessions
  <1>13. AccountInv'
    BY <1>4, <1>5, <1>6, <1>7, <1>8, <1>9, <1>10, <1>11, <1>12, FinishAccounts
  <1>14. \A s \in Sids : sess'[s].recent => sess[s].recent
    BY <1>4, <1>6
  <1> QED
    BY <1>5, <1>7, <1>13, <1>14 DEF o, t

\* A reauthentication makes a session recent, and nothing else.
LEMMA ReauthenticateAccounts ==
    ASSUME AccountAssumption, IdentityAssumption, ExtInv, NEW c \in Callbacks, ext[c].pc = "commit",
           CommitReauthenticate(c), EndExt(c)
    PROVE  /\ AccountInv' /\ ext[c].sid \in Sids
           /\ \A s \in Sids : s # ext[c].sid => sess'[s].recent = sess[s].recent
  <1> DEFINE n == ext[c].sid
  <1>1. n \in Sids /\ users' = users /\ sess' = [sess EXCEPT ![n].recent = TRUE]
    BY CallbackFacts DEF Form, CommitReauthenticate
  <1>2. /\ users \in [Users -> User] /\ sess \in [Sids -> Session] /\ RowInv /\ SessionsCurrent
    BY DEF ExtInv, AccountInv, TableTypes
  <1> HIDE DEF n
  <1>3. /\ sess' \in [Sids -> Session]
        /\ \A s \in Sids : /\ sess'[s].status = sess[s].status /\ sess'[s].user = sess[s].user
                           /\ sess'[s].password = sess[s].password
                           /\ s # n => sess'[s].recent = sess[s].recent
    BY <1>1, <1>2 DEF Session
  <1>4. RowInv' /\ SessionsCurrent' /\ Monotone
    BY <1>1, <1>2, <1>3 DEF RowInv, SessionsCurrent, Monotone
  <1>5. \A u \in Users : Admin(u)' = Admin(u) /\ OpenSessions(u)' = OpenSessions(u)
    BY <1>1, <1>3 DEF Admin, OpenSessions
  <1>6. AccountInv'
    BY <1>1, <1>2, <1>3, <1>4, <1>5, FinishAccounts
  <1> QED
    BY <1>1, <1>3, <1>6 DEF n

\* The four commits.
LEMMA FinishStep ==
    ASSUME AccountAssumption, IdentityAssumption, ExtInv, NEW c \in Callbacks, Finish(c)
    PROVE  ExtInv'
  <1> DEFINE o == ext[c]
  <1>1. /\ o.pc = "commit" /\ Form(o) /\ Known(o) /\ Unlinked(o) /\ o.user \in Users
        /\ o.subject \in Subjects /\ EndExt(c)
    BY CallbackFacts DEF Finish, Form
  <1>2. /\ identity \in [Subjects -> Users \cup {None}] /\ proved \subseteq Sids /\ RecentProved
        /\ LinkedExist /\ AccountInv
    BY DEF ExtInv, ExtTypeOK
  <1>3. CASE CommitLogin(c)
    <2>1. /\ AccountInv' /\ users'[o.user].exists
          /\ \A u \in Users : /\ users'[u].password = users[u].password
                              /\ users[u].exists => users'[u] = users[u]
                              /\ u # o.user => users'[u] = users[u]
          /\ \A s \in Sids : sess'[s].recent => sess[s].recent
      BY <1>1, <1>3, LoginAccounts
    <2>2. proved' = proved /\ o.op = "login" /\ RecentProved'
      BY <1>2, <1>3, <2>1 DEF CommitLogin, RecentProved
    <2>3. /\ identity' \in [Subjects -> Users \cup {None}] /\ LinkWritten(c) /\ OwnersWritten(c)
          /\ \A x \in Subjects : identity'[x] \in {identity[x], o.user}
      <3>1. CASE o.found = None
        <4>1. identity' = [identity EXCEPT ![o.subject] = o.user] /\ identity[o.subject] = None
          BY <1>1, <1>3, <2>2, <3>1 DEF CommitLogin, Unlinked
        <4>2. /\ identity' \in [Subjects -> Users \cup {None}] /\ identity'[o.subject] = o.user
              /\ \A x \in Subjects : x # o.subject => identity'[x] = identity[x]
          BY <1>1, <1>2, <4>1
        <4>3. LinkWritten(c)
          BY <1>1, <2>2, <4>1, <4>2 DEF LinkWritten
        <4>4. OwnersWritten(c)
          BY <2>1, <4>2 DEF OwnersWritten
        <4> QED
          BY <4>2, <4>3, <4>4
      <3>2. CASE o.found # None
        <4>1. identity' = identity /\ users' = users
          BY <1>2, <1>3, <3>2 DEF CommitLogin
        <4> QED
          BY <1>2, <4>1 DEF LinkWritten, OwnersWritten
      <3> QED
        BY <3>1, <3>2
    <2>4. LinkedExist'
      BY <1>2, <2>1, <2>3 DEF LinkedExist
    <2> QED
      BY <1>2, <2>1, <2>2, <2>3, <2>4, FinishWrites
  <1>4. CASE CommitReauthenticate(c)
    <2>1. proved' = proved \cup {o.sid} /\ UNCHANGED <<users, identity>>
      BY <1>4 DEF CommitReauthenticate
    <2>2. /\ AccountInv' /\ o.sid \in Sids
          /\ \A s \in Sids : s # o.sid => sess'[s].recent = sess[s].recent
      BY <1>1, <1>4, ReauthenticateAccounts
    <2>3. /\ RecentProved' /\ proved \subseteq proved' /\ proved' \subseteq Sids
      BY <1>2, <2>1, <2>2 DEF RecentProved
    <2>4. LinkWritten(c) /\ OwnersWritten(c) /\ LinkedExist'
      BY <1>2, <2>1 DEF LinkWritten, OwnersWritten, LinkedExist
    <2> QED
      BY <1>2, <2>1, <2>2, <2>3, <2>4, FinishWrites
  <1>5. CASE CommitLink(c) \/ CommitUnlink(c)
    <2>1. /\ UNCHANGED <<users, sess, proved>>
          /\ \/ /\ identity' = [identity EXCEPT ![o.subject] = o.user] /\ o.op = "link"
                /\ identity[o.subject] = None
             \/ identity' = [identity EXCEPT ![o.subject] = None] /\ o.op = "unlink"
      BY <1>5 DEF CommitLink, CommitUnlink
    <2>2. /\ identity' \in [Subjects -> Users \cup {None}] /\ LinkWritten(c)
          /\ \A x \in Subjects : identity'[x] \in {identity[x], o.user, None}
      BY <1>1, <1>2, <2>1 DEF LinkWritten
    <2>3. OwnersWritten(c) /\ RecentProved'
      BY <1>2, <2>1 DEF OwnersWritten, RecentProved
    <2>4. users[o.user].exists
      BY <1>1, <2>1 DEF Known, OfAccount
    <2>5. LinkedExist'
      BY <1>2, <2>1, <2>2, <2>4 DEF LinkedExist
    <2>6. AccountInv'
      BY <1>1, <1>2, <2>1, EndExtFacts, AccountsUntouched DEF OwnLocksOnly
    <2> QED
      BY <1>2, <2>1, <2>2, <2>3, <2>5, <2>6, FinishWrites
  <1> QED
    BY <1>3, <1>4, <1>5 DEF Finish

-----------------------------------------------------------------------------
(* ExternalIdentities: the invariant holds                                 *)

\* The start: every account has a password or one of the identities that are linked.
LEMMA InitExtInv ==
    ASSUME AccountAssumption, IdentityAssumption, ExtInit
    PROVE  ExtInv
  <1>1. /\ users = [u \in Users |-> InitialUser(u)] /\ sess = [s \in Sids |-> InitialSession(s)]
        /\ userLock = [u \in Users |-> None]
        /\ identity = Linked /\ extLock = [x \in Subjects |-> None]
        /\ emailLock = [u \in Users |-> None]
        /\ attempts = [a \in Attempts |->
             [status |-> "unused", provider |-> None, intent |-> "login", sid |-> None]]
        /\ ext = [c \in Callbacks |-> IdleExt]
        /\ proved = {s \in Sids : Owner[s] # None} /\ used = [a \in Attempts |-> 0]
    BY DEF ExtInit, IdentityInit, Init
  <1>2. ASSUME NEW u \in Users
        PROVE  /\ InitialUser(u).exists => InitialUser(u).password > 0 \/ u \in Passwordless
               /\ u \in InitialAdmins \cup InitialUsers => InitialUser(u).exists
    <2> DEFINE e == u \in InitialUsers \cup InitialAdmins
               l == IF u \in InitialAdmins THEN "admin" ELSE "customer"
               p == IF u \in (InitialUsers \cup InitialAdmins) \ Passwordless THEN 1 ELSE 0
    <2>1. (e => p > 0 \/ u \in Passwordless) /\ (u \in InitialAdmins \cup InitialUsers => e)
      OBVIOUS
    <2>2. InitialUser(u) = [exists |-> e, active |-> TRUE, role |-> l, password |-> p]
      BY DEF InitialUser
    <2> HIDE DEF e, l, p
    <2> QED
      BY <2>1, <2>2
  <1>3. \A s \in Sids : InitialSession(s).recent => Owner[s] # None
    BY DEF InitialSession, NoSession
  <1>4. AccountInv
    BY InitAccountInv DEF ExtInit
  <1>5. ExtTypeOK
    BY <1>1, IdleExtFacts, ExtConstantTypes DEF ExtTypeOK, Attempt
  <1>6. CallbackInv
    <2> SUFFICES ASSUME NEW c \in Callbacks
                 PROVE  CallbackOK(c, IdleExt)
      BY <1>1 DEF CallbackInv
    <2>1. Holds(c, IdleExt) /\ LocksAt(c, IdleExt)
      BY <1>1, IdleExtFacts, ExtConstantTypes DEF Holds, LocksAt
    <2> QED
      BY <2>1, IdleExtFacts DEF CallbackOK
  <1>7. AttemptInv
    BY <1>1, IdleExtFacts DEF AttemptInv
  <1>8. RecentProved
    BY <1>1, <1>3 DEF RecentProved
  <1>9. LoginMethodRemains
    BY <1>1, <1>2 DEF LoginMethodRemains, Methods, IdentityAssumption
  <1>10. LinkedExist
    BY <1>1, <1>2, ExtConstantTypes DEF LinkedExist
  <1> QED
    BY <1>4, <1>5, <1>6, <1>7, <1>8, <1>9, <1>10 DEF ExtInv

\* Every step keeps it.
LEMMA NextExtInv ==
    ASSUME AccountAssumption, IdentityAssumption, ExtInv, [ExtNext]_allVars
    PROVE  ExtInv'
  <1>1. ASSUME NEW a \in Attempts, Begin(a) \/ Expire(a)
        PROVE  ExtInv'
    BY <1>1, AttemptStep
  <1>2. ASSUME NEW c \in Callbacks, Callback(c) \/ LockExternal(c) \/ LockOwner(c) \/ LockAddress(c)
        PROVE  ExtInv'
    BY <1>2, CallbackStep, LockExternalStep, LockOwnerStep, LockAddressStep
  <1>3. ASSUME NEW c \in Callbacks, Unlink(c) \/ ReadLink(c)
        PROVE  ExtInv'
    BY <1>3, UnlinkStep, DenyStep
  <1>4. ASSUME NEW c \in Callbacks, Finish(c) \/ FailExt(c)
        PROVE  ExtInv'
    BY <1>4, FinishStep, DenyStep DEF FailExt
  <1>5. CASE AccountStep
    BY <1>5, AccountsKeep
  <1>6. CASE UNCHANGED allVars
    <2>1. UNCHANGED <<vars, extVars>>
      BY <1>6 DEF allVars
    <2>2. AccountInv'
      BY <2>1, NextAccountInv DEF ExtInv
    <2>3. ExtTypeOK' /\ AttemptInv' /\ RecentProved' /\ LoginMethodRemains' /\ LinkedExist'
      BY <2>1 DEF vars, extVars, ExtInv, ExtTypeOK, AttemptInv, Alone, RecentProved,
             LoginMethodRemains, Methods, LinkedExist
    <2>4. CallbackInv'
      BY <2>1 DEF vars, extVars, ExtInv, CallbackInv, CallbackOK, Form, Holds, LocksAt, Known,
             OfAccount, Unlinked, Removable, Spent, Proven
    <2> QED
      BY <2>2, <2>3, <2>4 DEF ExtInv
  <1> QED
    BY <1>1, <1>2, <1>3, <1>4, <1>5, <1>6 DEF ExtNext

\* The invariant holds in every reachable state.
LEMMA ExtInvariantHolds ==
    ASSUME AccountAssumption, IdentityAssumption
    PROVE  ExtSpec => []ExtInv
  <1>1. ExtInit => ExtInv
    BY InitExtInv
  <1>2. ExtInv /\ [ExtNext]_allVars => ExtInv'
    BY NextExtInv
  <1> QED
    BY <1>1, <1>2, PTL DEF ExtSpec

-----------------------------------------------------------------------------
(* ExternalIdentities: theorems                                            *)

\* Type correctness: columns and locals hold values of their domains, and an attempt that
\* is still in Redis has not been used.
THEOREM ExtTypeCorrect ==
    ASSUME AccountAssumption, IdentityAssumption
    PROVE  ExtSpec => []ExtTypeOK
  <1>1. ExtInv => ExtTypeOK
    BY DEF ExtInv
  <1> QED
    BY <1>1, ExtInvariantHolds, PTL

\* Final-method protection: whatever is linked, unlinked, registered and reset at the same
\* time, every account keeps a password or an identity.
THEOREM MethodRemains ==
    ASSUME AccountAssumption, IdentityAssumption
    PROVE  ExtSpec => []LoginMethodRemains
  <1>1. ExtInv => LoginMethodRemains
    BY DEF ExtInv
  <1> QED
    BY <1>1, ExtInvariantHolds, PTL

\* Attempts take effect once, for the session that began them, and links change only for
\* sessions that showed a password or a fresh provider login.
THEOREM AttemptsAreSound ==
    ASSUME AccountAssumption, IdentityAssumption
    PROVE  ExtSpec => []AttemptsSound
  <1>1. ASSUME ExtInv
        PROVE  AttemptsSound
    <2>1. \A a \in Attempts : used[a] <= 1
      BY <1>1 DEF ExtInv, AttemptInv
    <2>2. \A c \in Callbacks : Spent(ext[c]) /\ Proven(ext[c])
      BY <1>1, CallbackFacts
    <2> QED
      BY <2>1, <2>2 DEF AttemptsSound, Spent, Proven
  <1> QED
    BY <1>1, ExtInvariantHolds, PTL

\* Open sessions are of the current password and of active accounts with provider logins as
\* well, which open sessions that no request takes part in: the row of the account is locked
\* from the check of its activity to the commit.
THEOREM OnlyCurrentSessionsBesideProviders ==
    ASSUME AccountAssumption, IdentityAssumption
    PROVE  ExtSpec => []SessionsCurrent
  <1>1. ExtInv => SessionsCurrent
    BY DEF ExtInv, AccountInv
  <1> QED
    BY <1>1, ExtInvariantHolds, PTL

\* An ended session stays useless while callbacks log in, reauthenticate and unlink.
THEOREM EndedSessionsUselessBesideProviders ==
    ASSUME AccountAssumption, IdentityAssumption
    PROVE  ExtSpec => []EndedIsUseless
  <1>1. ASSUME AccountInv
        PROVE  EndedIsUseless
    BY <1>1, RequestFacts DEF EndedIsUseless, Shape, Checked, Permitted
  <1>2. ExtInv => EndedIsUseless
    BY <1>1 DEF ExtInv
  <1> QED
    BY <1>2, ExtInvariantHolds, PTL

\* Steps of callbacks change nobody's access: an account that a provider login creates is a
\* customer.
LEMMA EveryExtAccessStep ==
    ASSUME AccountAssumption, IdentityAssumption, ExtInv, [ExtNext]_allVars
    PROVE  AccessStep
  <1>1. AccountInv /\ RowInv /\ users \in [Users -> User]
    BY DEF ExtInv, AccountInv, TableTypes
  <1>2. CASE AccountStep
    <2>1. Next
      BY <1>2 DEF AccountStep, Next
    <2> QED
      BY <1>1, <2>1, EveryAccessStep
  <1>3. CASE users' = users
    BY <1>1, <1>3, AccessSame
  <1>4. ASSUME NEW c \in Callbacks, CommitLogin(c)
        PROVE  AccessStep
    <2>1. CASE ext[c].found = None
      <3>1. users' = [users EXCEPT ![ext[c].user].exists = TRUE]
        BY <1>4, <2>1 DEF CommitLogin
      <3>2. \A u \in Users : /\ users[u].exists => users'[u].exists
                             /\ users'[u].role = users[u].role
                             /\ users'[u].active = users[u].active
        BY <1>1, <3>1 DEF User
      <3> QED
        BY <1>1, <3>2, AccessSame
    <2>2. CASE ext[c].found # None
      BY <1>3, <1>4, <2>2 DEF CommitLogin
    <2> QED
      BY <2>1, <2>2
  <1>5. ASSUME NEW c \in Callbacks, Finish(c)
        PROVE  AccessStep
    BY <1>3, <1>4, <1>5 DEF Finish, CommitReauthenticate, CommitLink, CommitUnlink
  <1> QED
    BY <1>2, <1>3, <1>5 DEF ExtNext, Begin, Expire, Callback, Unlink, ReadLink, LockExternal,
       LockOwner, LockAddress, FailExt, Deny, Step, vars, allVars

\* Access is guarded as before, whatever callbacks do at the same time.
THEOREM AccessIsGuardedBesideProviders ==
    ASSUME AccountAssumption, IdentityAssumption
    PROVE  ExtSpec => AccessGuarded
  <1>1. ExtInv /\ [ExtNext]_allVars => [AccessStep]_vars
    BY EveryExtAccessStep
  <1> QED
    BY <1>1, ExtInvariantHolds, PTL DEF ExtSpec, AccessGuarded

\* Who waits for the lock of a subject, of an address or of a row, and for whom.
LEMMA AwaitedByCallbackFacts ==
    ASSUME AccountAssumption, IdentityAssumption, ExtInv, NEW c \in Callbacks,
           NEW o \in AwaitedByCallback(c)
    PROVE  /\ ext[c].pc \in {"ext", "owner", "email"} /\ o \in Requests \cup Callbacks
           /\ o \in Requests => /\ ext[c].pc = "owner"
                                /\ req[o].pc \in {"target", "previous", "commit"}
           /\ o \in Callbacks =>
                 /\ ext[o].pc \in {"owner", "email", "commit"}
                 /\ ext[c].pc # "ext" => ext[o].pc = "commit"
  <1>1. Form(ext[c]) /\ ext[c].pc \in {"ext", "owner", "email"} /\ o # None /\ o # c
    BY CallbackFacts DEF AwaitedByCallback
  <1>2. /\ ext[c].pc = "ext" => o = extLock[ext[c].subject] /\ ext[c].subject \in Subjects
        /\ ext[c].pc = "owner" => o = userLock[ext[c].user] /\ ext[c].user \in Users
        /\ ext[c].pc = "email" => o = emailLock[ext[c].user] /\ ext[c].user \in Users
    BY <1>1 DEF AwaitedByCallback, Form
  <1>3. /\ o \in Requests \cup Callbacks /\ Callbacks \cap Requests = {}
        /\ o \in Requests => ext[c].pc = "owner"
    BY <1>1, <1>2, LockTypes, ExtConstantTypes
  <1>4. ASSUME o \in Requests
        PROVE  req[o].pc \in {"target", "previous", "commit"}
    <2>1. HasRow(req[o], ext[c].user)
      BY <1>2, <1>3, <1>4, RequestFacts DEF ExtInv
    <2> QED
      BY <2>1 DEF HasRow
  <1>5. o \in Callbacks => LocksAt(o, ext[o])
    BY CallbackFacts
  <1>6. o \in Callbacks => /\ ext[o].pc \in {"owner", "email", "commit"}
                           /\ ext[c].pc # "ext" => ext[o].pc = "commit"
    BY <1>1, <1>2, <1>5 DEF LocksAt
  <1> QED
    BY <1>1, <1>3, <1>4, <1>6

\* How far a request or a callback has come with its locks.
Level(w) ==
    LET pc == IF w \in Requests THEN req[w].pc ELSE ext[w].pc
    IN  CASE pc = "member" -> 1
          [] pc = "ext" -> 2
          [] pc \in {"user", "owner"} -> 3
          [] pc \in {"target", "email"} -> 4
          [] OTHER -> 5

\* Whoever waits, waits for somebody who has come further.
LEMMA FurtherAwaited ==
    ASSUME AccountAssumption, IdentityAssumption, ExtInv, NEW w \in Requests \cup Callbacks,
           NEW o \in (IF w \in Requests THEN Awaited(w) ELSE AwaitedByCallback(w))
    PROVE  /\ Level(w) < Level(o)
           /\ o \in Requests => req[o].pc # "idle"
           /\ o \in Callbacks => ext[o].pc # "idle"
  <1>0. AccountInv /\ Callbacks \cap Requests = {}
    BY ExtConstantTypes DEF ExtInv
  <1>1. CASE w \in Requests
    <2>1. /\ req[w].pc \in {"member", "user", "target"} /\ o \in Requests \cup Callbacks
          /\ req[w].pc = "member" => o \in Requests
          /\ o \notin Requests => \E u \in Users : userLock[u] = o
          /\ o \in Requests =>
                /\ req[w].pc = "member" => req[o].pc \in {"user", "target", "commit"}
                /\ req[w].pc = "user" => req[o].pc \in {"target", "previous", "commit"}
                /\ req[w].pc = "target" => req[o].pc \in {"previous", "commit"}
      BY <1>0, <1>1, AwaitedFacts
    <2>2. o \in Callbacks => LocksAt(o, ext[o])
      BY CallbackFacts
    <2>3. o \in Callbacks => ext[o].pc = "commit"
      BY <1>0, <2>1, <2>2 DEF LocksAt
    <2> QED
      BY <1>0, <1>1, <2>1, <2>3 DEF Level
  <1>2. CASE w \in Callbacks
    <2>1. /\ ext[w].pc \in {"ext", "owner", "email"} /\ o \in Requests \cup Callbacks
          /\ o \in Requests => /\ ext[w].pc = "owner"
                               /\ req[o].pc \in {"target", "previous", "commit"}
          /\ o \in Callbacks =>
                /\ ext[o].pc \in {"owner", "email", "commit"}
                /\ ext[w].pc # "ext" => ext[o].pc = "commit"
      BY <1>0, <1>2, AwaitedByCallbackFacts
    <2> QED
      BY <1>0, <1>2, <2>1 DEF Level
  <1> QED
    BY <1>1, <1>2

\* No set of requests and callbacks wait for each other, however many there are.
THEOREM NoDeadlockBesideProviders ==
    ASSUME AccountAssumption, IdentityAssumption
    PROVE  ExtSpec => []AllWaitsEnd
  <1>1. ASSUME ExtInv
        PROVE  AllWaitsEnd
    <2> DEFINE awaited == [w \in Requests \cup Callbacks |->
                             IF w \in Requests THEN Awaited(w) ELSE AwaitedByCallback(w)]
               waiting == {w \in Requests \cup Callbacks : awaited[w] # {}}
    <2> SUFFICES ASSUME NEW S \in (SUBSET waiting) \ {{}}
                 PROVE  \E w \in S : \A o \in awaited[w] :
                          /\ o \notin S
                          /\ o \in Requests => req[o].pc # "idle"
                          /\ o \in Callbacks => ext[o].pc # "idle"
      BY Zenon DEF AllWaitsEnd
    <2>0. /\ S # {} /\ S \subseteq Requests \cup Callbacks
          /\ \A w \in S : awaited[w] =
               IF w \in Requests THEN Awaited(w) ELSE AwaitedByCallback(w)
      OBVIOUS
    <2> HIDE DEF awaited, waiting
    <2>1. \A w \in S : Level(w) \in 1 .. 5
      BY DEF Level
    <2>2. PICK w \in S : \A v \in S : Level(v) <= Level(w)
      <3>1. CASE \E w \in S : Level(w) = 5
        BY <2>1, <3>1
      <3>2. CASE (\A w \in S : Level(w) <= 4) /\ \E w \in S : Level(w) = 4
        BY <2>1, <3>2
      <3>3. CASE (\A w \in S : Level(w) <= 3) /\ \E w \in S : Level(w) = 3
        BY <2>1, <3>3
      <3>4. CASE (\A w \in S : Level(w) <= 2) /\ \E w \in S : Level(w) = 2
        BY <2>1, <3>4
      <3>5. CASE \A w \in S : Level(w) <= 1
        BY <2>0, <2>1, <3>5
      <3> QED
        BY <2>1, <3>1, <3>2, <3>3, <3>4, <3>5
    <2>3. ASSUME NEW o \in awaited[w]
          PROVE  /\ o \notin S
                 /\ o \in Requests => req[o].pc # "idle"
                 /\ o \in Callbacks => ext[o].pc # "idle"
      <3>1. /\ Level(w) < Level(o)
            /\ o \in Requests => req[o].pc # "idle"
            /\ o \in Callbacks => ext[o].pc # "idle"
        BY <1>1, <2>0, <2>3, FurtherAwaited
      <3>2. ASSUME o \in S
            PROVE  FALSE
        BY <2>1, <2>2, <3>1, <3>2
      <3> QED
        BY <3>1, <3>2
    <2> QED
      BY <2>3
  <1> QED
    BY <1>1, ExtInvariantHolds, PTL

\* A step that ends a login with a session.
LEMMA LoginLinked ==
    ASSUME AccountAssumption, IdentityAssumption, ExtInv, [ExtNext]_allVars
    PROVE  LoginIsLinked
  <1> SUFFICES ASSUME NEW c \in Callbacks, ext[c].pc = "commit", ext[c].op = "login",
                      sess' # sess, ext'[c].pc = "idle"
               PROVE  identity'[ext[c].subject] = ext[c].user
    BY DEF LoginIsLinked
  <1>0. ext \in [Callbacks -> Local]
    BY DEF ExtInv, ExtTypeOK
  <1>1. PICK d \in Callbacks : Finish(d)
    BY DEF ExtNext, Begin, Expire, Callback, Unlink, ReadLink, LockExternal, LockOwner, LockAddress,
           FailExt, Deny, Step, AccountStep, vars, allVars, extVars
  <1>2. d = c
    BY <1>0, <1>1 DEF Finish, EndExt
  <1>3. CommitLogin(c) /\ Form(ext[c]) /\ ext[c].subject \in Subjects
    BY <1>1, <1>2, CallbackFacts
       DEF Finish, CommitReauthenticate, CommitLink, CommitUnlink, Form
  <1>4. identity \in [Subjects -> Users \cup {None}]
    BY DEF ExtInv, ExtTypeOK
  <1>5. CASE ext[c].found = None
    BY <1>3, <1>4, <1>5 DEF CommitLogin
  <1>6. CASE ext[c].found # None
    BY <1>3, <1>4, <1>6 DEF CommitLogin, StillLinked, Form
  <1> QED
    BY <1>5, <1>6

\* A provider login opens a session only for the account its subject is linked to.
THEOREM LoginsAreLinked ==
    ASSUME AccountAssumption, IdentityAssumption
    PROVE  ExtSpec => SessionOfLinkedIdentity
  <1>1. ExtInv /\ [ExtNext]_allVars => [LoginIsLinked]_allVars
    BY LoginLinked
  <1> QED
    BY <1>1, ExtInvariantHolds, PTL DEF ExtSpec, SessionOfLinkedIdentity
=============================================================================
