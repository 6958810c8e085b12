------------------------------ MODULE Accounts ------------------------------
(***************************************************************************)
(* Accounts, their sessions, and the administration of both.               *)
(*                                                                         *)
(* Requests run concurrently, each in one READ COMMITTED transaction that  *)
(* locks the rows of the users it decides about; changes of access and the *)
(* bootstrap command first take one advisory lock, so their order is       *)
(* membership, then user rows.  logout, and the replacement of a session   *)
(* by a login, lock no user.  A step ends where the code waits for a lock, *)
(* reads without one, or commits; what a transaction writes appears at its *)
(* commit, and the sessions a revocation hits are those its UPDATE saw.    *)
(* Redis holds hints only: they are written after the read they describe,  *)
(* deleted after the commit, and both may fail without a trace.            *)
(*                                                                         *)
(* Accounts are named by their address and are never deleted; all are      *)
(* verified.  A session and its secret are one name.  Time is the freedom  *)
(* of a session to expire and of its authentication to grow old.           *)
(***************************************************************************)
EXTENDS Integers, FiniteSets

CONSTANTS
    Users,          \* accounts that may come to exist
    InitialAdmins,  \* administrators at the start
    InitialUsers,   \* customers at the start
    Passwordless,   \* those of them that have no password
    Sids,           \* sessions that may come to exist
    Owner,          \* Owner[s]: whose open session s is at the start, or None
    Requests,       \* concurrent requests
    Operations,     \* the operations requests may ask for
    Accesses,       \* roles and activity that change_access is asked for
    MaxPassword,    \* bound: passwords one account has over time
    RedisUp,        \* may Redis answer?
    None            \* no account, session or request

AllOperations == {"login", "logout", "logout_all", "reauthenticate", "reset", "write",
                  "change_access", "bootstrap"}

Roles  == {"customer", "admin"}
Access == [role : Roles, active : BOOLEAN]

AccountAssumption ==
    /\ InitialAdmins \subseteq Users /\ InitialUsers \subseteq Users \ InitialAdmins
    /\ Passwordless \subseteq InitialAdmins \cup InitialUsers
    /\ Owner \in [Sids -> InitialAdmins \cup InitialUsers \cup {None}]
    /\ None \notin Users \cup Sids \cup Requests /\ IsFiniteSet(Requests)
    /\ MaxPassword \in Nat \ {0} /\ RedisUp \in BOOLEAN /\ Accesses \subseteq Access
    /\ Operations \subseteq AllOperations

VARIABLES
    users,      \* users and password_credentials
    sess,       \* auth_sessions
    hints,      \* sessions whose secret has a hint in Redis
    member,     \* the request that has the membership lock
    userLock,   \* userLock[u]: the request that has locked the row of u
    req,        \* local state of the requests
    audit       \* the last record about access in audit_records

tables == <<users, sess, hints, audit>>
locks  == <<member, userLock>>
vars   == <<users, sess, hints, member, userLock, req, audit>>

\* password: which of its passwords the account has, 0 for none.
User == [exists : BOOLEAN, role : Roles, active : BOOLEAN, password : 0 .. MaxPassword]

\* status tells a session ended with all others of its account from one that was logged
\* out or replaced by itself.  password: the one its account had when it was issued.
Session == [user : Users \cup {None}, password : 0 .. MaxPassword, recent : BOOLEAN,
            status : {"none", "open", "expired", "revoked", "logged_out"}]

Stages == {"idle", "resolve", "hint", "member", "user", "target", "previous", "insert",
           "revoke", "commit", "invalidate"}

Request == [pc : Stages, op : AllOperations, user : Users \cup {None},
            sid : Sids \cup {None}, password : 0 .. MaxPassword, target : Users \cup {None},
            access : Access, old : Access, victims : SUBSET Sids, late : BOOLEAN]

Customer == [role |-> "customer", active |-> TRUE]

Idle == [pc |-> "idle", op |-> "login", user |-> None, sid |-> None, password |-> 0,
         target |-> None, access |-> Customer, old |-> Customer, victims |-> {},
         late |-> FALSE]

NoSession == [user |-> None, password |-> 0, recent |-> FALSE, status |-> "none"]

AccessOf(u) == [role |-> users[u].role, active |-> users[u].active]

Admin(u) == users[u].exists /\ users[u].active /\ users[u].role = "admin"

InitialUser(u) ==
    [exists |-> u \in InitialUsers \cup InitialAdmins, active |-> TRUE,
     role |-> IF u \in InitialAdmins THEN "admin" ELSE "customer",
     password |-> IF u \in (InitialUsers \cup InitialAdmins) \ Passwordless THEN 1 ELSE 0]

InitialSession(s) ==
    IF Owner[s] = None THEN NoSession
    ELSE [user |-> Owner[s], password |-> InitialUser(Owner[s]).password, recent |-> TRUE, status |-> "open"]

Init ==
    /\ users = [u \in Users |-> InitialUser(u)]
    /\ sess = [s \in Sids |-> InitialSession(s)] /\ hints = {}
    /\ member = None /\ userLock = [u \in Users |-> None]
    /\ req = [q \in Requests |-> Idle]
    /\ audit = [user |-> None, old |-> Customer, new |-> Customer]

Goto(q, pc) == req' = [req EXCEPT ![q].pc = pc]

\* Mutation of EndAt: the membership lock belongs to the connection.
EndButMembership(q, pc) ==
    /\ UNCHANGED member
    /\ userLock' = [u \in Users |-> IF userLock[u] = q THEN None ELSE userLock[u]]
    /\ req' = [req EXCEPT ![q] = IF pc = "idle" THEN Idle ELSE [@ EXCEPT !.pc = pc]]

\* The transaction of q ends, with its locks; pc is what it still has to do.
EndAt(q, pc) ==
    /\ member' = IF member = q THEN None ELSE member
    /\ userLock' = [u \in Users |-> IF userLock[u] = q THEN None ELSE userLock[u]]
    /\ req' = [req EXCEPT ![q] = IF pc = "idle" THEN Idle ELSE [@ EXCEPT !.pc = pc]]

Rollback(q) == EndAt(q, "idle") /\ UNCHANGED tables

-----------------------------------------------------------------------------
(* Arrivals                                                                *)

Start(q, r) ==
    /\ req[q].pc = "idle" /\ r.op \in Operations
    /\ req' = [req EXCEPT ![q] = r]
    /\ UNCHANGED <<tables, locks>>

\* The bound on sessions that requests may still issue.
Allowance ==
    Cardinality({q \in Requests : req[q].op = "login" /\ req[q].pc # "idle"})
      < Cardinality({s \in Sids : sess[s].status = "none"})

Presented == {s \in Sids : sess[s].status # "none"}

\* A login presents any password the account ever had, and the cookie of the browser.
Login(q) ==
    /\ Allowance
    /\ \E u \in Users, s \in Presented \cup {None} : \E p \in 1 .. users[u].password :
          users[u].exists
          /\ Start(q, [Idle EXCEPT !.pc = "user", !.op = "login", !.user = u, !.sid = s,
                                   !.password = p])

\* current_actor and logout resolve the secret that the request presents; late: the
\* session had ended before the request arrived.
WithSession(q) ==
    \E s \in Presented, op \in {"logout", "logout_all", "write"} :
        Start(q, [Idle EXCEPT !.pc = "resolve", !.op = op, !.user = sess[s].user, !.sid = s,
                              !.late = sess[s].status # "open"])

Reauthenticate(q) ==
    \E s \in Presented : \E p \in 1 .. users[sess[s].user].password :
        Start(q, [Idle EXCEPT !.pc = "resolve", !.op = "reauthenticate",
                              !.user = sess[s].user, !.sid = s, !.password = p,
                              !.late = sess[s].status # "open"])

ChangeAccess(q) ==
    \E s \in Presented, t \in Users, a \in Accesses :
        /\ users[t].exists
        /\ Start(q, [Idle EXCEPT !.pc = "resolve", !.op = "change_access",
                                 !.user = sess[s].user, !.sid = s, !.target = t,
                                 !.access = a, !.late = sess[s].status # "open"])

\* complete_reset once its challenge is consumed (see Challenges).
Reset(q) ==
    \E u \in Users :
        /\ users[u].exists
        /\ users[u].password + Cardinality({p \in Requests : req[p].op = "reset"}) < MaxPassword
        /\ Start(q, [Idle EXCEPT !.pc = "user", !.op = "reset", !.user = u])

Bootstrap(q) ==
    \E u \in Users : Start(q, [Idle EXCEPT !.pc = "member", !.op = "bootstrap", !.target = u,
                                           !.access = [role |-> "admin", active |-> TRUE]])

Arrive(q) == \/ Login(q) \/ WithSession(q) \/ Reauthenticate(q) \/ ChangeAccess(q)
             \/ Reset(q) \/ Bootstrap(q)

-----------------------------------------------------------------------------
(* SessionService.resolve and authorize                                    *)

\* The condition on a session and its account in resolve and authorize.
Live(s) == sess[s].status = "open" /\ users[sess[s].user].active

\* Mutation of Resolves: a hint stands for the session it names.
ResolvesByHint(s) == s \in hints \/ Live(s)

\* The query with the hint, or without one, has the same conditions.
Resolves(s) == Live(s)

\* Redis does what it is asked, or fails.
Cached(h) == \/ hints' = hints
             \/ RedisUp /\ hints' = h

Resolve(q) ==
    /\ req[q].pc = "resolve"
    /\ \/ ~Resolves(req[q].sid) /\ Rollback(q)
       \/ Resolves(req[q].sid) /\ Goto(q, "hint") /\ UNCHANGED <<tables, locks>>

AfterHint(op) == CASE op = "logout" -> "revoke"
                   [] op = "change_access" -> "member"
                   [] OTHER -> "user"

\* The hint is written, or Redis fails, some time after the query.
WriteHint(q) ==
    /\ req[q].pc = "hint"
    /\ Cached(hints \cup {req[q].sid})
    /\ Goto(q, AfterHint(req[q].op))
    /\ UNCHANGED <<users, sess, audit, locks>>

Permitted(q) == req[q].op = "change_access" => users[req[q].user].role = "admin"

RecentEnough(q) == req[q].op = "change_access" => sess[req[q].sid].recent

\* Mutation of Authorized: the session is not read again under the lock.
AuthorizedByResolve(q) == users[req[q].user].active /\ Permitted(q) /\ RecentEnough(q)

Authorized(q) == Live(req[q].sid) /\ Permitted(q) /\ RecentEnough(q)

-----------------------------------------------------------------------------
(* Locks and decisions                                                     *)

\* Mutation of MembershipFree: changes of access do not exclude each other.
MembershipShared == TRUE

MembershipFree == member = None

\* lock_membership; the bootstrap command then looks for the account and for an
\* administrator.
LockMembership(q) ==
    /\ req[q].pc = "member" /\ MembershipFree
    /\ \/ /\ req[q].op = "bootstrap"
          /\ users[req[q].target].exists \/ \E u \in Users : Admin(u)
          /\ Rollback(q)
       \/ /\ req[q].op = "bootstrap" => ~users[req[q].target].exists /\ \A u \in Users : ~Admin(u)
          /\ member' = q
          /\ Goto(q, IF req[q].op = "bootstrap" THEN "commit" ELSE "user")
          /\ UNCHANGED <<tables, userLock>>

OpenSessions(u) == {s \in Sids : sess[s].user = u /\ sess[s].status = "open"}

\* Mutation of PasswordValid: the credential was read before the lock.
PasswordOnceValid(q) == req[q].password > 0

PasswordValid(q) == req[q].password > 0 /\ req[q].password = users[req[q].user].password

\* What each operation checks once it has locked the row of its account.
Granted(q) ==
    LET r == req[q]
    IN  CASE r.op = "login" -> users[r.user].active /\ PasswordValid(q)
          [] r.op = "reauthenticate" -> Live(r.sid) /\ PasswordValid(q)
          [] r.op = "reset" -> users[r.user].active /\ users[r.user].password > 0
          [] r.op = "logout_all" -> TRUE
          [] OTHER -> Authorized(q)

Victims(q) == OpenSessions(req[q].user)

AfterUser(r) == CASE r.op = "login" /\ r.sid # None -> "previous"
                  [] r.op = "change_access" -> "target"
                  [] OTHER -> "commit"

LockUser(q) ==
    LET r == req[q]
    IN  /\ r.pc = "user" /\ userLock[r.user] \in {None, q}
        /\ \/ ~Granted(q) /\ Rollback(q)
           \/ /\ Granted(q)
              /\ userLock' = [userLock EXCEPT ![r.user] = q]
              /\ req' = [req EXCEPT ![q].pc = AfterUser(r),
                                    ![q].victims = IF r.op \in {"logout_all", "reset"}
                                                   THEN Victims(q) ELSE {}]
              /\ UNCHANGED <<tables, member>>

LastAdmin(t) == \A u \in Users \ {t} : ~Admin(u)

ChangeAllowed(t, a) ==
    /\ a # AccessOf(t)
    /\ Admin(t) /\ a # [role |-> "admin", active |-> TRUE] => ~LastAdmin(t)

\* Mutation of TargetVictims: sessions end only with the role they were opened in.
VictimsOfRole(q) == IF req[q].access.role = users[req[q].target].role THEN {}
                    ELSE OpenSessions(req[q].target)

TargetVictims(q) == OpenSessions(req[q].target)

\* change_access locks the row of its target, decides, and stages its writes.
LockTarget(q) ==
    LET t == req[q].target
    IN  /\ req[q].pc = "target" /\ userLock[t] \in {None, q}
        /\ \/ ~ChangeAllowed(t, req[q].access) /\ Rollback(q)
           \/ /\ ChangeAllowed(t, req[q].access)
              /\ userLock' = [userLock EXCEPT ![t] = q]
              /\ req' = [req EXCEPT ![q] = [@ EXCEPT !.pc = "commit", !.old = AccessOf(t),
                                                     !.victims = TargetVictims(q)]]
              /\ UNCHANGED <<tables, member>>

\* login resolves the session its browser had, and revokes it if it is live.
Previous(q) ==
    /\ req[q].pc = "previous"
    /\ \/ /\ Resolves(req[q].sid)
          /\ Cached(hints \cup {req[q].sid})
          /\ req' = [req EXCEPT ![q] = [@ EXCEPT !.pc = "commit", !.victims = {req[q].sid}]]
       \/ ~Resolves(req[q].sid) /\ Goto(q, "commit") /\ UNCHANGED hints
    /\ UNCHANGED <<users, sess, audit, locks>>

\* logout revokes the session it resolved.
RevokeOwn(q) ==
    /\ req[q].pc = "revoke"
    /\ req' = [req EXCEPT ![q] = [@ EXCEPT !.pc = "commit", !.victims = {req[q].sid}]]
    /\ UNCHANGED <<tables, locks>>

-----------------------------------------------------------------------------
(* Commits                                                                 *)

EndedAs(op) == IF op \in {"login", "logout"} THEN "logged_out" ELSE "revoked"

Ended(q) ==
    [s \in Sids |-> IF s \in req[q].victims /\ sess[s].status = "open"
                    THEN [sess[s] EXCEPT !.status = EndedAs(req[q].op)] ELSE sess[s]]

Issued(q) == [user |-> req[q].user, password |-> req[q].password, recent |-> TRUE,
              status |-> "open"]

\* The sessions after the commit of q.
SessionsAfter(q) ==
    CASE req[q].op = "login" ->
           {[Ended(q) EXCEPT ![s] = Issued(q)] : s \in {s \in Sids : sess[s].status = "none"}}
      [] req[q].op = "reauthenticate" -> {[sess EXCEPT ![req[q].sid].recent = TRUE]}
      [] OTHER -> {Ended(q)}

\* Mutation of AuditRecord: the old access is the one the new access replaces by then.
AuditOfNew(q) == [user |-> req[q].target, old |-> req[q].access, new |-> req[q].access]

AuditRecord(q) == [user |-> req[q].target, old |-> req[q].old, new |-> req[q].access]

\* The accounts and the audit trail after the commit of q.
Decide(q) ==
    LET r == req[q]
    IN  CASE r.op = "change_access" ->
               /\ users' = [users EXCEPT ![r.target].role = r.access.role,
                                         ![r.target].active = r.access.active]
               /\ audit' = AuditRecord(q)
          [] r.op = "bootstrap" ->
               /\ ~users[r.target].exists      \* the unique constraint
               /\ users' = [users EXCEPT ![r.target] =
                    [exists |-> TRUE, role |-> "admin", active |-> TRUE, password |-> 1]]
               /\ audit' = AuditRecord(q)
          [] r.op = "reset" ->
               users' = [users EXCEPT ![r.user].password = @ + 1] /\ UNCHANGED audit
          [] OTHER -> UNCHANGED <<users, audit>>

Commit(q) ==
    /\ req[q].pc = "commit"
    /\ Decide(q)
    /\ sess' \in SessionsAfter(q)
    /\ EndAt(q, IF req[q].victims = {} THEN "idle" ELSE "invalidate")
    /\ UNCHANGED hints

\* The callback after the commit deletes the hints, or Redis fails.
Invalidate(q) ==
    /\ req[q].pc = "invalidate"
    /\ Cached(hints \ req[q].victims)
    /\ req' = [req EXCEPT ![q] = Idle]
    /\ UNCHANGED <<users, sess, audit, locks>>

\* A crash, a lost connection, a cancelled request.
Fail(q) == req[q].pc # "idle" /\ Rollback(q)

-----------------------------------------------------------------------------

\* An account is registered (see Challenges).
Register(u) ==
    /\ ~users[u].exists
    /\ users' = [users EXCEPT ![u].exists = TRUE, ![u].password = 1]
    /\ UNCHANGED <<sess, hints, locks, req, audit>>

\* Time passes for a session: it expires, or its authentication is no longer recent.
Age(s) ==
    /\ \/ sess[s].status = "open" /\ sess' = [sess EXCEPT ![s].status = "expired"]
       \/ sess[s].recent /\ sess' = [sess EXCEPT ![s].recent = FALSE]
    /\ UNCHANGED <<users, hints, locks, req, audit>>

\* cache_seconds after it was written a hint is gone.
Forget(s) == s \in hints /\ hints' = hints \ {s} /\ UNCHANGED <<users, sess, locks, req, audit>>

Wait(q) == LockMembership(q) \/ LockUser(q) \/ LockTarget(q)

Proceed(q) == \/ Resolve(q) \/ WriteHint(q) \/ Previous(q) \/ RevokeOwn(q) \/ Commit(q)
              \/ Invalidate(q)

Next ==
    \/ \E q \in Requests : Arrive(q) \/ Wait(q) \/ Proceed(q) \/ Fail(q)
    \/ \E u \in Users : Register(u)
    \/ \E s \in Sids : Age(s) \/ Forget(s)

Spec == Init /\ [][Next]_vars

-----------------------------------------------------------------------------
(* Properties                                                              *)

\* Columns and locals hold values of their domains; locks belong to open transactions.
TypeOK ==
    /\ users \in [Users -> User] /\ sess \in [Sids -> Session] /\ hints \subseteq Sids
    /\ member \in Requests \cup {None} /\ userLock \in [Users -> Requests \cup {None}]
    /\ req \in [Requests -> Request]
    /\ \A q \in Requests : req[q].pc \in {"idle", "resolve", "hint"} =>
          member # q /\ \A u \in Users : userLock[u] # q
    /\ audit \in [user : Users \cup {None}, old : Access, new : Access]

\* A session in use was opened with the password the account has now: a reset ends all
\* others, and a login that verified the former password cannot slip in behind it.  Nor
\* has a deactivated account a session left that its reactivation would bring back.
SessionsCurrent ==
    \A s \in Sids : sess[s].status = "open" =>
        /\ sess[s].password = users[sess[s].user].password
        /\ users[sess[s].user].active

\* A session that has ended is of no use.  One that had ended when a request arrived does
\* not get the request past resolve, whatever hints Redis still holds.  And authorize with
\* lock=True: what is about to be committed for an account is backed by an active account
\* of the required role, and by a session that no reset, logout of all sessions or change
\* of access has ended since it was read.
EndedIsUseless ==
    \A q \in Requests :
        /\ req[q].late => req[q].pc \in {"idle", "resolve"}
        /\ req[q].pc = "commit" /\ req[q].op \in {"write", "change_access", "reauthenticate"} =>
              /\ users[req[q].user].active /\ Permitted(q)
              /\ sess[req[q].sid].status # "revoked"

SomeAdmin == \E u \in Users : Admin(u)

ChangeExplained ==
    \A u \in Users : users[u].exists /\ AccessOf(u)' # AccessOf(u)
      => audit' = [user |-> u, old |-> AccessOf(u), new |-> AccessOf(u)']

AccessStep ==
    /\ SomeAdmin => SomeAdmin'
    /\ \A u \in Users : ~users[u].exists /\ users'[u].role = "admin" => ~SomeAdmin
    /\ ChangeExplained

\* "Admin membership changes share one durable serialization boundary": whatever
\* administrators do to each other and themselves, an active one remains; bootstrap
\* creates the first administrator only; and a change of access appears together with
\* the audit record that explains it, which tells what was replaced.
AccessGuarded == [][AccessStep]_vars

\* Who has the lock that q waits for.
Awaited(q) ==
    LET owners == CASE req[q].pc = "member" -> {member}
                    [] req[q].pc = "user" -> {userLock[req[q].user]}
                    [] req[q].pc = "target" -> {userLock[req[q].target]}
                    [] OTHER -> {}
    IN  owners \ {None, q}

\* Nobody waits for good: no set of requests wait for each other or for a request that
\* is over.  change_access locks two accounts in whatever order they come; only the
\* membership lock before them keeps two of them from closing a cycle.
WaitsEnd ==
    \A S \in (SUBSET Requests) \ {{}} : \E q \in S :
        \A p \in Awaited(q) : p \notin S /\ (p \in Requests => req[p].pc # "idle")
=============================================================================
