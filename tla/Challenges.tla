----------------------------- MODULE Challenges -----------------------------
(***************************************************************************)
(* Email challenges, and the two-phase registration and password reset     *)
(* that consume them.                                                      *)
(*                                                                         *)
(* Requests run concurrently, each in one READ COMMITTED transaction.  All *)
(* that touches the challenges of an address, and external logins that     *)
(* create an account for it, first takes the advisory lock of the address; *)
(* the bootstrap command creates an account without it, and only the       *)
(* unique constraint on users.email keeps it apart.  A step ends where the *)
(* code waits for a lock, reads without one, or commits; a transaction's   *)
(* writes appear in the tables at its commit.  A request may fail between  *)
(* any two steps, and is then rolled back.                                 *)
(*                                                                         *)
(* Every committed account has a verified address, so email_verified_at is *)
(* left out.  Ages are relative to the present and capped where no         *)
(* comparison can tell the difference any more.                            *)
(***************************************************************************)
EXTENDS Integers, FiniteSets

CONSTANTS
    Emails,             \* normalized addresses
    Requests,           \* concurrent requests
    ChallengeSeconds,   \* life of a challenge
    ResendSeconds,      \* shortest time between two challenges of a purpose
    ChallengeAttempts,  \* answers one challenge accepts
    MaxIssued,          \* bound: challenges issued in all
    None                \* no request, no address

ChallengeAssumption ==
    /\ {ChallengeSeconds, ResendSeconds, ChallengeAttempts, MaxIssued} \subseteq Nat \ {0}
    /\ None \notin Emails \cup Requests /\ IsFiniteSet(Requests)

VARIABLES
    users,      \* users and their password_credentials, by address
    rows,       \* email_challenges by address and purpose, which are unique together
    held,       \* held[e]: the request that has the advisory lock of e
    userLock,   \* userLock[e]: the request that has locked the row of user e
    inserting,  \* inserting[e]: the request with an uncommitted insert of user e
    req,        \* local state of the requests
    issued,     \* challenges issued so far; a challenge is named by its number
    effects,    \* history: accounts created and passwords reset by each challenge
    wrong,      \* history: wrong answers given to each challenge
    created     \* history: accounts created for each address

tables  == <<users, rows>>
locks   == <<held, userLock, inserting>>
history == <<issued, effects, wrong, created>>
vars    == <<users, rows, held, userLock, inserting, req, issued, effects, wrong, created>>

Purposes == {"registration", "password_reset"}
Ids      == 1 .. MaxIssued
AgeCap   == IF ResendSeconds <= ChallengeSeconds THEN ChallengeSeconds ELSE ResendSeconds

User == [exists : BOOLEAN, active : BOOLEAN, password : {"none", "set"}]
Row  == [id : Ids, attempts : 0 .. ChallengeAttempts, age : 0 .. AgeCap,
         consumed : BOOLEAN]

\* No row; its age lets a challenge be issued at once.
NoRow == [id |-> 0, attempts |-> 0, age |-> AgeCap, consumed |-> FALSE]

Stages == {"idle", "lock", "locked", "consumed", "insert", "user", "commit"}

\* op: issue or consume a challenge, or create an account by an external login or by
\* the bootstrap command.
Request == [pc : Stages, op : {"none", "issue", "consume", "external", "bootstrap"},
            email : Emails \cup {None}, purpose : Purposes, id : Ids \cup {0}]

Idle == [pc |-> "idle", op |-> "none", email |-> None, purpose |-> "registration", id |-> 0]

Init ==
    /\ users = [e \in Emails |-> [exists |-> FALSE, active |-> FALSE, password |-> "none"]]
    /\ rows = [e \in Emails |-> [p \in Purposes |-> NoRow]]
    /\ held = [e \in Emails |-> None] /\ userLock = held /\ inserting = held
    /\ req = [q \in Requests |-> Idle]
    /\ issued = 0 /\ effects = [i \in Ids |-> 0] /\ wrong = effects
    /\ created = [e \in Emails |-> 0]

Start(q, op, e, p, i, pc) ==
    /\ req[q].pc = "idle"
    /\ req' = [req EXCEPT ![q] = [pc |-> pc, op |-> op, email |-> e, purpose |-> p, id |-> i]]
    /\ UNCHANGED <<tables, locks, history>>

Goto(q, pc) == req' = [req EXCEPT ![q].pc = pc]

\* Mutation of Freed: the advisory lock belongs to the connection, not the transaction.
FreedRowsOnly(l, q) == IF l = held THEN l ELSE [e \in Emails |-> IF l[e] = q THEN None ELSE l[e]]

Freed(l, q) == [e \in Emails |-> IF l[e] = q THEN None ELSE l[e]]

\* The transaction of q ends, with its locks.
Finish(q) ==
    /\ held' = Freed(held, q)
    /\ userLock' = Freed(userLock, q)
    /\ inserting' = Freed(inserting, q)
    /\ req' = [req EXCEPT ![q] = Idle]

Rollback(q) == Finish(q) /\ UNCHANGED <<tables, history>>

-----------------------------------------------------------------------------
(* Arrivals                                                                *)

\* The bound on the challenges that requests may still issue.
Allowance == issued + Cardinality({q \in Requests : req[q].op = "issue"}) < MaxIssued

BeginRegistration(q) ==
    Allowance /\ \E e \in Emails : Start(q, "issue", e, "registration", 0, "lock")

Resettable(u) == u.exists /\ u.active /\ u.password = "set"

\* begin_reset reads the account before it waits for the address; what is no account to
\* reset gets a random identifier and changes nothing.
BeginReset(q) ==
    /\ Allowance
    /\ \E e \in Emails : Resettable(users[e]) /\ Start(q, "issue", e, "password_reset", 0, "lock")

\* complete_registration and complete_reset: consume_challenge reads the address of the
\* challenge without a lock.  Unknown and superseded identifiers end here.
Complete(q) ==
    \E e \in Emails, p \in Purposes, purpose \in Purposes :
        /\ rows[e][p] # NoRow
        /\ Start(q, "consume", e, purpose, rows[e][p].id, "lock")

ExternalLogin(q) == \E e \in Emails : Start(q, "external", e, "registration", 0, "lock")

Bootstrap(q) ==
    \E e \in Emails : ~users[e].exists /\ Start(q, "bootstrap", e, "registration", 0, "insert")

\* Mutation of EmailFree: requests for one address do not exclude each other.
EmailShared(e) == TRUE

EmailFree(e) == held[e] = None

LockEmail(q) ==
    /\ req[q].pc = "lock" /\ EmailFree(req[q].email)
    /\ held' = [held EXCEPT ![req[q].email] = q]
    /\ Goto(q, "locked")
    /\ UNCHANGED <<tables, userLock, inserting, history>>

-----------------------------------------------------------------------------
(* issue_challenge                                                         *)

MayIssue(e, p) ==
    /\ rows[e][p].age >= ResendSeconds
    /\ p = "registration" => ~users[e].exists

NewRow(i) == [id |-> i, attempts |-> 0, age |-> 0, consumed |-> FALSE]

\* The previous challenge of the purpose is deleted, whatever its state; within the
\* resend interval, and for an address with an account, nothing is written.
Issue(q) ==
    LET e == req[q].email
        p == req[q].purpose
    IN  /\ req[q].pc = "locked" /\ req[q].op = "issue"
        /\ \/ /\ MayIssue(e, p)
              /\ issued' = issued + 1
              /\ rows' = [rows EXCEPT ![e][p] = NewRow(issued + 1)]
           \/ ~MayIssue(e, p) /\ UNCHANGED <<issued, rows>>
        /\ Finish(q)
        /\ UNCHANGED <<users, effects, wrong, created>>

-----------------------------------------------------------------------------
(* consume_challenge, complete_registration and complete_reset             *)

\* Mutation of Found: the challenge is looked up by address and purpose.
FoundByAddress(q) == rows[req[q].email][req[q].purpose] # NoRow

\* The fresh, locked read: the identifier still names a row, of the purpose asked for.
Found(q) == rows[req[q].email][req[q].purpose].id = req[q].id

Answerable(r) == ~r.consumed /\ r.age < ChallengeSeconds /\ r.attempts < ChallengeAttempts

\* Mutation of Answered: a wrong answer is rolled back with the rest.
AnsweredForFree(r) == r

Answered(r) == [r EXCEPT !.attempts = @ + 1]

\* A refusal commits its audit record, and the attempt if there was one.
Refuse(q) ==
    LET e == req[q].email
        p == req[q].purpose
    IN  /\ req[q].pc = "locked" /\ req[q].op = "consume"
        /\ IF Found(q) /\ Answerable(rows[e][p])
           THEN /\ rows' = [rows EXCEPT ![e][p] = Answered(@)]
                /\ wrong' = [wrong EXCEPT ![req[q].id] = @ + 1]
           ELSE UNCHANGED <<rows, wrong>>
        /\ Finish(q)
        /\ UNCHANGED <<users, issued, effects, created>>

Accept(q) ==
    /\ req[q].pc = "locked" /\ req[q].op = "consume"
    /\ Found(q) /\ Answerable(rows[req[q].email][req[q].purpose])
    /\ Goto(q, "consumed")
    /\ UNCHANGED <<tables, locks, history>>

\* Mutation of Withdraw: the consumption is committed although the request fails.
WithdrawCommitted(q) ==
    /\ Finish(q) /\ UNCHANGED <<users, history>>
    /\ rows' = IF req[q].op = "consume"
               THEN [rows EXCEPT ![req[q].email][req[q].purpose].consumed = TRUE] ELSE rows

\* InvalidChallengeError or AuthenticationRequiredError after the consumption: the unit
\* of work is left without a commit.
Withdraw(q) == Rollback(q)

\* find_user_by_email, without a lock: of registration, reset and external login.
FindUser(q) ==
    LET r == req[q]
        u == users[r.email]
    IN  /\ \/ r.pc = "consumed" /\ r.op = "consume"
           \/ r.pc = "locked" /\ r.op = "external"
        /\ \/ r.purpose = "registration" /\ u.exists /\ Withdraw(q)
           \/ /\ r.purpose = "registration" /\ ~u.exists
              /\ Goto(q, "insert") /\ UNCHANGED <<tables, locks, history>>
           \/ r.purpose = "password_reset" /\ ~u.exists /\ Withdraw(q)
           \/ /\ r.purpose = "password_reset" /\ u.exists
              /\ Goto(q, "user") /\ UNCHANGED <<tables, locks, history>>

\* Mutation of Unique: the table does not constrain the address.
UniqueNever(e) == TRUE

Unique(e) == ~users[e].exists

\* create_customer flushes the insert, which waits for an uncommitted one of the same
\* address and fails when there is a committed one.
InsertUser(q) ==
    /\ req[q].pc = "insert" /\ inserting[req[q].email] = None
    /\ \/ ~Unique(req[q].email) /\ Rollback(q)
       \/ /\ Unique(req[q].email)
          /\ inserting' = [inserting EXCEPT ![req[q].email] = q]
          /\ Goto(q, "commit")
          /\ UNCHANGED <<tables, held, userLock, history>>

\* Mutation of ResetAllowed: only the credential is checked again under the lock.
ResetOfAnyState(u) == u.exists /\ u.password = "set"

ResetAllowed(u) == Resettable(u)

LockUser(q) ==
    /\ req[q].pc = "user" /\ userLock[req[q].email] = None
    /\ \/ ~ResetAllowed(users[req[q].email]) /\ Withdraw(q)
       \/ /\ ResetAllowed(users[req[q].email])
          /\ userLock' = [userLock EXCEPT ![req[q].email] = q]
          /\ Goto(q, "commit")
          /\ UNCHANGED <<tables, held, inserting, history>>

\* An external login creates an account without a password.
NewUser(op) ==
    [exists |-> TRUE, active |-> TRUE, password |-> IF op = "external" THEN "none" ELSE "set"]

\* consumed_at is an update of the challenge's row: had the row been deleted meanwhile,
\* the flush would fail.
Commit(q) ==
    LET r == req[q]
        e == r.email
    IN  /\ r.pc = "commit"
        /\ r.op = "consume" => Found(q)
        /\ \/ r.purpose = "registration"
              /\ users' = [users EXCEPT ![e] = NewUser(r.op)]
              /\ created' = [created EXCEPT ![e] = @ + 1]
           \/ r.purpose = "password_reset" /\ UNCHANGED <<users, created>>
        /\ IF r.op = "consume"
           THEN /\ rows' = [rows EXCEPT ![e][r.purpose] =
                              [Answered(@) EXCEPT !.consumed = TRUE]]
                /\ effects' = [effects EXCEPT ![r.id] = @ + 1]
           ELSE UNCHANGED <<rows, effects>>
        /\ Finish(q)
        /\ UNCHANGED <<issued, wrong>>

\* A crash, a lost connection, a cancelled request or a missing challenge key.
Fail(q) == req[q].pc # "idle" /\ Rollback(q)

-----------------------------------------------------------------------------

\* change_access of an administrator, which locks the row of the account.
ChangeAccess(e) ==
    /\ users[e].exists /\ userLock[e] = None
    /\ users' = [users EXCEPT ![e].active = ~@]
    /\ UNCHANGED <<rows, locks, req, history>>

Older(r) == IF r.age < AgeCap THEN [r EXCEPT !.age = @ + 1] ELSE r

Tick ==
    /\ rows' = [e \in Emails |-> [p \in Purposes |-> Older(rows[e][p])]]
    /\ UNCHANGED <<users, locks, req, history>>

Arrive(q) == \/ BeginRegistration(q) \/ BeginReset(q) \/ Complete(q)
             \/ ExternalLogin(q) \/ Bootstrap(q)

Wait(q) == LockEmail(q) \/ InsertUser(q) \/ LockUser(q)

Proceed(q) == Issue(q) \/ Refuse(q) \/ Accept(q) \/ FindUser(q) \/ Commit(q)

Next ==
    \/ \E q \in Requests : Arrive(q) \/ Wait(q) \/ Proceed(q) \/ Fail(q)
    \/ \E e \in Emails : ChangeAccess(e)
    \/ Tick

Spec == Init /\ [][Next]_vars

-----------------------------------------------------------------------------
(* Properties                                                              *)

\* Columns hold values of their domains: attempts never pass challenge_attempts.
TypeOK ==
    /\ users \in [Emails -> User] /\ rows \in [Emails -> [Purposes -> Row \cup {NoRow}]]
    /\ {held, userLock, inserting} \subseteq [Emails -> Requests \cup {None}]
    /\ req \in [Requests -> Request] /\ issued \in 0 .. MaxIssued
    /\ {effects, wrong} \subseteq [Ids -> Nat] /\ created \in [Emails -> Nat]

\* A challenge is consumed exactly when the account or the password it was issued for
\* has been committed, and then once: a request that fails after the code was accepted
\* leaves the challenge usable, and one that succeeds leaves none to repeat.  And
\* registration, external login and bootstrap together create one account per address.
EffectsOnce ==
    /\ \A i \in Ids : effects[i] <= 1
    /\ \A e \in Emails : created[e] <= 1
    /\ \A e \in Emails, p \in Purposes :
          rows[e][p] # NoRow => (rows[e][p].consumed <=> effects[rows[e][p].id] = 1)

\* However many requests answer one challenge at a time, challenge_attempts bounds the
\* wrong answers it ever takes: their attempts survive the refusal.
BoundedGuesses == \A i \in Ids : wrong[i] <= ChallengeAttempts

Applied(e, p) ==
    rows[e][p] # NoRow /\ effects'[rows[e][p].id] > effects[rows[e][p].id]

\* A step that applies a challenge finds it current, not one that a resend has replaced
\* since the request read it; and it resets the password of an active account only,
\* although begin_reset and the code were checked before the account's row was locked.
Justified ==
    /\ \A i \in Ids : effects'[i] > effects[i] =>
          \E e \in Emails, p \in Purposes : rows[e][p] # NoRow /\ rows[e][p].id = i
    /\ \A e \in Emails : Applied(e, "password_reset") => users[e].active

EffectsJustified == [][Justified]_vars

\* Who has the lock, or the insert under way, that q waits for.
Awaited(q) ==
    LET e == req[q].email
        owners == CASE req[q].pc = "lock" -> {held[e]}
                    [] req[q].pc = "insert" -> {inserting[e]}
                    [] req[q].pc = "user" -> {userLock[e]}
                    [] OTHER -> {}
    IN  owners \ {None, q}

\* Nobody waits for good: no set of requests wait for each other or for a request that is
\* over, although some take an address, an insert and a user row and others skip the first.
WaitsEnd ==
    \A S \in (SUBSET Requests) \ {{}} : \E q \in S :
        \A p \in Awaited(q) : p \notin S /\ req[p].pc # "idle"
=============================================================================
