------------------------- MODULE ExternalIdentities -------------------------
(***************************************************************************)
(* Login, linking and reauthentication with an external provider, and the  *)
(* removal of a link, beside the operations of Accounts.                   *)
(*                                                                         *)
(* A browser starts an attempt, which is stored in Redis and taken from it *)
(* once; the callback exchanges the provider's code for an identity and    *)
(* finishes under the advisory lock of that identity, then the lock of the *)
(* account's row, or of the address for which it creates an account.       *)
(* unlink reads the identity to find out which lock to take.               *)
(*                                                                         *)
(* A subject stands for a provider's account: its provider, and the        *)
(* account whose address the provider has verified for it.  Verification   *)
(* of tokens is external: an exchange yields some subject of the attempt's *)
(* provider, or fails.                                                     *)
(***************************************************************************)
EXTENDS Accounts

CONSTANTS
    Subjects,       \* accounts at providers
    ProviderOf,     \* ProviderOf[x]: the provider of subject x
    EmailOf,        \* EmailOf[x]: the account named by x's verified address, or None
    Linked,         \* Linked[x]: the account x is linked to at the start, or None
    Attempts,       \* bound: attempts that browsers start
    Callbacks       \* concurrent callbacks and unlink requests

IdentityAssumption ==
    /\ EmailOf \in [Subjects -> Users \cup {None}]
    /\ Linked \in [Subjects -> InitialAdmins \cup InitialUsers \cup {None}]
    /\ DOMAIN ProviderOf = Subjects /\ None \notin Subjects \cup Attempts
    /\ Callbacks \cap Requests = {} /\ None \notin Callbacks
    /\ \A u \in Passwordless : \E x \in Subjects : Linked[x] = u

VARIABLES
    identity,       \* external_identities: the account each subject is linked to
    extLock,        \* extLock[x]: who has the advisory lock of subject x
    emailLock,      \* emailLock[u]: who has the advisory lock of the address of u
    attempts,       \* attempts in Redis
    ext,            \* local state of callbacks and unlink requests
    proved,         \* history: sessions that showed a password or a fresh provider login
    used            \* history: committed uses of each attempt

extTables == <<identity, attempts, proved, used>>
extLocks  == <<extLock, emailLock>>
extVars   == <<identity, extLock, emailLock, attempts, ext, proved, used>>
allVars   == <<vars, extVars>>

Providers == {ProviderOf[x] : x \in Subjects}

Attempt == [status : {"unused", "stored", "gone"}, provider : Providers \cup {None},
            intent : {"login", "link", "reauthenticate"}, sid : Sids \cup {None}]

\* op: the intent of the attempt, or unlink.  found: whose identity was read under the
\* lock of the subject.
Local == [pc : {"idle", "read", "ext", "owner", "email", "commit"},
          op : {"login", "link", "reauthenticate", "unlink"}, attempt : Attempts \cup {None},
          subject : Subjects \cup {None}, provider : Providers \cup {None},
          sid : Sids \cup {None}, user : Users \cup {None}, found : Users \cup {None}]

IdleExt == [pc |-> "idle", op |-> "login", attempt |-> None, subject |-> None,
            provider |-> None, sid |-> None, user |-> None, found |-> None]

IdentityInit ==
    /\ identity = Linked
    /\ extLock = [x \in Subjects |-> None] /\ emailLock = [u \in Users |-> None]
    /\ attempts = [a \in Attempts |->
         [status |-> "unused", provider |-> None, intent |-> "login", sid |-> None]]
    /\ ext = [c \in Callbacks |-> IdleExt]
    /\ proved = {s \in Sids : Owner[s] # None} /\ used = [a \in Attempts |-> 0]

ExtInit == Init /\ IdentityInit

\* Mutation of EndExt: the lock of the subject belongs to the connection.
EndButSubject(c) ==
    /\ UNCHANGED extLock
    /\ emailLock' = [u \in Users |-> IF emailLock[u] = c THEN None ELSE emailLock[u]]
    /\ userLock' = [u \in Users |-> IF userLock[u] = c THEN None ELSE userLock[u]]
    /\ ext' = [ext EXCEPT ![c] = IdleExt]
    /\ UNCHANGED <<hints, member, req, audit>>

\* The transaction of c ends, with its locks.
EndExt(c) ==
    /\ extLock' = [x \in Subjects |-> IF extLock[x] = c THEN None ELSE extLock[x]]
    /\ emailLock' = [u \in Users |-> IF emailLock[u] = c THEN None ELSE emailLock[u]]
    /\ userLock' = [u \in Users |-> IF userLock[u] = c THEN None ELSE userLock[u]]
    /\ ext' = [ext EXCEPT ![c] = IdleExt]
    /\ UNCHANGED <<hints, member, req, audit>>

\* A failed handshake is rolled back; its denial record changes nothing else.
Deny(c) == EndExt(c) /\ UNCHANGED <<users, sess, extTables>>

Step(c, r) ==
    ext' = [ext EXCEPT ![c] = r] /\ UNCHANGED <<users, sess, hints, member, req, audit, extTables>>

-----------------------------------------------------------------------------
(* Attempts                                                                *)

\* start, link and reauthenticate_provider: the last two need a session, link a recent
\* one, and bind the attempt to it.
Begin(a) ==
    /\ attempts[a].status = "unused"
    /\ \E p \in Providers, i \in {"login", "link", "reauthenticate"}, s \in Sids \cup {None} :
         /\ i = "login" <=> s = None
         /\ i # "login" => Live(s) /\ (i = "link" => sess[s].recent)
         /\ attempts' = [attempts EXCEPT ![a] =
              [status |-> "stored", provider |-> p, intent |-> i, sid |-> s]]
    /\ UNCHANGED <<vars, identity, extLocks, ext, proved, used>>

\* attempt_seconds are over.
Expire(a) ==
    /\ attempts[a].status = "stored"
    /\ attempts' = [attempts EXCEPT ![a].status = "gone"]
    /\ UNCHANGED <<vars, identity, extLocks, ext, proved, used>>

\* Mutation of Taken: the attempt is read without being deleted.
TakenAndKept(a) == attempts[a]

\* getdel
Taken(a) == [attempts[a] EXCEPT !.status = "gone"]

\* AttemptStore.consume, then resolve of the session the browser has by now unless the
\* intent is login, then the exchange for a subject of the attempt's provider.
Callback(c) ==
    /\ ext[c].pc = "idle"
    /\ \E a \in Attempts, x \in Subjects, s \in Presented \cup {None} :
         /\ attempts[a].status = "stored" /\ attempts[a].provider = ProviderOf[x]
         /\ attempts[a].intent = "login" <=> s = None
         /\ attempts' = [attempts EXCEPT ![a] = Taken(a)]
         /\ \/ attempts[a].intent # "login" /\ ~Live(s) /\ UNCHANGED ext
            \/ /\ attempts[a].intent # "login" => Live(s)
               /\ ext' = [ext EXCEPT ![c] =
                    [pc |-> "ext", op |-> attempts[a].intent, attempt |-> a, subject |-> x,
                     provider |-> ProviderOf[x], sid |-> s, found |-> None,
                     user |-> IF s = None THEN None ELSE sess[s].user]]
    /\ UNCHANGED <<vars, identity, extLocks, proved, used>>

-----------------------------------------------------------------------------
(* finish                                                                  *)

\* Mutation of BoundToSession: any session of the browser will do.
BoundToAny(c) == TRUE

\* actor.user_id = attempt.actor_id and actor.session_id = attempt.session_id
BoundToSession(c) ==
    ext[c].op \in {"link", "reauthenticate"} => ext[c].sid = attempts[ext[c].attempt].sid

\* The identity is read under its lock; a login with a new subject goes on with its
\* verified address, if it has one.
LockExternal(c) ==
    LET r == ext[c]
        x == r.subject
    IN  /\ r.pc = "ext" /\ extLock[x] = None
        /\ \/ ~BoundToSession(c) /\ Deny(c)
           \/ r.op = "login" /\ identity[x] = None /\ EmailOf[x] = None /\ Deny(c)
           \/ /\ BoundToSession(c)
              /\ r.op = "login" /\ identity[x] = None => EmailOf[x] # None
              /\ extLock' = [extLock EXCEPT ![x] = c]
              /\ Step(c, CASE r.op # "login" -> [r EXCEPT !.pc = "owner", !.found = identity[x]]
                           [] r.op = "login" /\ identity[x] # None ->
                                [r EXCEPT !.pc = "owner", !.user = identity[x],
                                          !.found = identity[x]]
                           [] OTHER -> [r EXCEPT !.pc = "email", !.user = EmailOf[x]])
              /\ UNCHANGED <<userLock, emailLock>>

\* Subjects of provider p that are linked to account u; there is at most one.
LinkedTo(u, p) == {x \in Subjects : identity[x] = u /\ ProviderOf[x] = p}

Methods(u) == {x \in Subjects : identity[x] = u}

\* What a callback or an unlink checks once it has locked the row of the account.
MayFinish(c) ==
    LET r == ext[c]
    IN  CASE r.op = "login" -> users[r.user].active
          [] r.op = "reauthenticate" -> Live(r.sid) /\ r.found = r.user
          [] r.op = "link" -> /\ Live(r.sid) /\ sess[r.sid].recent
                              /\ r.found = None /\ LinkedTo(r.user, r.provider) = {}
          [] r.op = "unlink" -> /\ Live(r.sid) /\ sess[r.sid].recent
                                /\ LinkedTo(r.user, r.provider) # {}
                                /\ Cardinality(Methods(r.user)) > 1 \/ users[r.user].password > 0

\* Mutation of OwnerFree: the row of the account is read without a lock.
OwnerShared(u) == TRUE

OwnerFree(u) == userLock[u] = None

\* unlink reads the identity again, which need not be the one whose lock it has.
LockOwner(c) ==
    /\ ext[c].pc = "owner" /\ OwnerFree(ext[c].user)
    /\ \/ ~MayFinish(c) /\ Deny(c)
       \/ /\ MayFinish(c)
          /\ userLock' = [userLock EXCEPT ![ext[c].user] = c]
          /\ Step(c, [ext[c] EXCEPT !.pc = "commit",
                 !.subject = IF ext[c].op = "unlink"
                             THEN CHOOSE x \in LinkedTo(ext[c].user, ext[c].provider) : TRUE
                             ELSE @])
          /\ UNCHANGED extLocks

\* "Email equality is not proof that the account owner consented to linking."
LockAddress(c) ==
    /\ ext[c].pc = "email" /\ emailLock[ext[c].user] = None
    /\ \/ users[ext[c].user].exists /\ Deny(c)
       \/ /\ ~users[ext[c].user].exists
          /\ emailLock' = [emailLock EXCEPT ![ext[c].user] = c]
          /\ Step(c, [ext[c] EXCEPT !.pc = "commit"])
          /\ UNCHANGED <<userLock, extLock>>

-----------------------------------------------------------------------------
(* unlink                                                                  *)

\* A request with a live session asks for a provider to be removed.
Unlink(c) ==
    /\ ext[c].pc = "idle"
    /\ \E s \in Presented, p \in Providers :
          /\ Live(s)
          /\ Step(c, [IdleExt EXCEPT !.pc = "read", !.op = "unlink", !.sid = s,
                                     !.user = sess[s].user, !.provider = p])
    /\ UNCHANGED <<userLock, extLocks>>

\* Without a lock, to learn the subject.
ReadLink(c) ==
    /\ ext[c].pc = "read"
    /\ \/ LinkedTo(ext[c].user, ext[c].provider) = {} /\ Deny(c)
       \/ \E x \in LinkedTo(ext[c].user, ext[c].provider) :
             /\ Step(c, [ext[c] EXCEPT !.pc = "ext", !.subject = x])
             /\ UNCHANGED <<userLock, extLocks>>

-----------------------------------------------------------------------------

\* Mutation of StillLinked: last_login_at is not written.
StillLinkedAssumed(c) == TRUE

\* last_login_at is an update of the identity that was read: it fails if the row is gone.
StillLinked(c) == ext[c].found # None => identity[ext[c].subject] = ext[c].found

\* Mutation of IssuedExternally: a provider login counts as recent authentication.
IssuedAsRecent(u) ==
    [user |-> u, password |-> users[u].password, recent |-> TRUE, status |-> "open"]

\* "Passive provider SSO is not recent explicit reauthentication."
IssuedExternally(u) ==
    [user |-> u, password |-> users[u].password, recent |-> FALSE, status |-> "open"]

FreeSids == {s \in Sids : sess[s].status = "none"}

CommitLogin(c) ==
    LET r == ext[c]
    IN  /\ r.op = "login" /\ StillLinked(c)
        /\ IF r.found = None
           THEN /\ ~users[r.user].exists
                /\ users' = [users EXCEPT ![r.user].exists = TRUE]
           ELSE UNCHANGED users
        /\ identity' = [identity EXCEPT ![r.subject] = IF r.found = None THEN r.user ELSE @]
        /\ \E s \in FreeSids : sess' = [sess EXCEPT ![s] = IssuedExternally(r.user)]
        /\ UNCHANGED proved

CommitReauthenticate(c) ==
    /\ ext[c].op = "reauthenticate" /\ StillLinked(c)
    /\ sess' = [sess EXCEPT ![ext[c].sid].recent = TRUE]
    /\ proved' = proved \cup {ext[c].sid}
    /\ UNCHANGED <<users, identity>>

\* The unique constraint on provider and subject.
CommitLink(c) ==
    /\ ext[c].op = "link" /\ identity[ext[c].subject] = None
    /\ identity' = [identity EXCEPT ![ext[c].subject] = ext[c].user]
    /\ UNCHANGED <<users, sess, proved>>

CommitUnlink(c) ==
    /\ ext[c].op = "unlink"
    /\ identity' = [identity EXCEPT ![ext[c].subject] = None]
    /\ UNCHANGED <<users, sess, proved>>

Finish(c) ==
    /\ ext[c].pc = "commit"
    /\ CommitLogin(c) \/ CommitReauthenticate(c) \/ CommitLink(c) \/ CommitUnlink(c)
    /\ used' = IF ext[c].attempt = None THEN used ELSE [used EXCEPT ![ext[c].attempt] = @ + 1]
    /\ EndExt(c)
    /\ UNCHANGED attempts

\* A crash, a failing flush, a cancelled request; a bound on sessions that is reached.
FailExt(c) == ext[c].pc # "idle" /\ Deny(c)

\* A step of Accounts makes a session recent only if a password was verified for it.
ShownPassword == {s \in Sids : sess'[s].recent /\ ~sess[s].recent}

AccountStep ==
    /\ \/ \E q \in Requests : Arrive(q) \/ Wait(q) \/ Proceed(q) \/ Fail(q)
       \/ \E s \in Sids : Age(s)
       \/ \E u \in Users : emailLock[u] = None /\ Register(u)
    /\ proved' = proved \cup ShownPassword
    /\ UNCHANGED <<identity, extLocks, attempts, ext, used>>

ExtNext ==
    \/ \E a \in Attempts : Begin(a) \/ Expire(a)
    \/ \E c \in Callbacks : \/ Callback(c) \/ Unlink(c) \/ ReadLink(c) \/ LockExternal(c)
                            \/ LockOwner(c) \/ LockAddress(c) \/ Finish(c) \/ FailExt(c)
    \/ AccountStep

ExtSpec == ExtInit /\ [][ExtNext]_allVars

-----------------------------------------------------------------------------
(* Properties                                                              *)

\* Columns and locals hold values of their domains, and an attempt still in Redis has
\* not been used.
ExtTypeOK ==
    /\ identity \in [Subjects -> Users \cup {None}]
    /\ extLock \in [Subjects -> Callbacks \cup {None}]
    /\ emailLock \in [Users -> Callbacks \cup {None}]
    /\ attempts \in [Attempts -> Attempt] /\ ext \in [Callbacks -> Local]
    /\ proved \subseteq Sids /\ used \in [Attempts -> Nat]
    /\ \A a \in Attempts : attempts[a].status # "gone" => used[a] = 0

\* Who has the lock that c waits for.
AwaitedByCallback(c) ==
    LET owners == CASE ext[c].pc = "ext" -> {extLock[ext[c].subject]}
                    [] ext[c].pc = "owner" -> {userLock[ext[c].user]}
                    [] ext[c].pc = "email" -> {emailLock[ext[c].user]}
                    [] OTHER -> {}
    IN  owners \ {None, c}

\* WaitsEnd, with the callbacks: the locks of subjects and addresses come before those of
\* rows, which requests and callbacks wait for and keep while they wait for others; no set
\* of them wait for each other or for one that is over.
AllWaitsEnd ==
    LET awaited == [w \in Requests \cup Callbacks |->
                       IF w \in Requests THEN Awaited(w) ELSE AwaitedByCallback(w)]
        waiting == {w \in Requests \cup Callbacks : awaited[w] # {}}
    IN  \A S \in (SUBSET waiting) \ {{}} : \E w \in S : \A o \in awaited[w] :
            /\ o \notin S
            /\ (o \in Requests => req[o].pc # "idle") /\ (o \in Callbacks => ext[o].pc # "idle")

\* unlink, "final-method protection": every account keeps a password or an identity to
\* log in with, whatever is unlinked at the same time.
LoginMethodRemains ==
    \A u \in Users : users[u].exists => users[u].password > 0 \/ Methods(u) # {}

\* "Persist a one-time attempt": an attempt ends in one login, link or reauthentication
\* at most, however often its callback is called; what is linked or confirmed is the
\* account and session that asked for it, not the one the browser has when it comes back;
\* and links change only for sessions that showed a password or a fresh provider login.
AttemptsSound ==
    /\ \A a \in Attempts : used[a] <= 1
    /\ \A c \in Callbacks :
        /\ ext[c].pc \in {"owner", "commit"} /\ ext[c].op \in {"link", "reauthenticate"}
             => ext[c].sid = attempts[ext[c].attempt].sid
        /\ ext[c].pc = "commit" /\ ext[c].op \in {"link", "unlink"} => ext[c].sid \in proved

LoginIsLinked ==
    \A c \in Callbacks :
        (ext[c].pc = "commit" /\ ext[c].op = "login" /\ sess' # sess /\ ext'[c].pc = "idle")
          => identity'[ext[c].subject] = ext[c].user

\* A provider login opens a session only for an account its subject is linked to when the
\* login commits, although unlink may hold the lock of another subject.
SessionOfLinkedIdentity == [][LoginIsLinked]_allVars
=============================================================================
