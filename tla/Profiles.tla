------------------------------ MODULE Profiles ------------------------------
(***************************************************************************)
(* Customer profiles and address books: update_profile, save_address and   *)
(* delete_address.                                                         *)
(*                                                                         *)
(* A request resolves its session, locks its user's row in authorize, reads *)
(* what it needs and writes in one transaction.  The session it works with *)
(* keeps the objects it has loaded and writes only the columns that differ *)
(* from them, so what it has loaded must be what is stored.                *)
(***************************************************************************)
EXTENDS Integers, FiniteSets

CONSTANTS
    Users, Requests, Kinds,
    Ids,            \* address ids
    Inputs,         \* profiles that requests submit
    FirstProfile,   \* the profile users start with
    Limit,          \* addresses a user may have
    None            \* no address id: a new address

ProfileAssumption ==
    /\ Limit \in Nat /\ None \notin Ids \cup Users /\ IsFiniteSet(Ids)
    /\ FirstProfile \in Inputs
    /\ \A p \in Inputs : p = [name |-> p.name, phone |-> p.phone]

VARIABLES
    profile,    \* the users' profiles: [name, phone]
    rows,       \* stored addresses
    req         \* requests under way

vars == <<profile, rows, req>>

Row == [user : Users, kind : Kinds, dflt : BOOLEAN]
Absent == [user |-> None, kind |-> None, dflt |-> FALSE]

Idle == [stage |-> "idle", op |-> None, user |-> None, id |-> None, kind |-> None,
         dflt |-> FALSE, view |-> FirstProfile, want |-> FirstProfile, loaded |-> Absent]

Init ==
    /\ profile = [u \in Users |-> FirstProfile]
    /\ rows = [i \in Ids |-> Absent]
    /\ req = [r \in Requests |-> Idle]

Owned(u) == {i \in Ids : rows[i].user = u}
Defaults(u, k) == {i \in Owned(u) : rows[i].kind = k /\ rows[i].dflt}

At(r, stage) == req[r].stage = stage
End(r) == req' = [req EXCEPT ![r] = Idle]

-----------------------------------------------------------------------------
(* Requests                                                                *)

\* current_actor: resolve loads the user into the request's session.
Begin(r, op, u, i, k, d, want) ==
    /\ At(r, "idle")
    /\ req' = [req EXCEPT ![r] = [Idle EXCEPT !.stage = "resolved", !.op = op, !.user = u,
                  !.id = i, !.kind = k, !.dflt = d, !.want = want, !.view = profile[u]]]
    /\ UNCHANGED <<profile, rows>>

Request(r) ==
    \E u \in Users :
        \/ \E want \in Inputs : Begin(r, "profile", u, None, None, FALSE, want)
        \/ \E i \in Ids \cup {None}, k \in Kinds, d \in BOOLEAN :
              Begin(r, "save", u, i, k, d, FirstProfile)
        \/ \E i \in Ids : Begin(r, "delete", u, i, None, FALSE, FirstProfile)

\* Mutation of UserFree: the user's row is read without a lock.
UserShared(u) == TRUE

\* SELECT ... FOR UPDATE on the user waits for the transactions that have it.
UserFree(u) ==
    \A q \in Requests : req[q].user = u => req[q].stage \notin {"locked", "checked"}

\* Mutation of Refreshed: the user loaded by resolve is used as it is.
RefreshedNever(r) == req[r].view

\* populate_existing: the session's copy becomes the row as it is under the lock.
Refreshed(r) == profile[req[r].user]

Lock(r) ==
    /\ At(r, "resolved") /\ UserFree(req[r].user)
    /\ req' = [req EXCEPT ![r].stage = "locked", ![r].view = Refreshed(r)]
    /\ UNCHANGED <<profile, rows>>

\* authorize refuses (the session or the user has gone), or the request dies: rollback.
GiveUp(r) ==
    /\ req[r].stage \in {"resolved", "locked", "checked"} /\ End(r)
    /\ UNCHANGED <<profile, rows>>

\* Only the columns that differ from the session's copy are written.
UpdateProfile(r) ==
    LET u == req[r].user
        Column(c) == IF req[r].want[c] = req[r].view[c] THEN profile[u][c] ELSE req[r].want[c]
    IN  /\ At(r, "locked") /\ req[r].op = "profile"
        /\ profile' = [profile EXCEPT ![u] = [c \in {"name", "phone"} |-> Column(c)]]
        /\ End(r)
        /\ UNCHANGED rows

\* The address must be the user's own; a new one must fit the limit.
Acceptable(r) ==
    IF req[r].id = None THEN Cardinality(Owned(req[r].user)) < Limit
    ELSE rows[req[r].id].user = req[r].user

Check(r) ==
    /\ At(r, "locked") /\ req[r].op \in {"save", "delete"}
    /\ IF Acceptable(r)
       THEN req' = [req EXCEPT ![r].stage = "checked",
                        ![r].loaded = IF req[r].id = None THEN Absent ELSE rows[req[r].id]]
       ELSE End(r)
    /\ UNCHANGED <<profile, rows>>

\* Mutation of Cleared: only a new address clears the default before it.
ClearedForNew(r) ==
    IF req[r].dflt /\ req[r].id = None THEN Defaults(req[r].user, req[r].kind) ELSE {}

\* The addresses that the bulk UPDATE makes ordinary.
Cleared(r) == IF req[r].dflt THEN Defaults(req[r].user, req[r].kind) ELSE {}

\* Mutation of Synchronised: the bulk UPDATE leaves the session's copy alone.
Unsynchronised(r) == req[r].loaded.dflt

\* The bulk UPDATE is evaluated on the session's copies as well.
Synchronised(r) == req[r].loaded.dflt /\ req[r].id \notin Cleared(r)

\* The address as the flush writes it.
Saved(r) ==
    LET now == IF req[r].id \in Cleared(r) THEN FALSE ELSE rows[req[r].id].dflt
    IN  [user |-> req[r].user, kind |-> req[r].kind,
         dflt |-> IF req[r].id = None \/ req[r].dflt # Synchronised(r) THEN req[r].dflt ELSE now]

\* The unique index on the default of a user's kind.
Conflict(r, i) ==
    Saved(r).dflt /\ Defaults(req[r].user, req[r].kind) \ (Cleared(r) \cup {i}) # {}

SaveAddress(r) ==
    /\ At(r, "checked") /\ req[r].op = "save"
    /\ \E i \in IF req[r].id = None THEN {j \in Ids : rows[j] = Absent} ELSE {req[r].id} :
        IF Conflict(r, i) THEN req' = [req EXCEPT ![r].stage = "conflict"] /\ UNCHANGED rows
        ELSE /\ rows' = [j \in Ids |-> IF j = i THEN Saved(r)
                            ELSE IF j \in Cleared(r) THEN [rows[j] EXCEPT !.dflt = FALSE]
                            ELSE rows[j]]
             /\ req' = [req EXCEPT ![r].stage = "saved", ![r].id = i]
    /\ UNCHANGED profile

DeleteAddress(r) ==
    /\ At(r, "checked") /\ req[r].op = "delete"
    /\ rows' = [rows EXCEPT ![req[r].id] = Absent]
    /\ End(r)
    /\ UNCHANGED profile

Respond(r) ==
    /\ req[r].stage \in {"saved", "conflict"} /\ End(r)
    /\ UNCHANGED <<profile, rows>>

Next ==
    \E r \in Requests :
        Request(r) \/ Lock(r) \/ GiveUp(r) \/ UpdateProfile(r) \/ Check(r)
          \/ SaveAddress(r) \/ DeleteAddress(r) \/ Respond(r)

Spec == Init /\ [][Next]_vars

-----------------------------------------------------------------------------
(* Properties                                                              *)

\* AddressLimitReachedError holds the line however many requests of one user save at once:
\* the count each of them takes is still true when it inserts.
AddressLimit == \A u \in Users : Cardinality(Owned(u)) <= Limit

\* The service clears the old default itself: the unique index is never what refuses a
\* save, in whatever order addresses become default, ordinary, another kind or deleted.
NeverRefused == \A r \in Requests : ~At(r, "conflict")

StoresAsAsked ==
    \A r \in Requests : At(r, "checked") /\ req'[r].stage = "saved" =>
        LET i == req'[r].id IN
          /\ rows'[i] = [user |-> req[r].user, kind |-> req[r].kind, dflt |-> req[r].dflt]
          /\ req[r].dflt => \A j \in Ids \ {i} :
                ~(rows'[j].user = req[r].user /\ rows'[j].kind = req[r].kind /\ rows'[j].dflt)
          /\ \A j \in Ids \ {i} : rows[j].user # req[r].user => rows'[j] = rows[j]

\* A committed save stores what was asked: the address has the kind and the default flag
\* of the input, is the only default of its kind if it is one, and no other user's
\* addresses change.
SavedAsAsked == [][StoresAsAsked]_vars

\* A stored profile is one that some request submitted as a whole: no update mixes its
\* columns with those of an update that committed while it waited.
ProfileWhole == \A u \in Users : profile[u] \in Inputs

\* Concurrent saves of a user keep to the limit, to one default per kind and to whole
\* profiles.
SavesConsistent == AddressLimit /\ NeverRefused /\ ProfileWhole
=============================================================================
