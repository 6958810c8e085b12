--------------------------- MODULE ProfilesProofs ---------------------------
(* Address limit, default flags and whole profiles, for any number of users, addresses and
   concurrent requests. *)
EXTENDS Profiles, FiniteSetTheorems, TLAPS

AnyRow == Row \cup {Absent}

Local == [stage : {"idle", "resolved", "locked", "checked", "saved", "conflict"},
          op : {None, "profile", "save", "delete"}, user : Users \cup {None},
          id : Ids \cup {None}, kind : Kinds \cup {None}, dflt : BOOLEAN, view : Inputs,
          want : Inputs, loaded : AnyRow]

Types ==
    /\ profile \in [Users -> Inputs] /\ rows \in [Ids -> AnyRow]
    /\ req \in [Requests -> Local]

Holds(r) == req[r].stage \in {"locked", "checked"}

\* A request names a user, and an address to delete.
FormInv ==
    \A r \in Requests : req[r].stage # "idle" =>
        /\ req[r].user \in Users
        /\ req[r].op = "save" => req[r].kind \in Kinds
        /\ req[r].op = "delete" => req[r].id \in Ids
        /\ req[r].stage = "checked" => req[r].op \in {"save", "delete"}

\* The lock of a user's row.
LockInv ==
    \A q, r \in Requests : q # r /\ Holds(q) /\ Holds(r) => req[q].user # req[r].user

\* What a request has read under the lock is still what is stored.
ViewInv == \A r \in Requests : Holds(r) => req[r].view = profile[req[r].user]

CheckInv ==
    \A r \in Requests : req[r].stage = "checked" =>
        IF req[r].id = None THEN Cardinality(Owned(req[r].user)) < Limit
        ELSE req[r].loaded = rows[req[r].id] /\ rows[req[r].id].user = req[r].user

IInv == /\ Types /\ FormInv /\ LockInv /\ ViewInv /\ CheckInv
        /\ AddressLimit /\ NeverRefused

\* Users own finitely many addresses.
LEMMA OwnedFinite ==
    ASSUME ProfileAssumption, NEW u
    PROVE  IsFiniteSet(Owned(u)) /\ Cardinality(Owned(u)) \in Nat
  <1>1. Owned(u) \subseteq Ids /\ IsFiniteSet(Ids)
    BY DEF ProfileAssumption, Owned
  <1> QED
    BY <1>1, FS_Subset, FS_CardinalityType

\* Nothing is stored and nobody asks at the start.
LEMMA InitIInv ==
    ASSUME ProfileAssumption, Init
    PROVE  IInv
  <1>1. /\ profile = [u \in Users |-> FirstProfile] /\ rows = [i \in Ids |-> Absent]
        /\ req = [r \in Requests |-> Idle] /\ FirstProfile \in Inputs
    BY DEF Init, ProfileAssumption
  <1>2. Idle \in Local /\ Idle.stage = "idle"
    BY <1>1 DEF Idle, Local, AnyRow
  <1>3. Types
    BY <1>1, <1>2 DEF Types, AnyRow
  <1>4. FormInv /\ LockInv /\ ViewInv /\ CheckInv /\ NeverRefused
    BY <1>1, <1>2 DEF FormInv, LockInv, ViewInv, CheckInv, NeverRefused, Holds, At
  <1>5. AddressLimit
    <2> SUFFICES ASSUME NEW u \in Users
                 PROVE  Cardinality(Owned(u)) <= Limit
      BY DEF AddressLimit
    <2>1. Owned(u) = {}
      BY <1>1 DEF Owned, Absent, ProfileAssumption
    <2> QED
      BY <2>1, FS_EmptySet DEF ProfileAssumption
  <1> QED
    BY <1>3, <1>4, <1>5 DEF IInv

\* A step that changes one request, and no table, keeps the invariant if what the request
\* turns into is sound.
LEMMA RequestOnly ==
    ASSUME IInv, NEW r \in Requests, NEW s \in Local, req' = [req EXCEPT ![r] = s],
           UNCHANGED <<profile, rows>>, s.stage # "conflict",
           s.stage # "idle" =>
             /\ s.user \in Users
             /\ s.op = "save" => s.kind \in Kinds
             /\ s.op = "delete" => s.id \in Ids,
           s.stage \in {"locked", "checked"} =>
             /\ s.view = profile[s.user]
             /\ \A q \in Requests : q # r /\ Holds(q) => req[q].user # s.user,
           s.stage = "checked" =>
             /\ s.op \in {"save", "delete"}
             /\ IF s.id = None THEN Cardinality(Owned(s.user)) < Limit
                ELSE s.loaded = rows[s.id] /\ rows[s.id].user = s.user
    PROVE  IInv'
  <1>1. req \in [Requests -> Local]
    BY DEF IInv, Types
  <1>2. req'[r] = s /\ \A q \in Requests : q # r => req'[q] = req[q]
    BY <1>1
  <1>3. Types'
    BY <1>1 DEF IInv, Types
  <1>4. FormInv' /\ LockInv' /\ ViewInv' /\ NeverRefused'
    BY <1>2 DEF IInv, FormInv, LockInv, ViewInv, NeverRefused, Holds, At
  <1>5. \A u : Owned(u)' = Owned(u)
    BY DEF Owned
  <1>6. AddressLimit'
    BY <1>5 DEF IInv, AddressLimit
  <1>7. CheckInv'
    <2> SUFFICES ASSUME NEW q \in Requests, req'[q].stage = "checked"
                 PROVE  IF req'[q].id = None
                        THEN Cardinality({i \in Ids : rows[i].user = req'[q].user}) < Limit
                        ELSE /\ req'[q].loaded = rows[req'[q].id]
                             /\ rows[req'[q].id].user = req'[q].user
      BY DEF CheckInv, Owned
    <2>1. CASE q = r
      BY <1>2, <2>1 DEF Owned
    <2>2. CASE q # r
      BY <1>2, <2>2 DEF IInv, CheckInv, Owned
    <2> QED
      BY <2>1, <2>2
  <1> QED
    BY <1>3, <1>4, <1>6, <1>7 DEF IInv

\* A step that ends the hold of r on its user, and changes rows of this user only, keeps the
\* invariant if it keeps to the limit.
LEMMA OwnRowsOnly ==
    ASSUME ProfileAssumption, IInv, NEW r \in Requests, NEW u \in Users, NEW s \in Local,
           req[r].stage = "checked", req[r].user = u,
           req' = [req EXCEPT ![r] = s], profile' = profile,
           \/ s.stage = "idle"
           \/ s.stage = "saved" /\ s.user = u /\ s.op = "save" /\ s.kind \in Kinds,
           rows' \in [Ids -> AnyRow],
           \A j \in Ids : \/ rows'[j] = rows[j]
                          \/ rows[j].user \in {u, None} /\ rows'[j].user \in {u, None},
           Cardinality(Owned(u)') <= Limit
    PROVE  IInv'
  <1>1. req \in [Requests -> Local] /\ None \notin Users
    BY DEF IInv, Types, ProfileAssumption
  <1>2. req'[r] = s /\ \A q \in Requests : q # r => req'[q] = req[q]
    BY <1>1
  <1>3. s.stage \in {"idle", "saved"} /\ ~Holds(r)'
    BY <1>2 DEF Holds
  <1>4. \A q \in Requests : q # r /\ Holds(q) => req[q].user # u
    BY DEF IInv, LockInv, Holds
  <1>5. Types'
    BY <1>1 DEF IInv, Types
  <1>6. FormInv'
    BY <1>2, <1>3 DEF IInv, FormInv
  <1>7. LockInv' /\ ViewInv' /\ NeverRefused'
    BY <1>2, <1>3 DEF IInv, LockInv, ViewInv, NeverRefused, Holds, At
  <1>8. ASSUME NEW v \in Users, v # u
        PROVE  {j \in Ids : rows'[j].user = v} = {j \in Ids : rows[j].user = v}
    BY <1>1, <1>8
  <1>9. AddressLimit'
    <2> SUFFICES ASSUME NEW v \in Users
                 PROVE  Cardinality({j \in Ids : rows'[j].user = v}) <= Limit
      BY DEF AddressLimit, Owned
    <2>1. CASE v = u
      BY <2>1 DEF Owned
    <2>2. CASE v # u
      BY <1>8, <2>2 DEF IInv, AddressLimit, Owned
    <2> QED
      BY <2>1, <2>2
  <1>10. CheckInv'
    <2> SUFFICES ASSUME NEW q \in Requests, req'[q].stage = "checked"
                 PROVE  IF req'[q].id = None
                        THEN Cardinality({j \in Ids : rows'[j].user = req'[q].user}) < Limit
                        ELSE /\ req'[q].loaded = rows'[req'[q].id]
                             /\ rows'[req'[q].id].user = req'[q].user
      BY DEF CheckInv, Owned
    <2>1. q # r /\ req'[q] = req[q] /\ req[q].stage = "checked"
      BY <1>2, <1>3
    <2>2. req[q].user \in Users /\ req[q].user # u /\ req[q].id \in Ids \cup {None}
      BY <1>1, <1>4, <2>1 DEF IInv, FormInv, Holds, Local
    <2>3. CASE req[q].id = None
      <3>1. Cardinality({j \in Ids : rows[j].user = req[q].user}) < Limit
        BY <2>1, <2>3 DEF IInv, CheckInv, Owned
      <3> QED
        BY <1>8, <2>1, <2>2, <2>3, <3>1
    <2>4. CASE req[q].id # None
      BY <1>1, <2>1, <2>2, <2>4 DEF IInv, CheckInv
    <2> QED
      BY <2>1, <2>3, <2>4
  <1> QED
    BY <1>5, <1>6, <1>7, <1>9, <1>10 DEF IInv

\* Requests begin, wait, give up, look and answer.
LEMMA LockStep ==
    ASSUME ProfileAssumption, IInv, NEW r \in Requests,
           Request(r) \/ Lock(r) \/ GiveUp(r) \/ Check(r) \/ Respond(r)
    PROVE  IInv'
  <1>1. /\ req \in [Requests -> Local] /\ profile \in [Users -> Inputs]
        /\ rows \in [Ids -> AnyRow] /\ req[r] \in Local
    BY DEF IInv, Types
  <1>2. Idle \in Local /\ Idle.stage = "idle"
    BY DEF Idle, Local, AnyRow, ProfileAssumption
  <1>3. CASE End(r) /\ UNCHANGED <<profile, rows>>
    BY <1>2, <1>3, RequestOnly DEF End
  <1>4. CASE Request(r)
    <2>1. PICK op \in {"profile", "save", "delete"}, u \in Users, i \in Ids \cup {None},
               k \in Kinds \cup {None}, d \in BOOLEAN, want \in Inputs :
            /\ Begin(r, op, u, i, k, d, want)
            /\ op = "save" => k \in Kinds
            /\ op = "delete" => i \in Ids
      BY <1>4 DEF Request, ProfileAssumption
    <2> DEFINE s == [Idle EXCEPT !.stage = "resolved", !.op = op, !.user = u, !.id = i,
                        !.kind = k, !.dflt = d, !.want = want, !.view = profile[u]]
    <2>2. s \in Local /\ s.stage = "resolved" /\ s.user = u /\ s.op = op /\ s.kind = k /\ s.id = i
      BY <1>1, <1>2 DEF Idle, Local
    <2>3. req' = [req EXCEPT ![r] = s] /\ UNCHANGED <<profile, rows>>
      BY <2>1 DEF Begin
    <2> HIDE DEF s
    <2> QED
      BY <2>1, <2>2, <2>3, RequestOnly
  <1>5. CASE Lock(r)
    <2> DEFINE s == [req[r] EXCEPT !.stage = "locked", !.view = profile[req[r].user]]
    <2>1. /\ req[r].stage = "resolved" /\ req[r].user \in Users
          /\ req[r].op = "save" => req[r].kind \in Kinds
          /\ req[r].op = "delete" => req[r].id \in Ids
          /\ \A q \in Requests : q # r /\ Holds(q) => req[q].user # req[r].user
      BY <1>5 DEF Lock, At, UserFree, Holds, IInv, FormInv
    <2>2. /\ s \in Local /\ s.stage = "locked" /\ s.user = req[r].user /\ s.op = req[r].op
          /\ s.kind = req[r].kind /\ s.id = req[r].id /\ s.view = profile[req[r].user]
      BY <1>1, <2>1 DEF Local
    <2>3. req' = [req EXCEPT ![r] = s] /\ UNCHANGED <<profile, rows>>
      BY <1>1, <1>5 DEF Lock, Refreshed, Local
    <2> HIDE DEF s
    <2> QED
      BY <2>1, <2>2, <2>3, RequestOnly
  <1>6. CASE Check(r) /\ Acceptable(r)
    <2> DEFINE s == [req[r] EXCEPT !.stage = "checked",
                        !.loaded = IF req[r].id = None THEN Absent ELSE rows[req[r].id]]
    <2>1. /\ req[r].stage = "locked" /\ req[r].op \in {"save", "delete"}
          /\ req[r].user \in Users /\ req[r].view = profile[req[r].user]
          /\ req[r].op = "save" => req[r].kind \in Kinds
          /\ req[r].op = "delete" => req[r].id \in Ids
          /\ \A q \in Requests : q # r /\ Holds(q) => req[q].user # req[r].user
      BY <1>6 DEF Check, At, Holds, IInv, FormInv, LockInv, ViewInv
    <2>2. /\ s \in Local /\ s.stage = "checked" /\ s.user = req[r].user /\ s.op = req[r].op
          /\ s.kind = req[r].kind /\ s.id = req[r].id /\ s.view = req[r].view
          /\ s.loaded = IF req[r].id = None THEN Absent ELSE rows[req[r].id]
      BY <1>1, <2>1 DEF Local, AnyRow
    <2>3. req' = [req EXCEPT ![r] = s] /\ UNCHANGED <<profile, rows>>
      BY <1>1, <1>6 DEF Check, Local
    <2>4. IF req[r].id = None THEN Cardinality(Owned(req[r].user)) < Limit
          ELSE rows[req[r].id].user = req[r].user
      BY <1>6 DEF Acceptable
    <2> HIDE DEF s
    <2> QED
      BY <2>1, <2>2, <2>3, <2>4, RequestOnly
  <1> QED
    BY <1>3, <1>4, <1>5, <1>6 DEF GiveUp, Check, Respond

\* Under the lock the session's copy is the stored row, so the columns that are written and
\* the columns that are left together are the profile that was submitted.
LEMMA UpdateStep ==
    ASSUME ProfileAssumption, IInv, NEW r \in Requests, UpdateProfile(r)
    PROVE  IInv'
  <1>1. /\ req \in [Requests -> Local] /\ profile \in [Users -> Inputs] /\ req[r] \in Local
        /\ rows \in [Ids -> AnyRow]
    BY DEF IInv, Types
  <1>2. PICK u \in Users : u = req[r].user
    BY DEF UpdateProfile, At, IInv, FormInv
  <1>3. req[r].stage = "locked" /\ req[r].view = profile[u] /\ req[r].want \in Inputs
    BY <1>1, <1>2 DEF UpdateProfile, At, IInv, ViewInv, Holds, Local
  <1>4. [c \in {"name", "phone"} |->
            IF req[r].want[c] = req[r].view[c] THEN profile[u][c] ELSE req[r].want[c]]
          = [c \in {"name", "phone"} |-> req[r].want[c]]
    BY <1>3
  <1>5. [c \in {"name", "phone"} |-> req[r].want[c]] = req[r].want
    BY <1>3 DEF ProfileAssumption
  <1>6. profile' = [profile EXCEPT ![u] = req[r].want]
    BY <1>2, <1>4, <1>5 DEF UpdateProfile
  <1>7. req' = [req EXCEPT ![r] = Idle] /\ rows' = rows
    BY DEF UpdateProfile, End
  <1>8. Idle \in Local /\ Idle.stage = "idle"
    BY DEF Idle, Local, AnyRow, ProfileAssumption
  <1>9. req'[r] = Idle /\ \A q \in Requests : q # r => req'[q] = req[q]
    BY <1>1, <1>7
  <1>10. \A q \in Requests : q # r /\ Holds(q) => req[q].user # u
    BY <1>2, <1>3 DEF IInv, LockInv, Holds
  <1>11. Types'
    BY <1>1, <1>3, <1>6, <1>7, <1>8 DEF Types
  <1>12. FormInv' /\ LockInv' /\ NeverRefused'
    BY <1>8, <1>9 DEF IInv, FormInv, LockInv, NeverRefused, Holds, At
  <1>13. ViewInv'
    BY <1>1, <1>6, <1>8, <1>9, <1>10 DEF IInv, FormInv, ViewInv, Holds
  <1>14. CheckInv' /\ AddressLimit'
    BY <1>7, <1>8, <1>9 DEF IInv, CheckInv, AddressLimit, Owned
  <1> QED
    BY <1>11, <1>12, <1>13, <1>14 DEF IInv

\* The flush writes the flag that was asked for: the copy that it compares with is the row
\* as the bulk UPDATE has left it.  So the index finds nothing to refuse.
LEMMA FlagAsAsked ==
    ASSUME IInv, NEW r \in Requests, req[r].stage = "checked"
    PROVE  /\ Saved(r) = [user |-> req[r].user, kind |-> req[r].kind, dflt |-> req[r].dflt]
           /\ \A i \in Ids : ~Conflict(r, i)
  <1>1. req[r] \in Local /\ rows \in [Ids -> AnyRow]
    BY DEF IInv, Types
  <1>2. req[r].id # None => req[r].loaded = rows[req[r].id] /\ req[r].id \in Ids
    BY <1>1 DEF IInv, CheckInv, Local
  <1>3. req[r].dflt \in BOOLEAN /\ req[r].loaded.dflt \in BOOLEAN
    <2>1. req[r].dflt \in BOOLEAN /\ req[r].loaded \in AnyRow
      BY <1>1 DEF Local
    <2>2. \A x \in Row : x.dflt \in BOOLEAN
      BY DEF Row
    <2>3. Absent.dflt \in BOOLEAN
      BY DEF Absent
    <2> QED
      BY <2>1, <2>2, <2>3 DEF AnyRow
  <1>4. Saved(r).dflt = req[r].dflt
    BY <1>2, <1>3 DEF Saved, Synchronised
  <1>5. Saved(r) = [user |-> req[r].user, kind |-> req[r].kind, dflt |-> req[r].dflt]
    BY <1>4 DEF Saved
  <1>6. \A i \in Ids : ~Conflict(r, i)
    BY <1>4 DEF Conflict, Cleared
  <1> QED
    BY <1>5, <1>6

\* What a save does to the table.
LEMMA SaveEffect ==
    ASSUME ProfileAssumption, IInv, NEW r \in Requests, NEW u \in Users, u = req[r].user,
           SaveAddress(r)
    PROVE  \E i \in Ids :
             /\ rows' = [j \in Ids |->
                   IF j = i THEN [user |-> u, kind |-> req[r].kind, dflt |-> req[r].dflt]
                   ELSE IF j \in Cleared(r) THEN [rows[j] EXCEPT !.dflt = FALSE] ELSE rows[j]]
             /\ req' = [req EXCEPT ![r] = [req[r] EXCEPT !.stage = "saved", !.id = i]]
             /\ IF req[r].id = None
                THEN rows[i] = Absent /\ Cardinality(Owned(u)) < Limit
                ELSE i \in Owned(u)
             /\ profile' = profile
  <1>1. req[r] \in Local /\ req \in [Requests -> Local]
    BY DEF IInv, Types
  <1>2. req[r].stage = "checked" /\ profile' = profile
    BY DEF SaveAddress, At
  <1>3. PICK i \in IF req[r].id = None THEN {j \in Ids : rows[j] = Absent} ELSE {req[r].id} :
          IF Conflict(r, i) THEN req' = [req EXCEPT ![r].stage = "conflict"] /\ UNCHANGED rows
          ELSE /\ rows' = [j \in Ids |-> IF j = i THEN Saved(r)
                              ELSE IF j \in Cleared(r) THEN [rows[j] EXCEPT !.dflt = FALSE]
                              ELSE rows[j]]
               /\ req' = [req EXCEPT ![r].stage = "saved", ![r].id = i]
    BY DEF SaveAddress
  <1>4. i \in Ids
    BY <1>1, <1>3 DEF Local
  <1>5. ~Conflict(r, i) /\ Saved(r) = [user |-> u, kind |-> req[r].kind, dflt |-> req[r].dflt]
    BY <1>2, <1>4, FlagAsAsked
  <1>6. req' = [req EXCEPT ![r] = [req[r] EXCEPT !.stage = "saved", !.id = i]]
    BY <1>1, <1>3, <1>5 DEF Local
  <1>7. rows' = [j \in Ids |->
                   IF j = i THEN [user |-> u, kind |-> req[r].kind, dflt |-> req[r].dflt]
                   ELSE IF j \in Cleared(r) THEN [rows[j] EXCEPT !.dflt = FALSE] ELSE rows[j]]
    BY <1>3, <1>5
  <1>8. IF req[r].id = None THEN rows[i] = Absent /\ Cardinality(Owned(u)) < Limit
        ELSE i \in Owned(u)
    BY <1>2, <1>3, <1>4 DEF IInv, CheckInv, Owned
  <1> QED
    BY <1>2, <1>4, <1>6, <1>7, <1>8

\* Saving keeps to the limit.
LEMMA SaveStep ==
    ASSUME ProfileAssumption, IInv, NEW r \in Requests, SaveAddress(r)
    PROVE  IInv'
  <1>1. /\ req \in [Requests -> Local] /\ req[r] \in Local /\ rows \in [Ids -> AnyRow]
        /\ None \notin Users /\ Limit \in Nat
    BY DEF IInv, Types, ProfileAssumption
  <1>2. PICK u \in Users : u = req[r].user
    BY DEF SaveAddress, At, IInv, FormInv
  <1>3. req[r].stage = "checked" /\ req[r].op = "save" /\ req[r].kind \in Kinds
    BY DEF SaveAddress, At, IInv, FormInv
  <1>4. PICK i \in Ids :
             /\ rows' = [j \in Ids |->
                   IF j = i THEN [user |-> u, kind |-> req[r].kind, dflt |-> req[r].dflt]
                   ELSE IF j \in Cleared(r) THEN [rows[j] EXCEPT !.dflt = FALSE] ELSE rows[j]]
             /\ req' = [req EXCEPT ![r] = [req[r] EXCEPT !.stage = "saved", !.id = i]]
             /\ IF req[r].id = None
                THEN rows[i] = Absent /\ Cardinality(Owned(u)) < Limit
                ELSE i \in Owned(u)
             /\ profile' = profile
    BY <1>2, SaveEffect
  <1>5. \A j \in Cleared(r) : j \in Ids /\ rows[j].user = u /\ rows[j] \in Row
    BY <1>1, <1>2 DEF Cleared, Defaults, Owned, AnyRow, Absent
  <1>6. rows' \in [Ids -> AnyRow]
    <2>1. [user |-> u, kind |-> req[r].kind, dflt |-> req[r].dflt] \in Row
      BY <1>1, <1>3 DEF Row, Local
    <2>2. ASSUME NEW j \in Cleared(r)
          PROVE  [rows[j] EXCEPT !.dflt = FALSE] \in Row
      BY <1>5 DEF Row
    <2> QED
      BY <1>1, <1>4, <2>1, <2>2 DEF AnyRow
  <1>7. ASSUME NEW j \in Ids
        PROVE  \/ rows'[j] = rows[j]
               \/ rows[j].user \in {u, None} /\ rows'[j].user \in {u, None}
    <2>1. CASE j = i
      BY <1>4, <2>1 DEF Owned, Absent
    <2>2. CASE j # i /\ j \in Cleared(r)
      <3>1. rows'[j] = [rows[j] EXCEPT !.dflt = FALSE] /\ rows[j].user = u /\ rows[j] \in Row
        BY <1>4, <1>5, <2>2
      <3>2. rows'[j].user = u
        BY <3>1 DEF Row
      <3> QED
        BY <3>1, <3>2
    <2>3. CASE j # i /\ j \notin Cleared(r)
      BY <1>4, <2>3
    <2> QED
      BY <2>1, <2>2, <2>3
  <1>8. Owned(u)' = Owned(u) \cup {i}
    <2>1. ASSUME NEW j \in Ids, j # i
          PROVE  rows'[j].user = u <=> rows[j].user = u
      <3>1. CASE j \in Cleared(r)
        <4>1. rows'[j] = [rows[j] EXCEPT !.dflt = FALSE] /\ rows[j].user = u /\ rows[j] \in Row
          BY <1>4, <1>5, <2>1, <3>1
        <4> QED
          BY <4>1 DEF Row
      <3>2. CASE j \notin Cleared(r)
        BY <1>4, <2>1, <3>2
      <3> QED
        BY <3>1, <3>2
    <2>2. rows'[i].user = u
      BY <1>4
    <2> QED
      BY <2>1, <2>2 DEF Owned
  <1>9. Cardinality(Owned(u)') <= Limit
    <2>1. IsFiniteSet(Owned(u)) /\ Cardinality(Owned(u)) \in Nat
      BY OwnedFinite
    <2>2. CASE req[r].id = None
      <3>1. i \notin Owned(u)
        BY <1>1, <1>4, <2>2 DEF Owned, Absent
      <3>2. Cardinality(Owned(u) \cup {i}) = Cardinality(Owned(u)) + 1
        BY <2>1, <3>1, FS_AddElement
      <3>3. Cardinality(Owned(u)) < Limit
        BY <1>4, <2>2
      <3>4. Cardinality(Owned(u)') = Cardinality(Owned(u)) + 1
        BY <1>8, <3>2
      <3> QED
        BY <1>1, <2>1, <3>3, <3>4
    <2>3. CASE req[r].id # None
      <3>1. Owned(u) \cup {i} = Owned(u)
        BY <1>4, <2>3
      <3> QED
        BY <1>8, <3>1 DEF IInv, AddressLimit
    <2> QED
      BY <2>2, <2>3
  <1> DEFINE s == [req[r] EXCEPT !.stage = "saved", !.id = i]
  <1>10. s \in Local /\ s.stage = "saved" /\ s.user = u /\ s.op = "save" /\ s.kind \in Kinds
    BY <1>1, <1>2, <1>3 DEF Local
  <1>11. req' = [req EXCEPT ![r] = s] /\ profile' = profile
    BY <1>4
  <1> HIDE DEF s
  <1> QED
    BY <1>2, <1>3, <1>6, <1>7, <1>9, <1>10, <1>11, OwnRowsOnly

\* Deleting removes a row of the user's own.
LEMMA DeleteStep ==
    ASSUME ProfileAssumption, IInv, NEW r \in Requests, DeleteAddress(r)
    PROVE  IInv'
  <1>1. /\ req \in [Requests -> Local] /\ rows \in [Ids -> AnyRow] /\ Limit \in Nat
        /\ None \notin Users /\ None \notin Ids
    BY DEF IInv, Types, ProfileAssumption
  <1>2. PICK u \in Users : u = req[r].user
    BY DEF DeleteAddress, At, IInv, FormInv
  <1>3. PICK i \in Ids : i = req[r].id
    BY DEF DeleteAddress, At, IInv, FormInv
  <1>4. rows[i].user = u /\ req[r].stage = "checked"
    BY <1>1, <1>2, <1>3 DEF DeleteAddress, At, IInv, CheckInv
  <1>5. /\ rows' = [rows EXCEPT ![i] = Absent] /\ req' = [req EXCEPT ![r] = Idle]
        /\ profile' = profile
    BY <1>3 DEF DeleteAddress, End
  <1>6. Idle \in Local /\ Idle.stage = "idle"
    BY DEF Idle, Local, AnyRow, ProfileAssumption
  <1>7. rows' \in [Ids -> AnyRow] /\ Absent.user = None
    BY <1>1, <1>5 DEF AnyRow, Absent
  <1>8. ASSUME NEW j \in Ids
        PROVE  \/ rows'[j] = rows[j]
               \/ rows[j].user \in {u, None} /\ rows'[j].user \in {u, None}
    BY <1>1, <1>4, <1>5, <1>7
  <1>9. Cardinality(Owned(u)') <= Limit
    <2>1. Owned(u)' \subseteq Owned(u)
      BY <1>1, <1>5, <1>7 DEF Owned
    <2>2. IsFiniteSet(Owned(u)) /\ Cardinality(Owned(u)) \in Nat
      BY OwnedFinite
    <2>3. /\ Cardinality(Owned(u)') <= Cardinality(Owned(u))
          /\ IsFiniteSet(Owned(u)')
      BY <2>1, <2>2, FS_Subset
    <2>4. Cardinality(Owned(u)') \in Nat
      BY <2>3, FS_CardinalityType
    <2>5. Cardinality(Owned(u)) <= Limit
      BY DEF IInv, AddressLimit
    <2> QED
      BY <1>1, <2>2, <2>3, <2>4, <2>5
  <1>10. PICK s \in Local :
           s.stage = "idle" /\ req' = [req EXCEPT ![r] = s] /\ profile' = profile
    BY <1>5, <1>6
  <1>11. req[r].stage = "checked" /\ req[r].user = u /\ rows' \in [Ids -> AnyRow]
    BY <1>2, <1>4, <1>7
  <1> QED
    BY <1>8, <1>9, <1>10, <1>11, OwnRowsOnly

\* Every step keeps the invariant.
LEMMA NextIInv ==
    ASSUME ProfileAssumption, IInv, [Next]_vars
    PROVE  IInv'
  <1>1. CASE UNCHANGED vars
    BY <1>1 DEF vars, IInv, Types, FormInv, LockInv, ViewInv, CheckInv, AddressLimit,
                NeverRefused, Holds, At, Owned
  <1>2. ASSUME NEW r \in Requests,
               Request(r) \/ Lock(r) \/ GiveUp(r) \/ UpdateProfile(r) \/ Check(r)
                 \/ SaveAddress(r) \/ DeleteAddress(r) \/ Respond(r)
        PROVE  IInv'
    BY <1>2, LockStep, UpdateStep, SaveStep, DeleteStep
  <1> QED
    BY <1>1, <1>2 DEF Next

\* Whatever requests of one user meet, in any order: no more addresses than the limit, no
\* save refused by the unique index on defaults, and no profile that mixes two updates.
THEOREM SavesAreConsistent ==
    ASSUME ProfileAssumption
    PROVE  Spec => []SavesConsistent
  <1>1. Init => IInv
    BY InitIInv
  <1>2. IInv /\ [Next]_vars => IInv'
    BY NextIInv
  <1>3. IInv => SavesConsistent
    BY DEF IInv, Types, SavesConsistent, ProfileWhole
  <1> QED
    BY <1>1, <1>2, <1>3, PTL DEF Spec

\* A committed save stores the kind and the flag that were asked for, leaves no second
\* default of the kind, and touches nobody else's addresses.
THEOREM SavesAsAsked ==
    ASSUME ProfileAssumption
    PROVE  Spec => SavedAsAsked
  <1>1. Init => IInv
    BY InitIInv
  <1>2. IInv /\ [Next]_vars => IInv'
    BY NextIInv
  <1>3. ASSUME IInv, [Next]_vars
        PROVE  [StoresAsAsked]_vars
    <2> SUFFICES ASSUME Next
                 PROVE  StoresAsAsked
      BY <1>3
    <2> SUFFICES ASSUME NEW r \in Requests, req[r].stage = "checked", req'[r].stage = "saved"
                 PROVE  LET i == req'[r].id IN
          /\ rows'[i] = [user |-> req[r].user, kind |-> req[r].kind, dflt |-> req[r].dflt]
          /\ req[r].dflt => \A j \in Ids \ {i} :
                ~(rows'[j].user = req[r].user /\ rows'[j].kind = req[r].kind /\ rows'[j].dflt)
          /\ \A j \in Ids \ {i} : rows[j].user # req[r].user => rows'[j] = rows[j]
      BY DEF StoresAsAsked, At
    <2>1. req \in [Requests -> Local] /\ rows \in [Ids -> AnyRow] /\ req[r] \in Local
      BY <1>3 DEF IInv, Types
    <2>2. PICK u \in Users : u = req[r].user
      BY <1>3 DEF IInv, FormInv
    <2>3. SaveAddress(r)
      <3>1. PICK q \in Requests :
              Request(q) \/ Lock(q) \/ GiveUp(q) \/ UpdateProfile(q) \/ Check(q)
                \/ SaveAddress(q) \/ DeleteAddress(q) \/ Respond(q)
        BY DEF Next
      <3>2. ASSUME q # r
            PROVE  req'[r] = req[r]
        BY <2>1, <3>1, <3>2 DEF Request, Begin, Lock, GiveUp, UpdateProfile, Check, SaveAddress,
                                DeleteAddress, Respond, End
      <3>3. q = r
        BY <3>2
      <3>4. Idle.stage = "idle"
        BY DEF Idle
      <3> QED
        BY <2>1, <3>1, <3>3, <3>4 DEF Request, Begin, Lock, GiveUp, UpdateProfile, Check,
                                DeleteAddress, Respond, End, At
    <2>4. PICK i \in Ids :
             /\ rows' = [j \in Ids |->
                   IF j = i THEN [user |-> u, kind |-> req[r].kind, dflt |-> req[r].dflt]
                   ELSE IF j \in Cleared(r) THEN [rows[j] EXCEPT !.dflt = FALSE] ELSE rows[j]]
             /\ req' = [req EXCEPT ![r] = [req[r] EXCEPT !.stage = "saved", !.id = i]]
             /\ IF req[r].id = None
                THEN rows[i] = Absent /\ Cardinality(Owned(u)) < Limit
                ELSE i \in Owned(u)
             /\ profile' = profile
      BY <1>3, <2>2, <2>3, SaveEffect
    <2>5. req'[r].id = i
      BY <2>1, <2>4 DEF Local
    <2>6. rows'[i] = [user |-> u, kind |-> req[r].kind, dflt |-> req[r].dflt]
      BY <2>4
    <2>7. ASSUME NEW j \in Ids \ {i}, req[r].dflt, rows'[j].user = u,
                 rows'[j].kind = req[r].kind, rows'[j].dflt
          PROVE  FALSE
      <3>1. CASE j \in Cleared(r)
        <4>1. rows'[j] = [rows[j] EXCEPT !.dflt = FALSE] /\ rows[j] \in AnyRow
          BY <2>1, <2>4, <2>7, <3>1
        <4>2. rows'[j].dflt = FALSE
          BY <4>1 DEF AnyRow, Row, Absent
        <4> QED
          BY <2>7, <4>2
      <3>2. CASE j \notin Cleared(r)
        <4>1. rows'[j] = rows[j]
          BY <2>4, <2>7, <3>2
        <4> QED
          BY <2>2, <2>7, <3>2, <4>1 DEF Cleared, Defaults, Owned
      <3> QED
        BY <3>1, <3>2
    <2>8. ASSUME NEW j \in Ids \ {i}, rows[j].user # u
          PROVE  rows'[j] = rows[j]
      BY <2>2, <2>4, <2>8 DEF Cleared, Defaults, Owned
    <2> QED
      BY <2>2, <2>5, <2>6, <2>7, <2>8
  <1> QED
    BY <1>1, <1>2, <1>3, PTL DEF Spec, SavedAsAsked
=============================================================================
