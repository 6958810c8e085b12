------------------------------ MODULE Payloads ------------------------------
(***************************************************************************)
(* sanitize_audit_metadata and the payloads of domain events.              *)
(*                                                                         *)
(* Both walk a JSON-like tree in its order with a depth and a budget they  *)
(* count down.  The walk is written as the code has it and compared with a *)
(* definition by paths; every tree of a bounded set is an initial state.   *)
(*                                                                         *)
(* A node is [t, leaf, kids]: a leaf, or a list or map whose kids are      *)
(* [key, val] in order (a list's keys are None).                           *)
(***************************************************************************)
EXTENDS Integers, SequencesExt

CONSTANTS
    Allowed,        \* allowed_metadata_keys
    Sensitive,      \* keys that name a secret
    Unsafe,         \* keys that are not lower snake case
    MaxDepth, MaxFields, MaxItems, MaxTotal,    \* of audit metadata
    MaxLong,        \* long strings that fit the byte limit
    MaxEventDepth, MaxEventValues,
    None

VARIABLE tree

Leaf(x)      == [t |-> "leaf", leaf |-> x, kids |-> <<>>]
Redacted     == Leaf("redacted")
Nodes(k, s)  == [t |-> k, leaf |-> None, kids |-> s]
Named(k, v)  == [key |-> k, val |-> v]

Rejected == [ok |-> FALSE, out |-> <<>>, left |-> 0]
Accepted(out, left) == [ok |-> TRUE, out |-> out, left |-> left]

-----------------------------------------------------------------------------
(* Audit metadata                                                          *)

\* Strings are cut to their limit; numbers that are not finite and types that JSON does
\* not have are refused.
SanitizeLeaf(x, left) ==
    CASE x = "odd"  -> Rejected
      [] x = "long" -> Accepted(Leaf("cut"), left)
      [] OTHER      -> Accepted(Leaf(x), left)

\* Mutation of Masked: a secret is masked only where it is text.
MaskedText(kid) == kid.key \in Sensitive /\ kid.val.t = "leaf"

\* _is_sensitive_key
Masked(kid) == kid.key \in Sensitive

\* Mutation of Charged: list items are free.
ChargedKeys(kid, left) == IF kid.key = None THEN left ELSE left - 1

\* _consume_budget
Charged(kid, left) == left - 1

RECURSIVE SanitizeValue(_, _, _)

\* _sanitize_mapping and the loop over a list: kids in order, one budget for all.
SanitizeKids(kids, depth, budget) ==
    FoldLeft(LAMBDA acc, kid :
        LET left  == Charged(kid, acc.left)
            value == SanitizeValue(kid.val, depth + 1, left)
        IN  IF ~acc.ok \/ (kid.key # None /\ kid.key \notin Allowed) THEN acc
            ELSE IF left < 0 THEN Rejected
            ELSE IF Masked(kid) THEN Accepted(Append(acc.out, Named(kid.key, Redacted)), left)
            ELSE IF ~value.ok THEN Rejected
            ELSE Accepted(Append(acc.out, Named(kid.key, value.out)), value.left),
        Accepted(<<>>, budget), kids)

SanitizeValue(v, depth, budget) ==
    IF depth > MaxDepth THEN Rejected
    ELSE IF v.t = "leaf" THEN SanitizeLeaf(v.leaf, budget)
    ELSE IF Len(v.kids) > (IF v.t = "map" THEN MaxFields ELSE MaxItems) THEN Rejected
    ELSE LET inner == SanitizeKids(v.kids, depth, budget)
         IN  IF inner.ok THEN Accepted(Nodes(v.t, inner.out), inner.left) ELSE Rejected

RECURSIVE LongLeaves(_)

\* What the encoded size depends on.
LongLeaves(v) ==
    IF v.t = "leaf" THEN (IF v.leaf = "cut" THEN 1 ELSE 0)
    ELSE FoldLeft(LAMBDA n, kid : n + LongLeaves(kid.val), 0, v.kids)

\* sanitize_audit_metadata
Sanitize(v) ==
    LET result == SanitizeValue(v, 0, MaxTotal)
    IN  IF result.ok /\ LongLeaves(result.out) <= MaxLong THEN result ELSE Rejected

-----------------------------------------------------------------------------
(* Event payloads                                                          *)

\* Mutation of KeyOk: sensitive keys are looked for at the top only.
KeyOkAtTop(key, depth) == key \notin Unsafe /\ ~(key \in Sensitive /\ depth = 1)

\* _validate_payload_key
KeyOk(key, depth) == key \notin Unsafe \cup Sensitive

\* The depth of the values in v.
Deeper(v, depth) == depth + 1

RECURSIVE FreezeValue(_, _, _)

FreezeKids(kids, depth, budget) ==
    FoldLeft(LAMBDA acc, kid :
        LET value == FreezeValue(kid.val, depth, acc.left)
        IN  IF ~acc.ok \/ ~KeyOk(kid.key, depth) \/ ~value.ok THEN Rejected
            ELSE Accepted(Append(acc.out, Named(kid.key, value.out)), value.left),
        Accepted(<<>>, budget), kids)

FreezeValue(v, depth, budget) ==
    IF depth > MaxEventDepth \/ budget < 1 THEN Rejected
    ELSE IF v.t = "leaf"
    THEN IF v.leaf \in {"odd", "long"} THEN Rejected ELSE Accepted(v, budget - 1)
    ELSE LET inner == FreezeKids(v.kids, Deeper(v, depth), budget - 1)
             t == IF v.t = "map" THEN "map" ELSE "tuple"
         IN  IF inner.ok THEN Accepted(Nodes(t, inner.out), inner.left) ELSE Rejected

\* DomainEvent.__post_init__
Freeze(v) ==
    LET inner == FreezeKids(v.kids, 1, MaxEventValues)
    IN  IF inner.ok THEN Accepted(Nodes("map", inner.out), inner.left) ELSE Rejected

\* Mutation of Detached: tuples are left as they are.
DetachedMaps(t) == t

\* _thaw_value turns tuples back into lists.
Detached(t) == IF t = "tuple" THEN "list" ELSE t

RECURSIVE Thaw(_)

\* payload_dict
Thaw(v) ==
    IF v.t = "leaf" THEN v
    ELSE Nodes(Detached(v.t),
               [i \in DOMAIN v.kids |-> Named(v.kids[i].key, Thaw(v.kids[i].val))])

-----------------------------------------------------------------------------
(* Trees that are tried: up to four levels along one branch, up to three   *)
(* kids, every kind of leaf and key                                        *)

Keys == {"a", "s", "x", "U"}

Leaves == {Leaf(x) : x \in {"num", "long", "odd"}}

Maps1(S)  == {Nodes("map", <<Named(k, v)>>) : k \in Keys, v \in S}
Maps2(S, T) ==
    {Nodes("map", <<Named(k, v), Named(l, w)>>) : <<k, l>> \in {p \in Keys \X Keys : p[1] # p[2]},
                                                  v \in S, w \in T}
Lists1(S) == {Nodes("list", <<Named(None, v)>>) : v \in S}
Lists2(S, T) == {Nodes("list", <<Named(None, v), Named(None, w)>>) : v \in S, w \in T}

Long3 == {Nodes("list", <<Named(None, Leaf("num")), Named(None, Leaf("num")), Named(None, v)>>) :
             v \in Leaves}
Wide3 == {Nodes("map", <<Named(k, Leaf("num")), Named("b", Leaf("long")), Named("x", v)>>) :
             k \in {"a", "s"}, v \in Leaves}

Level1 == Leaves \cup Maps1(Leaves) \cup Lists2(Leaves, Leaves) \cup Long3 \cup Wide3
             \cup {Nodes("map", <<>>), Nodes("list", <<>>)}
Level2 == Level1 \cup Maps1(Level1) \cup Lists1(Level1)
Level3 == Maps1(Maps1(Lists1(Leaves))) \cup Lists1(Lists1(Maps1(Leaves)))

Trees == Maps1(Level2 \cup Level3) \cup Maps2(Level1, Leaves) \cup Maps2(Leaves, Level1)
           \cup Wide3 \cup Maps2({Leaf("num")}, Maps1(Level1))

Init == tree \in Trees
Next == UNCHANGED tree
Spec == Init /\ [][Next]_tree

-----------------------------------------------------------------------------
(* The same by paths                                                       *)

RECURSIVE Paths(_)
Paths(v) == {<<>>} \cup UNION {{<<i>> \o p : p \in Paths(v.kids[i].val)} : i \in DOMAIN v.kids}

RECURSIVE NodeAt(_, _)
NodeAt(v, p) == IF p = <<>> THEN v ELSE NodeAt(v.kids[Head(p)].val, Tail(p))

\* The key of the last step of path p, None in a list.
KeyAt(v, p) == NodeAt(v, Front(p)).kids[Last(p)].key

StepsTo(p) == {SubSeq(p, 1, n) : n \in 1..Len(p)}

\* A node is kept if every key on the way is allowed and no key above its own is a secret.
Kept(v) ==
    {p \in Paths(v) : \A q \in StepsTo(p) :
        /\ KeyAt(v, q) \in Allowed \cup {None}
        /\ q # p => KeyAt(v, q) \notin Sensitive}

Secret(v, p) == p # <<>> /\ KeyAt(v, p) \in Sensitive

\* What is kept respects every limit; what is dropped or masked need not.
Permitted(v) ==
    /\ Cardinality(Kept(v)) - 1 <= MaxTotal
    /\ \A p \in Kept(v) : Secret(v, p) \/
          /\ Len(p) <= MaxDepth
          /\ NodeAt(v, p).leaf # "odd"
          /\ NodeAt(v, p).t = "map"  => Len(NodeAt(v, p).kids) <= MaxFields
          /\ NodeAt(v, p).t = "list" => Len(NodeAt(v, p).kids) <= MaxItems
    /\ Cardinality({p \in Kept(v) : ~Secret(v, p) /\ NodeAt(v, p).leaf = "long"}) <= MaxLong

\* What a kept leaf, list or map looks like in the output.
Shown(v, p) ==
    IF Secret(v, p) THEN "redacted"
    ELSE IF NodeAt(v, p).t # "leaf" THEN NodeAt(v, p).t
    ELSE IF NodeAt(v, p).leaf = "long" THEN "cut"
    ELSE NodeAt(v, p).leaf

\* The keys to a node with what is there, list positions left out.
KeysTo(v, p) == [n \in DOMAIN p |-> KeyAt(v, SubSeq(p, 1, n))]

-----------------------------------------------------------------------------
(* Properties                                                              *)

\* Metadata is accepted exactly when what is kept of it is within the limits: dropped and
\* masked parts never count and never make it fail, whatever their order and nesting.
AuditAccepts == Sanitize(tree).ok <=> Permitted(tree)

\* The record shows every kept value where it was, every secret as redacted, and nothing
\* else: no value below an unlisted or secret key, at any depth.
AuditShows ==
    LET result == Sanitize(tree)
        out == result.out
    IN  result.ok =>
          {<<KeysTo(out, p), IF NodeAt(out, p).t = "leaf" THEN NodeAt(out, p).leaf
                             ELSE NodeAt(out, p).t>> : p \in Paths(out)}
            = {<<KeysTo(tree, p), Shown(tree, p)>> : p \in Kept(tree)}

\* A payload is accepted exactly when its whole tree is within the limits and none of its
\* keys, at any depth, is unsafe or names a secret.
EventAccepts ==
    Freeze(tree).ok <=>
        /\ Cardinality(Paths(tree)) - 1 <= MaxEventValues
        /\ \A p \in Paths(tree) :
            /\ Len(p) <= MaxEventDepth /\ NodeAt(tree, p).leaf \notin {"odd", "long"}
            /\ p # <<>> => KeyAt(tree, p) \notin Unsafe \cup Sensitive

\* A payload that was accepted comes back from the outbox: its stored form is what was
\* given, and the event built from it on delivery is the same event.
EventRoundTrip ==
    LET event == Freeze(tree)
    IN  event.ok => Thaw(event.out) = tree /\ Freeze(Thaw(event.out)) = event

\* The two recursive walks over untrusted trees do what their limits and keys ask for.
TreesAsSpecified == AuditAccepts /\ AuditShows /\ EventAccepts /\ EventRoundTrip
=============================================================================
