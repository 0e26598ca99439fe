---------------------------- MODULE SharedImport ----------------------------
(***************************************************************************)
(* How a Perl data structure becomes nodes of the shared graph             *)
(* (shared_import_value of GoRoutine012Native.h): depth first, with a map  *)
(* from what was met to its node, so that a structure met again, also      *)
(* within itself, is linked and not copied.                                *)
(*                                                                         *)
(* The program grows a structure an item at a time and shares it.  An      *)
(* object is what a reference refers to; an item is a plain value, a       *)
(* reference to an object or, in an array, nothing.  Plain values are      *)
(* alike, and hash keys are positions.  Fields of an object (Perl 5.40)    *)
(* and the slots of a glob are like an array's items.  The calls of        *)
(* shared_import_value in progress, one within the other, are `calls`.     *)
(***************************************************************************)
EXTENDS Integers, Sequences, FiniteSets

CONSTANTS
  Objects,
  Shapes,    \* assignments of kinds to the objects
  Root,      \* what is shared
  MaxItems   \* bound on the items of the structure

\* CODE, REGEXP, FORMAT, IO handles.
Leaves == {"code", "regexp", "format", "io"}
Kinds == Leaves \cup {"scalar", "array", "hash", "glob", "object", "unsupported"}

ASSUME ImportAssumption ==
  /\ Root \in Objects
  /\ Shapes \subseteq [Objects -> Kinds]

VARIABLES
  kind, items,   \* the structure
  nodes,         \* the nodes, in the order of their allocation
  map,           \* from the objects met to their nodes
  calls,         \* what the calls in progress import, and at which node
  phase          \* "grows", "runs", "done" or "died"

importVars == <<kind, items, nodes, map, calls, phase>>

Hole == <<"hole">>
Plain == <<"plain">>
Ref(o) == <<"ref", o>>

Capacity(o) ==
  CASE kind[o] = "scalar" -> 1
    [] kind[o] \in Leaves \cup {"unsupported"} -> 0
    [] OTHER -> MaxItems

\* NULL for an array item; 1 is the node that the value is imported into.
None == 0
Dest == 1

Node(type) == [type |-> type, items |-> <<>>]

-----------------------------------------------------------------------------
ImportInit ==
  /\ kind \in Shapes
  /\ items = [o \in Objects |-> <<>>]
  /\ nodes = <<Node("undef")>>
  /\ map = <<>>
  /\ calls = <<>>
  /\ phase = "grows"

\* The program puts an item into an object.
Put(o, v) ==
  /\ phase = "grows"
  /\ Len(items[o]) < Capacity(o)
  /\ Cardinality(UNION {{o2} \X DOMAIN items[o2] : o2 \in Objects}) < MaxItems
  /\ v = Hole => kind[o] = "array"
  /\ items' = [items EXCEPT ![o] = Append(@, v)]
  /\ UNCHANGED <<kind, nodes, map, calls, phase>>

import_map_add_NotDest(source, node) ==
  IF node = Dest THEN map
  ELSE [o \in DOMAIN map \cup {source} |-> IF o = source THEN node ELSE map[o]]

import_map_add(source, node) ==
  [o \in DOMAIN map \cup {source} |-> IF o = source THEN node ELSE map[o]]

\* shared_import_into an existing node.  A scalar has its value.
shared_import_into ==
  /\ phase = "grows"
  /\ \A o \in Objects : kind[o] = "scalar" => Len(items[o]) = 1
  /\ IF kind[Root] = "unsupported"
       THEN phase' = "died" /\ UNCHANGED <<nodes, map, calls>>
       ELSE /\ phase' = "runs"
            /\ nodes' = [nodes EXCEPT ![Dest] = Node(kind[Root])]
            /\ map' = import_map_add(Root, Dest)
            /\ calls' = <<[of |-> Root, at |-> Dest]>>
  /\ UNCHANGED <<kind, items>>

\* The innermost call, and that it comes to value v.
Innermost == calls[Len(calls)]
ComesTo(v) ==
  /\ phase = "runs"
  /\ Len(nodes[Innermost.at].items) < Len(items[Innermost.of])
  /\ items[Innermost.of][Len(nodes[Innermost.at].items) + 1] = v

\* The node becomes the next item of the call's own.
Link(call, node) == [nodes EXCEPT ![call.at].items = Append(@, node)]

SkipHole ==
  /\ ComesTo(Hole)
  /\ nodes' = Link(Innermost, None)
  /\ UNCHANGED <<kind, items, map, calls, phase>>

shared_import_scalar ==
  /\ ComesTo(Plain)
  /\ nodes' = Append(Link(Innermost, Len(nodes) + 1), Node("value"))
  /\ UNCHANGED <<kind, items, map, calls, phase>>

\* An object met before; the node allocated for it stays unused.
LinkExisting(o) ==
  /\ ComesTo(Ref(o)) /\ o \in DOMAIN map
  /\ nodes' = Append(Link(Innermost, map[o]), Node("undef"))
  /\ UNCHANGED <<kind, items, map, calls, phase>>

\* An object met for the first time.
ImportObject(o) ==
  /\ ComesTo(Ref(o)) /\ o \notin DOMAIN map /\ kind[o] # "unsupported"
  /\ nodes' = Append(nodes, Node(kind[o]))
  /\ map' = import_map_add(o, Len(nodes) + 1)
  /\ calls' = Append(calls, [of |-> o, at |-> Len(nodes) + 1])
  /\ UNCHANGED <<kind, items, phase>>

\* croak: share() does not support the reference.
Refuse(o) ==
  /\ ComesTo(Ref(o)) /\ o \notin DOMAIN map /\ kind[o] = "unsupported"
  /\ nodes' = Append(nodes, Node("undef"))
  /\ phase' = "died"
  /\ UNCHANGED <<kind, items, map, calls>>

\* A call that is through returns its node to the one that made it.
ReturnNode ==
  /\ phase = "runs"
  /\ Len(nodes[Innermost.at].items) = Len(items[Innermost.of])
  /\ calls' = SubSeq(calls, 1, Len(calls) - 1)
  /\ IF Len(calls) = 1 THEN phase' = "done" /\ UNCHANGED nodes
                        ELSE nodes' = Link(calls[Len(calls) - 1], Innermost.at) /\ UNCHANGED phase
  /\ UNCHANGED <<kind, items, map>>

ImportNext ==
  \/ \E o \in Objects, v \in {Hole, Plain} \cup {Ref(p) : p \in Objects} : Put(o, v)
  \/ shared_import_into
  \/ SkipHole
  \/ shared_import_scalar
  \/ \E o \in Objects : LinkExisting(o) \/ ImportObject(o) \/ Refuse(o)
  \/ ReturnNode

ImportSpec == ImportInit /\ [][ImportNext]_importVars

-----------------------------------------------------------------------------
ClosedUnder(s) ==
  \A o \in s, p \in Objects : (\E i \in DOMAIN items[o] : items[o][i] = Ref(p)) => p \in s

\* What can be reached from Root by references.
Reached == {o \in Objects : \A s \in SUBSET Objects : Root \in s /\ ClosedUnder(s) => o \in s}

\* The node is what an import of item v should have led to.
Shows(node, v) ==
  /\ v = Hole => node = None
  /\ v = Plain => node \in DOMAIN nodes /\ nodes[node].type = "value"
  /\ \A o \in Objects : v = Ref(o) => o \in DOMAIN map /\ node = map[o]

Copied(o) ==
  /\ nodes[map[o]].type = kind[o] /\ Len(nodes[map[o]].items) = Len(items[o])
  /\ \A i \in DOMAIN items[o] : Shows(nodes[map[o]].items[i], items[o][i])

\* A structure is refused just when it reaches a reference of a kind that
\* share() does not support; else it is copied with its shape: every object
\* reached has one node, and its items lead where they led, so that what was
\* one object in two places, or around a cycle, stays one.
ImportFaithful ==
  /\ phase = "died" => \E o \in Reached : kind[o] = "unsupported"
  /\ phase = "done" =>
       /\ \A o \in Reached : kind[o] # "unsupported"
       /\ DOMAIN map = Reached /\ map[Root] = Dest
       /\ \A o, p \in Reached : map[o] = map[p] => o = p
       /\ \A o \in Reached : Copied(o)
=============================================================================
