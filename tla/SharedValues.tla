---------------------------- MODULE SharedValues ----------------------------
(***************************************************************************)
(* One shared Perl array used by several routines (GoRoutine012Native.h,   *)
(* the _shared_array_* functions of GoRoutine012.xs, SharedArray and       *)
(* SharedValue of GoRoutine.pm).  The array is a node of a process-wide    *)
(* graph; its items are nodes that hold numbers.  Every native call runs   *)
(* under the one shared_mutex and is a step here; a Perl operation is one  *)
(* or several native calls, and a routine may be cancelled between them.   *)
(*                                                                         *)
(* A native call that dies inside a helper has not given the mutex back:   *)
(* it is then its thread's for ever, and every other thread waits.         *)
(*                                                                         *)
(* Numbers are small and never strings; keys, classes and the other kinds  *)
(* of node are in SharedImport.  No allocation fails.                      *)
(***************************************************************************)
EXTENDS Integers, Sequences, SequencesExt, FiniteSets

CONSTANTS
  Routines,
  MaxSize,        \* bound on the indices stored to and the sizes asked for
  FirstCapacity,  \* the capacity of a first reserve (8 in the code)
  MaxCalls,       \* bound on the Perl operations of a behaviour
  Free, Null, Undef,
  Bad             \* a reference that share() does not support

ASSUME SharedAssumption ==
  /\ FirstCapacity \in Nat \ {0} /\ MaxSize \in Nat
  /\ Null \notin Nat /\ Undef # Bad

VARIABLES
  shared_mutex,  \* Free, or the thread whose call died with it
  type,          \* of the array's node: "array" or "scalar"
  array_items,   \* [0 .. its capacity - 1 -> Nodes \cup {Null}]
  array_size,
  value,         \* value[n], of each node made so far: a number or Undef
  call,          \* call[t]: the operation that t is in, "none" outside
  index,         \* index[t]: the place, or the node, that it is about
  todo,          \* todo[t]: values and nodes to push, or fetched by a splice
  plan,          \* plan[t]: what a splice is to do
  died,          \* threads of which a call died inside a helper
  cut,           \* nodes that a resize has cut off
  disturbed,     \* threads whose splice met a change by another thread
  calls          \* operations begun, for the bound

arrayVars == <<type, array_items, array_size, cut>>
threadVars == <<call, index, todo, plan>>
sharedVars == <<shared_mutex, arrayVars, value, threadVars, died, disturbed, calls>>

Nodes == DOMAIN value

\* What Perl code sees of the array.
View == [i \in 1 .. array_size |-> array_items[i - 1]]

Plain(v) == <<"plain", v>>
Link(n) == <<"node", n>>

-----------------------------------------------------------------------------
(* Native pieces *)

\* Nodes are made in turn and never freed.
shared_node_new == Len(value) + 1

\* The loop that doubles a capacity until it is what is needed.
DoubledTo(need) ==
  LET doubled[c \in Nat] == IF c < need THEN doubled[2 * c] ELSE c
  IN  doubled

shared_array_reserve(items, need) ==
  LET room == Cardinality(DOMAIN items)
      grown == DoubledTo(need)[IF room = 0 THEN FirstCapacity ELSE room * 2]
  IN  IF need <= room THEN items
      ELSE [i \in 0 .. grown - 1 |-> IF i < room THEN items[i] ELSE Null]

\* The mutex is recursive.  A call that gives it back leaves it as it was.
shared_lock(t) == shared_mutex \in {Free, t}

Unlocked == UNCHANGED <<shared_mutex, died>>

\* A helper croaks between shared_lock and shared_unlock.
DiesLocked(t) ==
  /\ shared_mutex' = t
  /\ died' = died \cup {t}

\* Every function of an array gives the mutex back before it croaks that the
\* node is none.
NotArray_KeepsLock(t) ==
  /\ type # "array"
  /\ shared_mutex' = t /\ UNCHANGED died

NotArray(t) ==
  /\ type # "array"
  /\ Unlocked

-----------------------------------------------------------------------------
(* Perl operations *)

InSplice(t) == call[t] \in {"splice", "refill"}

\* A thread outside any operation begins one.
Begins(t) ==
  /\ call[t] = "none"
  /\ calls < MaxCalls /\ calls' = calls + 1
  /\ shared_lock(t)

\* The array, or a node of it, is changed by t: splices of others notice.
Disturbs(t) == disturbed' = disturbed \cup {u \in Routines \ {t} : InSplice(u)}

Ends(t) ==
  /\ call' = [call EXCEPT ![t] = "none"]
  /\ index' = [index EXCEPT ![t] = Null]
  /\ todo' = [todo EXCEPT ![t] = <<>>]
  /\ plan' = [plan EXCEPT ![t] = Null]

\* The operation stops where it is: a native call finds no array ...
Stops(t) ==
  /\ call[t] # "none"
  /\ Ends(t)
  /\ UNCHANGED <<arrayVars, value, disturbed, calls>>

FindsNoArray(t) == Stops(t) /\ shared_lock(t) /\ NotArray(t)

\* ... or the routine is cancelled between two of its native calls.
Cancelled(t) == Stops(t) /\ Unlocked

\* POP and SHIFT.
shared_array_pop_ptr(t) ==
  /\ Begins(t) /\ type = "array"
  /\ IF array_size = 0 THEN UNCHANGED <<array_items, array_size>>
     ELSE /\ array_items' = [array_items EXCEPT ![array_size - 1] = Null]
          /\ array_size' = array_size - 1
  /\ Unlocked /\ Disturbs(t)
  /\ UNCHANGED <<type, cut, value, threadVars>>

shared_array_shift_ptr_Stale(t) ==
  /\ Begins(t) /\ type = "array"
  /\ IF array_size = 0 THEN UNCHANGED <<array_items, array_size>>
     ELSE /\ array_items' = [i \in DOMAIN array_items |->
                               IF i < array_size - 1 THEN array_items[i + 1]
                               ELSE array_items[i]]
          /\ array_size' = array_size - 1
  /\ Unlocked /\ Disturbs(t)
  /\ UNCHANGED <<type, cut, value, threadVars>>

shared_array_shift_ptr(t) ==
  /\ Begins(t) /\ type = "array"
  /\ IF array_size = 0 THEN UNCHANGED <<array_items, array_size>>
     ELSE /\ array_items' = [i \in DOMAIN array_items |->
                               CASE i < array_size - 1 -> array_items[i + 1]
                                 [] i = array_size - 1 -> Null
                                 [] OTHER -> array_items[i]]
          /\ array_size' = array_size - 1
  /\ Unlocked /\ Disturbs(t)
  /\ UNCHANGED <<type, cut, value, threadVars>>

\* STORESIZE.  What lies beyond the new end stays in array_items.
shared_array_resize(t, new_size) ==
  LET items == shared_array_reserve(array_items, new_size)
  IN  /\ Begins(t) /\ type = "array"
      /\ array_items' = [i \in DOMAIN items |->
                           IF i \in array_size .. new_size - 1 THEN Null ELSE items[i]]
      /\ array_size' = new_size
      /\ cut' = cut \cup ({array_items[i] : i \in new_size .. array_size - 1} \ {Null})
      /\ Unlocked /\ Disturbs(t)
      /\ UNCHANGED <<type, value, threadVars>>

\* The array's own place is assigned a scalar or []: _shared_node_set or
\* _shared_hash_store on its node, through shared_import_into.
shared_import_into(t) ==
  /\ Begins(t)
  /\ type' \in {"array", "scalar"}
  /\ array_items' = <<>> /\ array_size' = 0
  /\ Unlocked /\ Disturbs(t)
  /\ UNCHANGED <<cut, value, threadVars>>

-----------------------------------------------------------------------------
(* push and unshift *)

\* PUSH and UNSHIFT of a list.
StartAdd(t, op, values) ==
  /\ Begins(t)
  /\ call' = [call EXCEPT ![t] = op]
  /\ todo' = [todo EXCEPT ![t] = values]
  /\ UNCHANGED <<shared_mutex, arrayVars, value, index, plan, died, disturbed>>

\* A value that is plain gets a node first; a proxy is linked.
NodeFor(x) == IF x[1] = "node" THEN x[2] ELSE shared_node_new

ValuesWith(x) == IF x[1] = "node" THEN value ELSE Append(value, x[2])

Pushed(items, n) ==
  [shared_array_reserve(items, array_size + 1) EXCEPT ![array_size] = n]

Unshifted(items, n) ==
  LET grown == shared_array_reserve(items, array_size + 1)
  IN  [i \in DOMAIN grown |->
         CASE i = 0 -> n
           [] i \in 1 .. array_size -> grown[i - 1]
           [] OTHER -> grown[i]]

\* _shared_array_push, _shared_array_unshift and their _ptr forms, one value
\* at a time; a splice puts its list back with the first.
Adds(t) ==
  LET x == Head(todo[t])
  IN  /\ call[t] \in {"push", "unshift", "refill"} /\ todo[t] # <<>>
      /\ shared_lock(t) /\ type = "array"
      /\ x # Plain(Bad)
      /\ array_items' = IF call[t] = "unshift"
                          THEN Unshifted(array_items, NodeFor(x))
                          ELSE Pushed(array_items, NodeFor(x))
      /\ array_size' = array_size + 1
      /\ value' = ValuesWith(x)
      /\ todo' = [todo EXCEPT ![t] = Tail(@)]
      /\ Unlocked /\ Disturbs(t)
      /\ UNCHANGED <<type, cut, call, index, plan, calls>>

\* shared_import_value refuses the value, after the node for it was made.
AddDies(t) ==
  /\ call[t] \in {"push", "unshift"} /\ todo[t] # <<>>
  /\ Head(todo[t]) = Plain(Bad)
  /\ shared_lock(t) /\ type = "array"
  /\ DiesLocked(t)
  /\ Ends(t)
  /\ UNCHANGED <<arrayVars, value, disturbed, calls>>

\* The FETCHSIZE at the end of push, unshift and splice, and of the STORE
\* that follows ++.
Returns(t) ==
  /\ call[t] \in {"push", "unshift", "refill", "updated"} /\ todo[t] = <<>>
  /\ shared_lock(t) /\ type = "array"
  /\ Unlocked
  /\ Ends(t)
  /\ UNCHANGED <<arrayVars, value, disturbed, calls>>

-----------------------------------------------------------------------------
(* Stores, deletes and updates *)

\* STORE of x, or DELETE when there is none, at an index that may be negative.
StartAt(t, i, x) ==
  /\ Begins(t)
  /\ call' = [call EXCEPT ![t] = "sizing"]
  /\ index' = [index EXCEPT ![t] = i]
  /\ todo' = [todo EXCEPT ![t] = x]
  /\ UNCHANGED <<shared_mutex, arrayVars, value, plan, died, disturbed>>

\* FETCHSIZE.  An index that is negative even so is refused without the mutex.
Sizes(t) ==
  LET i == IF index[t] < 0 THEN index[t] + array_size ELSE index[t]
  IN  /\ call[t] = "sizing"
      /\ shared_lock(t) /\ type = "array"
      /\ IF i < 0 THEN Ends(t)
         ELSE /\ index' = [index EXCEPT ![t] = i]
              /\ call' = [call EXCEPT ![t] = IF todo[t] = <<>> THEN "delete" ELSE "store"]
              /\ UNCHANGED <<todo, plan>>
      /\ Unlocked
      /\ UNCHANGED <<arrayVars, value, disturbed, calls>>

\* _shared_array_store writes the node that is at the place, stale or not, and
\* makes one where there is none; _shared_array_store_ptr changes the link.
Stores(t) ==
  LET x == todo[t][1]
      items == shared_array_reserve(array_items, index[t] + 1)
      n == IF x[1] = "plain" /\ items[index[t]] # Null THEN items[index[t]]
           ELSE NodeFor(x)
      v == IF x[2] = Bad THEN Undef ELSE x[2]
  IN  /\ call[t] = "store"
      /\ shared_lock(t) /\ type = "array"
      /\ array_items' = [items EXCEPT ![index[t]] = n]
      /\ array_size' = IF index[t] < array_size THEN array_size ELSE index[t] + 1
      /\ value' = CASE x[1] = "node" -> value
                    [] x[1] # "node" /\ n \in Nodes -> [value EXCEPT ![n] = v]
                    [] OTHER -> Append(value, v)
      /\ IF x = Plain(Bad) THEN DiesLocked(t) ELSE Unlocked
      /\ Ends(t) /\ Disturbs(t)
      /\ UNCHANGED <<type, cut, calls>>

shared_array_delete_ptr(t) ==
  /\ call[t] = "delete"
  /\ shared_lock(t) /\ type = "array"
  /\ array_items' = IF index[t] < array_size
                      THEN [array_items EXCEPT ![index[t]] = Null] ELSE array_items
  /\ Unlocked
  /\ Ends(t) /\ Disturbs(t)
  /\ UNCHANGED <<type, array_size, cut, value, calls>>

\* $a[$i]++ and $a[$i] /= 0: FETCH gives a proxy of the node.
StartUpdate(t, n) ==
  /\ Begins(t) /\ type = "array"
  /\ call' = [call EXCEPT ![t] = "update"]
  /\ index' = [index EXCEPT ![t] = n]
  /\ UNCHANGED <<shared_mutex, arrayVars, value, todo, plan, died, disturbed>>

\* _shared_scalar_apply
shared_apply(t) ==
  LET n == index[t]
  IN  /\ call[t] = "update" /\ shared_lock(t)
      /\ value' = [value EXCEPT ![n] = IF @ = Undef THEN 1 ELSE @ + 1]
      /\ call' = [call EXCEPT ![t] = "updated"]
      /\ Unlocked /\ Disturbs(t)
      /\ UNCHANGED <<arrayVars, index, todo, plan, calls>>

ApplyDies(t) ==
  /\ call[t] = "update" /\ shared_lock(t)
  /\ DiesLocked(t)
  /\ Ends(t)
  /\ UNCHANGED <<arrayVars, value, disturbed, calls>>

-----------------------------------------------------------------------------
(* splice *)

Between(low, x, high) == IF x < low THEN low ELSE IF x > high THEN high ELSE x

\* SPLICE brings offset and length within the array.
From(size, offset) == Between(0, IF offset < 0 THEN offset + size ELSE offset, size)

Removed(size, from, length) ==
  Between(0, IF length < 0 THEN size - from + length ELSE length, size - from)

\* Perl's splice of a list.
Spliced(list, from, length, insert) ==
  SubSeq(list, 1, from) \o insert \o SubSeq(list, from + length + 1, Len(list))

\* An empty place is fetched as undef, and pushed back as a node.
Fetched(n) == IF n = Null THEN Plain(Undef) ELSE Link(n)

StartSplice(t, offset, length, insert) ==
  LET from == From(array_size, offset)
  IN  /\ Begins(t) /\ type = "array"
      /\ call' = [call EXCEPT ![t] = "splice"]
      /\ plan' = [plan EXCEPT ![t] =
                    [size |-> array_size, from |-> from, insert |-> insert,
                     length |-> Removed(array_size, from, length),
                     want |-> LET all == [i \in DOMAIN View |-> Fetched(View[i])]
                              IN  Spliced(all, from, Removed(array_size, from, length),
                                          insert)]]
      /\ disturbed' = disturbed \ {t}
      /\ UNCHANGED <<shared_mutex, arrayVars, value, index, todo, died>>

SpliceFetches(t) ==
  LET i == Len(todo[t])
  IN  /\ call[t] = "splice" /\ i < plan[t].size
      /\ shared_lock(t) /\ type = "array"
      /\ todo' = [todo EXCEPT ![t] =
                    Append(@, Fetched(IF i < array_size THEN array_items[i] ELSE Null))]
      /\ Unlocked
      /\ UNCHANGED <<arrayVars, value, call, index, plan, disturbed, calls>>

SpliceClears_Not(t) ==
  /\ call[t] = "splice" /\ Len(todo[t]) = plan[t].size
  /\ shared_lock(t) /\ type = "array"
  /\ call' = [call EXCEPT ![t] = "refill"]
  /\ todo' = [todo EXCEPT ![t] =
                Spliced(@, plan[t].from, plan[t].length, plan[t].insert)]
  /\ Unlocked /\ Disturbs(t)
  /\ UNCHANGED <<arrayVars, value, index, plan, calls>>

\* CLEAR, before all that is kept is pushed again.
SpliceClears(t) ==
  /\ call[t] = "splice" /\ Len(todo[t]) = plan[t].size
  /\ shared_lock(t) /\ type = "array"
  /\ array_items' = [i \in DOMAIN array_items |-> Null]
  /\ array_size' = 0
  /\ call' = [call EXCEPT ![t] = "refill"]
  /\ todo' = [todo EXCEPT ![t] =
                Spliced(@, plan[t].from, plan[t].length, plan[t].insert)]
  /\ Unlocked /\ Disturbs(t)
  /\ UNCHANGED <<type, cut, value, index, plan, calls>>

-----------------------------------------------------------------------------
SharedInit ==
  /\ shared_mutex = Free
  /\ type = "array" /\ array_items = <<>> /\ array_size = 0
  /\ value = <<>>
  /\ call = [t \in Routines |-> "none"]
  /\ index = [t \in Routines |-> Null]
  /\ todo = [t \in Routines |-> <<>>]
  /\ plan = [t \in Routines |-> Null]
  /\ died = {} /\ cut = {} /\ disturbed = {} /\ calls = 0

Linked == {View[i] : i \in DOMAIN View} \ {Null}

\* What a routine begins, with which arguments.
Begin(t) ==
  \/ \E vs \in {<<Plain(0), Plain(0)>>, <<Plain(Bad)>>} : StartAdd(t, "push", vs)
  \/ StartAdd(t, "unshift", <<Plain(0)>>)
  \/ \E i \in -1 .. MaxSize - 1 :
       \/ StartAt(t, i, <<>>) \/ StartAt(t, i, <<Plain(0)>>)
       \/ \E n \in Linked : StartAt(t, i, <<Link(n)>>)
  \/ StartAt(t, 0, <<Plain(Bad)>>)
  \/ \E n \in Linked : StartUpdate(t, n)
  \/ StartSplice(t, 0, -1, <<>>) \/ StartSplice(t, -1, 1, <<Plain(0)>>)

\* A native call within an operation.
Step(t) ==
  \/ Adds(t) \/ AddDies(t) \/ Returns(t)
  \/ Sizes(t) \/ Stores(t) \/ shared_array_delete_ptr(t)
  \/ shared_apply(t)
  \/ SpliceFetches(t) \/ SpliceClears(t)

AtOnce(t) ==
  \/ shared_array_pop_ptr(t) \/ shared_array_shift_ptr(t)
  \/ shared_import_into(t)
  \/ \E n \in 0 .. MaxSize : shared_array_resize(t, n)

SharedNext ==
  \E t \in Routines :
    \/ Begin(t) \/ Step(t) \/ AtOnce(t) \/ ApplyDies(t)
    \/ FindsNoArray(t) \/ Cancelled(t)

SharedSpec == SharedInit /\ [][SharedNext]_sharedVars

\* A thread goes on with its operation; the mutex is let go between calls.
SharedFairness == \A t \in Routines : WF_sharedVars(Step(t) \/ FindsNoArray(t))

-----------------------------------------------------------------------------
Promise == INSTANCE SharedContract WITH
  Values <- {0}, Absent <- Null,
  whole <- (type = "array"), places <- View, content <- value

\* Whatever the routines do to the shared array at once, each native call is
\* one operation of a Perl array of links: the index loops, the capacity and
\* the items that lie beyond the end never show, except after a shortening.
ImplementsShared == Promise!Spec

\* A splice that no other routine's change came into leaves what Perl's splice
\* would, although it takes the array apart and pushes it together again.
SpliceExact ==
  \A t \in Routines \ disturbed :
    call[t] = "refill" /\ todo[t] = <<>> =>
      /\ Len(View) = Len(plan[t].want)
      /\ \A i \in DOMAIN View :
           LET want == plan[t].want[i]
           IN  /\ View[i] # Null
               /\ want \in {Link(View[i]), Plain(value[View[i]])}

\* An operation returns, by its result or by dying, unless some call has died
\* inside a helper: nothing else keeps shared_mutex.
CallsReturn ==
  \A t \in Routines : call[t] # "none" ~> (call[t] = "none" \/ died # {})
=============================================================================
