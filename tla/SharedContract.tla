--------------------------- MODULE SharedContract ---------------------------
(***************************************************************************)
(* What one shared array promises to the routines that use it: a sequence  *)
(* of places, each empty or linked to a cell, changed by the operations    *)
(* below alone, one at a time.  Places link to cells because storing a     *)
(* shared value into a container links it, and two places may then show    *)
(* the same cell (t/233-goroutine-shared-object-coverage.t).               *)
(*                                                                         *)
(* The sequence is Perl's but for one thing: when a store lies beyond the  *)
(* end, the places it creates before its own may show cells that an        *)
(* earlier shortening ($#a = n) cut off.                                   *)
(***************************************************************************)
EXTENDS Integers, Sequences, SequencesExt

CONSTANTS Values, Absent, Undef

VARIABLES
  whole,    \* FALSE while the array is replaced by a scalar
  places,   \* each a cell or Absent
  content,  \* content[c], of each cell made so far: a number or Undef
  cut       \* cells that a shortening has cut off

vars == <<whole, places, content, cut>>

Init ==
  /\ whole = TRUE
  /\ places = <<>>
  /\ content = <<>>
  /\ cut = {}

Made(c) == c \in DOMAIN content

Writes(c) == \E v \in Values \cup {Undef} : content' = [content EXCEPT ![c] = v]

\* A cell is linked, or made for a plain value.
IsLinked(c) == UNCHANGED content /\ Made(c)
MadeFor(c) ==
  /\ c = Len(content) + 1
  /\ \E v \in Values \cup {Undef} : content' = Append(content, v)

\* push and unshift.
Add ==
  /\ places' # <<>>
  /\ \E c \in {places'[1], Last(places')} \ {Absent} :
       /\ places' \in {Append(places, c), <<c>> \o places}
       /\ IsLinked(c) \/ MadeFor(c)
  /\ UNCHANGED <<whole, cut>>

\* pop, shift and delete.
TakeOut ==
  /\ places # <<>>
  /\ \/ places' \in {Front(places), Tail(places)}
     \/ \E i \in DOMAIN places : places' = [places EXCEPT ![i] = Absent]
  /\ UNCHANGED <<whole, content, cut>>

\* A store at a place of the array: a plain value goes into the cell there.
Store ==
  /\ Len(places') = Len(places)
  /\ \E i \in DOMAIN places :
       LET c == places'[i]
       IN  /\ c # Absent
           /\ places' = [places EXCEPT ![i] = c]
           /\ \/ IsLinked(c)
              \/ places[i] = Absent /\ MadeFor(c)
              \/ places[i] = c /\ Made(c) /\ Writes(c)
  /\ UNCHANGED <<whole, cut>>

\* A store beyond the end.
Extend ==
  LET c == Last(places')
  IN  /\ Len(places') > Len(places)
      /\ c # Absent
      /\ SubSeq(places', 1, Len(places)) = places
      /\ \A i \in Len(places) + 1 .. Len(places') - 1 : places'[i] \in cut \cup {Absent}
      /\ IsLinked(c) \/ MadeFor(c) \/ (c \in cut /\ Made(c) /\ Writes(c))
      /\ UNCHANGED <<whole, cut>>

Clear ==
  places' = <<>> /\ UNCHANGED <<whole, content, cut>>

\* $#a = n - 1
Resize ==
  LET n == Len(places')
  IN  /\ \A i \in 1 .. n : places'[i] = IF i <= Len(places) THEN places[i] ELSE Absent
      /\ cut' = cut \cup ({places[i] : i \in n + 1 .. Len(places)} \ {Absent})
      /\ UNCHANGED <<whole, content>>

\* ++ on a cell, whether or not a place still links to it.
Increment ==
  /\ \E c \in DOMAIN content :
       content' = [content EXCEPT ![c] = IF @ = Undef THEN 1 ELSE @ + 1]
  /\ UNCHANGED <<whole, places, cut>>

\* The array itself is assigned: a scalar, or an empty array.
Replace ==
  /\ whole' \in BOOLEAN /\ places' = <<>>
  /\ UNCHANGED <<content, cut>>

Next ==
  \/ Add \/ TakeOut \/ Store \/ Extend \/ Clear \/ Resize \/ Increment \/ Replace

Spec == Init /\ [][Next]_vars
=============================================================================
