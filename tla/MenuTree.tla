------------------------------ MODULE MenuTree ------------------------------
(* The menus System::Menu sends to its native helper.  A menu has its roots *)
(* in order, the children of each item and the items that have a click.     *)
EXTENDS Naturals, Sequences, FiniteSets

CONSTANTS
  Names,  \* names of menu items
  Menus,  \* the menus a `run` command may carry
  MaxReports  \* bound on the clicks a helper reports

EmptyMenu == [roots |-> <<>>, kids |-> [n \in Names |-> {}], clickable |-> {}]

\* An item and all that is below it: the least set with that item and with the
\* children of its members.  (A table, for TLC to compute once.)
Closed(m, s) == \A n \in s : m.kids[n] \subseteq s
Subtrees ==
  [m \in Menus \cup {EmptyMenu} |-> [n \in Names |->
    {k \in Names : \A s \in SUBSET Names : n \in s /\ Closed(m, s) => k \in s}]]
Subtree(m, n) == Subtrees[m][n]

Roots(m) == {m.roots[i] : i \in DOMAIN m.roots}
Position(m, r) == CHOOSE i \in DOMAIN m.roots : m.roots[i] = r
Items(m) == UNION {Subtree(m, r) : r \in Roots(m)}

\* Names are distinct, and no item has both children and a click.
WellFormed(m) ==
  /\ m.roots \in Seq(Names)
  /\ \A i, j \in DOMAIN m.roots : m.roots[i] = m.roots[j] => i = j
  /\ m.kids \in [Names -> SUBSET Names]
  /\ \A n \in Names : m.kids[n] \cap Roots(m) = {}
  /\ \A n, k \in Names : n # k => m.kids[n] \cap m.kids[k] = {}
  /\ m.clickable \subseteq {n \in Names : m.kids[n] = {}}

ASSUME MenuAssumption == \A m \in Menus : WellFormed(m)
=============================================================================
