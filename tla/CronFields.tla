----------------------------- MODULE CronFields -----------------------------
(***************************************************************************)
(* Cron expressions (_parse_cron_expression, _parse_cron_field and what    *)
(* _cron_due makes of the date, in CollectorRunner.pm) against what the    *)
(* README says of them.  An expression is five lists of items, such as     *)
(* 5, MON-FRI or */15; a behaviour writes one item after another, and lets *)
(* the clock run.                                                          *)
(***************************************************************************)
EXTENDS Integers, Sequences

CONSTANTS
  Items,      \* Items[i]: what may be written into field i
  Times,      \* of the clock: <<minute, hour, day of month, month, weekday>>
  MaxWritten  \* bound on the items written

VARIABLES spec, written, clock

fieldVars == <<spec, written, clock>>

\* A token is a number, one of the names of its field, "any" (an asterisk), or
\* something else; "none" is no token.
Token(kind, n) == [kind |-> kind, n |-> n]
None == Token("none", 0)
Asterisk == Token("any", 0)
Item(from, to, step) == [from |-> from, to |-> to, step |-> step]
Star == Item(Asterisk, None, None)

Tokens == [kind : {"num", "name", "any", "bad", "none"}, n : Nat]

ASSUME FieldsAssumption ==
  /\ \A i \in 1 .. 5 : Items[i] \subseteq [from : Tokens, to : Tokens, step : Tokens]
  /\ \A now \in Times : now[5] \in 0 .. 6

Lowest == <<0, 0, 1, 1, 0>>
Highest == <<59, 23, 31, 12, 7>>

-----------------------------------------------------------------------------
(* The code.  An error is an empty set, which no list of items selects. *)

Undef == -1

_cron_value(token, i) ==
  IF \/ token.kind = "num" /\ token.n < 1000
     \/ token.kind = "name" /\ i \in {4, 5}
    THEN token.n ELSE Undef

\* Mutant: steps are counted from zero.
Selected_Modulo(from, to, step) == {v \in from .. to : v % step = 0}

Selected(from, to, step) ==
  LET upward[v \in Nat] == IF v > to THEN {} ELSE {v} \cup upward[v + step]
  IN  upward[from]

parse_item(item, i) ==
  LET step == IF item.step = None THEN 1 ELSE item.step.n
      from == IF item.from = Asterisk THEN Lowest[i] ELSE _cron_value(item.from, i)
      to   == IF item.to # None THEN _cron_value(item.to, i)
              ELSE IF item.from = Asterisk THEN Highest[i] ELSE from
      wrong == \/ item.step # None /\ (item.step.kind # "num" \/ item.step.n \notin 1 .. 9999)
               \/ item.from = Asterisk /\ item.to # None
               \/ item.from # Asterisk /\ item.to = None /\ item.step # None
               \/ Undef \in {from, to} \/ from > to
               \/ from < Lowest[i] \/ to > Highest[i]
  IN  IF wrong THEN {} ELSE Selected(from, to, step)

_parse_cron_field(items, i) ==
  LET sets == {parse_item(items[k], i) : k \in DOMAIN items}
  IN  IF {} \in sets THEN {} ELSE UNION sets

\* Mutant: no Sunday but 0.
Field_KeepsSeven(items, i) == _parse_cron_field(items, i)

\* A 7 in the last field is Sunday.
Field(items, i) ==
  LET values == _parse_cron_field(items, i)
  IN  IF i = 5 /\ 7 \in values THEN (values \ {7}) \cup {0} ELSE values

\* Mutant: both days have to match.
Day_Both(expr, now) ==
  now[3] \in Field(expr[3], 3) /\ now[5] \in Field(expr[5], 5)

\* The day of the month and of the week: either, if both are restricted.
Day(expr, now) ==
  LET date == now[3] \in Field(expr[3], 3)
      week == now[5] \in Field(expr[5], 5)
  IN  IF expr[3] = <<Star>> THEN expr[5] = <<Star>> \/ week
      ELSE IF expr[5] = <<Star>> THEN date ELSE date \/ week

_cron_due(expr, now) ==
  /\ \A i \in 1 .. 5 : Field(expr[i], i) # {}
  /\ \A i \in {1, 2, 4} : now[i] \in Field(expr[i], i)
  /\ Day(expr, now)

-----------------------------------------------------------------------------
(* The README *)

Means(token, i, v) ==
  token.n = v /\ token.kind \in IF i \in {4, 5} THEN {"num", "name"} ELSE {"num"}

\* The values an item selects: one, or those of a range or of all, in steps.
ItemMeans(item, i) ==
  LET all == Lowest[i] .. Highest[i]
      One(token) == {n \in all : Means(token, i, n)}
      first == IF item.from = Asterisk THEN {Lowest[i]} ELSE One(item.from)
      last == CASE item.from = Asterisk /\ item.to = None -> {Highest[i]}
                [] item.from # Asterisk /\ item.to # None -> One(item.to)
                [] item.from # Asterisk /\ item.to = None -> {n \in first : item.step = None}
                [] OTHER -> {}
  IN  {v \in all : \E a \in first, b \in last :
         /\ a <= v /\ v <= b
         /\ \/ item.step = None
            \/ /\ item.step.kind = "num" /\ item.step.n \in 1 .. 9999
               /\ (v - a) % item.step.n = 0}

Malformed(expr) ==
  \E i \in 1 .. 5 : \E k \in DOMAIN expr[i] : ItemMeans(expr[i][k], i) = {}

Selects(expr, i, v) ==
  \E k \in DOMAIN expr[i] :
    ItemMeans(expr[i][k], i) \cap (IF i = 5 /\ v = 0 THEN {0, 7} ELSE {v}) # {}

Restricted(expr) == {i \in {3, 5} : expr[i] # <<Star>>}

-----------------------------------------------------------------------------
FieldsInit ==
  /\ spec = [i \in 1 .. 5 |-> <<Star>>] /\ written = 0
  /\ clock \in Times

\* The field's asterisk gives way to its first item.
Write ==
  /\ written < MaxWritten /\ written' = written + 1
  /\ \E i \in 1 .. 5 : \E item \in Items[i] :
       spec' = [spec EXCEPT ![i] = IF @ = <<Star>> THEN <<item>> ELSE Append(@, item)]
  /\ UNCHANGED clock

Tick == clock' \in Times \ {clock} /\ UNCHANGED <<spec, written>>

FieldsNext == Write \/ Tick

FieldsSpec == FieldsInit /\ [][FieldsNext]_fieldVars

\* The minutes that an expression names, and no others, are due: lists, ranges,
\* steps that do not divide their range, 7 as Sunday, the two ways to name a day;
\* a malformed expression is never due.
DueExact ==
  _cron_due(spec, clock) <=>
    /\ ~Malformed(spec)
    /\ \A i \in {1, 2, 4} : Selects(spec, i, clock[i])
    /\ Restricted(spec) # {} => \E i \in Restricted(spec) : Selects(spec, i, clock[i])
=============================================================================
