---------------------------- MODULE MCCollectors ----------------------------
(* Around a collector's loop, side by side: the expressions that name its     *)
(* minutes, the minutes it takes, the command of a run, and the watchdog over *)
(* the loops.  A behaviour is one of one of these, as `part` says; the        *)
(* variables of the others rest.                                              *)
EXTENDS CollectorWatchdog, CommandRun, CronFields, CronSlots, TLC

CONSTANTS c1, c2, m1, s1, s2, loop1

TwoCollectors == {c1, c2}
OneManager == {m1}
TwoSups == {s1, s2}

VARIABLE part

\* What is written into an expression: both ends of a field, ranges, steps that reach
\* the end and that do not, and what is malformed.
N(n) == Token("num", n)
Name(n) == Token("name", n)
Bad == Token("bad", 0)

ItemsOf(lo, hi) ==
  {Item(N(lo), None, None), Item(N(hi), None, None), Item(N(hi + 1), None, None),
   Item(N(hi - 3), N(hi), N(2)), Item(N(hi), N(lo), None), Item(N(lo + 1), None, N(2)),
   Item(Asterisk, None, N(2)), Item(Asterisk, N(hi), None), Item(Asterisk, None, N(hi))}

MCItems ==
  <<ItemsOf(0, 59) \cup {Item(N(1000), None, None), Item(Asterisk, None, N(0)),
                         Item(Asterisk, None, N(10000))},
    {Item(N(7), N(8), None), Item(N(24), None, None)},
    ItemsOf(1, 31),
    {Item(Name(2), None, None), Item(N(0), None, None)},
    ItemsOf(0, 7) \cup {Item(Name(1), Name(6), None), Item(Name(6), Name(0), None),
                        Item(Name(5), N(7), None), Item(Bad, None, None),
                        Item(N(0), N(0), N(7))}>>

MCTimes == {<<m, 7, d, 2, w>> : m \in {0, 57, 58}, d \in {1, 30}, w \in {0, 1, 6}}

Alike == Permutations(Collectors) \cup Permutations(Sups)

\* An expression that rests is malformed, which is soon seen.
Resting ==
  /\ spec = [i \in 1 .. 5 |-> <<Item(Bad, None, None)>>] /\ written = 0
  /\ clock = <<0, 7, 1, 2, 0>>

InitEach ==
  /\ part \in {"fields", "slots", "command", "watchdog"}
  /\ Init /\ CommandInit /\ SlotInit
  /\ IF part = "fields" THEN FieldsInit ELSE Resting

NextEach ==
  \/ part = "fields" /\ FieldsNext /\ UNCHANGED <<part, vars, commandVars, slotVars>>
  \/ part = "slots" /\ SlotNext /\ UNCHANGED <<part, vars, commandVars, fieldVars>>
  \/ part = "command" /\ CommandNext /\ UNCHANGED <<part, vars, fieldVars, slotVars>>
  \/ part = "watchdog" /\ Next /\ UNCHANGED <<part, fieldVars, commandVars, slotVars>>

SpecEach == InitEach /\ [][NextEach]_<<part, vars, fieldVars, commandVars, slotVars>>
=============================================================================
