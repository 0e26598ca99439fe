---------------------------- MODULE GoNativeProofs ----------------------------
(* Of the native module: calls of shared callbacks (SharedCalls), for any    *)
(* number of threads and callbacks and any depth; the import of a structure  *)
(* (SharedImport), of any size and shape; the process table (GoProcess), for *)
(* any number of children, callers and pids; and what a child receives       *)
(* (GoSpawn), for any arguments, environment and overrides.                  *)
EXTENDS SharedCalls, SharedImport, GoProcess, GoSpawn, FiniteSetTheorems,
        SequenceTheorems, WellFoundedInduction, TLAPS

(***************************************************************************)
(* Calls of shared callbacks                                               *)
(***************************************************************************)

Places == {"lookup", "marshal", "enter", "running", "results", "import"}
Frames == [f : Callbacks, at : Places, old : Int]
Entered(x) == x.old # Unset

TypeOK ==
  /\ shared_mutex \in Threads \cup {Free}
  /\ leaked \in Threads \cup {Free}
  /\ mutex \in [Callbacks -> Threads \cup {Free}]
  /\ stack \in [Threads -> Seq(Frames)]
  /\ control \in [Threads -> Int]

\* A call within a call is made by a callback that runs, and a call is inside
\* its callback's interpreter from shared_code_invoke to its end.
Nested ==
  \A t \in Threads : \A i \in 1 .. Len(stack[t]) :
    /\ i < Len(stack[t]) => stack[t][i].at = "running"
    /\ Entered(stack[t][i]) <=> stack[t][i].at \in {"running", "results", "import"}

\* A thread holds the mutexes of the callbacks that it is in, and no others.
Holding ==
  \A t \in Threads, f \in Callbacks :
    mutex[f] = t <=>
      \E i \in 1 .. Len(stack[t]) : stack[t][i].f = f /\ Entered(stack[t][i])

\* A control is of a call that has not returned, and what a call found was of
\* one outside it.
Controls ==
  \A t \in Threads :
    /\ \/ control[t] \in {Own, NoControl}
       \/ control[t] \in 1 .. Len(stack[t]) /\ Entered(stack[t][control[t]])
    /\ \A i \in 1 .. Len(stack[t]) : Entered(stack[t][i]) =>
         stack[t][i].old \in {Own, NoControl} \cup 1 .. i - 1

\* Unless a call has died with it, shared_mutex is held only by who imports.
Shared ==
  leaked = Free =>
    \A t \in Threads : shared_mutex = t =>
      Len(stack[t]) > 0 /\ stack[t][Len(stack[t])].at \in {"marshal", "import"}

IInv == TypeOK /\ Nested /\ Holding /\ Controls /\ Shared

(***************************************************************************)
(* The three ways a stack changes                                          *)
(***************************************************************************)

\* A call is made.
LEMMA Pushed ==
  ASSUME TypeOK, NEW t \in Threads, NEW x \in Frames,
         stack' = [stack EXCEPT ![t] = Append(@, x)]
  PROVE  /\ stack' \in [Threads -> Seq(Frames)]
         /\ \A u \in Threads \ {t} : stack'[u] = stack[u]
         /\ Len(stack'[t]) = Len(stack[t]) + 1 /\ Len(stack[t]) \in Nat
         /\ stack'[t][Len(stack[t]) + 1] = x
         /\ \A i \in 1 .. Len(stack[t]) : stack'[t][i] = stack[t][i]
<1>1. stack[t] \in Seq(Frames) /\ stack'[t] = Append(stack[t], x)
  BY DEF TypeOK
<1>2. Append(stack[t], x) \in Seq(Frames)
  BY <1>1
<1>3. stack' \in [Threads -> Seq(Frames)] /\ \A u \in Threads \ {t} : stack'[u] = stack[u]
  BY <1>2 DEF TypeOK
<1> QED BY <1>1, <1>3

\* The innermost call goes on.
LEMMA Replaced ==
  ASSUME TypeOK, NEW t \in Threads, NEW x \in Frames, stack[t] # <<>>, SetTop(t, x)
  PROVE  /\ stack' \in [Threads -> Seq(Frames)]
         /\ \A u \in Threads \ {t} : stack'[u] = stack[u]
         /\ Len(stack'[t]) = Len(stack[t]) /\ Len(stack[t]) \in Nat \ {0}
         /\ stack'[t][Len(stack[t])] = x
         /\ \A i \in 1 .. Len(stack[t]) - 1 : stack'[t][i] = stack[t][i]
<1>1. stack[t] \in Seq(Frames) /\ stack'[t] = Append(Front(stack[t]), x)
  BY DEF TypeOK, SetTop
<1>2. Len(stack[t]) \in Nat \ {0}
  BY <1>1
<1>3. /\ Front(stack[t]) \in Seq(Frames) /\ Len(Front(stack[t])) = Len(stack[t]) - 1
      /\ \A i \in 1 .. Len(stack[t]) - 1 : Front(stack[t])[i] = stack[t][i]
  BY <1>1, <1>2 DEF Front
<1>4. Append(Front(stack[t]), x) \in Seq(Frames)
  BY <1>3
<1>5. stack' \in [Threads -> Seq(Frames)] /\ \A u \in Threads \ {t} : stack'[u] = stack[u]
  BY <1>4 DEF TypeOK, SetTop
<1>6. /\ Len(stack'[t]) = Len(stack[t]) /\ stack'[t][Len(stack[t])] = x
      /\ \A i \in 1 .. Len(stack[t]) - 1 : stack'[t][i] = Front(stack[t])[i]
  BY <1>1, <1>2, <1>3
<1> QED BY <1>2, <1>3, <1>5, <1>6

\* The innermost call is over.
LEMMA Popped ==
  ASSUME TypeOK, NEW t \in Threads, stack[t] # <<>>,
         stack' = [stack EXCEPT ![t] = Front(@)]
  PROVE  /\ stack' \in [Threads -> Seq(Frames)]
         /\ \A u \in Threads \ {t} : stack'[u] = stack[u]
         /\ Len(stack'[t]) = Len(stack[t]) - 1 /\ Len(stack[t]) \in Nat \ {0}
         /\ \A i \in 1 .. Len(stack[t]) - 1 : stack'[t][i] = stack[t][i]
<1>1. stack[t] \in Seq(Frames) /\ stack'[t] = Front(stack[t])
  BY DEF TypeOK
<1>2. Len(stack[t]) \in Nat \ {0}
  BY <1>1
<1>3. /\ Front(stack[t]) \in Seq(Frames) /\ Len(Front(stack[t])) = Len(stack[t]) - 1
      /\ \A i \in 1 .. Len(stack[t]) - 1 : Front(stack[t])[i] = stack[t][i]
  BY <1>1, <1>2 DEF Front
<1>4. stack' \in [Threads -> Seq(Frames)] /\ \A u \in Threads \ {t} : stack'[u] = stack[u]
  BY <1>1, <1>3 DEF TypeOK
<1> QED BY <1>1, <1>2, <1>3, <1>4

LEMMA Tops ==
  ASSUME TypeOK, NEW t \in Threads
  PROVE  /\ stack[t] \in Seq(Frames) /\ Len(stack[t]) \in Nat
         /\ \A i \in 1 .. Len(stack[t]) : stack[t][i] \in Frames
         /\ \A where : At(t, where) <=>
              Len(stack[t]) > 0 /\ stack[t][Len(stack[t])].at = where
         /\ stack[t] # <<>> => Top(t) = stack[t][Len(stack[t])] /\ Top(t) \in Frames
<1>1. stack[t] \in Seq(Frames)
  BY DEF TypeOK
<1>2. stack[t] # <<>> <=> Len(stack[t]) > 0
  BY <1>1
<1> QED BY <1>1, <1>2 DEF At, Top, Last

(***************************************************************************)
(* Every step keeps every part                                             *)
(***************************************************************************)

\* Whether a call of g among the first n of the calls s has entered it depends on
\* those n only, and not on one that is of another callback or has not entered.
Inside(s, n, g) == \E i \in 1 .. n : s[i].f = g /\ Entered(s[i])

LEMMA InsideSame ==
  ASSUME NEW s, NEW r, NEW n \in Nat, NEW g, \A i \in 1 .. n : r[i] = s[i]
  PROVE  Inside(r, n, g) <=> Inside(s, n, g)
BY DEF Inside

LEMMA InsideLess ==
  ASSUME NEW s, NEW n \in Nat \ {0}, NEW g, s[n].f # g \/ ~Entered(s[n])
  PROVE  Inside(s, n, g) <=> Inside(s, n - 1, g)
<1>1. \A i \in 1 .. n : i = n \/ i \in 1 .. n - 1
  OBVIOUS
<1>2. \A i \in 1 .. n - 1 : i \in 1 .. n
  OBVIOUS
<1> QED BY <1>1, <1>2 DEF Inside

LEMMA CallStep ==
  ASSUME IInv, NEW t \in Threads, NEW f \in Callbacks, Call(t, f)
  PROVE  IInv'
<1> USE DEF IInv, Entered
<1>1. Frame(f) \in Frames /\ ~Entered(Frame(f)) /\ Frame(f).at = "lookup"
  BY DEF Frame, Frames, Places, Unset
<1>2. stack' = [stack EXCEPT ![t] = Append(@, Frame(f))]
      /\ UNCHANGED <<shared_mutex, leaked, mutex, control>>
  BY DEF Call
<1>3. /\ stack' \in [Threads -> Seq(Frames)]
      /\ \A u \in Threads \ {t} : stack'[u] = stack[u]
      /\ Len(stack'[t]) = Len(stack[t]) + 1 /\ Len(stack[t]) \in Nat
      /\ stack'[t][Len(stack[t]) + 1] = Frame(f)
      /\ \A i \in 1 .. Len(stack[t]) : stack'[t][i] = stack[t][i]
  BY <1>1, <1>2, Pushed
<1>4. Len(stack[t]) > 0 => stack[t][Len(stack[t])].at = "running"
  BY Tops DEF Call
<1>5. TypeOK'
  BY <1>2, <1>3 DEF TypeOK
<1>6. Nested'
  BY <1>1, <1>3, <1>4 DEF Nested
<1>7. Holding'
  <2> SUFFICES ASSUME NEW u \in Threads, NEW g \in Callbacks
               PROVE  mutex'[g] = u <=> Inside(stack'[u], Len(stack'[u]), g)
    BY DEF Holding, Inside
  <2>1. mutex'[g] = u <=> Inside(stack[u], Len(stack[u]), g)
    BY <1>2 DEF Holding, Inside
  <2>2. CASE u # t
    BY <1>3, <2>1, <2>2
  <2>3. CASE u = t
    <3> DEFINE n == Len(stack[t])
    <3>1. n + 1 \in Nat \ {0} /\ (n + 1) - 1 = n /\ ~Entered(stack'[t][n + 1])
      BY <1>1, <1>3
    <3>2. Inside(stack'[t], n + 1, g) <=> Inside(stack'[t], n, g)
      BY <3>1, InsideLess
    <3>3. Inside(stack'[t], n, g) <=> Inside(stack[t], n, g)
      BY <1>3, InsideSame
    <3> QED BY <1>3, <2>1, <2>3, <3>2, <3>3
  <2> QED BY <2>2, <2>3
<1>8. Controls'
  BY <1>1, <1>2, <1>3 DEF Controls, Own, NoControl
<1>9. Shared'
  BY <1>2, <1>3, <1>4 DEF Shared
<1> QED BY <1>5, <1>6, <1>7, <1>8, <1>9

\* A call goes from one place to the next, without entering its callback's
\* interpreter or leaving it.
LEMMA GoesStep ==
  ASSUME IInv, NEW t \in Threads, stack[t] # <<>>, NEW where \in Places,
         Goes(t, where), Top(t).at # "running" \/ where # "running",
         where \in {"running", "results", "import"} <=>
           Top(t).at \in {"running", "results", "import"},
         UNCHANGED <<mutex, control>>
  PROVE  /\ stack' \in [Threads -> Seq(Frames)]
         /\ Nested' /\ Holding' /\ Controls'
         /\ \A u \in Threads \ {t} : stack'[u] = stack[u]
         /\ Len(stack'[t]) = Len(stack[t])
         /\ stack'[t][Len(stack[t])].at = where
<1> USE DEF IInv, Entered
<1> DEFINE x == [Top(t) EXCEPT !.at = where]
<1>1. /\ Top(t) = stack[t][Len(stack[t])] /\ Top(t) \in Frames
      /\ Len(stack[t]) \in Nat
  BY Tops
<1>2. x \in Frames /\ x.f = Top(t).f /\ x.old = Top(t).old /\ x.at = where
  BY <1>1 DEF Frames
<1>3. /\ stack' \in [Threads -> Seq(Frames)]
      /\ \A u \in Threads \ {t} : stack'[u] = stack[u]
      /\ Len(stack'[t]) = Len(stack[t]) /\ Len(stack[t]) \in Nat \ {0}
      /\ stack'[t][Len(stack[t])] = x
      /\ \A i \in 1 .. Len(stack[t]) - 1 : stack'[t][i] = stack[t][i]
  BY <1>2, Replaced DEF Goes
<1>4. \A i \in 1 .. Len(stack[t]) :
        /\ stack'[t][i].f = stack[t][i].f /\ stack'[t][i].old = stack[t][i].old
        /\ i < Len(stack[t]) => stack'[t][i].at = stack[t][i].at
  <2> HIDE DEF x
  <2> TAKE i \in 1 .. Len(stack[t])
  <2>1. CASE i = Len(stack[t])
    BY <1>1, <1>2, <1>3, <2>1
  <2>2. CASE i # Len(stack[t])
    <3>1. i \in 1 .. Len(stack[t]) - 1
      BY <1>3, <2>2
    <3> QED BY <1>3, <3>1
  <2> QED BY <2>1, <2>2
<1> HIDE DEF x
<1>5. Nested'
  <2> SUFFICES ASSUME NEW u \in Threads, NEW i \in 1 .. Len(stack'[u])
               PROVE  /\ i < Len(stack'[u]) => stack'[u][i].at = "running"
                      /\ stack'[u][i].old # Unset <=>
                           stack'[u][i].at \in {"running", "results", "import"}
    BY DEF Nested
  <2>1. CASE u # t
    BY <1>3, <2>1 DEF Nested
  <2>2. CASE u = t /\ i < Len(stack[t])
    <3>1. i \in 1 .. Len(stack[t]) /\ i \in 1 .. Len(stack[t]) - 1
      BY <1>3, <2>2
    <3> QED BY <1>3, <2>2, <3>1 DEF Nested
  <2>3. CASE u = t /\ i = Len(stack[t])
    <3>1. stack[t][i].old # Unset <=>
            stack[t][i].at \in {"running", "results", "import"}
      BY <1>3, <2>3 DEF Nested
    <3> QED BY <1>1, <1>2, <1>3, <2>3, <3>1
  <2> QED BY <1>3, <2>1, <2>2, <2>3
<1>6. Holding'
  <2> SUFFICES ASSUME NEW u \in Threads, NEW f \in Callbacks
               PROVE  mutex[f] = u <=> \E i \in 1 .. Len(stack'[u]) :
                        stack'[u][i].f = f /\ stack'[u][i].old # Unset
    BY DEF Holding
  <2>1. mutex[f] = u <=> \E i \in 1 .. Len(stack[u]) :
          stack[u][i].f = f /\ stack[u][i].old # Unset
    BY DEF Holding
  <2>2. CASE u = t
    BY <1>3, <1>4, <2>1, <2>2
  <2>3. CASE u # t
    BY <1>3, <2>1, <2>3
  <2> QED BY <2>2, <2>3
<1>7. Controls'
  <2> SUFFICES ASSUME NEW u \in Threads
               PROVE  /\ \/ control[u] \in {Own, NoControl}
                         \/ /\ control[u] \in 1 .. Len(stack'[u])
                            /\ stack'[u][control[u]].old # Unset
                      /\ \A i \in 1 .. Len(stack'[u]) : stack'[u][i].old # Unset =>
                           stack'[u][i].old \in {Own, NoControl} \cup 1 .. i - 1
    BY DEF Controls
  <2>1. CASE u # t
    BY <1>3, <2>1 DEF Controls
  <2>2. CASE u = t
    <3>1. Len(stack'[t]) = Len(stack[t])
      BY <1>3
    <3>2. \A i \in 1 .. Len(stack[t]) : stack'[t][i].old = stack[t][i].old
      BY <1>4
    <3> QED BY <2>2, <3>1, <3>2 DEF Controls
  <2> QED BY <2>1, <2>2
<1> QED BY <1>2, <1>3, <1>5, <1>6, <1>7

LEMMA LockStep ==
  ASSUME IInv, NEW t \in Threads, Lock(t)
  PROVE  IInv'
<1> USE DEF IInv
<1> DEFINE where == IF At(t, "lookup") THEN "marshal" ELSE "import"
<1>1. /\ stack[t] # <<>> /\ Top(t).at \in {"lookup", "results"} /\ Goes(t, where)
      /\ where = IF Top(t).at = "lookup" THEN "marshal" ELSE "import"
      /\ shared_mutex' = t /\ UNCHANGED <<leaked, mutex, control>>
  BY DEF Lock, At
<1> HIDE DEF where
<1>2. /\ stack' \in [Threads -> Seq(Frames)]
      /\ Nested' /\ Holding' /\ Controls'
      /\ \A u \in Threads \ {t} : stack'[u] = stack[u]
      /\ Len(stack'[t]) = Len(stack[t])
      /\ stack'[t][Len(stack[t])].at = where
  BY <1>1, GoesStep DEF Places
<1>3. TypeOK'
  BY <1>1, <1>2 DEF TypeOK
<1>4. Len(stack[t]) > 0
  BY <1>1, Tops DEF TypeOK
<1>5. Shared'
  BY <1>1, <1>2, <1>4 DEF Shared
<1> QED BY <1>2, <1>3, <1>5

LEMMA MarshalledStep ==
  ASSUME IInv, NEW t \in Threads, Marshalled(t)
  PROVE  IInv'
<1> USE DEF IInv
<1>1. /\ stack[t] # <<>> /\ Top(t).at = "marshal" /\ Goes(t, "enter")
      /\ SharedUnlock(t) /\ UNCHANGED <<leaked, mutex, control>>
  BY DEF Marshalled, At
<1>2. /\ stack' \in [Threads -> Seq(Frames)]
      /\ Nested' /\ Holding' /\ Controls'
      /\ \A u \in Threads \ {t} : stack'[u] = stack[u]
  BY <1>1, GoesStep DEF Places
<1>3. TypeOK'
  BY <1>1, <1>2 DEF TypeOK, SharedUnlock
<1>4. Shared'
  BY <1>1, CallAssumption DEF Shared, SharedUnlock
<1> QED BY <1>2, <1>3, <1>4

LEMMA ResultsStep ==
  ASSUME IInv, NEW t \in Threads, Results(t)
  PROVE  IInv'
<1> USE DEF IInv
<1>1. /\ stack[t] # <<>> /\ Top(t).at = "running" /\ Goes(t, "results")
      /\ UNCHANGED <<shared_mutex, leaked, mutex, control>>
  BY DEF Results, At
<1>2. /\ stack' \in [Threads -> Seq(Frames)]
      /\ Nested' /\ Holding' /\ Controls'
      /\ \A u \in Threads \ {t} : stack'[u] = stack[u]
  BY <1>1, GoesStep DEF Places
<1>3. TypeOK'
  BY <1>1, <1>2 DEF TypeOK
<1>4. Top(t) = stack[t][Len(stack[t])]
  BY <1>1, Tops
<1>5. Shared'
  BY <1>1, <1>2, <1>4 DEF Shared
<1> QED BY <1>2, <1>3, <1>5

\* shared_mutex goes with the thread: from now on `leaked` says so.
LEMMA MarshalDiesStep ==
  ASSUME IInv, NEW t \in Threads, MarshalDies(t)
  PROVE  IInv'
<1> USE DEF IInv, Entered
<1> DEFINE n == Len(stack[t])
<1>1. /\ stack[t] # <<>> /\ Top(t).at = "marshal"
      /\ stack' = [stack EXCEPT ![t] = Front(@)]
      /\ leaked' = t /\ UNCHANGED <<shared_mutex, mutex, control>>
  BY DEF MarshalDies, At
<1>2. /\ stack' \in [Threads -> Seq(Frames)]
      /\ \A u \in Threads \ {t} : stack'[u] = stack[u]
      /\ Len(stack'[t]) = n - 1 /\ n \in Nat \ {0}
      /\ \A i \in 1 .. n - 1 : stack'[t][i] = stack[t][i]
  BY <1>1, Popped
<1>3. ~Entered(stack[t][n])
  BY <1>1, <1>2, Tops DEF Nested
<1>4. TypeOK'
  BY <1>1, <1>2 DEF TypeOK
<1>5. Nested'
  BY <1>2 DEF Nested
<1>6. Holding'
  <2> SUFFICES ASSUME NEW u \in Threads, NEW g \in Callbacks
               PROVE  mutex'[g] = u <=> Inside(stack'[u], Len(stack'[u]), g)
    BY DEF Holding, Inside
  <2>1. mutex'[g] = u <=> Inside(stack[u], Len(stack[u]), g)
    BY <1>1 DEF Holding, Inside
  <2>2. CASE u # t
    BY <1>2, <2>1, <2>2
  <2>3. CASE u = t
    <3>1. Inside(stack[t], n, g) <=> Inside(stack[t], n - 1, g)
      BY <1>2, <1>3, InsideLess
    <3>2. n - 1 \in Nat
      BY <1>2
    <3>3. Inside(stack'[t], n - 1, g) <=> Inside(stack[t], n - 1, g)
      BY <1>2, <3>2, InsideSame
    <3> QED BY <1>2, <2>1, <2>3, <3>1, <3>3
  <2> QED BY <2>2, <2>3
<1>7. Controls'
  <2> SUFFICES ASSUME NEW u \in Threads
               PROVE  /\ \/ control[u] \in {Own, NoControl}
                         \/ /\ control[u] \in 1 .. Len(stack'[u])
                            /\ stack'[u][control[u]].old # Unset
                      /\ \A i \in 1 .. Len(stack'[u]) : stack'[u][i].old # Unset =>
                           stack'[u][i].old \in {Own, NoControl} \cup 1 .. i - 1
    BY <1>1 DEF Controls
  <2>1. CASE u # t
    BY <1>2, <2>1 DEF Controls
  <2>2. CASE u = t
    <3>1. Len(stack'[t]) = n - 1 /\ n \in Nat
      BY <1>2
    <3>2. \A i \in 1 .. n - 1 : stack'[t][i].old = stack[t][i].old /\ i \in 1 .. n
      BY <1>2
    <3>3. /\ \/ control[t] \in {Own, NoControl}
             \/ control[t] \in 1 .. n /\ stack[t][control[t]].old # Unset
          /\ \A i \in 1 .. n : stack[t][i].old # Unset =>
               stack[t][i].old \in {Own, NoControl} \cup 1 .. i - 1
      BY DEF Controls
    <3>4. \A i \in 1 .. n : i = n \/ i \in 1 .. n - 1
      BY <3>1
    <3>5. stack[t][n].old = Unset
      BY <1>3
    <3> HIDE DEF n
    <3>6. \/ control[t] \in {Own, NoControl}
          \/ control[t] \in 1 .. n - 1 /\ stack'[t][control[t]].old # Unset
      BY <3>2, <3>3, <3>4, <3>5
    <3>7. \A i \in 1 .. n - 1 : stack'[t][i].old # Unset =>
            stack'[t][i].old \in {Own, NoControl} \cup 1 .. i - 1
      BY <3>2, <3>3
    <3> QED BY <2>2, <3>1, <3>6, <3>7
  <2> QED BY <2>1, <2>2
<1>8. Shared'
  BY <1>1, CallAssumption DEF Shared
<1> QED BY <1>4, <1>5, <1>6, <1>7, <1>8

\* shared_code_invoke waits for the callback's mutex, and its go_control, if
\* the thread has none, is its own.
LEMMA EnterStep ==
  ASSUME IInv, NEW t \in Threads, Enter(t)
  PROVE  IInv'
<1> USE DEF IInv, Entered
<1> DEFINE n == Len(stack[t])
           f == Top(t).f
           x == [Top(t) EXCEPT !.at = "running", !.old = control[t]]
<1>1. /\ stack[t] # <<>> /\ Top(t).at = "enter"
      /\ Top(t) = stack[t][n] /\ Top(t) \in Frames /\ n \in Nat
  BY Tops DEF Enter, At
<1>2. /\ mutex[f] \in {Free, t} /\ mutex' = [mutex EXCEPT ![f] = t]
      /\ control' = [control EXCEPT ![t] = IF @ = NoControl THEN n ELSE @]
      /\ SetTop(t, x) /\ UNCHANGED <<shared_mutex, leaked>>
  BY DEF Enter
<1>3. f \in Callbacks /\ n \in Nat \ {0} /\ ~Entered(stack[t][n]) /\ control[t] \in Int
  <2>1. f \in Callbacks /\ control[t] \in Int
    BY <1>1 DEF Frames, TypeOK
  <2>2. n \in Nat \ {0}
    BY <1>1, Tops DEF Enter
  <2>3. stack[t][n].at = "enter" /\ n \in 1 .. n
    BY <1>1, <2>2
  <2>4. ~Entered(stack[t][n])
    BY <2>3 DEF Nested
  <2> QED BY <2>1, <2>2, <2>4
<1>4. control[t] \in {Own, NoControl} \cup 1 .. n - 1
  BY <1>1, <1>3 DEF Controls
<1>5. x \in Frames /\ x.f = f /\ x.at = "running" /\ x.old = control[t]
  BY <1>1, <1>3 DEF Frames, Places
<1>6. Entered(x)
  BY <1>3, <1>4, <1>5 DEF Own, NoControl, Unset
<1>7. /\ stack' \in [Threads -> Seq(Frames)]
      /\ \A u \in Threads \ {t} : stack'[u] = stack[u]
      /\ Len(stack'[t]) = n /\ stack'[t][n] = x
      /\ \A i \in 1 .. n - 1 : stack'[t][i] = stack[t][i]
  BY <1>1, <1>2, <1>5, Replaced
<1>8. Top(t).f = stack[t][n].f
  BY <1>1
<1> HIDE DEF x, f
<1>9. TypeOK'
  <2>1. mutex' \in [Callbacks -> Threads \cup {Free}]
    BY <1>2 DEF TypeOK
  <2>2. control' \in [Threads -> Int]
    BY <1>2, <1>3 DEF TypeOK
  <2> QED BY <1>2, <1>7, <2>1, <2>2 DEF TypeOK
<1>10. Nested'
  <2>1. \A i \in 1 .. n : i < n => i \in 1 .. n - 1
    BY <1>3
  <2>2. ASSUME NEW i \in 1 .. n
        PROVE  /\ i < n => stack'[t][i].at = "running"
               /\ Entered(stack'[t][i]) <=>
                    stack'[t][i].at \in {"running", "results", "import"}
    <3>1. CASE i = n
      BY <1>3, <1>5, <1>6, <1>7, <3>1
    <3>2. CASE i # n
      BY <1>3, <1>7, <2>1, <3>2 DEF Nested
    <3> QED BY <3>1, <3>2
  <2> QED BY <1>7, <2>2 DEF Nested
<1>11. Holding'
  <2>1. \A g \in Callbacks :
          (\E i \in 1 .. n : stack'[t][i].f = g /\ Entered(stack'[t][i])) <=>
             \/ g = f
             \/ \E i \in 1 .. n : stack[t][i].f = g /\ Entered(stack[t][i])
    <3>1. \A i \in 1 .. n : i = n \/ i \in 1 .. n - 1
      BY <1>3
    <3>2. n \in 1 .. n
      BY <1>3
    <3> QED BY <1>3, <1>5, <1>6, <1>7, <3>1, <3>2
  <2>2. \A g \in Callbacks :
          mutex'[g] = t <=> \E i \in 1 .. Len(stack'[t]) :
                              stack'[t][i].f = g /\ Entered(stack'[t][i])
    <3>1. \A g \in Callbacks : mutex'[g] = t <=> g = f \/ mutex[g] = t
      BY <1>2, <1>3 DEF TypeOK
    <3> QED BY <1>7, <2>1, <3>1 DEF Holding
  <2>3. \A u \in Threads \ {t}, g \in Callbacks :
          mutex'[g] = u <=> \E i \in 1 .. Len(stack'[u]) :
                              stack'[u][i].f = g /\ Entered(stack'[u][i])
    <3>1. \A u \in Threads \ {t}, g \in Callbacks : mutex'[g] = u <=> mutex[g] = u
      BY <1>2, <1>3, CallAssumption DEF TypeOK
    <3> QED BY <1>7, <3>1 DEF Holding
  <2> QED BY <2>2, <2>3 DEF Holding
<1>12. Controls'
  <2>1. \A u \in Threads \ {t} : control'[u] = control[u]
    BY <1>2 DEF TypeOK
  <2>2. control'[t] = IF control[t] = NoControl THEN n ELSE control[t]
    BY <1>2 DEF TypeOK
  <2>3. \/ control'[t] \in {Own, NoControl}
        \/ control'[t] \in 1 .. n /\ Entered(stack'[t][control'[t]])
    <3>1. CASE control[t] = NoControl
      BY <1>3, <1>6, <1>7, <2>2, <3>1
    <3>2. CASE control[t] # NoControl
      BY <1>3, <1>4, <1>7, <2>2, <3>2 DEF Controls
    <3> QED BY <3>1, <3>2
  <2>4. ASSUME NEW i \in 1 .. n, Entered(stack'[t][i])
        PROVE  stack'[t][i].old \in {Own, NoControl} \cup 1 .. i - 1
    <3>1. CASE i = n
      BY <1>4, <1>5, <1>7, <3>1
    <3>2. CASE i # n
      <4>1. i \in 1 .. n - 1
        BY <1>3, <3>2
      <4> QED BY <1>7, <2>4, <4>1 DEF Controls
    <3> QED BY <3>1, <3>2
  <2>5. \A u \in Threads \ {t} :
          /\ \/ control'[u] \in {Own, NoControl}
             \/ control'[u] \in 1 .. Len(stack'[u]) /\ Entered(stack'[u][control'[u]])
          /\ \A i \in 1 .. Len(stack'[u]) : Entered(stack'[u][i]) =>
               stack'[u][i].old \in {Own, NoControl} \cup 1 .. i - 1
    BY <1>7, <2>1 DEF Controls
  <2> QED BY <1>7, <2>3, <2>4, <2>5 DEF Controls
<1>13. Shared'
  BY <1>1, <1>2, <1>7 DEF Shared
<1> QED BY <1>9, <1>10, <1>11, <1>12, <1>13

\* Its mutex stays with the thread if that is inside the same callback further
\* out, and thread-local storage points to what the call found.
LEMMA LeaveStep ==
  ASSUME IInv, NEW t \in Threads, Leave(t)
  PROVE  IInv'
<1> USE DEF IInv, Entered
<1> DEFINE n == Len(stack[t])
           f == Top(t).f
           below == {i \in 1 .. n - 1 : stack[t][i].f = f /\ stack[t][i].old # Unset}
<1>1. /\ stack[t] # <<>> /\ Top(t).at \in {"import", "running"}
      /\ Top(t) = stack[t][n] /\ Top(t) \in Frames /\ n \in Nat
  BY Tops DEF Leave, At
<1>2. /\ IF Top(t).at = "import" THEN SharedUnlock(t) ELSE UNCHANGED shared_mutex
      /\ mutex' = [mutex EXCEPT ![f] = IF below = {} THEN Free ELSE t]
      /\ control' = [control EXCEPT ![t] = Top(t).old]
      /\ stack' = [stack EXCEPT ![t] = Front(@)] /\ UNCHANGED leaked
  BY DEF Leave, At
<1>3. /\ stack' \in [Threads -> Seq(Frames)]
      /\ \A u \in Threads \ {t} : stack'[u] = stack[u]
      /\ Len(stack'[t]) = n - 1 /\ n \in Nat \ {0}
      /\ \A i \in 1 .. n - 1 : stack'[t][i] = stack[t][i]
  BY <1>1, <1>2, Popped
<1>4. f \in Callbacks /\ stack[t][n].f = f /\ Entered(stack[t][n]) /\ Top(t).old \in Int
  BY <1>1, <1>3 DEF Frames, Nested
<1>5. mutex[f] = t
  <2>1. n \in 1 .. n
    BY <1>3
  <2> HIDE DEF f
  <2> QED BY <1>4, <2>1 DEF Holding
<1>6. \A i \in 1 .. n : i = n \/ i \in 1 .. n - 1
  BY <1>3
<1>7. /\ \A g \in Callbacks \ {f} : mutex'[g] = mutex[g]
      /\ mutex'[f] = IF below = {} THEN Free ELSE t
  BY <1>2, <1>4 DEF TypeOK
<1>8. below # {} <=> \E i \in 1 .. n - 1 : stack[t][i].f = f /\ Entered(stack[t][i])
  OBVIOUS
<1>9. Top(t).old \in {Own, NoControl} \cup 1 .. n - 1
  BY <1>1, <1>3, <1>4 DEF Controls
<1> HIDE DEF f, below
<1>10. TypeOK'
  BY <1>2, <1>3, <1>4 DEF TypeOK, SharedUnlock
<1>11. Nested'
  BY <1>3 DEF Nested
<1>12. Holding'
  <2> SUFFICES ASSUME NEW u \in Threads, NEW g \in Callbacks
               PROVE  mutex'[g] = u <=> Inside(stack'[u], Len(stack'[u]), g)
    BY DEF Holding, Inside
  <2>1. mutex[g] = u <=> Inside(stack[u], Len(stack[u]), g)
    BY DEF Holding, Inside
  <2>2. CASE u # t
    <3>1. mutex'[g] = u <=> mutex[g] = u
      BY <1>5, <1>7, <2>2, CallAssumption
    <3> QED BY <1>3, <2>1, <2>2, <3>1
  <2>3. n - 1 \in Nat
    BY <1>3
  <2>4. Inside(stack'[t], n - 1, g) <=> Inside(stack[t], n - 1, g)
    BY <1>3, <2>3, InsideSame
  <2>5. CASE u = t /\ g # f
    <3>1. Inside(stack[t], n, g) <=> Inside(stack[t], n - 1, g)
      BY <1>3, <1>4, <2>5, InsideLess
    <3> QED BY <1>3, <1>7, <2>1, <2>4, <2>5, <3>1
  <2>6. CASE u = t /\ g = f
    <3>1. below # {} <=> Inside(stack[t], n - 1, f)
      BY <1>8 DEF Inside
    <3>2. mutex'[f] = t <=> below # {}
      BY <1>7, CallAssumption
    <3> QED BY <1>3, <2>4, <2>6, <3>1, <3>2
  <2> QED BY <2>2, <2>5, <2>6
<1>13. Controls'
  <2>1. /\ \A u \in Threads \ {t} : control'[u] = control[u]
        /\ control'[t] = Top(t).old
    BY <1>2 DEF TypeOK
  <2>2. \A i \in 1 .. n - 1 : Entered(stack'[t][i])
    BY <1>3 DEF Nested
  <2>3. \/ control'[t] \in {Own, NoControl}
        \/ control'[t] \in 1 .. Len(stack'[t]) /\ Entered(stack'[t][control'[t]])
    BY <1>3, <1>9, <2>1, <2>2
  <2>4. \A i \in 1 .. Len(stack'[t]) : Entered(stack'[t][i]) =>
          stack'[t][i].old \in {Own, NoControl} \cup 1 .. i - 1
    BY <1>3 DEF Controls
  <2>5. \A u \in Threads \ {t} :
          /\ \/ control'[u] \in {Own, NoControl}
             \/ control'[u] \in 1 .. Len(stack'[u]) /\ Entered(stack'[u][control'[u]])
          /\ \A i \in 1 .. Len(stack'[u]) : Entered(stack'[u][i]) =>
               stack'[u][i].old \in {Own, NoControl} \cup 1 .. i - 1
    BY <1>3, <2>1 DEF Controls
  <2> QED BY <2>3, <2>4, <2>5 DEF Controls
<1>14. Shared'
  <2>1. CASE Top(t).at = "import"
    BY <1>2, <2>1, CallAssumption DEF Shared, SharedUnlock
  <2>2. CASE Top(t).at = "running"
    BY <1>1, <1>2, <1>3, <2>2 DEF Shared
  <2> QED BY <1>1, <2>1, <2>2
<1> QED BY <1>10, <1>11, <1>12, <1>13, <1>14

LEMMA InvInit ==
  ASSUME CallInit
  PROVE  IInv
<1>1. \A t \in Threads : Len(stack[t]) = 0 /\ 1 .. Len(stack[t]) = {}
  BY DEF CallInit
<1>2. \A t \in Threads : stack[t] \in Seq(Frames)
  BY DEF CallInit
<1>3. TypeOK
  BY <1>2 DEF CallInit, TypeOK, Own, NoControl
<1> QED
  BY <1>1, <1>3, CallAssumption DEF CallInit, IInv, Nested, Holding, Controls, Shared

LEMMA InvStep ==
  ASSUME IInv, [CallNext]_callVars
  PROVE  IInv'
<1>1. CASE UNCHANGED callVars
  BY <1>1 DEF callVars, IInv, TypeOK, Nested, Holding, Controls, Shared
<1> QED
  BY <1>1, CallStep, LockStep, MarshalledStep, MarshalDiesStep, EnterStep, ResultsStep,
     LeaveStep DEF CallNext

(***************************************************************************)
(* The theorem                                                             *)
(***************************************************************************)

LEMMA Safe ==
  ASSUME IInv
  PROVE  InterpretersSafe
<1> USE DEF IInv, Entered
<1>1. \A t \in Threads : DOMAIN stack[t] = 1 .. Len(stack[t])
  BY DEF TypeOK
<1>2. ASSUME NEW t \in Threads, NEW u \in Threads, t # u,
             NEW i \in DOMAIN stack[t], NEW j \in DOMAIN stack[u],
             Entered(stack[t][i]), Entered(stack[u][j]), stack[t][i].f = stack[u][j].f
      PROVE  FALSE
  <2>1. stack[t][i].f \in Callbacks
    BY <1>1, Tops DEF Frames
  <2>2. mutex[stack[t][i].f] = t /\ mutex[stack[t][i].f] = u
    BY <1>1, <1>2, <2>1 DEF Holding
  <2> QED BY <1>2, <2>2
<1>3. \A t \in Threads : control[t] \in {Own, NoControl} \cup DOMAIN stack[t]
  BY <1>1 DEF Controls
<1> QED BY <1>2, <1>3 DEF InterpretersSafe

\* In a ring nobody waits for shared_mutex, since who holds it waits for nothing.
LEMMA Explained ==
  ASSUME IInv
  PROVE  DeadlockExplained
<1> SUFFICES ASSUME NEW ring \in (SUBSET Threads) \ {{}},
                    UNION {WaitsFor(t) : t \in ring} = ring,
                    \A t \in ring : WaitsFor(t) # {}, leaked = Free
             PROVE  /\ Cardinality(ring) > 1
                    /\ \A t \in ring : At(t, "enter") /\ Len(stack[t]) > 1
  BY DEF DeadlockExplained
<1> USE DEF IInv, Entered
<1>1. ASSUME NEW t \in ring
      PROVE  At(t, "enter") /\ WaitsFor(t) = {mutex[Top(t).f]} \ {t, Free}
  <2>1. CASE At(t, "enter")
    <3>1. ~(At(t, "lookup") \/ At(t, "results"))
      BY <2>1 DEF At
    <3>2. WaitsFor(t) = {mutex[Top(t).f]} \ {t, Free}
      BY <2>1, <3>1 DEF WaitsFor
    <3> QED BY <2>1, <3>2
  <2>2. CASE ~At(t, "enter")
    <3>1. WaitsFor(t) = {shared_mutex} \ {t, Free} /\ shared_mutex \in ring
      BY <2>2 DEF WaitsFor
    <3>2. /\ Len(stack[shared_mutex]) > 0
          /\ stack[shared_mutex][Len(stack[shared_mutex])].at \in {"marshal", "import"}
      BY <3>1 DEF Shared
    <3>3. WaitsFor(shared_mutex) = {}
      BY <3>1, <3>2, Tops DEF WaitsFor, At
    <3> QED BY <3>1, <3>3
  <2> QED BY <2>1, <2>2
<1>2. ASSUME NEW t \in ring
      PROVE  \E u \in ring : u # t /\ t \in WaitsFor(u)
  BY <1>1
<1>3. Cardinality(ring) > 1
  <2>1. PICK t \in ring : TRUE
    OBVIOUS
  <2>2. PICK u \in ring : u # t
    BY <1>2
  <2> DEFINE rest == ring \ {t}
  <2>3. IsFiniteSet(ring) /\ IsFiniteSet(rest)
    BY FS_Subset, CallAssumption
  <2>4. Cardinality(ring) \in Nat /\ Cardinality(rest) \in Nat
    BY <2>3, FS_CardinalityType
  <2>5. Cardinality(rest) = Cardinality(ring) - 1
    BY <2>1, <2>3, FS_RemoveElement
  <2>6. rest # {}
    BY <2>2
  <2>7. Cardinality(rest) # 0
    BY <2>3, <2>6, FS_EmptySet
  <2> HIDE DEF rest
  <2> QED BY <2>4, <2>5, <2>7
<1>4. ASSUME NEW t \in ring
      PROVE  Len(stack[t]) > 1
  <2>1. PICK u \in ring : mutex[Top(u).f] = t
    <3>1. PICK u \in ring : t \in WaitsFor(u)
      BY <1>2
    <3>2. t \in {mutex[Top(u).f]} \ {u, Free}
      BY <1>1, <3>1
    <3> QED BY <3>2
  <2>2. Top(u).f \in Callbacks
    BY <1>1, Tops DEF At, Frames
  <2>3. PICK i \in 1 .. Len(stack[t]) : Entered(stack[t][i])
    BY <2>1, <2>2 DEF Holding
  <2>4. ~Entered(stack[t][Len(stack[t])]) /\ Len(stack[t]) \in Nat \ {0}
    <3>1. stack[t][Len(stack[t])].at = "enter" /\ Len(stack[t]) \in Nat \ {0}
      BY <1>1, Tops
    <3>2. Len(stack[t]) \in 1 .. Len(stack[t])
      BY <3>1
    <3> QED BY <3>1, <3>2 DEF Nested
  <2> QED BY <2>3, <2>4
<1> QED BY <1>1, <1>3, <1>4

\* shared_code_invoke, for any number of threads and callbacks and calls within
\* calls of any depth: no two threads are in one interpreter, thread-local
\* storage never points to a go_control that is gone, and nobody waits in a
\* ring but callbacks that call each other (CallbacksSafe).
THEOREM CallsSafe ==
  CallSpec => []CallbacksSafe
<1>1. CallInit => IInv
  BY InvInit
<1>2. IInv /\ [CallNext]_callVars => IInv'
  BY InvStep
<1>3. IInv => CallbacksSafe
  BY Safe, Explained DEF CallbacksSafe
<1> QED BY <1>1, <1>2, <1>3, PTL DEF CallSpec

(***************************************************************************)
(* The import of a structure                                               *)
(***************************************************************************)

Items == {Hole, Plain} \cup {Ref(o) : o \in Objects}

Nodes == [type : Kinds \cup {"undef", "value"}, items : Seq(Nat)]
Calls == [of : Objects, at : Nat]

ImportTypeOK ==
  /\ kind \in [Objects -> Kinds]
  /\ items \in [Objects -> Seq(Items)]
  /\ nodes \in Seq(Nodes)
  /\ calls \in Seq(Calls)
  /\ DOMAIN map \subseteq Objects
  /\ \A o \in DOMAIN map : map[o] \in 1 .. Len(nodes)
  /\ phase \in {"grows", "runs", "done", "died"}

\* What the import does, by how far it is.
Phases ==
  /\ phase = "grows" => nodes = <<Node("undef")>> /\ map = <<>> /\ calls = <<>>
  /\ phase = "runs" => calls # <<>>
  /\ phase = "done" => calls = <<>>
  /\ phase \in {"runs", "done"} => Root \in DOMAIN map /\ map[Root] = Dest
  /\ phase = "died" => \E o \in Reached : kind[o] = "unsupported"

\* An object that was met is reached, of a kind that can be shared, and has a
\* node of its own, whose items are so far what they should be.
Met ==
  \A o \in DOMAIN map :
    /\ o \in Reached
    /\ kind[o] # "unsupported"
    /\ nodes[map[o]].type = kind[o]
    /\ Len(nodes[map[o]].items) <= Len(items[o])
    /\ \A i \in 1 .. Len(nodes[map[o]].items) : Shows(nodes[map[o]].items[i], items[o][i])

OwnNode == \A o, p \in DOMAIN map : map[o] = map[p] => o = p

\* The calls import different objects into their nodes, and each has come to
\* the reference that the next one follows.
Following ==
  /\ \A j \in 1 .. Len(calls) :
       /\ calls[j].of \in DOMAIN map
       /\ calls[j].at = map[calls[j].of]
  /\ \A j \in 1 .. Len(calls) - 1 :
       /\ Len(nodes[calls[j].at].items) < Len(items[calls[j].of])
       /\ items[calls[j].of][Len(nodes[calls[j].at].items) + 1] = Ref(calls[j + 1].of)
  /\ \A j, k \in 1 .. Len(calls) : calls[j].of = calls[k].of => j = k

\* An object that no call imports any more has all its items.
Through ==
  \A o \in DOMAIN map :
    \/ \E j \in 1 .. Len(calls) : calls[j].of = o
    \/ Len(nodes[map[o]].items) = Len(items[o])

ImportIInv == ImportTypeOK /\ Phases /\ Met /\ OwnNode /\ Following /\ Through

LEMMA ItemsDiffer ==
  /\ Hole # Plain
  /\ \A o : Ref(o) # Hole /\ Ref(o) # Plain
  /\ \A o, p : Ref(o) = Ref(p) => o = p
<1>1. Hole[1] = "hole" /\ Plain[1] = "plain"
  BY DEF Hole, Plain
<1>2. \A o : Ref(o)[1] = "ref" /\ Ref(o)[2] = o
  BY DEF Ref
<1> QED  BY <1>1, <1>2

LEMMA ReachedOn ==
  ASSUME ImportTypeOK, NEW o \in Reached, NEW p \in Objects,
         NEW i \in 1 .. Len(items[o]), items[o][i] = Ref(p)
  PROVE  p \in Reached
<1> SUFFICES ASSUME NEW s \in SUBSET Objects, Root \in s, ClosedUnder(s)
             PROVE  p \in s
  BY DEF Reached
<1>1. o \in s /\ o \in Objects
  BY DEF Reached
<1>2. i \in DOMAIN items[o]
  BY <1>1 DEF ImportTypeOK
<1> QED  BY <1>1, <1>2 DEF ClosedUnder

LEMMA RootReached ==
  ASSUME ImportTypeOK
  PROVE  Root \in Reached
BY ImportAssumption DEF Reached

LEMMA ReachedStays ==
  ASSUME UNCHANGED items
  PROVE  Reached' = Reached
BY DEF Reached, ClosedUnder

\* The nodes after node x became the next item of the call's.
Grows(call, x) ==
  /\ nodes' \in Seq(Nodes)
  /\ Len(nodes) <= Len(nodes')
  /\ \A n \in 1 .. Len(nodes) :
       /\ nodes'[n].type = nodes[n].type
       /\ nodes'[n].items = IF n = call.at THEN Append(nodes[n].items, x) ELSE nodes[n].items

LEMMA LinkNodes ==
  ASSUME ImportTypeOK, NEW j \in 1 .. Len(calls), calls[j].at \in 1 .. Len(nodes), NEW x \in Nat
  PROVE  /\ Link(calls[j], x) \in Seq(Nodes) /\ Len(Link(calls[j], x)) = Len(nodes)
         /\ \A n \in 1 .. Len(nodes) :
              /\ Link(calls[j], x)[n].type = nodes[n].type
              /\ Link(calls[j], x)[n].items =
                   IF n = calls[j].at THEN Append(nodes[n].items, x) ELSE nodes[n].items
<1> DEFINE c == calls[j]
<1>1. nodes \in Seq(Nodes) /\ c.at \in 1 .. Len(nodes)
  BY DEF ImportTypeOK
<1>2. \A n \in 1 .. Len(nodes) :
        /\ nodes[n] \in Nodes
        /\ [nodes[n] EXCEPT !.items = Append(@, x)] \in Nodes
        /\ [nodes[n] EXCEPT !.items = Append(@, x)].type = nodes[n].type
        /\ [nodes[n] EXCEPT !.items = Append(@, x)].items = Append(nodes[n].items, x)
  <2> SUFFICES ASSUME NEW n \in 1 .. Len(nodes)
               PROVE  /\ nodes[n] \in Nodes
                      /\ [nodes[n] EXCEPT !.items = Append(@, x)] \in Nodes
                      /\ [nodes[n] EXCEPT !.items = Append(@, x)].type = nodes[n].type
                      /\ [nodes[n] EXCEPT !.items = Append(@, x)].items = Append(nodes[n].items, x)
    OBVIOUS
  <2>1. nodes[n] \in Nodes
    BY <1>1
  <2>2. nodes[n].items \in Seq(Nat)
    BY <2>1 DEF Nodes
  <2>3. Append(nodes[n].items, x) \in Seq(Nat)
    BY <2>2
  <2> QED  BY <2>1, <2>3 DEF Nodes
<1>3. /\ Link(c, x) \in Seq(Nodes) /\ Len(Link(c, x)) = Len(nodes)
      /\ \A n \in 1 .. Len(nodes) :
           Link(c, x)[n] = IF n = c.at THEN [nodes[n] EXCEPT !.items = Append(@, x)] ELSE nodes[n]
  <2>1. /\ DOMAIN nodes = 1 .. Len(nodes) /\ Len(nodes) \in Nat
        /\ Link(c, x) = [nodes EXCEPT ![c.at] = [nodes[c.at] EXCEPT !.items = Append(@, x)]]
    BY <1>1 DEF Link
  <2>2. \A n \in 1 .. Len(nodes) :
          Link(c, x)[n] = IF n = c.at THEN [nodes[n] EXCEPT !.items = Append(@, x)] ELSE nodes[n]
    BY <1>1, <1>2, <2>1
  <2>3. Link(c, x) \in Seq(Nodes) /\ Len(Link(c, x)) = Len(nodes)
    <3>1. [nodes[c.at] EXCEPT !.items = Append(@, x)] \in Nodes
      BY <1>1, <1>2
    <3> QED  BY <1>1, <2>1, <3>1, ExceptSeq
  <2> QED  BY <2>2, <2>3
<1> QED  BY <1>1, <1>2, <1>3

LEMMA LinkGrows ==
  ASSUME ImportTypeOK, NEW j \in 1 .. Len(calls), calls[j].at \in 1 .. Len(nodes),
         NEW x \in Nat,
         \/ nodes' = Link(calls[j], x)
         \/ \E type \in {"undef", "value"} : nodes' = Append(Link(calls[j], x), Node(type))
  PROVE  Grows(calls[j], x)
<1>1. \A type \in {"undef", "value"} : Node(type) \in Nodes
  <2>1. <<>> \in Seq(Nat)
    OBVIOUS
  <2> QED  BY <2>1 DEF Node, Nodes
<1> DEFINE new == Link(calls[j], x)
<1>2. /\ new \in Seq(Nodes) /\ Len(new) = Len(nodes) /\ Len(nodes) \in Nat
      /\ \A n \in 1 .. Len(nodes) :
           /\ new[n].type = nodes[n].type
           /\ new[n].items =
                IF n = calls[j].at THEN Append(nodes[n].items, x) ELSE nodes[n].items
  BY LinkNodes DEF ImportTypeOK
<1> HIDE DEF new
<1>3. nodes' = new \/ \E y \in Nodes : nodes' = Append(new, y)
  BY <1>1 DEF new
<1>4. /\ nodes' \in Seq(Nodes) /\ Len(nodes) <= Len(nodes')
      /\ \A n \in 1 .. Len(nodes) : nodes'[n] = new[n]
  <2>1. CASE nodes' = new
    BY <1>2, <2>1
  <2>2. ASSUME NEW y \in Nodes, nodes' = Append(new, y)
        PROVE  <1>4
    BY <1>2, <2>2, AppendProperties
  <2> QED  BY <1>3, <2>1, <2>2
<1> QED  BY <1>2, <1>4 DEF Grows

\* A call's next item becomes what it should be.
LEMMA Linked ==
  ASSUME ImportTypeOK, Met, OwnNode, Following,
         NEW j \in 1 .. Len(calls), NEW x \in Nat,
         Len(nodes[calls[j].at].items) < Len(items[calls[j].of]),
         Grows(calls[j], x), UNCHANGED <<kind, items, map>>,
         NEW v, v = items[calls[j].of][Len(nodes[calls[j].at].items) + 1], Shows(x, v)'
  PROVE  /\ Met' /\ OwnNode'
         /\ \A o \in DOMAIN map :
              Len(nodes'[map[o]].items) =
                Len(nodes[map[o]].items) + (IF o = calls[j].of THEN 1 ELSE 0)
<1> DEFINE c == calls[j]
<1>1. c.of \in DOMAIN map /\ c.at = map[c.of]
  BY DEF Following
<1>2. \A o \in DOMAIN map :
        /\ o \in Objects /\ map[o] \in 1 .. Len(nodes)
        /\ nodes[map[o]].items \in Seq(Nat)
        /\ nodes'[map[o]].type = nodes[map[o]].type
        /\ nodes'[map[o]].items =
             IF o = c.of THEN Append(nodes[map[o]].items, x) ELSE nodes[map[o]].items
  <2>1. \A o \in DOMAIN map : o \in Objects /\ map[o] \in 1 .. Len(nodes)
    BY DEF ImportTypeOK
  <2>2. \A n \in 1 .. Len(nodes) : nodes[n] \in Nodes
    BY DEF ImportTypeOK
  <2>3. \A o \in DOMAIN map : nodes[map[o]].items \in Seq(Nat)
    BY <2>1, <2>2 DEF Nodes
  <2>4. \A o \in DOMAIN map : map[o] = c.at <=> o = c.of
    BY <1>1 DEF OwnNode
  <2> QED  BY <2>1, <2>3, <2>4 DEF Grows
<1>3. \A o \in DOMAIN map :
        Len(nodes'[map[o]].items) = Len(nodes[map[o]].items) + (IF o = c.of THEN 1 ELSE 0)
  <2> SUFFICES ASSUME NEW o \in DOMAIN map
               PROVE  Len(nodes'[map[o]].items) =
                        Len(nodes[map[o]].items) + (IF o = c.of THEN 1 ELSE 0)
    OBVIOUS
  <2>1. Len(Append(nodes[map[o]].items, x)) = Len(nodes[map[o]].items) + 1
    BY <1>2
  <2>2. Len(nodes[map[o]].items) \in Nat
    BY <1>2
  <2>3. CASE o = c.of
    BY <1>2, <2>1, <2>2, <2>3
  <2>4. CASE o # c.of
    BY <1>2, <2>1, <2>2, <2>4
  <2> QED  BY <2>3, <2>4
<1>4. \A node, w : Shows(node, w) => Shows(node, w)'
  <2>1. DOMAIN nodes = 1 .. Len(nodes) /\ DOMAIN nodes' = 1 .. Len(nodes') /\ Len(nodes) \in Nat
    BY DEF Grows, ImportTypeOK
  <2>2. \A node : node \in DOMAIN nodes =>
          node \in DOMAIN nodes' /\ nodes'[node].type = nodes[node].type
    BY <2>1 DEF Grows
  <2> QED  BY <2>2 DEF Shows
<1>5. ASSUME NEW o \in DOMAIN map
      PROVE  /\ Len(nodes'[map[o]].items) <= Len(items[o])
             /\ \A i \in 1 .. Len(nodes'[map[o]].items) : \A node, w :
                  node = nodes'[map[o]].items[i] /\ w = items[o][i] => Shows(node, w)'
  <2> DEFINE s == nodes[map[o]].items
             t == nodes'[map[o]].items
  <2>1. /\ s \in Seq(Nat) /\ Len(s) \in Nat
        /\ Len(s) <= Len(items[o])
        /\ \A i \in 1 .. Len(s) : \A node, w :
             node = s[i] /\ w = items[o][i] => Shows(node, w)'
    BY <1>2, <1>4 DEF Met
  <2>2. Len(items[o]) \in Nat
    BY <1>2 DEF ImportTypeOK
  <2>3. CASE o # c.of
    BY <1>2, <2>1, <2>3
  <2>4. CASE o = c.of
    <3>1. t = Append(s, x)
      BY <1>2, <2>4
    <3>2. /\ Len(t) = Len(s) + 1 /\ t[Len(s) + 1] = x
          /\ \A i \in 1 .. Len(s) : t[i] = s[i]
      BY <2>1, <3>1
    <3>3. Len(s) < Len(items[o]) /\ v = items[o][Len(s) + 1]
      BY <1>1, <2>4
    <3>4. \A i \in 1 .. Len(t) : i = Len(s) + 1 \/ i \in 1 .. Len(s)
      BY <2>1, <3>2
    <3> HIDE DEF s, t
    <3>5. Len(t) <= Len(items[o])
      BY <2>1, <2>2, <3>2, <3>3
    <3>6. ASSUME NEW i \in 1 .. Len(t), NEW node, NEW w, node = t[i], w = items[o][i]
          PROVE  Shows(node, w)'
      <4>1. CASE i = Len(s) + 1
        <5>1. node = x /\ w = v
          BY <3>2, <3>3, <3>6, <4>1
        <5> QED  BY <5>1
      <4>2. CASE i \in 1 .. Len(s)
        <5>1. node = s[i]
          BY <3>2, <3>6, <4>2
        <5> QED  BY <2>1, <3>6, <4>2, <5>1
      <4> QED  BY <3>4, <4>1, <4>2
    <3> QED  BY <3>5, <3>6 DEF t
  <2> QED  BY <2>3, <2>4
<1>6. Met'
  <2>1. Reached' = Reached
    BY ReachedStays
  <2> QED  BY <1>2, <1>5, <2>1 DEF Met
<1> QED  BY <1>3, <1>6 DEF OwnNode

LEMMA InnermostFacts ==
  ASSUME ImportIInv, phase = "runs"
  PROVE  /\ Len(calls) \in Nat \ {0} /\ Len(calls) \in 1 .. Len(calls)
         /\ \A j \in 1 .. Len(calls) :
              /\ calls[j] \in Calls /\ calls[j].of \in Objects
              /\ calls[j].of \in DOMAIN map /\ calls[j].at = map[calls[j].of]
              /\ calls[j].at \in 1 .. Len(nodes)
              /\ nodes[calls[j].at].items \in Seq(Nat)
              /\ items[calls[j].of] \in Seq(Items)
              /\ Len(nodes[calls[j].at].items) <= Len(items[calls[j].of])
<1>1. calls \in Seq(Calls) /\ calls # <<>>
  BY DEF ImportIInv, ImportTypeOK, Phases
<1>2. Len(calls) \in Nat \ {0} /\ Len(calls) \in 1 .. Len(calls)
  BY <1>1
<1>3. ASSUME NEW j \in 1 .. Len(calls)
      PROVE  /\ calls[j] \in Calls /\ calls[j].of \in Objects
             /\ calls[j].of \in DOMAIN map /\ calls[j].at = map[calls[j].of]
             /\ calls[j].at \in 1 .. Len(nodes)
             /\ nodes[calls[j].at].items \in Seq(Nat)
             /\ items[calls[j].of] \in Seq(Items)
             /\ Len(nodes[calls[j].at].items) <= Len(items[calls[j].of])
  <2>1. calls[j] \in Calls /\ calls[j].of \in Objects
    <3>1. calls[j] \in Calls
      BY <1>1
    <3> QED  BY <3>1 DEF Calls
  <2>2. calls[j].of \in DOMAIN map /\ calls[j].at = map[calls[j].of]
    BY DEF ImportIInv, Following
  <2>3. calls[j].at \in 1 .. Len(nodes)
    BY <2>2 DEF ImportIInv, ImportTypeOK
  <2>4. nodes[calls[j].at] \in Nodes /\ items[calls[j].of] \in Seq(Items)
    BY <2>1, <2>3 DEF ImportIInv, ImportTypeOK
  <2>5. nodes[calls[j].at].items \in Seq(Nat)
    BY <2>4 DEF Nodes
  <2>6. Len(nodes[calls[j].at].items) <= Len(items[calls[j].of])
    BY <2>2 DEF ImportIInv, Met
  <2> QED  BY <2>1, <2>2, <2>3, <2>4, <2>5, <2>6
<1> QED  BY <1>2, <1>3

\* The three steps that end with an item of the innermost call.
LEMMA InnermostLinks ==
  ASSUME ImportIInv, NEW v, ComesTo(v), NEW x \in Nat, Grows(Innermost, x),
         UNCHANGED <<kind, items, map, calls, phase>>, Shows(x, v)'
  PROVE  ImportIInv'
<1> DEFINE k == Len(calls)
<1>1. /\ phase = "runs" /\ v = items[calls[k].of][Len(nodes[calls[k].at].items) + 1]
      /\ Len(nodes[calls[k].at].items) < Len(items[calls[k].of])
      /\ Grows(calls[k], x)
  BY DEF ComesTo, Innermost
<1>2. k \in 1 .. Len(calls) /\ k \in Nat
  BY <1>1, InnermostFacts
<1>3. /\ Met' /\ OwnNode'
      /\ \A o \in DOMAIN map :
           Len(nodes'[map[o]].items) =
             Len(nodes[map[o]].items) + (IF o = calls[k].of THEN 1 ELSE 0)
  BY <1>1, <1>2, Linked DEF ImportIInv
<1>4. ImportTypeOK'
  <2>1. Len(nodes) \in Nat /\ Len(nodes') \in Nat /\ Len(nodes) <= Len(nodes')
    <3>1. nodes \in Seq(Nodes)
      BY DEF ImportIInv, ImportTypeOK
    <3>2. nodes' \in Seq(Nodes) /\ Len(nodes) <= Len(nodes')
      BY <1>1 DEF Grows
    <3> QED  BY <3>1, <3>2
  <2>2. \A o \in DOMAIN map : map[o] \in 1 .. Len(nodes')
    BY <2>1 DEF ImportIInv, ImportTypeOK
  <2> QED  BY <1>1, <2>2 DEF ImportIInv, ImportTypeOK, Grows
<1>5. Phases'
  BY <1>1, ReachedStays DEF ImportIInv, Phases
<1>6. \A j \in 1 .. Len(calls) - 1 :
        Len(nodes'[calls[j].at].items) = Len(nodes[calls[j].at].items)
  <2> SUFFICES ASSUME NEW j \in 1 .. Len(calls) - 1
               PROVE  Len(nodes'[calls[j].at].items) = Len(nodes[calls[j].at].items)
    OBVIOUS
  <2>1. j \in 1 .. Len(calls) /\ j # k
    BY <1>2
  <2>2. calls[j].of # calls[k].of /\ calls[j].of \in DOMAIN map /\ calls[j].at = map[calls[j].of]
    BY <1>2, <2>1 DEF ImportIInv, Following
  <2>3. nodes[calls[j].at].items \in Seq(Nat)
    BY <1>1, <2>1, InnermostFacts
  <2>4. Len(nodes[calls[j].at].items) \in Nat
    BY <2>3
  <2>5. Len(nodes'[map[calls[j].of]].items) = Len(nodes[map[calls[j].of]].items) + 0
    BY <1>3, <2>2
  <2> QED  BY <2>2, <2>4, <2>5
<1>7. Following'
  BY <1>6 DEF ImportIInv, Following
<1>8. Through'
  <2> SUFFICES ASSUME NEW o \in DOMAIN map, \A j \in 1 .. Len(calls) : calls[j].of # o
               PROVE  Len(nodes'[map[o]].items) = Len(items[o])
    BY DEF Through
  <2>1. Len(nodes[map[o]].items) = Len(items[o])
    BY DEF ImportIInv, Through
  <2>2. Len(items[o]) \in Nat
    BY DEF ImportIInv, ImportTypeOK
  <2>3. Len(nodes'[map[o]].items) = Len(nodes[map[o]].items) + 0
    BY <1>2, <1>3
  <2> QED  BY <2>1, <2>2, <2>3
<1> QED  BY <1>3, <1>4, <1>5, <1>7, <1>8 DEF ImportIInv

LEMMA SkipHoleKeeps ==
  ASSUME ImportIInv, SkipHole
  PROVE  ImportIInv'
<1>1. phase = "runs" /\ nodes' = Link(calls[Len(calls)], None)
  BY DEF SkipHole, ComesTo, Innermost
<1>2. None \in Nat
  BY DEF None
<1>3. Grows(Innermost, None)
  BY <1>1, <1>2, InnermostFacts, LinkGrows DEF ImportIInv, Innermost
<1>4. Shows(None, Hole)'
  BY ItemsDiffer DEF Shows
<1> QED  BY <1>2, <1>3, <1>4, InnermostLinks DEF SkipHole

\* What a step appends is found.
LEMMA Appended ==
  ASSUME ImportTypeOK, NEW j \in 1 .. Len(calls), calls[j].at \in 1 .. Len(nodes),
         NEW x \in Nat, NEW type \in {"undef", "value"},
         nodes' = Append(Link(calls[j], x), Node(type))
  PROVE  /\ Len(nodes') = Len(nodes) + 1
         /\ nodes'[Len(nodes) + 1].type = type
<1>1. nodes \in Seq(Nodes)
  BY DEF ImportTypeOK
<1> DEFINE new == Link(calls[j], x)
<1>3. new \in Seq(Nodes) /\ Len(new) = Len(nodes) /\ Len(nodes) \in Nat
  BY <1>1, LinkNodes
<1> HIDE DEF new
<1>2. Len(nodes') = Len(nodes) + 1 /\ nodes'[Len(nodes) + 1] = Node(type)
  BY <1>3 DEF new
<1> QED  BY <1>2 DEF Node

LEMMA ScalarKeeps ==
  ASSUME ImportIInv, shared_import_scalar
  PROVE  ImportIInv'
<1> DEFINE x == Len(nodes) + 1
<1>1. phase = "runs" /\ nodes' = Append(Link(calls[Len(calls)], x), Node("value"))
  BY DEF shared_import_scalar, ComesTo, Innermost
<1>2. nodes \in Seq(Nodes) /\ x \in Nat
  BY DEF ImportIInv, ImportTypeOK
<1>3. Grows(Innermost, x)
  BY <1>1, <1>2, InnermostFacts, LinkGrows DEF ImportIInv, Innermost
<1>4. Len(nodes') = x /\ nodes'[x].type = "value"
  BY <1>1, <1>2, InnermostFacts, Appended DEF ImportIInv
<1>5. x \in DOMAIN nodes'
  BY <1>2, <1>3, <1>4 DEF Grows
<1>6. \A node : node = x => Shows(node, Plain)'
  BY <1>4, <1>5, ItemsDiffer DEF Shows
<1> QED  BY <1>2, <1>3, <1>6, InnermostLinks DEF shared_import_scalar

LEMMA LinkExistingKeeps ==
  ASSUME ImportIInv, NEW o \in Objects, LinkExisting(o)
  PROVE  ImportIInv'
<1>1. /\ phase = "runs" /\ o \in DOMAIN map
      /\ nodes' = Append(Link(calls[Len(calls)], map[o]), Node("undef"))
  BY DEF LinkExisting, ComesTo, Innermost
<1>2. map[o] \in Nat
  BY <1>1 DEF ImportIInv, ImportTypeOK
<1>3. Grows(Innermost, map[o])
  BY <1>1, <1>2, InnermostFacts, LinkGrows DEF ImportIInv, Innermost
<1>4. \A node : node = map[o] => Shows(node, Ref(o))'
  BY <1>1, ItemsDiffer DEF Shows, LinkExisting
<1> QED  BY <1>2, <1>3, <1>4, InnermostLinks DEF LinkExisting

\* New nodes, of a reference that is followed or refused, change no other.
LEMMA NodeAppended ==
  ASSUME ImportTypeOK, NEW type \in Kinds \cup {"undef", "value"},
         nodes' = Append(nodes, Node(type))
  PROVE  /\ nodes' \in Seq(Nodes) /\ Len(nodes) \in Nat /\ Len(nodes') = Len(nodes) + 1
         /\ nodes'[Len(nodes) + 1] = Node(type)
         /\ \A n \in 1 .. Len(nodes) : nodes'[n] = nodes[n]
         /\ DOMAIN nodes = 1 .. Len(nodes) /\ DOMAIN nodes' = 1 .. Len(nodes) + 1
<1>1. nodes \in Seq(Nodes)
  BY DEF ImportTypeOK
<1>2. Node(type) \in Nodes
  <2>1. <<>> \in Seq(Nat)
    OBVIOUS
  <2> QED  BY <2>1 DEF Node, Nodes
<1> HIDE DEF Node
<1> QED  BY <1>1, <1>2, AppendProperties

LEMMA RefuseKeeps ==
  ASSUME ImportIInv, NEW o \in Objects, Refuse(o)
  PROVE  ImportIInv'
<1>1. /\ phase = "runs" /\ phase' = "died" /\ kind[o] = "unsupported"
      /\ nodes' = Append(nodes, Node("undef")) /\ UNCHANGED <<kind, items, map, calls>>
  BY DEF Refuse, ComesTo
<1>2. /\ nodes' \in Seq(Nodes) /\ Len(nodes) \in Nat /\ Len(nodes') = Len(nodes) + 1
      /\ \A n \in 1 .. Len(nodes) : nodes'[n] = nodes[n]
      /\ DOMAIN nodes = 1 .. Len(nodes) /\ DOMAIN nodes' = 1 .. Len(nodes) + 1
  BY <1>1, NodeAppended DEF ImportIInv
<1>3. ImportTypeOK'
  <2>1. \A p \in DOMAIN map : map[p] \in 1 .. Len(nodes')
    BY <1>2 DEF ImportIInv, ImportTypeOK
  <2> QED  BY <1>1, <1>2, <2>1 DEF ImportIInv, ImportTypeOK
<1>4. Reached' = Reached
  BY <1>1, ReachedStays
<1>5. o \in Reached
  <2>1. /\ Innermost.of \in Reached /\ Innermost.at \in 1 .. Len(nodes)
        /\ nodes[Innermost.at].items \in Seq(Nat) /\ items[Innermost.of] \in Seq(Items)
    BY <1>1, InnermostFacts DEF ImportIInv, Met, Innermost
  <2>2. Len(nodes[Innermost.at].items) + 1 \in 1 .. Len(items[Innermost.of])
    <3>1. Len(nodes[Innermost.at].items) \in Nat /\ Len(items[Innermost.of]) \in Nat
      BY <2>1
    <3> QED  BY <3>1 DEF Refuse, ComesTo
  <2> QED  BY <2>1, <2>2, ReachedOn DEF ImportIInv, Refuse, ComesTo
<1>6. Phases'
  BY <1>1, <1>4, <1>5 DEF Phases
<1>7. \A p \in DOMAIN map : nodes'[map[p]] = nodes[map[p]]
  BY <1>2 DEF ImportIInv, ImportTypeOK
<1>8. Met'
  <2>1. \A node, v : Shows(node, v) => Shows(node, v)'
    BY <1>1, <1>2 DEF Shows
  <2>2. ASSUME NEW p \in DOMAIN map
        PROVE  \A i \in 1 .. Len(nodes'[map[p]].items) : \A node, v :
                 node = nodes'[map[p]].items[i] /\ v = items[p][i] => Shows(node, v)'
    BY <1>7, <2>1 DEF ImportIInv, Met
  <2> QED  BY <1>1, <1>4, <1>7, <2>2 DEF ImportIInv, Met
<1>9. Following'
  <2>1. \A j \in 1 .. Len(calls) : nodes'[calls[j].at] = nodes[calls[j].at]
    BY <1>7 DEF ImportIInv, Following
  <2>2. \A j \in 1 .. Len(calls) - 1 : j \in 1 .. Len(calls)
    BY <1>1, InnermostFacts
  <2> QED  BY <1>1, <2>1, <2>2 DEF ImportIInv, Following
<1>10. Through' /\ OwnNode'
  BY <1>1, <1>7 DEF ImportIInv, Through, OwnNode
<1> QED  BY <1>3, <1>6, <1>8, <1>9, <1>10 DEF ImportIInv

LEMMA ImportObjectKeeps ==
  ASSUME ImportIInv, NEW o \in Objects, ImportObject(o)
  PROVE  ImportIInv'
<1> DEFINE x == Len(nodes) + 1
           k == Len(calls)
<1>1. /\ phase = "runs" /\ kind[o] # "unsupported" /\ o \notin DOMAIN map
      /\ nodes' = Append(nodes, Node(kind[o])) /\ map' = import_map_add(o, x)
      /\ calls' = Append(calls, [of |-> o, at |-> x])
      /\ UNCHANGED <<kind, items, phase>>
  BY DEF ImportObject, ComesTo
<1>2. /\ nodes' \in Seq(Nodes) /\ Len(nodes) \in Nat /\ Len(nodes') = x
      /\ nodes'[x] = Node(kind[o])
      /\ \A n \in 1 .. Len(nodes) : nodes'[n] = nodes[n]
      /\ DOMAIN nodes = 1 .. Len(nodes) /\ DOMAIN nodes' = 1 .. x
  <2>1. kind[o] \in Kinds
    BY DEF ImportIInv, ImportTypeOK
  <2> QED  BY <1>1, <2>1, NodeAppended DEF ImportIInv
<1>3. /\ DOMAIN map' = DOMAIN map \cup {o} /\ map'[o] = x
      /\ \A p \in DOMAIN map : map'[p] = map[p]
  BY <1>1 DEF import_map_add
<1>4. \A p \in DOMAIN map : map[p] \in 1 .. Len(nodes) /\ p \in Objects
  BY DEF ImportIInv, ImportTypeOK
<1>5. /\ k \in Nat \ {0} /\ Len(calls') = k + 1
      /\ calls' \in Seq(Calls) /\ calls'[k + 1].of = o /\ calls'[k + 1].at = x
      /\ \A j \in 1 .. k : calls'[j] = calls[j]
  <2>1. calls \in Seq(Calls) /\ k \in Nat \ {0}
    BY <1>1, InnermostFacts DEF ImportIInv, ImportTypeOK
  <2>2. [of |-> o, at |-> x] \in Calls
    BY <1>2 DEF Calls
  <2>3. [of |-> o, at |-> x].of = o /\ [of |-> o, at |-> x].at = x
    OBVIOUS
  <2> DEFINE c == [of |-> o, at |-> x]
  <2> HIDE DEF c
  <2>4. calls' = Append(calls, c) /\ c \in Calls
    BY <1>1, <2>2 DEF c
  <2>5. /\ Len(calls') = k + 1 /\ calls' \in Seq(Calls) /\ calls'[k + 1] = c
        /\ \A j \in 1 .. k : calls'[j] = calls[j]
    BY <2>1, <2>4, AppendProperties
  <2> QED  BY <2>1, <2>3, <2>5 DEF c
<1>6. ImportTypeOK'
  <2>1. \A p \in DOMAIN map' : map'[p] \in 1 .. Len(nodes')
    BY <1>2, <1>3, <1>4
  <2> QED  BY <1>1, <1>2, <1>3, <1>5, <2>1 DEF ImportIInv, ImportTypeOK
<1>7. Reached' = Reached
  BY <1>1, ReachedStays
<1>8. /\ \A j \in 1 .. k :
           /\ calls[j].of \in DOMAIN map /\ calls[j].at = map[calls[j].of]
           /\ calls[j].at \in 1 .. Len(nodes) /\ nodes'[calls[j].at] = nodes[calls[j].at]
           /\ Len(nodes[calls[j].at].items) \in Nat /\ Len(items[calls[j].of]) \in Nat
      /\ k \in 1 .. k
  <2>1. \A j \in 1 .. k :
          /\ calls[j].of \in DOMAIN map /\ calls[j].at = map[calls[j].of]
          /\ calls[j].at \in 1 .. Len(nodes)
          /\ nodes[calls[j].at].items \in Seq(Nat) /\ items[calls[j].of] \in Seq(Items)
    BY <1>1, InnermostFacts
  <2> QED  BY <1>2, <1>5, <2>1
<1>9. /\ Len(nodes[calls[k].at].items) < Len(items[calls[k].of])
      /\ items[calls[k].of][Len(nodes[calls[k].at].items) + 1] = Ref(o)
  BY DEF ImportObject, ComesTo, Innermost
<1>10. o \in Reached
  <2>1. calls[k].of \in Reached
    BY <1>8 DEF ImportIInv, Met
  <2>2. Len(nodes[calls[k].at].items) + 1 \in 1 .. Len(items[calls[k].of])
    BY <1>8, <1>9
  <2> QED  BY <1>9, <2>1, <2>2, ReachedOn DEF ImportIInv
<1>11. Phases'
  BY <1>1, <1>3, <1>5, <1>7 DEF ImportIInv, Phases
<1>12. \A p \in DOMAIN map : nodes'[map'[p]] = nodes[map[p]]
  BY <1>2, <1>3, <1>4
<1>13. nodes'[map'[o]].type = kind[o] /\ nodes'[map'[o]].items = <<>>
  BY <1>2, <1>3 DEF Node
<1>14. Met'
  <2>1. \A node, v : Shows(node, v) => Shows(node, v)'
    BY <1>2, <1>3 DEF Shows
  <2>2. ASSUME NEW p \in DOMAIN map
        PROVE  /\ p \in Reached /\ kind[p] # "unsupported"
               /\ nodes'[map'[p]].type = kind[p]
               /\ Len(nodes'[map'[p]].items) <= Len(items[p])
               /\ \A i \in 1 .. Len(nodes'[map'[p]].items) : \A node, v :
                    node = nodes'[map'[p]].items[i] /\ v = items[p][i] => Shows(node, v)'
    BY <1>12, <2>1 DEF ImportIInv, Met
  <2>3. Len(nodes'[map'[o]].items) = 0 /\ 0 <= Len(items[o])
    <3>1. items[o] \in Seq(Items)
      BY DEF ImportIInv, ImportTypeOK
    <3> QED  BY <1>13, <3>1
  <2>4. ASSUME NEW p \in DOMAIN map'
        PROVE  /\ p \in Reached /\ kind[p] # "unsupported"
               /\ nodes'[map'[p]].type = kind[p]
               /\ Len(nodes'[map'[p]].items) <= Len(items[p])
               /\ \A i \in 1 .. Len(nodes'[map'[p]].items) : \A node, v :
                    node = nodes'[map'[p]].items[i] /\ v = items[p][i] => Shows(node, v)'
    <3>1. CASE p = o
      <4>1. \A i : i \notin 1 .. 0
        OBVIOUS
      <4> QED  BY <1>1, <1>10, <1>13, <2>3, <3>1, <4>1
    <3>2. CASE p # o
      <4>1. p \in DOMAIN map
        BY <1>3, <3>2
      <4> QED  BY <2>2, <4>1
    <3> QED  BY <3>1, <3>2
  <2>5. items' = items /\ kind' = kind
    BY <1>1
  <2> QED  BY <1>7, <2>4, <2>5 DEF Met
<1>15. OwnNode'
  BY <1>2, <1>3, <1>4 DEF ImportIInv, OwnNode
<1>16. Following'
  <2>1. \A j \in 1 .. k + 1 : calls'[j].of \in DOMAIN map' /\ calls'[j].at = map'[calls'[j].of]
    BY <1>3, <1>5, <1>8
  <2>2. \A j \in 1 .. k :
          /\ Len(nodes'[calls'[j].at].items) < Len(items[calls'[j].of])
          /\ items[calls'[j].of][Len(nodes'[calls'[j].at].items) + 1] = Ref(calls'[j + 1].of)
    <3> SUFFICES ASSUME NEW j \in 1 .. k
                 PROVE  /\ Len(nodes[calls[j].at].items) < Len(items[calls[j].of])
                        /\ items[calls[j].of][Len(nodes[calls[j].at].items) + 1] =
                             Ref(calls'[j + 1].of)
      BY <1>5, <1>8
    <3>1. CASE j = k
      BY <1>5, <1>9, <3>1
    <3>2. CASE j # k
      <4>1. j \in 1 .. k - 1 /\ j + 1 \in 1 .. k
        BY <1>5, <3>2
      <4> QED  BY <1>5, <4>1 DEF ImportIInv, Following
    <3> QED  BY <3>1, <3>2
  <2>3. \A i, j \in 1 .. k + 1 : calls'[i].of = calls'[j].of => i = j
    <3>1. \A i, j \in 1 .. k : calls[i].of = calls[j].of => i = j
      BY DEF ImportIInv, Following
    <3>2. \A i \in 1 .. k : calls[i].of # o
      BY <1>1, <1>8
    <3>3. \A i \in 1 .. k + 1 : i \in 1 .. k \/ i = k + 1
      BY <1>5
    <3> QED  BY <1>5, <3>1, <3>2, <3>3
  <2>4. Len(calls') - 1 = k
    BY <1>5
  <2> QED  BY <1>1, <1>5, <2>1, <2>2, <2>3, <2>4 DEF Following
<1>17. Through'
  <2> SUFFICES ASSUME NEW p \in DOMAIN map', \A j \in 1 .. Len(calls') : calls'[j].of # p
               PROVE  Len(nodes'[map'[p]].items) = Len(items'[p])
    BY DEF Through
  <2>1. p # o
    <3>1. k + 1 \in 1 .. Len(calls')
      BY <1>5
    <3> QED  BY <1>5, <3>1
  <2>2. \A j \in 1 .. k : calls[j].of # p
    <3>1. \A j \in 1 .. k : j \in 1 .. Len(calls')
      BY <1>5
    <3> QED  BY <1>5, <3>1
  <2>3. p \in DOMAIN map
    BY <1>3, <2>1
  <2> QED  BY <1>1, <1>12, <2>2, <2>3 DEF ImportIInv, Through
<1> QED  BY <1>6, <1>11, <1>14, <1>15, <1>16, <1>17 DEF ImportIInv

LEMMA ReturnNodeKeeps ==
  ASSUME ImportIInv, ReturnNode
  PROVE  ImportIInv'
<1> DEFINE k == Len(calls)
<1>1. /\ phase = "runs" /\ UNCHANGED <<kind, items, map>>
      /\ calls' = SubSeq(calls, 1, k - 1)
      /\ Len(nodes[calls[k].at].items) = Len(items[calls[k].of])
  BY DEF ReturnNode, Innermost
<1>2. /\ calls \in Seq(Calls) /\ k \in Nat \ {0} /\ k \in 1 .. k
      /\ \A j \in 1 .. k :
           /\ calls[j].of \in DOMAIN map /\ calls[j].at = map[calls[j].of]
           /\ calls[j].at \in 1 .. Len(nodes)
           /\ nodes[calls[j].at].items \in Seq(Nat) /\ items[calls[j].of] \in Seq(Items)
  BY <1>1, InnermostFacts DEF ImportIInv, ImportTypeOK
<1>3. /\ calls' \in Seq(Calls) /\ Len(calls') = k - 1
      /\ \A j \in 1 .. k - 1 : calls'[j] = calls[j] /\ j \in 1 .. k
  <2>1. 1 \in Int /\ k - 1 \in Int /\ k - 1 >= 0
    BY <1>2
  <2>2. \A j \in 1 .. k - 1 : j \in 1 .. k /\ calls[j] \in Calls
    BY <1>2
  <2>3. /\ SubSeq(calls, 1, k - 1) \in Seq(Calls)
        /\ Len(SubSeq(calls, 1, k - 1)) = IF 1 <= k - 1 THEN k - 1 - 1 + 1 ELSE 0
        /\ \A j \in 1 .. k - 1 - 1 + 1 : SubSeq(calls, 1, k - 1)[j] = calls[1 + j - 1]
    BY <2>1, <2>2, SubSeqProperties
  <2>4. \A j \in 1 .. k - 1 : j \in 1 .. k - 1 - 1 + 1 /\ 1 + j - 1 = j
    BY <2>1
  <2>5. Len(SubSeq(calls, 1, k - 1)) = k - 1
    <3>1. k \in Nat
      BY <1>2
    <3>2. CASE 1 <= k - 1
      <4>1. Len(SubSeq(calls, 1, k - 1)) = k - 1 - 1 + 1
        BY <2>3, <3>2
      <4> HIDE DEF k
      <4> QED  BY <3>1, <4>1
    <3>3. CASE ~(1 <= k - 1)
      <4>1. Len(SubSeq(calls, 1, k - 1)) = 0
        BY <2>3, <3>3
      <4> HIDE DEF k
      <4> QED  BY <2>1, <3>1, <3>3, <4>1
    <3> QED  BY <3>2, <3>3
  <2> QED  BY <1>1, <2>2, <2>3, <2>4, <2>5
<1>4. Reached' = Reached
  BY <1>1, ReachedStays
<1>5. \A i, j \in 1 .. k : calls[i].of = calls[j].of => i = j
  BY DEF ImportIInv, Following
<1>6. CASE k = 1
  <2>1. phase' = "done" /\ nodes' = nodes
    BY <1>6 DEF ReturnNode
  <2>2. Len(calls') = 0 /\ calls' = <<>>
    BY <1>3, <1>6
  <2>3. \A node, v : Shows(node, v) => Shows(node, v)'
    BY <1>1, <2>1 DEF Shows
  <2>4. ImportTypeOK'
    BY <1>1, <1>3, <2>1 DEF ImportIInv, ImportTypeOK
  <2>5. Phases'
    BY <1>1, <2>1, <2>2 DEF ImportIInv, Phases
  <2>6. Met' /\ OwnNode'
    BY <1>1, <1>4, <2>1, <2>3 DEF ImportIInv, Met, OwnNode
  <2>7. Following'
    <3>1. \A j : j \notin 1 .. 0 /\ j \notin 1 .. 0 - 1
      OBVIOUS
    <3> QED  BY <2>2, <3>1 DEF Following
  <2>8. Through'
    <3> SUFFICES ASSUME NEW p \in DOMAIN map
                 PROVE  Len(nodes[map[p]].items) = Len(items[p])
      BY <1>1, <2>1 DEF Through
    <3>1. CASE p = calls[1].of
      BY <1>1, <1>2, <1>6, <3>1
    <3>2. CASE p # calls[1].of
      <4>1. \A j \in 1 .. k : calls[j].of # p
        BY <1>6, <3>2
      <4> QED  BY <4>1 DEF ImportIInv, Through
    <3> QED  BY <3>1, <3>2
  <2> QED  BY <2>4, <2>5, <2>6, <2>7, <2>8 DEF ImportIInv
<1>7. CASE k # 1
  <2> DEFINE c == calls[k - 1]
             x == calls[k].at
  <2>1. nodes' = Link(c, x) /\ phase' = phase
    BY <1>7 DEF ReturnNode, Innermost
  <2>2. k - 1 \in 1 .. k /\ k - 1 \in 1 .. k - 1 /\ x \in Nat
    <3>1. x \in 1 .. Len(nodes) /\ Len(nodes) \in Nat
      BY <1>2 DEF ImportIInv, ImportTypeOK
    <3>2. x \in Nat
      BY <3>1
    <3>3. k \in Nat \ {0}
      BY <1>2
    <3> HIDE DEF k
    <3>4. k - 1 \in 1 .. k /\ k - 1 \in 1 .. k - 1
      BY <1>7, <3>3
    <3> QED  BY <3>2, <3>4
  <2>3. /\ Len(nodes[c.at].items) < Len(items[c.of])
        /\ items[c.of][Len(nodes[c.at].items) + 1] = Ref(calls[k].of)
    BY <2>2 DEF ImportIInv, Following
  <2>4. Grows(c, x)
    BY <1>2, <2>1, <2>2, LinkGrows DEF ImportIInv
  <2>5. \A node, v : node = x /\ v = Ref(calls[k].of) => Shows(node, v)'
    BY <1>1, <1>2, ItemsDiffer DEF Shows
  <2>6. /\ Met' /\ OwnNode'
        /\ \A o \in DOMAIN map :
             Len(nodes'[map[o]].items) = Len(nodes[map[o]].items) + (IF o = c.of THEN 1 ELSE 0)
    BY <1>1, <2>2, <2>3, <2>4, <2>5, Linked DEF ImportIInv
  <2>7. ImportTypeOK'
    <3>1. Len(nodes) \in Nat /\ Len(nodes') \in Nat /\ Len(nodes) <= Len(nodes')
      <4>1. nodes \in Seq(Nodes)
        BY DEF ImportIInv, ImportTypeOK
      <4>2. nodes' \in Seq(Nodes) /\ Len(nodes) <= Len(nodes')
        BY <2>4 DEF Grows
      <4> QED  BY <4>1, <4>2
    <3>2. \A o \in DOMAIN map : map[o] \in 1 .. Len(nodes')
      BY <3>1 DEF ImportIInv, ImportTypeOK
    <3> QED  BY <1>1, <1>3, <2>1, <2>4, <3>2 DEF ImportIInv, ImportTypeOK, Grows
  <2>8. Phases'
    <3>1. calls' # <<>>
      BY <1>3, <2>2
    <3> QED  BY <1>1, <1>4, <2>1, <3>1 DEF ImportIInv, Phases
  <2>9. \A p \in DOMAIN map : p # c.of =>
          Len(nodes'[map[p]].items) = Len(nodes[map[p]].items)
    <3>1. \A p \in DOMAIN map : Len(nodes[map[p]].items) \in Nat
      <4>1. \A p \in DOMAIN map : nodes[map[p]] \in Nodes
        BY DEF ImportIInv, ImportTypeOK
      <4>2. \A p \in DOMAIN map : nodes[map[p]].items \in Seq(Nat)
        BY <4>1 DEF Nodes
      <4> QED  BY <4>2
    <3> SUFFICES ASSUME NEW p \in DOMAIN map, p # c.of
                 PROVE  Len(nodes'[map[p]].items) = Len(nodes[map[p]].items)
      OBVIOUS
    <3>2. Len(nodes'[map[p]].items) = Len(nodes[map[p]].items) + 0
      BY <2>6
    <3> QED  BY <3>1, <3>2
  <2>10. Following'
    <3>1. \A j \in 1 .. k - 1 : calls'[j].of \in DOMAIN map' /\ calls'[j].at = map'[calls'[j].of]
      BY <1>1, <1>2, <1>3
    <3>2. ASSUME NEW j \in 1 .. k - 1 - 1
          PROVE  /\ Len(nodes'[calls'[j].at].items) < Len(items'[calls'[j].of])
                 /\ items'[calls'[j].of][Len(nodes'[calls'[j].at].items) + 1] =
                      Ref(calls'[j + 1].of)
      <4>1. j \in 1 .. k - 1 /\ j + 1 \in 1 .. k - 1 /\ j \in 1 .. k /\ j # k - 1
        BY <1>2
      <4>2. calls[j].of # c.of
        BY <1>5, <2>2, <4>1
      <4>3. Len(nodes'[calls[j].at].items) = Len(nodes[calls[j].at].items)
        BY <1>2, <2>9, <4>1, <4>2
      <4>4. /\ Len(nodes[calls[j].at].items) < Len(items[calls[j].of])
            /\ items[calls[j].of][Len(nodes[calls[j].at].items) + 1] = Ref(calls[j + 1].of)
        BY <4>1 DEF ImportIInv, Following
      <4>5. calls'[j] = calls[j] /\ calls'[j + 1] = calls[j + 1]
        BY <1>3, <4>1
      <4> QED  BY <1>1, <4>3, <4>4, <4>5
    <3>3. \A i, j \in 1 .. k - 1 : calls'[i].of = calls'[j].of => i = j
      BY <1>3, <1>5
    <3> QED  BY <1>3, <3>1, <3>2, <3>3 DEF Following
  <2>11. Through'
    <3> SUFFICES ASSUME NEW p \in DOMAIN map, \A j \in 1 .. k - 1 : calls[j].of # p
                 PROVE  Len(nodes'[map[p]].items) = Len(items[p])
      BY <1>1, <1>3 DEF Through
    <3>1. Len(nodes'[map[p]].items) = Len(nodes[map[p]].items)
      BY <2>2, <2>9
    <3>2. CASE p = calls[k].of
      BY <1>1, <1>2, <3>1, <3>2
    <3>3. CASE p # calls[k].of
      <4>1. \A j \in 1 .. k : j = k \/ j \in 1 .. k - 1
        BY <1>2
      <4>2. \A j \in 1 .. k : calls[j].of # p
        BY <3>3, <4>1
      <4> QED  BY <3>1, <4>2 DEF ImportIInv, Through
    <3> QED  BY <3>2, <3>3
  <2> QED  BY <2>6, <2>7, <2>8, <2>10, <2>11 DEF ImportIInv
<1> QED  BY <1>6, <1>7

\* Before the import there is nothing that could be wrong.
LEMMA NothingMet ==
  ASSUME ImportTypeOK, phase = "grows",
         nodes = <<Node("undef")>> /\ map = <<>> /\ calls = <<>>
  PROVE  ImportIInv
<1>1. \A o : o \notin DOMAIN map
  BY EmptySeq
<1>2. Phases
  BY DEF Phases
<1>3. Met /\ OwnNode /\ Through
  BY <1>1 DEF Met, OwnNode, Through
<1>4. Following
  <2>1. Len(calls) = 0 /\ (\A j : j \notin 1 .. 0 /\ j \notin 1 .. 0 - 1)
    OBVIOUS
  <2> QED  BY <2>1 DEF Following
<1> QED  BY <1>2, <1>3, <1>4 DEF ImportIInv

LEMMA ImportInitially ==
  ASSUME ImportInit
  PROVE  ImportIInv
<1>1. kind \in [Objects -> Kinds]
  BY ImportAssumption DEF ImportInit
<1>2. items \in [Objects -> Seq(Items)]
  BY DEF ImportInit
<1>3. nodes \in Seq(Nodes)
  <2>1. Node("undef") \in Nodes
    <3>1. <<>> \in Seq(Nat)
      OBVIOUS
    <3> QED  BY <3>1 DEF Node, Nodes
  <2> HIDE DEF Node
  <2> QED  BY <2>1 DEF ImportInit
<1>4. calls \in Seq(Calls) /\ \A o : o \notin DOMAIN map
  BY DEF ImportInit
<1>5. ImportTypeOK
  BY <1>1, <1>2, <1>3, <1>4 DEF ImportTypeOK, ImportInit
<1> QED  BY <1>5, NothingMet DEF ImportInit

LEMMA PutKeeps ==
  ASSUME ImportIInv, NEW o \in Objects, NEW v \in Items, Put(o, v)
  PROVE  ImportIInv'
<1>1. items' \in [Objects -> Seq(Items)]
  BY DEF Put, ImportIInv, ImportTypeOK
<1>2. /\ phase = "grows" /\ UNCHANGED <<kind, nodes, map, calls, phase>>
      /\ nodes = <<Node("undef")>> /\ map = <<>> /\ calls = <<>>
  BY DEF Put, ImportIInv, Phases
<1>3. ImportTypeOK'
  BY <1>1, <1>2 DEF ImportIInv, ImportTypeOK
<1>4. \A p : p \notin DOMAIN map
  BY <1>2
<1>5. Phases'
  BY <1>2 DEF Phases
<1>6. Met' /\ OwnNode' /\ Through'
  BY <1>2, <1>4 DEF Met, OwnNode, Through
<1>7. Following'
  BY <1>2 DEF ImportIInv, Following
<1> QED  BY <1>3, <1>5, <1>6, <1>7 DEF ImportIInv

LEMMA ImportIntoKeeps ==
  ASSUME ImportIInv, shared_import_into
  PROVE  ImportIInv'
<1>1. /\ UNCHANGED <<kind, items>> /\ nodes = <<Node("undef")>>
      /\ (\A o : o \notin DOMAIN map) /\ calls = <<>> /\ Root \in Objects
  BY EmptySeq, ImportAssumption DEF shared_import_into, ImportIInv, Phases
<1>2. Reached' = Reached /\ Root \in Reached
  BY <1>1, ReachedStays, RootReached DEF ImportIInv
<1>3. CASE kind[Root] = "unsupported"
  <2>1. phase' = "died" /\ UNCHANGED <<nodes, map, calls>>
    BY <1>3 DEF shared_import_into
  <2>2. ImportTypeOK'
    BY <1>1, <2>1 DEF ImportIInv, ImportTypeOK
  <2>3. Phases'
    BY <1>1, <1>2, <1>3, <2>1 DEF Phases
  <2>4. Met' /\ OwnNode' /\ Through'
    BY <1>1, <2>1 DEF Met, OwnNode, Through
  <2>5. Following'
    BY <1>1, <2>1 DEF ImportIInv, Following
  <2> QED  BY <2>2, <2>3, <2>4, <2>5 DEF ImportIInv
<1>4. CASE kind[Root] # "unsupported"
  <2> DEFINE c == [of |-> Root, at |-> Dest]
  <2>1. /\ phase' = "runs" /\ nodes' = [nodes EXCEPT ![Dest] = Node(kind[Root])]
        /\ map' = import_map_add(Root, Dest) /\ calls' = <<c>>
    BY <1>4 DEF shared_import_into
  <2>2. nodes' \in Seq(Nodes) /\ Len(nodes') = 1 /\ nodes'[1] = Node(kind[Root])
    <3>1. nodes \in Seq(Nodes) /\ Len(nodes) = 1
      BY <1>1 DEF ImportIInv, ImportTypeOK
    <3>2. kind[Root] \in Kinds /\ <<>> \in Seq(Nat)
      BY <1>1 DEF ImportIInv, ImportTypeOK
    <3>3. Node(kind[Root]) \in Nodes
      BY <3>2 DEF Node, Nodes
    <3> HIDE DEF Node
    <3>4. nodes' = [nodes EXCEPT ![1] = Node(kind[Root])]
      BY <2>1 DEF Dest
    <3> DEFINE y == Node(kind[Root])
    <3>5. nodes' = [nodes EXCEPT ![1] = y] /\ y \in Nodes
      BY <3>3, <3>4
    <3> HIDE DEF y
    <3>6. 1 \in 1 .. Len(nodes) /\ y \in Nodes /\ nodes \in Seq(Nodes)
      BY <3>1, <3>5
    <3>7. /\ [nodes EXCEPT ![1] = y] \in Seq(Nodes)
          /\ Len([nodes EXCEPT ![1] = y]) = Len(nodes)
          /\ \A n \in 1 .. Len(nodes) : [nodes EXCEPT ![1] = y][n] = IF n = 1 THEN y ELSE nodes[n]
      BY <3>6, ExceptSeq
    <3>8. [nodes EXCEPT ![1] = y][1] = y
      BY <3>6, <3>7
    <3>9. nodes' \in Seq(Nodes) /\ Len(nodes') = 1 /\ nodes'[1] = y
      BY <3>1, <3>5, <3>7, <3>8
    <3> QED  BY <3>9 DEF y
  <2>3. DOMAIN map' = {Root} /\ map'[Root] = 1
    BY <1>1, <2>1 DEF import_map_add, Dest
  <2>4. /\ calls' \in Seq(Calls) /\ Len(calls') = 1 /\ calls'[1].of = Root /\ calls'[1].at = 1
    <3>1. c \in Calls /\ c.of = Root /\ c.at = 1
      BY <1>1 DEF Calls, Dest
    <3> HIDE DEF c
    <3> QED  BY <2>1, <3>1
  <2>5. ImportTypeOK'
    BY <1>1, <2>1, <2>2, <2>3, <2>4 DEF ImportIInv, ImportTypeOK
  <2>6. Phases'
    <3>1. calls' # <<>>
      <4>1. Len(<<>>) = 0
        OBVIOUS
      <4>2. Len(calls') = 1
        BY <2>4
      <4> QED  BY <4>1, <4>2
    <3> QED  BY <2>1, <2>3, <3>1 DEF Phases, Dest
  <2>7. nodes'[1].type = kind[Root] /\ Len(nodes'[1].items) = 0 /\ \A i : i \notin 1 .. 0
    BY <2>2 DEF Node
  <2>8. Met'
    <3>1. 0 <= Len(items[Root])
      <4>1. items[Root] \in Seq(Items)
        BY <1>1 DEF ImportIInv, ImportTypeOK
      <4> QED  BY <4>1
    <3> QED  BY <1>1, <1>2, <1>4, <2>3, <2>7, <3>1 DEF Met
  <2>9. OwnNode'
    BY <2>3 DEF OwnNode
  <2>10. Following'
    <3>1. \A j : (j \in 1 .. 1 => j = 1) /\ j \notin 1 .. 1 - 1
      OBVIOUS
    <3> QED  BY <2>3, <2>4, <3>1 DEF Following
  <2>11. Through'
    <3>1. 1 \in 1 .. 1
      OBVIOUS
    <3> QED  BY <2>3, <2>4, <3>1 DEF Through
  <2> QED  BY <2>5, <2>6, <2>8, <2>9, <2>10, <2>11 DEF ImportIInv
<1> QED  BY <1>3, <1>4

LEMMA ImportNextKeeps ==
  ASSUME ImportIInv, [ImportNext]_importVars
  PROVE  ImportIInv'
<1>1. ASSUME NEW o \in Objects, NEW v \in Items, Put(o, v)
      PROVE  ImportIInv'
  BY <1>1, PutKeeps
<1>2. CASE shared_import_into
  BY <1>2, ImportIntoKeeps
<1>3. CASE SkipHole
  BY <1>3, SkipHoleKeeps
<1>4. CASE shared_import_scalar
  BY <1>4, ScalarKeeps
<1>5. ASSUME NEW o \in Objects, LinkExisting(o) \/ ImportObject(o) \/ Refuse(o)
      PROVE  ImportIInv'
  BY <1>5, LinkExistingKeeps, ImportObjectKeeps, RefuseKeeps
<1>6. CASE ReturnNode
  BY <1>6, ReturnNodeKeeps
<1>7. CASE UNCHANGED importVars
  <2>1. Reached' = Reached /\ (\A node, v : Shows(node, v)' <=> Shows(node, v))
    BY <1>7, ReachedStays DEF importVars, Shows
  <2>2. ImportTypeOK' /\ Phases' /\ OwnNode' /\ Following' /\ Through'
    BY <1>7, <2>1 DEF importVars, ImportIInv, ImportTypeOK, Phases, OwnNode, Following, Through
  <2>3. Met'
    BY <1>7, <2>1 DEF importVars, ImportIInv, Met
  <2> QED  BY <2>2, <2>3 DEF ImportIInv
<1> QED  BY <1>1, <1>2, <1>3, <1>4, <1>5, <1>6, <1>7 DEF ImportNext, Items

\* The objects that were met, all through, are closed under references.
LEMMA ImportedFaithfully ==
  ASSUME ImportIInv
  PROVE  ImportFaithful
<1> SUFFICES ASSUME phase = "done"
             PROVE  /\ \A o \in Reached : kind[o] # "unsupported"
                    /\ DOMAIN map = Reached /\ map[Root] = Dest
                    /\ \A o, p \in Reached : map[o] = map[p] => o = p
                    /\ \A o \in Reached : Copied(o)
  BY DEF ImportFaithful, ImportIInv, Phases
<1>1. Root \in DOMAIN map /\ map[Root] = Dest
  BY DEF ImportIInv, Phases
<1>2. \A o \in DOMAIN map : /\ o \in Objects
                            /\ Len(nodes[map[o]].items) = Len(items[o])
                            /\ DOMAIN items[o] = 1 .. Len(items[o])
  <2>1. Len(calls) = 0 /\ \A j : j \notin 1 .. 0
    BY DEF ImportIInv, Phases
  <2>2. \A o \in DOMAIN map : o \in Objects /\ DOMAIN items[o] = 1 .. Len(items[o])
    BY DEF ImportIInv, ImportTypeOK
  <2> QED  BY <2>1, <2>2 DEF ImportIInv, Through
<1>3. ASSUME NEW o \in DOMAIN map
      PROVE  Copied(o)
  BY <1>2 DEF Copied, ImportIInv, Met
<1>4. ClosedUnder(DOMAIN map)
  <2> SUFFICES ASSUME NEW o \in DOMAIN map, NEW p \in Objects,
                      NEW i \in DOMAIN items[o], items[o][i] = Ref(p)
               PROVE  p \in DOMAIN map
    BY DEF ClosedUnder
  <2> QED  BY <1>3 DEF Copied, Shows
<1>5. DOMAIN map = Reached
  <2>1. DOMAIN map \in SUBSET Objects
    BY <1>2
  <2>2. Reached \subseteq DOMAIN map
    BY <1>1, <1>4, <2>1 DEF Reached
  <2> QED  BY <2>2 DEF ImportIInv, Met
<1> QED  BY <1>1, <1>3, <1>5 DEF ImportIInv, Met, OwnNode

\* shared_import_value copies every structure with its shape, or refuses it,
\* for any objects with any references between them.
THEOREM ImportFaithfulAlways == ImportSpec => []ImportFaithful
<1>1. ImportInit => ImportIInv
  BY ImportInitially
<1>2. ImportIInv /\ [ImportNext]_importVars => ImportIInv'
  BY ImportNextKeeps
<1>3. ImportIInv => ImportFaithful
  BY ImportedFaithfully
<1> QED  BY <1>1, <1>2, <1>3, PTL DEF ImportSpec

(***************************************************************************)
(* The process table                                                       *)
(***************************************************************************)

Lives == {"unborn", "running", "zombie", "gone"}

ProcessTypeOK ==
  /\ table \in [Pids -> Children \cup {Nobody, Stranger}]
  /\ life \in [Children -> Lives]
  /\ spawned \in [Children -> Pids \cup {Nobody}]
  /\ waiting \in [Callers -> Children \cup {Nobody}]
  /\ returned \in [Children -> {0, 1}]
  /\ exited \subseteq Children
  /\ \A e \in hit : e[1] \in Children

\* A child has an entry, the one spawn returned and no other, from its birth to
\* the collection of its status.
TableRight ==
  /\ \A h \in Children : life[h] # "unborn" => spawned[h] \in Pids
  /\ \A h \in Children : life[h] \in {"running", "zombie"} => table[spawned[h]] = h
  /\ \A p \in Pids : table[p] \in Children =>
       spawned[table[p]] = p /\ life[table[p]] \in {"running", "zombie"}

Collected ==
  /\ \A h \in Children : returned[h] = 1 <=> life[h] = "gone"
  /\ \A c \in Callers : waiting[c] # Nobody => life[waiting[c]] # "unborn"
  /\ \A h \in exited : life[h] \in {"zombie", "gone"}
  /\ \A e \in hit : life[e[1]] = "gone"

ProcessIInv == ProcessTypeOK /\ TableRight /\ Collected

LEMMA ProcessHolds ==
  ASSUME ProcessInit
  PROVE  ProcessIInv
BY ProcessAssumption DEF ProcessInit, ProcessIInv, ProcessTypeOK,
       TableRight, Collected, Lives

LEMMA SpawnKeeps ==
  ASSUME ProcessIInv,
         NEW h \in Children, NEW p \in Pids, dd_spawn_process(h, p)
  PROVE  ProcessIInv'
BY ProcessAssumption DEF ProcessIInv, ProcessTypeOK,
       TableRight, Collected, Lives, dd_spawn_process

LEMMA ExitKeeps ==
  ASSUME ProcessIInv, NEW h \in Children, Exit(h)
  PROVE  ProcessIInv'
BY ProcessAssumption DEF ProcessIInv, ProcessTypeOK,
       TableRight, Collected, Lives, Exit

LEMMA UnrelatedKeeps ==
  ASSUME ProcessIInv, NEW p \in Pids, Unrelated(p)
  PROVE  ProcessIInv'
BY ProcessAssumption DEF ProcessIInv, ProcessTypeOK,
       TableRight, Collected, Lives, Unrelated

LEMMA ExitedKeeps ==
  ASSUME ProcessIInv, NEW h \in Children, process_exited(h)
  PROVE  ProcessIInv'
BY ProcessAssumption DEF ProcessIInv, ProcessTypeOK,
       TableRight, Collected, Lives, process_exited

LEMMA TerminateKeeps ==
  ASSUME ProcessIInv, NEW h \in Children, terminate_process(h)
  PROVE  ProcessIInv'
BY ProcessAssumption DEF ProcessIInv, ProcessTypeOK,
       TableRight, Collected, Lives, terminate_process

LEMMA StartWaitKeeps ==
  ASSUME ProcessIInv,
         NEW c \in Callers, NEW h \in Children, StartWait(c, h)
  PROVE  ProcessIInv'
BY ProcessAssumption DEF ProcessIInv, ProcessTypeOK,
       TableRight, Collected, Lives, StartWait

LEMMA WaitKeeps ==
  ASSUME ProcessIInv, NEW c \in Callers, wait_process(c)
  PROVE  ProcessIInv'
BY ProcessAssumption DEF ProcessIInv, ProcessTypeOK,
       TableRight, Collected, Lives, wait_process

LEMMA NextKeeps ==
  ASSUME ProcessIInv, [ProcessNext]_processVars
  PROVE  ProcessIInv'
<1>1. CASE \E h \in Children, p \in Pids : dd_spawn_process(h, p)
  BY <1>1, SpawnKeeps
<1>2. CASE \E h \in Children : Exit(h)
  BY <1>2, ExitKeeps
<1>3. CASE \E h \in Children : process_exited(h)
  BY <1>3, ExitedKeeps
<1>4. CASE \E h \in Children : terminate_process(h)
  BY <1>4, TerminateKeeps
<1>5. CASE \E h \in Children, c \in Callers : StartWait(c, h)
  BY <1>5, StartWaitKeeps
<1>6. CASE \E p \in Pids : Unrelated(p)
  BY <1>6, UnrelatedKeeps
<1>7. CASE \E c \in Callers : wait_process(c)
  BY <1>7, WaitKeeps
<1>8. CASE UNCHANGED processVars
  BY <1>8 DEF ProcessIInv, ProcessTypeOK, TableRight, Collected, processVars
<1> QED
  BY <1>1, <1>2, <1>3, <1>4, <1>5, <1>6, <1>7, <1>8 DEF ProcessNext

LEMMA PidHeldFollows ==
  ASSUME ProcessIInv
  PROVE  PidHeld
BY DEF ProcessIInv, ProcessTypeOK, TableRight, Collected, PidHeld, Lives

\* process_exited leaves the zombie it finds (WNOWAIT) and only wait_process
\* collects it: a child's pid names that child until its status has been
\* returned, which happens once, whoever asks and however often.
THEOREM PidIsHeld ==
  ProcessSpec => []PidHeld
<1>1. ProcessInit => ProcessIInv
  BY ProcessHolds
<1>2. ProcessIInv /\ [ProcessNext]_processVars => ProcessIInv'
  BY NextKeeps
<1>3. ProcessIInv => PidHeld
  BY PidHeldFollows
<1> QED
  BY <1>1, <1>2, <1>3, PTL DEF ProcessSpec

(***************************************************************************)
(* The environment of a child                                              *)
(***************************************************************************)

\* A set of places has a first one.
LEMMA LeastPlace ==
  ASSUME NEW T \in SUBSET Nat, T # {}
  PROVE  \E x \in T : \A y \in T : x <= y
<1> DEFINE R == OpToRel(<, Nat)
<1>1. IsWellFoundedOn(R, Nat)
  BY NatLessThanWellFounded
<1>2. \A x, y \in Nat : <<y, x>> \in R <=> y < x
  BY DEF OpToRel
<1> HIDE DEF R
<1>3. PICK x \in T : \A y \in T : ~ (<<y, x>> \in R)
  BY <1>1, WFMin
<1>4. \A y \in T : y \in Nat /\ x \in Nat
  OBVIOUS
<1>5. \A y \in T : ~ (y < x)
  BY <1>2, <1>3, <1>4
<1> QED BY <1>4, <1>5

\* Text, and the keys that spawn accepts.
Text == Seq(Symbols)
Keys == {key \in Text : key # <<>> /\ \A i \in DOMAIN key : key[i] # "="}

\* An assignment assigns the key it was made for.
LEMMA AssignsOwn ==
  ASSUME NEW key \in Text, NEW v \in Text
  PROVE  Assigned(key, v) \in Text /\ Assigns(Assigned(key, v), key)
<1> DEFINE entry == Assigned(key, v)
           mark == <<"=">>
           front == key \o mark
<1>1. mark \in Seq(Symbols) /\ Len(mark) = 1 /\ mark[1] = "="
  BY SpawnAssumption
<1>2. /\ key \in Seq(Symbols) /\ v \in Seq(Symbols)
      /\ Len(key) \in Nat /\ Len(v) \in Nat
  BY DEF Text
<1>3. entry = front \o v
  BY DEF Assigned
<1> HIDE DEF mark
<1>4. /\ front \in Seq(Symbols) /\ Len(front) = Len(key) + Len(mark)
      /\ \A i \in 1 .. Len(key) + Len(mark) :
           front[i] = IF i <= Len(key) THEN key[i] ELSE mark[i - Len(key)]
  BY <1>1, <1>2, ConcatProperties
<1> HIDE DEF front, entry
<1>5. /\ entry \in Seq(Symbols) /\ Len(entry) = Len(front) + Len(v)
      /\ \A i \in 1 .. Len(front) + Len(v) :
           entry[i] = IF i <= Len(front) THEN front[i] ELSE v[i - Len(front)]
  BY <1>2, <1>3, <1>4, ConcatProperties
<1>6. \A i \in 1 .. Len(key) : entry[i] = key[i]
  BY <1>1, <1>2, <1>4, <1>5
<1>7. entry[Len(key) + 1] = "=" /\ Len(key) < Len(entry)
  BY <1>1, <1>2, <1>4, <1>5
<1>8. SubSeq(entry, 1, Len(key)) = key
  <2>1. /\ SubSeq(entry, 1, Len(key)) \in Seq(Symbols)
        /\ Len(SubSeq(entry, 1, Len(key))) = Len(key)
        /\ \A i \in 1 .. Len(key) : SubSeq(entry, 1, Len(key))[i] = entry[i]
    BY <1>2, <1>5, <1>7
  <2> QED BY <1>2, <1>6, <2>1
<1>9. Assigns(entry, key)
  BY <1>7, <1>8 DEF Assigns
<1> QED BY <1>5, <1>9 DEF entry, Text

\* It assigns no other key: none has a '=' in it, so its first '=' ends the key.
LEMMA AssignsOne ==
  ASSUME NEW entry \in Text, NEW k \in Keys, NEW l \in Keys,
         Assigns(entry, k), Assigns(entry, l)
  PROVE  k = l
<1>1. /\ k \in Seq(Symbols) /\ l \in Seq(Symbols) /\ entry \in Seq(Symbols)
      /\ Len(k) \in Nat /\ Len(l) \in Nat
  BY DEF Keys, Text
<1>2. /\ Len(k) < Len(entry) /\ entry[Len(k) + 1] = "="
      /\ \A i \in 1 .. Len(k) : k[i] = entry[i]
  BY <1>1 DEF Assigns
<1>3. /\ Len(l) < Len(entry) /\ entry[Len(l) + 1] = "="
      /\ \A i \in 1 .. Len(l) : l[i] = entry[i]
  BY <1>1 DEF Assigns
<1>4. /\ \A i \in 1 .. Len(k) : k[i] # "="
      /\ \A i \in 1 .. Len(l) : l[i] # "="
  BY <1>1 DEF Keys
<1>5. ~ (Len(k) < Len(l))
  <2> SUFFICES ASSUME Len(k) < Len(l) PROVE FALSE
    OBVIOUS
  <2>1. Len(k) + 1 \in 1 .. Len(l)
    BY <1>1
  <2> QED BY <1>2, <1>3, <1>4, <2>1
<1>6. ~ (Len(l) < Len(k))
  <2> SUFFICES ASSUME Len(l) < Len(k) PROVE FALSE
    OBVIOUS
  <2>1. Len(l) + 1 \in 1 .. Len(k)
    BY <1>1
  <2> QED BY <1>2, <1>3, <1>4, <2>1
<1>7. Len(k) = Len(l)
  BY <1>1, <1>5, <1>6
<1> QED BY <1>1, <1>2, <1>3, <1>7

\* The types, and where the keys are assigned: the loop goes on.
EnvTypes ==
  /\ environ \in Seq(Text) /\ result \in Seq(Text) /\ Len(environ) <= Len(result)
  /\ \A key \in DOMAIN overrides : key \in Keys /\ overrides[key] \in Text
  /\ left \subseteq DOMAIN overrides

\* A key that is still to come is assigned where the parent assigned it.
Assigning ==
  \A key \in DOMAIN overrides :
    LET at == Assignments(result, key)
        was == Assignments(environ, key)
    IN  \/ at = was
        \/ key \notin left /\ was = {} /\ \E i \in at : at = {i}

\* A key that is done has the caller's value in its first assignment.
Overridden ==
  \A key \in DOMAIN overrides \ left :
    \E i \in Assignments(result, key) :
      /\ result[i] = Assigned(key, overrides[key])
      /\ \A j \in Assignments(result, key) : i <= j

\* What no key to override assigns is the parent's.
Inherited ==
  \A i \in DOMAIN environ :
    (\A key \in DOMAIN overrides : ~Assigns(environ[i], key)) => result[i] = environ[i]

EnvIInv == EnvTypes /\ Assigning /\ Overridden /\ Inherited

\* At the start nothing is overridden yet.
LEMMA EnvStarts == SpawnInit => EnvIInv
<1> SUFFICES ASSUME SpawnInit PROVE EnvIInv
  OBVIOUS
<1>1. environ \in Environs /\ overrides \in Overrides /\ result = environ
      /\ left = DOMAIN overrides
  BY DEF SpawnInit
<1>2. environ \in Seq(Text)
  BY <1>1, SpawnAssumption DEF Text
<1>3. EnvTypes
  <2>1. \A key \in DOMAIN overrides : key \in Keys /\ overrides[key] \in Text
    BY <1>1, SpawnAssumption DEF Keys, Text
  <2>2. Len(environ) \in Nat
    BY <1>2
  <2> QED BY <1>1, <1>2, <2>1, <2>2 DEF EnvTypes
<1>4. Assigning /\ Overridden /\ Inherited
  BY <1>1 DEF Assigning, Overridden, Inherited
<1> QED BY <1>3, <1>4 DEF EnvIInv

\* One turn of the loop: the assignments of the other keys stay where they are.
LEMMA OverrideKeeps ==
  ASSUME EnvIInv, NEW key \in DOMAIN overrides, Override(key)
  PROVE  EnvIInv'
<1> DEFINE new == Assigned(key, overrides[key])
           at == Assignments(result, key)
           first == CHOOSE i \in at : \A j \in at : i <= j
<1>1. /\ key \in left
      /\ result' = IF at = {} THEN Append(result, new) ELSE [result EXCEPT ![first] = new]
      /\ left' = left \ {key}
      /\ environ' = environ /\ overrides' = overrides
  BY DEF Override
<1>2. /\ environ \in Seq(Text) /\ result \in Seq(Text) /\ Len(environ) <= Len(result)
      /\ \A k \in DOMAIN overrides : k \in Keys /\ overrides[k] \in Text
      /\ left \subseteq DOMAIN overrides
  BY DEF EnvIInv, EnvTypes
<1>3. new \in Text /\ Assigns(new, key)
  BY <1>2, AssignsOwn DEF Keys
<1>4. \A k \in DOMAIN overrides : k # key => ~ Assigns(new, k)
  BY <1>2, <1>3, AssignsOne
<1>5. at = Assignments(environ, key)
  BY <1>1 DEF EnvIInv, Assigning
<1>6. Len(environ) \in Nat /\ Len(result) \in Nat
      /\ DOMAIN environ = 1 .. Len(environ) /\ DOMAIN result = 1 .. Len(result)
  BY <1>2
<1>7. \A k, i : i \in Assignments(result, k) <=> i \in DOMAIN result /\ Assigns(result[i], k)
  BY DEF Assignments
<1>8. \A k, i : i \in Assignments(result, k)' <=> i \in DOMAIN result' /\ Assigns(result'[i], k)
  BY DEF Assignments
<1>9. \A k : Assignments(environ, k)' = Assignments(environ, k)
  BY <1>1 DEF Assignments
<1> HIDE DEF new, at, first
<1>10. CASE at = {}
  <2>1. result' = Append(result, new)
    BY <1>1, <1>10
  <2> DEFINE n == Len(result) + 1
  <2>2. /\ result' \in Seq(Text) /\ Len(result') = n /\ n \in Nat
        /\ DOMAIN result' = 1 .. n /\ DOMAIN result \subseteq DOMAIN result'
        /\ result'[n] = new /\ n \in DOMAIN result' /\ n \notin DOMAIN result
        /\ \A i \in DOMAIN result' : i \in DOMAIN result \/ i = n
        /\ \A i \in DOMAIN result : result'[i] = result[i]
    BY <1>2, <1>3, <1>6, <2>1
  <2> HIDE DEF n
  <2>3. \A k \in DOMAIN overrides :
          k # key => Assignments(result, k)' = Assignments(result, k)
    BY <1>4, <1>7, <1>8, <2>2
  <2>4. Assignments(result, key)' = {n}
    <3>1. \A i \in DOMAIN result : ~ Assigns(result[i], key)
      BY <1>7, <1>10 DEF at
    <3>2. n \in Assignments(result, key)'
      BY <1>3, <1>8, <2>2
    <3>3. \A i \in Assignments(result, key)' : i = n
      BY <1>8, <2>2, <3>1
    <3> QED BY <3>2, <3>3
  <2>5. EnvTypes'
    BY <1>1, <1>2, <1>6, <2>2 DEF EnvTypes, n
  <2>6. Assigning'
    <3> SUFFICES ASSUME NEW k \in DOMAIN overrides
                 PROVE  \/ Assignments(result, k)' = Assignments(environ, k)
                        \/ /\ k \notin left' /\ Assignments(environ, k) = {}
                           /\ \E i \in Assignments(result, k)' : Assignments(result, k)' = {i}
      BY <1>1, <1>9 DEF Assigning
    <3>1. CASE k = key
      BY <1>1, <1>5, <1>10, <2>4, <3>1
    <3>2. CASE k # key
      BY <1>1, <2>3, <3>2 DEF EnvIInv, Assigning
    <3> QED BY <3>1, <3>2
  <2>7. Overridden'
    <3> SUFFICES ASSUME NEW k \in DOMAIN overrides, k \notin left'
                 PROVE  \E i \in Assignments(result, k)' :
                          /\ result'[i] = Assigned(k, overrides[k])
                          /\ \A j \in Assignments(result, k)' : i <= j
      BY <1>1 DEF Overridden
    <3>1. CASE k = key
      BY <2>2, <2>4, <3>1 DEF new
    <3>2. CASE k # key
      <4>1. PICK i \in Assignments(result, k) :
              /\ result[i] = Assigned(k, overrides[k])
              /\ \A j \in Assignments(result, k) : i <= j
        BY <1>1, <3>2 DEF EnvIInv, Overridden
      <4>2. result'[i] = result[i]
        BY <1>7, <2>2
      <4> QED BY <2>3, <3>2, <4>1, <4>2
    <3> QED BY <3>1, <3>2
  <2>8. Inherited'
    <3>1. \A i \in DOMAIN environ : i \in DOMAIN result
      BY <1>2, <1>6
    <3> QED BY <1>1, <2>2, <3>1 DEF EnvIInv, Inherited
  <2> QED BY <2>5, <2>6, <2>7, <2>8 DEF EnvIInv
<1>11. CASE at # {}
  <2>1. result' = [result EXCEPT ![first] = new]
    BY <1>1, <1>11
  <2>2. first \in at /\ \A j \in at : first <= j
    <3>1. at \in SUBSET Nat
      BY <1>6 DEF at, Assignments
    <3>2. \E i \in at : \A j \in at : i <= j
      BY <1>11, <3>1, LeastPlace
    <3> QED BY <3>2 DEF first
  <2>3. first \in DOMAIN result /\ Assigns(result[first], key)
        /\ first \in DOMAIN environ /\ Assigns(environ[first], key)
    BY <1>5, <2>2 DEF at, Assignments
  <2>4. /\ result' \in Seq(Text) /\ Len(result') = Len(result)
        /\ DOMAIN result' = DOMAIN result /\ result'[first] = new
        /\ \A i \in DOMAIN result : i # first => result'[i] = result[i]
    BY <1>2, <1>3, <2>1, <2>3
  <2>5. \A k \in DOMAIN overrides : k # key => ~ Assigns(result[first], k)
    <3>1. result[first] \in Text
      BY <1>2, <2>3
    <3> QED BY <1>2, <2>3, <3>1, AssignsOne
  <2>6. \A k \in DOMAIN overrides : Assignments(result, k)' = Assignments(result, k)
    <3>1. ASSUME NEW k \in DOMAIN overrides, NEW i \in DOMAIN result
          PROVE  Assigns(result'[i], k) <=> Assigns(result[i], k)
      <4>1. CASE i # first
        BY <2>4, <4>1
      <4>2. CASE i = first /\ k = key
        BY <1>3, <2>3, <2>4, <4>2
      <4>3. CASE i = first /\ k # key
        BY <1>4, <2>4, <2>5, <4>3
      <4> QED BY <4>1, <4>2, <4>3
    <3> QED BY <1>7, <1>8, <2>4, <3>1
  <2>7. EnvTypes'
    BY <1>1, <1>2, <2>4 DEF EnvTypes
  <2>8. Assigning'
    BY <1>1, <1>9, <2>6 DEF EnvIInv, Assigning
  <2>9. Overridden'
    <3> SUFFICES ASSUME NEW k \in DOMAIN overrides, k \notin left'
                 PROVE  \E i \in Assignments(result, k) :
                          /\ result'[i] = Assigned(k, overrides[k])
                          /\ \A j \in Assignments(result, k) : i <= j
      BY <1>1, <2>6 DEF Overridden
    <3>1. CASE k = key
      BY <2>2, <2>4, <3>1 DEF new, at
    <3>2. CASE k # key
      <4>1. PICK i \in Assignments(result, k) :
              /\ result[i] = Assigned(k, overrides[k])
              /\ \A j \in Assignments(result, k) : i <= j
        BY <1>1, <3>2 DEF EnvIInv, Overridden
      <4>2. i \in DOMAIN result /\ i # first
        BY <1>7, <2>5, <3>2
      <4>3. result'[i] = result[i]
        BY <2>4, <4>2
      <4> QED BY <4>1, <4>3
    <3> QED BY <3>1, <3>2
  <2>10. Inherited'
    <3>1. DOMAIN environ \subseteq DOMAIN result
      BY <1>2, <1>6
    <3> QED BY <1>1, <2>3, <2>4, <3>1 DEF EnvIInv, Inherited
  <2> QED BY <2>7, <2>8, <2>9, <2>10 DEF EnvIInv
<1> QED BY <1>10, <1>11

\* The steps about an argv leave the environment alone.
LEMMA EnvGoes == EnvIInv /\ [SpawnNext]_spawnVars => EnvIInv'
<1> SUFFICES ASSUME EnvIInv, [SpawnNext]_spawnVars PROVE EnvIInv'
  OBVIOUS
<1>1. CASE UNCHANGED <<environ, overrides, result, left>>
  BY <1>1 DEF EnvIInv, EnvTypes, Assigning, Overridden, Inherited, Assignments
<1>2. CASE NewArg
  BY <1>1, <1>2 DEF NewArg
<1>3. CASE \E c \in Chars : NewChar(c)
  BY <1>1, <1>3 DEF NewChar
<1>4. CASE \E key \in DOMAIN overrides : Override(key)
  BY <1>4, OverrideKeeps
<1>5. CASE UNCHANGED spawnVars
  BY <1>1, <1>5 DEF spawnVars
<1> QED BY <1>2, <1>3, <1>4, <1>5 DEF SpawnNext

\* The environment of a child, whatever the parent's and the overrides: see EnvironmentExact.
THEOREM EnvironmentExactAlways == SpawnSpec => []EnvironmentExact
<1>1. EnvIInv => EnvironmentExact
  <2> SUFFICES ASSUME EnvIInv, left = {} PROVE EnvironmentExact
    BY DEF EnvironmentExact
  <2>1. \A i \in DOMAIN environ : i \in DOMAIN result
    BY DEF EnvIInv, EnvTypes
  <2> QED BY <2>1 DEF EnvIInv, Assigning, Overridden, Inherited, EnvironmentExact
<1> QED BY EnvStarts, EnvGoes, <1>1, PTL DEF SpawnSpec

(***************************************************************************)
(* The command line of a child                                             *)
(***************************************************************************)

\* Arguments, and the text that they are parts of.
Words == Seq(Chars)

\* The reader: the words that are complete, the one that is begun, backslashes that
\* are not yet in it, whether a quote is open, and whether a word is begun at all.
Reader(ws, w, k, in, any) ==
  [words |-> ws, word |-> w, slashes |-> k, inside |-> in, any |-> any]

\* The reader, at a, reads s and is at b.
Reads(a, s, b) ==
  \E f : /\ f[0] = a /\ f[Len(s)] = b
         /\ \A i \in 1 .. Len(s) : f[i] = ReadChar(f[i - 1], s[i])

\* Four characters, that differ.
LEMMA CharsDiffer ==
  /\ Letter # Slash /\ Letter # Quote /\ Letter # Space
  /\ Space # Slash /\ Space # Quote /\ Slash # Quote
BY DEF Letter, Slash, Quote, Space

LEMMA CharsAre == Slash \in Chars /\ Quote \in Chars /\ Space \in Chars /\ Letter \in Chars
BY DEF Chars

\* Backslashes, counted.
LEMMA SlashRun ==
  /\ Slashes(0) = <<>>
  /\ \A n \in Nat : /\ Slashes(n) \in Words /\ Len(Slashes(n)) = n
                    /\ \A i \in 1 .. n : Slashes(n)[i] = Slash
  /\ \A n \in Nat : Slashes(n + 1) = Slashes(n) \o <<Slash>>
<1> USE DEF Words
<1>1. Slash \in Chars
  BY DEF Chars
<1>2. \A n \in Nat : /\ Slashes(n) \in Words /\ Len(Slashes(n)) = n
                     /\ \A i \in 1 .. n : Slashes(n)[i] = Slash
  BY <1>1 DEF Slashes
<1>3. Slashes(0) = <<>>
  BY <1>2
<1>4. ASSUME NEW n \in Nat PROVE Slashes(n + 1) = Slashes(n) \o <<Slash>>
  <2> DEFINE t == Slashes(n) \o <<Slash>>
             u == Slashes(n + 1)
  <2>1. u \in Seq(Chars) /\ Len(u) = n + 1 /\ \A i \in 1 .. n + 1 : u[i] = Slash
    BY <1>2
  <2>2. t \in Seq(Chars) /\ Len(t) = n + 1 /\ \A i \in 1 .. n + 1 : t[i] = Slash
    <3> DEFINE mark == <<Slash>>
    <3>1. mark \in Seq(Chars) /\ Len(mark) = 1 /\ mark[1] = Slash
      BY <1>1
    <3> HIDE DEF mark
    <3> DEFINE s == Slashes(n)
    <3>2. s \in Seq(Chars) /\ Len(s) = n
      BY <1>2
    <3> HIDE DEF s
    <3>6. /\ s \o mark \in Seq(Chars) /\ Len(s \o mark) = Len(s) + Len(mark)
          /\ \A i \in 1 .. Len(s) + Len(mark) : (s \o mark)[i] =
               IF i <= Len(s) THEN s[i] ELSE mark[i - Len(s)]
      BY <3>1, <3>2, ConcatProperties
    <3>3. /\ s \o mark \in Seq(Chars) /\ Len(s \o mark) = n + 1
          /\ \A i \in 1 .. n + 1 : (s \o mark)[i] =
               IF i <= n THEN s[i] ELSE mark[i - n]
      BY <3>1, <3>2, <3>6
    <3>4. \A i \in 1 .. n + 1 : i <= n \/ i - n = 1
      OBVIOUS
    <3>5. \A i \in 1 .. n : i <= n /\ s[i] = Slash
      BY <1>2 DEF s
    <3>7. \A i \in 1 .. n + 1 : (s \o mark)[i] = Slash
      BY <3>1, <3>3, <3>4, <3>5
    <3> QED BY <3>3, <3>7 DEF mark, s
  <2> HIDE DEF t, u
  <2>3. t = u
    BY <2>1, <2>2, SeqEqual
  <2> QED BY <2>3 DEF t, u
<1> QED BY <1>2, <1>3, <1>4

\* Texts are read one after the other.
LEMMA ReadsNothing == ASSUME NEW a PROVE Reads(a, <<>>, a)
<1> DEFINE f == [i \in {0} |-> a]
<1>1. Len(<<>>) = 0 /\ f[0] = a
  OBVIOUS
<1>2. \A i \in 1 .. Len(<<>>) : FALSE
  BY <1>1
<1> HIDE DEF f
<1>3. \E g : /\ g[0] = a /\ g[Len(<<>>)] = a
             /\ \A i \in 1 .. Len(<<>>) : g[i] = ReadChar(g[i - 1], <<>>[i])
  BY <1>1, <1>2
<1> QED BY <1>3 DEF Reads

LEMMA ReadsOne ==
  ASSUME NEW a, NEW c \in Chars
  PROVE  Reads(a, <<c>>, ReadChar(a, c))
<1> DEFINE b == ReadChar(a, c)
           f == [i \in 0 .. 1 |-> IF i = 0 THEN a ELSE b]
           s == <<c>>
<1> HIDE DEF b
<1>1. Len(s) = 1 /\ s[1] = c /\ f[0] = a /\ f[1] = b
  OBVIOUS
<1> HIDE DEF f, s
<1>2. \A i \in 1 .. Len(s) : i = 1
  BY <1>1
<1>3. \A i \in 1 .. Len(s) : f[i] = ReadChar(f[i - 1], s[i])
  <2>1. f[1] = ReadChar(f[1 - 1], s[1])
    BY <1>1 DEF b
  <2> QED BY <1>2, <2>1
<1>4. Reads(a, s, b)
  BY <1>1, <1>3 DEF Reads
<1> QED BY <1>4 DEF s, b

LEMMA ReadsOn ==
  ASSUME NEW s \in Words, NEW t \in Words, NEW a, NEW b, NEW c,
         Reads(a, s, b), Reads(b, t, c)
  PROVE  Reads(a, s \o t, c)
<1>1. PICK f : /\ f[0] = a /\ f[Len(s)] = b
               /\ \A i \in 1 .. Len(s) : f[i] = ReadChar(f[i - 1], s[i])
  BY DEF Reads
<1>2. PICK g : /\ g[0] = b /\ g[Len(t)] = c
               /\ \A i \in 1 .. Len(t) : g[i] = ReadChar(g[i - 1], t[i])
  BY DEF Reads
<1> DEFINE m == Len(s)
           n == Len(t)
           u == s \o t
           h == [i \in 0 .. m + n |-> IF i <= m THEN f[i] ELSE g[i - m]]
<1>3. m \in Nat /\ n \in Nat
  BY DEF Words
<1>4. /\ Len(u) = m + n
      /\ \A i \in 1 .. m + n : u[i] = IF i <= m THEN s[i] ELSE t[i - m]
  BY ConcatProperties DEF Words
<1> HIDE DEF m, n, u
<1>5. h[0] = a /\ h[m + n] = c
  <2>1. CASE n = 0
    BY <1>1, <1>2, <1>3, <2>1 DEF m, n
  <2>2. CASE n # 0
    BY <1>1, <1>2, <1>3, <2>2 DEF m, n
  <2> QED BY <2>1, <2>2
<1>6. ASSUME NEW i \in 1 .. m + n PROVE h[i] = ReadChar(h[i - 1], u[i])
  <2>1. i - 1 \in 0 .. m + n /\ i \in 0 .. m + n
    BY <1>3
  <2>2. CASE i <= m
    <3>1. i \in 1 .. m /\ i - 1 <= m
      BY <1>3, <2>2
    <3>2. h[i] = f[i] /\ h[i - 1] = f[i - 1] /\ u[i] = s[i]
      BY <1>4, <2>1, <2>2, <3>1
    <3> HIDE DEF h
    <3>3. f[i] = ReadChar(f[i - 1], s[i])
      BY <1>1, <3>1 DEF m
    <3> QED BY <3>2, <3>3
  <2>3. CASE i > m
    <3> DEFINE j == i - m
    <3>1. j \in 1 .. n /\ ~ (i <= m)
      BY <1>3, <2>3
    <3>2. h[i] = g[j] /\ u[i] = t[j]
      BY <1>4, <2>1, <3>1
    <3>3. h[i - 1] = g[j - 1]
      <4>1. CASE i - 1 <= m
        <5>1. i - 1 = m /\ j - 1 = 0
          BY <1>3, <2>3, <4>1
        <5>2. h[i - 1] = f[m]
          BY <2>1, <4>1, <5>1
        <5> QED BY <1>1, <1>2, <5>1, <5>2 DEF m
      <4>2. CASE ~ (i - 1 <= m)
        <5>1. h[i - 1] = g[(i - 1) - m] /\ (i - 1) - m = j - 1
          BY <1>3, <2>1, <4>2
        <5> QED BY <5>1
      <4> QED BY <4>1, <4>2
    <3> HIDE DEF h, j
    <3>4. g[j] = ReadChar(g[j - 1], t[j])
      BY <1>2, <3>1 DEF n
    <3> QED BY <3>2, <3>3, <3>4
  <2> QED BY <1>3, <2>2, <2>3
<1> HIDE DEF h
<1>7. Reads(a, u, c)
  BY <1>4, <1>5, <1>6 DEF Reads
<1> QED BY <1>7 DEF u

\* What the reader makes of one character.
LEMMA ReadSlash ==
  ASSUME NEW ws, NEW w, NEW k \in Nat, NEW in \in BOOLEAN, NEW any \in BOOLEAN
  PROVE  ReadChar(Reader(ws, w, k, in, any), Slash) = Reader(ws, w, k + 1, in, TRUE)
BY CharsDiffer DEF ReadChar, Reader

LEMMA ReadLiteralQuote ==
  ASSUME NEW ws, NEW w, NEW k \in Nat, NEW in \in BOOLEAN, NEW any \in BOOLEAN
  PROVE  ReadChar(Reader(ws, w, 2 * k + 1, in, any), Quote)
           = Reader(ws, Append(w \o Slashes(k), Quote), 0, in, TRUE)
<1> DEFINE n == 2 * k + 1
<1>1. (n % 2) = 1 /\ n \div 2 = k
  OBVIOUS
<1> HIDE DEF n
<1> DEFINE st == Reader(ws, w, n, in, any)
<1>3. st.slashes = n /\ st.word = w
  BY DEF Reader
<1>2. ReadChar(st, Quote)
           = Reader(ws, Append(w \o Slashes(k), Quote), 0, in, TRUE)
  <2>1. (st.slashes % 2) = 1 /\ st.slashes \div 2 = k
    BY <1>1, <1>3
  <2> HIDE DEF st
  <2>2. ReadChar(st, Quote) =
          [st EXCEPT !.word = Append(st.word \o Slashes(st.slashes \div 2), Quote),
                     !.slashes = 0, !.any = TRUE]
    BY <2>1, CharsDiffer DEF ReadChar
  <2>3. ReadChar(st, Quote) =
          [st EXCEPT !.word = Append(w \o Slashes(k), Quote), !.slashes = 0, !.any = TRUE]
    BY <1>3, <2>1, <2>2
  <2> QED BY <2>3 DEF st, Reader
<1> QED BY <1>2 DEF n

LEMMA ReadQuote ==
  ASSUME NEW ws, NEW w, NEW k \in Nat, NEW in \in BOOLEAN, NEW any \in BOOLEAN
  PROVE  ReadChar(Reader(ws, w, 2 * k, in, any), Quote)
           = Reader(ws, w \o Slashes(k), 0, ~ in, TRUE)
<1> DEFINE n == 2 * k
<1>1. (n % 2) = 0 /\ n \div 2 = k
  OBVIOUS
<1> HIDE DEF n
<1> DEFINE st == Reader(ws, w, n, in, any)
<1>3. st.slashes = n /\ st.word = w
  BY DEF Reader
<1>2. ReadChar(st, Quote) = Reader(ws, w \o Slashes(k), 0, ~ in, TRUE)
  <2>1. (st.slashes % 2) = 0 /\ st.slashes \div 2 = k
    BY <1>1, <1>3
  <2> HIDE DEF st
  <2>2. ReadChar(st, Quote) =
          [st EXCEPT !.word = st.word \o Slashes(st.slashes \div 2),
                     !.slashes = 0, !.inside = ~ @, !.any = TRUE]
    BY <2>1, CharsDiffer DEF ReadChar
  <2>3. ReadChar(st, Quote) =
          [st EXCEPT !.word = w \o Slashes(k), !.slashes = 0, !.inside = ~ @, !.any = TRUE]
    BY <1>3, <2>1, <2>2
  <2> QED BY <2>3 DEF st, Reader
<1> QED BY <1>2 DEF n

LEMMA ReadSpace ==
  ASSUME NEW ws, NEW w, NEW k \in Nat
  PROVE  ReadChar(Reader(ws, w, k, FALSE, TRUE), Space)
           = Reader(Append(ws, w \o Slashes(k)), <<>>, 0, FALSE, FALSE)
BY CharsDiffer DEF ReadChar, Reader

\* The same, as a text of one character.
LEMMA ReadsLiteralQuote ==
  ASSUME NEW ws, NEW w, NEW k \in Nat, NEW in \in BOOLEAN, NEW any \in BOOLEAN
  PROVE  Reads(Reader(ws, w, 2 * k + 1, in, any), <<Quote>>,
               Reader(ws, Append(w \o Slashes(k), Quote), 0, in, TRUE))
<1> DEFINE a == Reader(ws, w, 2 * k + 1, in, any)
           b == Reader(ws, Append(w \o Slashes(k), Quote), 0, in, TRUE)
<1>1. ReadChar(a, Quote) = b
  BY ReadLiteralQuote
<1> HIDE DEF a, b
<1>2. Reads(a, <<Quote>>, b)
  BY <1>1, CharsAre, ReadsOne
<1> QED BY <1>2 DEF a, b

LEMMA ReadsQuote ==
  ASSUME NEW ws, NEW w, NEW k \in Nat, NEW in \in BOOLEAN, NEW any \in BOOLEAN
  PROVE  Reads(Reader(ws, w, 2 * k, in, any), <<Quote>>, Reader(ws, w \o Slashes(k), 0, ~ in, TRUE))
<1> DEFINE a == Reader(ws, w, 2 * k, in, any)
           b == Reader(ws, w \o Slashes(k), 0, ~ in, TRUE)
<1>1. ReadChar(a, Quote) = b
  BY ReadQuote
<1> HIDE DEF a, b
<1>2. Reads(a, <<Quote>>, b)
  BY <1>1, CharsAre, ReadsOne
<1> QED BY <1>2 DEF a, b

LEMMA ReadsOther ==
  ASSUME NEW ws, NEW w, NEW k \in Nat, NEW in \in BOOLEAN, NEW any \in BOOLEAN,
         NEW c \in Chars, c \notin {Slash, Quote}, c = Space => in
  PROVE  Reads(Reader(ws, w, k, in, any), <<c>>, Reader(ws, Append(w \o Slashes(k), c), 0, in, TRUE))
<1> DEFINE a == Reader(ws, w, k, in, any)
           b == Reader(ws, Append(w \o Slashes(k), c), 0, in, TRUE)
<1>1. ReadChar(a, c) = b
  BY CharsDiffer DEF ReadChar, Reader
<1> HIDE DEF a, b
<1>2. Reads(a, <<c>>, b)
  BY <1>1, ReadsOne
<1> QED BY <1>2 DEF a, b

\* Backslashes are only counted.
LEMMA ReadsSlashes ==
  ASSUME NEW ws, NEW w, NEW k \in Nat, NEW in \in BOOLEAN, NEW any \in BOOLEAN, NEW n \in Nat
  PROVE  \E some \in BOOLEAN :
           /\ n # 0 \/ any => some
           /\ Reads(Reader(ws, w, k, in, any), Slashes(n), Reader(ws, w, k + n, in, some))
<1>0. CASE n = 0
  <2>1. Slashes(n) = <<>> /\ k + n = k
    BY <1>0, SlashRun
  <2> QED BY <1>0, <2>1, ReadsNothing
<1>1. CASE n # 0
  <2> DEFINE a == Reader(ws, w, k, in, any)
             b(i) == Reader(ws, w, k + i, in, TRUE)
             f == [i \in 0 .. n |-> IF i = 0 THEN a ELSE b(i)]
  <2>5. ReadChar(a, Slash) = b(1)
    BY ReadSlash
  <2>6. ASSUME NEW i \in 1 .. n, i # 1 PROVE ReadChar(b(i - 1), Slash) = b(i)
    <3>1. k + (i - 1) \in Nat /\ (k + (i - 1)) + 1 = k + i
      BY <2>6
    <3>2. ReadChar(Reader(ws, w, k + (i - 1), in, TRUE), Slash)
            = Reader(ws, w, (k + (i - 1)) + 1, in, TRUE)
      BY <3>1, ReadSlash
    <3> QED BY <3>1, <3>2
  <2> HIDE DEF a, b
  <2>1. ASSUME NEW i \in 1 .. n PROVE f[i] = ReadChar(f[i - 1], Slash)
    <3>1. CASE i = 1
      <4>1. f[i] = b(1) /\ f[i - 1] = a
        BY <1>1, <3>1
      <4> HIDE DEF f
      <4> QED BY <2>5, <4>1
    <3>2. CASE i # 1
      <4>1. i - 1 \in 0 .. n /\ i - 1 # 0
        BY <3>2
      <4>2. f[i] = b(i) /\ f[i - 1] = b(i - 1)
        BY <4>1
      <4> HIDE DEF f
      <4> QED BY <2>6, <3>2, <4>2
    <3> QED BY <3>1, <3>2
  <2>2. Len(Slashes(n)) = n /\ \A i \in 1 .. n : Slashes(n)[i] = Slash
    BY SlashRun
  <2>3. f[0] = a /\ f[n] = b(n)
    BY <1>1
  <2> HIDE DEF f, a, b
  <2>4. Reads(a, Slashes(n), b(n))
    BY <2>1, <2>2, <2>3 DEF Reads
  <2> QED BY <2>4, Zenon DEF a, b
<1> QED BY <1>0, <1>1

\* Induction along 0 .. n.
LEMMA Upward ==
  ASSUME NEW n \in Nat, NEW T, 0 \in T, \A i \in 1 .. n : i - 1 \in T => i \in T
  PROVE  \A i \in 0 .. n : i \in T
<1> DEFINE Out == {i \in 0 .. n : i \notin T}
<1> SUFFICES ASSUME Out # {} PROVE FALSE
  OBVIOUS
<1>1. Out \in SUBSET Nat
  OBVIOUS
<1> HIDE DEF Out
<1>2. PICK i \in Out : \A j \in Out : i <= j
  BY <1>1, LeastPlace
<1>3. i \in 0 .. n /\ i \notin T /\ i # 0
  BY DEF Out
<1>4. i \in 1 .. n /\ i - 1 \in 0 .. n /\ ~ (i <= i - 1)
  BY <1>3
<1>5. i - 1 \in T
  BY <1>2, <1>4 DEF Out
<1> QED BY <1>3, <1>4, <1>5

\* What is defined step by step exists.
Chained(n, S, a, step) ==
  \E f \in [0 .. n -> S] : f[0] = a /\ \A i \in 1 .. n : f[i] = step[<<f[i - 1], i>>]

LEMMA Chain ==
  ASSUME NEW n \in Nat, NEW S, NEW a \in S, NEW step,
         \A i \in 1 .. n : \A x \in S : step[<<x, i>>] \in S
  PROVE  Chained(n, S, a, step)
<1> DEFINE
      Has(i, f) == f[0] = a /\ \A j \in 1 .. i : f[j] = step[<<f[j - 1], j>>]
      T == {i \in 0 .. n : \E f \in [0 .. i -> S] : Has(i, f)}
<1>1. 0 \in T
  <2> DEFINE f == [i \in 0 .. 0 |-> a]
  <2>1. f \in [0 .. 0 -> S] /\ f[0] = a
    OBVIOUS
  <2>2. \A j \in 1 .. 0 : FALSE
    OBVIOUS
  <2> HIDE DEF f
  <2> QED BY <2>1, <2>2
<1>2. ASSUME NEW i \in 1 .. n, i - 1 \in T PROVE i \in T
  <2>1. PICK f \in [0 .. i - 1 -> S] : Has(i - 1, f)
    BY <1>2
  <2> DEFINE last == step[<<f[i - 1], i>>]
             g == [j \in 0 .. i |-> IF j <= i - 1 THEN f[j] ELSE last]
  <2>2. f[i - 1] \in S
    OBVIOUS
  <2>3. last \in S
    BY <2>2
  <2> HIDE DEF last
  <2>4. g \in [0 .. i -> S]
    BY <2>3
  <2>5. g[0] = a
    BY <2>1
  <2>6. ASSUME NEW j \in 1 .. i PROVE g[j] = step[<<g[j - 1], j>>]
    <3>1. j - 1 \in 0 .. i /\ j - 1 <= i - 1 /\ j \in 0 .. i
      OBVIOUS
    <3>2. g[j - 1] = f[j - 1]
      BY <3>1
    <3>3. CASE j = i
      <4>1. g[j] = last
        BY <3>1, <3>3
      <4> HIDE DEF g
      <4> QED BY <3>2, <3>3, <4>1 DEF last
    <3>4. CASE j # i
      <4>1. j \in 1 .. i - 1 /\ j <= i - 1
        BY <3>4
      <4>2. g[j] = f[j]
        BY <3>1, <4>1
      <4> HIDE DEF g
      <4> QED BY <2>1, <3>2, <4>1, <4>2
    <3> QED BY <3>3, <3>4
  <2> HIDE DEF g
  <2>7. Has(i, g)
    BY <2>5, <2>6
  <2> QED BY <2>4, <2>7
<1> HIDE DEF T
<1>3. n \in T
  <2>1. \A i \in 0 .. n : i \in T
    BY <1>1, <1>2, Upward
  <2> QED BY <2>1
<1> QED BY <1>3 DEF T, Chained

\* An argument so far: reading out gives w, and the backslashes that are still to be
\* written complete it.
Good(ws, q, s, out, k) ==
  /\ out \in Words /\ k \in Nat
  /\ \E w \in Words, any \in BOOLEAN :
       /\ w \o Slashes(k) = s
       /\ w # <<>> \/ q => any
       /\ Reads(Reader(ws, <<>>, 0, q, q), out, Reader(ws, w, 0, q, any))

\* A character is a text.
LEMMA OneChar == ASSUME NEW c \in Chars PROVE <<c>> \in Words /\ Len(<<c>>) = 1
BY DEF Words

\* The three cases of QuoteChar. A backslash waits;
LEMMA GoodSlash ==
  ASSUME NEW ws, NEW q \in BOOLEAN, NEW s, NEW out, NEW k, Good(ws, q, s, out, k)
  PROVE  Good(ws, q, s \o <<Slash>>, out, k + 1)
<1>1. out \in Words /\ k \in Nat
  BY DEF Good
<1>2. PICK w \in Words, any \in BOOLEAN :
        /\ w \o Slashes(k) = s
        /\ w # <<>> \/ q => any
        /\ Reads(Reader(ws, <<>>, 0, q, q), out, Reader(ws, w, 0, q, any))
  BY DEF Good
<1>3. w \o Slashes(k + 1) = s \o <<Slash>>
  <2>1. Slashes(k) \in Words /\ <<Slash>> \in Words
        /\ Slashes(k + 1) = Slashes(k) \o <<Slash>>
    BY <1>1, SlashRun, OneChar, CharsAre
  <2>2. (w \o Slashes(k)) \o <<Slash>> = w \o (Slashes(k) \o <<Slash>>)
    BY <2>1, ConcatAssociative DEF Words
  <2> QED BY <1>2, <2>1, <2>2
<1>4. k + 1 \in Nat
  BY <1>1
<1> QED BY <1>1, <1>2, <1>3, <1>4, Zenon DEF Good

\* another character is written, with the backslashes that waited, and nothing waits:
LEMMA GoodWritten ==
  ASSUME NEW ws, NEW q \in BOOLEAN, NEW s \in Words, NEW out, NEW c \in Chars,
         out \in Words,
         Reads(Reader(ws, <<>>, 0, q, q), out, Reader(ws, s \o <<c>>, 0, q, TRUE))
  PROVE  Good(ws, q, s \o <<c>>, out, 0)
<1>1. s \o <<c>> \in Words /\ Slashes(0) = <<>>
  BY OneChar, SlashRun, ConcatProperties DEF Words
<1>2. (s \o <<c>>) \o Slashes(0) = s \o <<c>>
  BY <1>1, ConcatEmptySeq DEF Words
<1>3. 0 \in Nat /\ TRUE \in BOOLEAN
  OBVIOUS
<1> QED BY <1>1, <1>2, <1>3, Zenon DEF Good

\* a quote with twice the backslashes and one more, which are halved again;
LEMMA GoodQuote ==
  ASSUME NEW ws, NEW q \in BOOLEAN, NEW s \in Words, NEW out, NEW k, Good(ws, q, s, out, k)
  PROVE  Good(ws, q, s \o <<Quote>>, out \o Slashes(2 * k + 1) \o <<Quote>>, 0)
<1>1. out \in Words /\ k \in Nat
  BY DEF Good
<1>2. PICK w \in Words, any \in BOOLEAN :
        /\ w \o Slashes(k) = s
        /\ Reads(Reader(ws, <<>>, 0, q, q), out, Reader(ws, w, 0, q, any))
  BY DEF Good
<1> DEFINE n == 2 * k + 1
           t == Slashes(n)
<1>3. n \in Nat /\ 0 + n = n
  BY <1>1
<1>4. PICK some \in BOOLEAN : Reads(Reader(ws, w, 0, q, any), t, Reader(ws, w, 0 + n, q, some))
  BY <1>3, ReadsSlashes
<1>5. Reads(Reader(ws, w, n, q, some), <<Quote>>, Reader(ws, Append(s, Quote), 0, q, TRUE))
  <2>1. Reads(Reader(ws, w, n, q, some), <<Quote>>,
              Reader(ws, Append(w \o Slashes(k), Quote), 0, q, TRUE))
    BY <1>1, ReadsLiteralQuote, Zenon
  <2> QED BY <1>2, <2>1, Zenon
<1>6. Append(s, Quote) = s \o <<Quote>>
  BY CharsAre, AppendIsConcat DEF Words
<1>7. t \in Words /\ <<Quote>> \in Words
  BY <1>3, SlashRun, OneChar, CharsAre
<1>8. out \o t \in Words /\ (out \o t) \o <<Quote>> \in Words
  BY <1>1, <1>7, ConcatProperties DEF Words
<1> HIDE DEF n, t
<1>9. Reads(Reader(ws, w, n, q, some), <<Quote>>, Reader(ws, s \o <<Quote>>, 0, q, TRUE))
  BY <1>5, <1>6
<1>10. Reads(Reader(ws, <<>>, 0, q, q), out \o t, Reader(ws, w, n, q, some))
  BY <1>1, <1>2, <1>3, <1>4, <1>7, ReadsOn
<1>11. Reads(Reader(ws, <<>>, 0, q, q), (out \o t) \o <<Quote>>, Reader(ws, s \o <<Quote>>, 0, q, TRUE))
  BY <1>7, <1>8, <1>9, <1>10, ReadsOn
<1>12. Good(ws, q, s \o <<Quote>>, (out \o t) \o <<Quote>>, 0)
  BY <1>8, <1>11, CharsAre, GoodWritten
<1> QED BY <1>12 DEF n, t

\* any other with the backslashes as they are.
LEMMA GoodOther ==
  ASSUME NEW ws, NEW q \in BOOLEAN, NEW s \in Words, NEW out, NEW k, Good(ws, q, s, out, k),
         NEW c \in Chars, c \notin {Slash, Quote}, c = Space => q
  PROVE  Good(ws, q, s \o <<c>>, out \o Slashes(k) \o <<c>>, 0)
<1>1. out \in Words /\ k \in Nat
  BY DEF Good
<1>2. PICK w \in Words, any \in BOOLEAN :
        /\ w \o Slashes(k) = s
        /\ Reads(Reader(ws, <<>>, 0, q, q), out, Reader(ws, w, 0, q, any))
  BY DEF Good
<1> DEFINE t == Slashes(k)
<1>3. 0 + k = k
  BY <1>1
<1>4. PICK some \in BOOLEAN : Reads(Reader(ws, w, 0, q, any), t, Reader(ws, w, 0 + k, q, some))
  BY <1>1, ReadsSlashes
<1>5. Reads(Reader(ws, w, k, q, some), <<c>>, Reader(ws, Append(s, c), 0, q, TRUE))
  <2>1. Reads(Reader(ws, w, k, q, some), <<c>>,
              Reader(ws, Append(w \o Slashes(k), c), 0, q, TRUE))
    BY <1>1, ReadsOther, Zenon
  <2> QED BY <1>2, <2>1, Zenon
<1>6. Append(s, c) = s \o <<c>>
  BY AppendIsConcat DEF Words
<1>7. t \in Words /\ <<c>> \in Words
  BY <1>1, SlashRun, OneChar
<1>8. out \o t \in Words /\ (out \o t) \o <<c>> \in Words
  BY <1>1, <1>7, ConcatProperties DEF Words
<1> HIDE DEF t
<1>9. Reads(Reader(ws, w, k, q, some), <<c>>, Reader(ws, s \o <<c>>, 0, q, TRUE))
  BY <1>5, <1>6
<1>10. Reads(Reader(ws, <<>>, 0, q, q), out \o t, Reader(ws, w, k, q, some))
  BY <1>1, <1>2, <1>3, <1>4, <1>7, ReadsOn
<1>11. Reads(Reader(ws, <<>>, 0, q, q), (out \o t) \o <<c>>, Reader(ws, s \o <<c>>, 0, q, TRUE))
  BY <1>7, <1>8, <1>9, <1>10, ReadsOn
<1>12. Good(ws, q, s \o <<c>>, (out \o t) \o <<c>>, 0)
  BY <1>8, <1>11, GoodWritten
<1> QED BY <1>12 DEF t

\* The state of QuoteChar, and its cases.
Writing == [out : Words, slashes : Nat]

LEMMA QuoteCharIs ==
  ASSUME NEW st \in Writing, NEW c \in Chars
  PROVE  /\ QuoteChar(st, c) \in Writing
         /\ c = Slash => QuoteChar(st, c) = [out |-> st.out, slashes |-> st.slashes + 1]
         /\ c = Quote => QuoteChar(st, c) =
              [out |-> st.out \o Slashes(2 * st.slashes + 1) \o <<Quote>>, slashes |-> 0]
         /\ c \notin {Slash, Quote} => QuoteChar(st, c) =
              [out |-> st.out \o Slashes(st.slashes) \o <<c>>, slashes |-> 0]
<1>1. st.out \in Words /\ st.slashes \in Nat
  BY DEF Writing
<1>2. c = Slash => QuoteChar(st, c) = [out |-> st.out, slashes |-> st.slashes + 1]
  BY CharsDiffer DEF QuoteChar, Writing
<1>3. c = Quote => QuoteChar(st, c) =
              [out |-> st.out \o Slashes(2 * st.slashes + 1) \o <<Quote>>, slashes |-> 0]
  BY CharsDiffer DEF QuoteChar
<1>4. c \notin {Slash, Quote} => QuoteChar(st, c) =
              [out |-> st.out \o Slashes(st.slashes) \o <<c>>, slashes |-> 0]
  BY DEF QuoteChar
<1>5. ASSUME NEW n \in Nat PROVE st.out \o Slashes(n) \o <<c>> \in Words
  <2>1. Slashes(n) \in Words /\ <<c>> \in Words
    BY SlashRun, OneChar
  <2>2. st.out \o Slashes(n) \in Words
    BY <1>1, <2>1, ConcatProperties DEF Words
  <2> QED BY <2>1, <2>2, ConcatProperties DEF Words
<1>6. 2 * st.slashes + 1 \in Nat /\ st.slashes + 1 \in Nat
  BY <1>1
<1>8. \A text \in Words : [out |-> text, slashes |-> 0] \in Writing
  BY DEF Writing
<1>7. QuoteChar(st, c) \in Writing
  <2>1. CASE c = Slash
    BY <1>1, <1>2, <1>6, <2>1 DEF Writing
  <2>2. CASE c = Quote
    <3>1. st.out \o Slashes(2 * st.slashes + 1) \o <<Quote>> \in Words
      BY <1>5, <1>6, <2>2
    <3> QED BY <1>3, <1>8, <2>2, <3>1
  <2>3. CASE c \notin {Slash, Quote}
    <3>1. st.out \o Slashes(st.slashes) \o <<c>> \in Words
      BY <1>1, <1>5
    <3> QED BY <1>4, <1>8, <2>3, <3>1
  <2> QED BY <2>1, <2>2, <2>3
<1> QED BY <1>2, <1>3, <1>4, <1>7

\* The loop over the characters of an argument.
LEMMA QuoteLoop ==
  ASSUME NEW ws, NEW arg \in Words, NEW q \in BOOLEAN,
         \A i \in DOMAIN arg : arg[i] = Space => q
  PROVE  \E st \in Writing :
           /\ Good(ws, q, arg, st.out, st.slashes)
           /\ Quoted(arg) = IF NeedsQuotes(arg)
                THEN <<Quote>> \o st.out \o Slashes(2 * st.slashes) \o <<Quote>>
                ELSE st.out \o Slashes(st.slashes)
<1> DEFINE
      n == Len(arg)
      start == [out |-> <<>>, slashes |-> 0]
      Loop(f) == [i \in 0 .. n |-> IF i = 0 THEN start ELSE QuoteChar(f[i - 1], arg[i])]
      after == CHOOSE f : f = Loop(f)
      step == [p \in Writing \X (1 .. n) |-> QuoteChar(p[1], arg[p[2]])]
<1>1. n \in Nat /\ \A i \in 1 .. n : arg[i] \in Chars /\ i \in DOMAIN arg
  BY DEF Words
<1>2. start \in Writing
  BY DEF Writing, Words
<1>3. Quoted(arg) = IF NeedsQuotes(arg)
          THEN <<Quote>> \o after[n].out \o Slashes(2 * after[n].slashes) \o <<Quote>>
          ELSE after[n].out \o Slashes(after[n].slashes)
  BY DEF Quoted
<1> HIDE DEF n, start
<1>4. \A i \in 1 .. n : \A x \in Writing : step[<<x, i>>] = QuoteChar(x, arg[i])
  OBVIOUS
<1>5. \A i \in 1 .. n : \A x \in Writing : QuoteChar(x, arg[i]) \in Writing
  BY <1>1, QuoteCharIs
<1> HIDE DEF step
<1>6. PICK f \in [0 .. n -> Writing] :
        f[0] = start /\ \A i \in 1 .. n : f[i] = step[<<f[i - 1], i>>]
  <2>1. \A i \in 1 .. n : \A x \in Writing : step[<<x, i>>] \in Writing
    BY <1>4, <1>5
  <2>2. Chained(n, Writing, start, step)
    BY <1>1, <1>2, <2>1, Chain
  <2> QED BY <2>2 DEF Chained
<1>7. f = Loop(f)
  <2>1. ASSUME NEW i \in 0 .. n
        PROVE  f[i] = IF i = 0 THEN start ELSE QuoteChar(f[i - 1], arg[i])
    <3>1. CASE i # 0
      <4>1. i \in 1 .. n /\ i - 1 \in 0 .. n
        BY <1>1, <3>1
      <4>2. f[i - 1] \in Writing
        BY <1>6, <4>1
      <4> QED BY <1>4, <1>6, <3>1, <4>1, <4>2
    <3> QED BY <1>6, <3>1
  <2> QED BY <2>1
<1>8. after = Loop(after)
  BY <1>7
<1> HIDE DEF after
<1>9. after[0] = start /\ \A i \in 1 .. n : after[i] = QuoteChar(after[i - 1], arg[i])
  <2>1. \A i \in 0 .. n : after[i] = IF i = 0 THEN start ELSE QuoteChar(after[i - 1], arg[i])
    BY <1>8
  <2> QED BY <1>1, <2>1
<1> DEFINE
      part(i) == SubSeq(arg, 1, i)
      T == {i \in 0 .. n : /\ after[i] \in Writing
                           /\ Good(ws, q, part(i), after[i].out, after[i].slashes)}
<1>10. \A i \in 0 .. n : part(i) \in Words
  BY <1>1 DEF Words, n
<1>11. 0 \in T
  <2>1. part(0) = <<>> /\ start.out = <<>> /\ start.slashes = 0
    BY SubSeqEmpty DEF start
  <2>2. <<>> \in Words /\ Slashes(0) = <<>> /\ <<>> \o <<>> = <<>>
    BY SlashRun, ConcatEmptySeq DEF Words
  <2>3. Reads(Reader(ws, <<>>, 0, q, q), <<>>, Reader(ws, <<>>, 0, q, q))
    BY ReadsNothing
  <2>4. 0 \in Nat
    OBVIOUS
  <2>5. Good(ws, q, <<>>, <<>>, 0)
    BY <2>2, <2>3, <2>4, Zenon DEF Good
  <2>6. 0 \in 0 .. n
    BY <1>1
  <2> HIDE DEF part
  <2> QED BY <1>2, <1>9, <2>1, <2>5, <2>6
<1>12. ASSUME NEW i \in 1 .. n, i - 1 \in T PROVE i \in T
  <2> DEFINE st == after[i - 1]
             c == arg[i]
             s == part(i - 1)
  <2>1. st \in Writing /\ Good(ws, q, s, st.out, st.slashes)
    BY <1>12
  <2>2. c \in Chars /\ (c = Space => q)
    BY <1>1
  <2>3. after[i] = QuoteChar(st, c)
    BY <1>9
  <2>4. s \in Words /\ part(i) = s \o <<c>>
    <3>1. i - 1 \in 0 .. n /\ 1 \in 1 .. n /\ i \in 1 .. n
      BY <1>1
    <3> QED BY <1>10, <3>1, SubSeqRecursiveSecond DEF Words, n
  <2> HIDE DEF st, c, s, part
  <2>5. after[i] \in Writing
    BY <2>1, <2>2, <2>3, QuoteCharIs
  <2>6. Good(ws, q, s \o <<c>>, after[i].out, after[i].slashes)
    <3>1. CASE c = Slash
      <4>1. after[i].out = st.out /\ after[i].slashes = st.slashes + 1
        <5>1. QuoteChar(st, c) = [out |-> st.out, slashes |-> st.slashes + 1]
          BY <2>1, <2>2, <3>1, QuoteCharIs
        <5> QED BY <2>3, <5>1
      <4> QED BY <2>1, <3>1, <4>1, GoodSlash
    <3>2. CASE c = Quote
      <4>1. /\ after[i].out = st.out \o Slashes(2 * st.slashes + 1) \o <<Quote>>
            /\ after[i].slashes = 0
        <5> DEFINE text == st.out \o Slashes(2 * st.slashes + 1) \o <<Quote>>
        <5>1. QuoteChar(st, c) = [out |-> text, slashes |-> 0]
          BY <2>1, <2>2, <3>2, QuoteCharIs
        <5>2. after[i] = QuoteChar(st, c)
          BY <2>3
        <5> HIDE DEF text
        <5>3. after[i].out = text /\ after[i].slashes = 0
          BY <5>1, <5>2
        <5> QED BY <5>3 DEF text
      <4> QED BY <2>1, <2>4, <3>2, <4>1, GoodQuote
    <3>3. CASE c \notin {Slash, Quote}
      <4>1. /\ after[i].out = st.out \o Slashes(st.slashes) \o <<c>>
            /\ after[i].slashes = 0
        <5> DEFINE text == st.out \o Slashes(st.slashes) \o <<c>>
        <5>1. QuoteChar(st, c) = [out |-> text, slashes |-> 0]
          BY <2>1, <2>2, <3>3, QuoteCharIs
        <5>2. after[i] = QuoteChar(st, c)
          BY <2>3
        <5> HIDE DEF text
        <5>3. after[i].out = text /\ after[i].slashes = 0
          BY <5>1, <5>2
        <5> QED BY <5>3 DEF text
      <4> QED BY <2>1, <2>2, <2>4, <3>3, <4>1, GoodOther
    <3> QED BY <3>1, <3>2, <3>3
  <2>7. i \in 0 .. n
    BY <1>1
  <2> QED BY <2>4, <2>5, <2>6, <2>7
<1> HIDE DEF T
<1>13. n \in T
  <2>1. \A i \in 0 .. n : i \in T
    BY <1>1, <1>11, <1>12, Upward
  <2> QED BY <1>1, <2>1
<1>14. after[n] \in Writing /\ Good(ws, q, arg, after[n].out, after[n].slashes)
  <2>1. part(n) = arg
    BY SubSeqFull DEF Words, n
  <2> HIDE DEF part
  <2> QED BY <1>13, <2>1 DEF T
<1> QED BY <1>3, <1>14

\* The reader between two arguments.
Between(ws) == Reader(ws, <<>>, 0, FALSE, FALSE)

\* Texts joined are a text.
LEMMA Joined ==
  ASSUME NEW s \in Words, NEW t \in Words PROVE s \o t \in Words
BY ConcatProperties DEF Words

\* An argument is read as it was.
LEMMA QuotedIsRead ==
  ASSUME NEW ws, NEW arg \in Words
  PROVE  /\ Quoted(arg) \in Words
         /\ Reads(Between(ws), Quoted(arg) \o <<Space>>, Between(Append(ws, arg)))
<1>1. <<Quote>> \in Words /\ <<Space>> \in Words /\ Quote \in Chars /\ Space \in Chars
  BY OneChar, CharsAre
<1>2. \A n \in Nat : Slashes(n) \in Words
  BY SlashRun
<1>3. ASSUME NEW text \in Words, NEW w, NEW k \in Nat, w \o Slashes(k) = arg,
             Reads(Between(ws), text, Reader(ws, w, k, FALSE, TRUE))
      PROVE  Reads(Between(ws), text \o <<Space>>, Between(Append(ws, arg)))
  <2>1. ReadChar(Reader(ws, w, k, FALSE, TRUE), Space) = Between(Append(ws, w \o Slashes(k)))
    BY ReadSpace DEF Between
  <2>2. Reads(Reader(ws, w, k, FALSE, TRUE), <<Space>>, Between(Append(ws, arg)))
    BY <1>1, <1>3, <2>1, ReadsOne
  <2> QED BY <1>1, <1>3, <2>2, ReadsOn
<1>4. CASE NeedsQuotes(arg)
  <2>1. TRUE \in BOOLEAN /\ FALSE \in BOOLEAN /\ (~ FALSE) = TRUE /\ (~ TRUE) = FALSE
    OBVIOUS
  <2>2. PICK st \in Writing :
          /\ Good(ws, TRUE, arg, st.out, st.slashes)
          /\ Quoted(arg) = IF NeedsQuotes(arg)
               THEN <<Quote>> \o st.out \o Slashes(2 * st.slashes) \o <<Quote>>
               ELSE st.out \o Slashes(st.slashes)
    BY <2>1, QuoteLoop, Zenon
  <2> DEFINE k == st.slashes
             out == st.out
             t == Slashes(2 * k)
             open == <<Quote>>
             most == (open \o out) \o t
  <2>3. /\ out \in Words /\ k \in Nat
        /\ \E w \in Words, any \in BOOLEAN :
             /\ w \o Slashes(k) = arg
             /\ Reads(Reader(ws, <<>>, 0, TRUE, TRUE), out, Reader(ws, w, 0, TRUE, any))
    BY <2>2 DEF Good
  <2>4. Quoted(arg) = most \o <<Quote>>
    BY <1>4, <2>2
  <2> HIDE DEF k, out
  <2>5. PICK w \in Words, any \in BOOLEAN :
          /\ w \o Slashes(k) = arg
          /\ Reads(Reader(ws, <<>>, 0, TRUE, TRUE), out, Reader(ws, w, 0, TRUE, any))
    BY <2>3
  <2>6. 2 * k \in Nat /\ 0 + 2 * k = 2 * k
    BY <2>3
  <2>7. PICK some \in BOOLEAN :
          Reads(Reader(ws, w, 0, TRUE, any), t, Reader(ws, w, 0 + 2 * k, TRUE, some))
    BY <2>1, <2>6, ReadsSlashes, Zenon
  <2>8. /\ open \in Words /\ t \in Words /\ open \o out \in Words /\ most \in Words
        /\ most \o <<Quote>> \in Words
    BY <1>1, <1>2, <2>3, <2>6, Joined
  <2> HIDE DEF t, open, most
  <2>9. Reads(Between(ws), open, Reader(ws, <<>>, 0, TRUE, TRUE))
    <3>1. ReadChar(Reader(ws, <<>>, 2 * 0, FALSE, FALSE), Quote)
            = Reader(ws, <<>> \o Slashes(0), 0, ~ FALSE, TRUE)
      <4>1. 0 \in Nat
        OBVIOUS
      <4> QED BY <2>1, <4>1, ReadQuote, Zenon
    <3>2. 2 * 0 = 0 /\ <<>> \o Slashes(0) = <<>>
      BY SlashRun
    <3>3. ReadChar(Reader(ws, <<>>, 0, FALSE, FALSE), Quote) = Reader(ws, <<>>, 0, TRUE, TRUE)
      BY <2>1, <3>1, <3>2
    <3> QED BY <1>1, <3>3, ReadsOne DEF Between, open
  <2>10. Reads(Between(ws), open \o out, Reader(ws, w, 0, TRUE, any))
    BY <2>3, <2>5, <2>8, <2>9, ReadsOn
  <2>11. Reads(Between(ws), most, Reader(ws, w, 2 * k, TRUE, some))
    BY <2>6, <2>7, <2>8, <2>10, ReadsOn DEF most
  <2>12. Reads(Reader(ws, w, 2 * k, TRUE, some), <<Quote>>, Reader(ws, arg, 0, FALSE, TRUE))
    <3>1. Reads(Reader(ws, w, 2 * k, TRUE, some), <<Quote>>,
                Reader(ws, w \o Slashes(k), 0, ~ TRUE, TRUE))
      BY <2>1, <2>3, ReadsQuote, Zenon
    <3> QED BY <2>1, <2>5, <3>1
  <2>13. Reads(Between(ws), Quoted(arg), Reader(ws, arg, 0, FALSE, TRUE))
    BY <1>1, <2>4, <2>8, <2>11, <2>12, ReadsOn
  <2>14. arg \o Slashes(0) = arg /\ 0 \in Nat
    BY SlashRun, ConcatEmptySeq DEF Words
  <2> QED BY <1>3, <2>4, <2>8, <2>13, <2>14
<1>5. CASE ~ NeedsQuotes(arg)
  <2>1. FALSE \in BOOLEAN
    OBVIOUS
  <2>2. arg # <<>> /\ \A i \in DOMAIN arg : arg[i] = Space => FALSE
    BY <1>5 DEF NeedsQuotes
  <2>3. PICK st \in Writing :
          /\ Good(ws, FALSE, arg, st.out, st.slashes)
          /\ Quoted(arg) = IF NeedsQuotes(arg)
               THEN <<Quote>> \o st.out \o Slashes(2 * st.slashes) \o <<Quote>>
               ELSE st.out \o Slashes(st.slashes)
    BY <2>1, <2>2, QuoteLoop, Zenon
  <2> DEFINE k == st.slashes
             out == st.out
             t == Slashes(k)
  <2>4. /\ out \in Words /\ k \in Nat
        /\ \E w \in Words, any \in BOOLEAN :
             /\ w \o Slashes(k) = arg
             /\ w # <<>> => any
             /\ Reads(Between(ws), out, Reader(ws, w, 0, FALSE, any))
    BY <2>3 DEF Good, Between
  <2>5. Quoted(arg) = out \o t
    BY <1>5, <2>3
  <2> HIDE DEF k, out
  <2>6. PICK w \in Words, any \in BOOLEAN :
          /\ w \o Slashes(k) = arg
          /\ w # <<>> => any
          /\ Reads(Between(ws), out, Reader(ws, w, 0, FALSE, any))
    BY <2>4
  <2>7. 0 + k = k
    BY <2>4
  <2>8. PICK some \in BOOLEAN :
          /\ k # 0 \/ any => some
          /\ Reads(Reader(ws, w, 0, FALSE, any), t, Reader(ws, w, 0 + k, FALSE, some))
    BY <2>1, <2>4, ReadsSlashes, Zenon
  <2>9. some = TRUE
    <3>1. w = <<>> /\ k = 0 => arg = <<>>
      BY <2>6, SlashRun
    <3> QED BY <2>2, <2>6, <2>8, <3>1
  <2>10. t \in Words /\ out \o t \in Words
    BY <1>2, <2>4, Joined
  <2> HIDE DEF t
  <2>11. Reads(Between(ws), Quoted(arg), Reader(ws, w, k, FALSE, TRUE))
    BY <2>4, <2>5, <2>6, <2>7, <2>8, <2>9, <2>10, ReadsOn
  <2> QED BY <1>3, <2>4, <2>5, <2>6, <2>10, <2>11
<1> QED BY <1>4, <1>5

\* The line, argument by argument.
LEMMA LineIsRead ==
  ASSUME argv \in Seq(Words)
  PROVE  /\ dd_windows_command_line \in Words
         /\ Reads(Between(<<>>), dd_windows_command_line \o <<Space>>,
                  Between(<<<<Letter>>>> \o argv))
<1> DEFINE
      n == Len(argv)
      start == <<Letter>>
      first == <<start>>
      More(t, i) == t \o <<Space>> \o Quoted(argv[i])
      Loop(f) == [i \in 0 .. n |-> IF i = 0 THEN start ELSE More(f[i - 1], i)]
      line == CHOOSE f : f = Loop(f)
      step == [p \in Words \X (1 .. n) |-> More(p[1], p[2])]
<1>1. n \in Nat /\ \A i \in 1 .. n : argv[i] \in Words
  OBVIOUS
<1>2. start \in Words /\ <<Space>> \in Words
  BY OneChar, CharsAre
<1>3. dd_windows_command_line = line[n]
  BY DEF dd_windows_command_line
<1>4. \A i \in 1 .. n : Quoted(argv[i]) \in Words
  BY <1>1, QuotedIsRead
<1>5. \A i \in 1 .. n : \A t \in Words : More(t, i) \in Words
  BY <1>2, <1>4, Joined
<1> HIDE DEF n, start, More
<1>6. \A i \in 1 .. n : \A t \in Words : step[<<t, i>>] = More(t, i)
  OBVIOUS
<1> HIDE DEF step
<1>7. PICK f \in [0 .. n -> Words] :
        f[0] = start /\ \A i \in 1 .. n : f[i] = step[<<f[i - 1], i>>]
  <2>1. \A i \in 1 .. n : \A t \in Words : step[<<t, i>>] \in Words
    BY <1>5, <1>6
  <2>2. Chained(n, Words, start, step)
    BY <1>1, <1>2, <2>1, Chain
  <2> QED BY <2>2 DEF Chained
<1>8. f = Loop(f)
  <2>1. ASSUME NEW i \in 0 .. n
        PROVE  f[i] = IF i = 0 THEN start ELSE More(f[i - 1], i)
    <3>1. CASE i # 0
      <4>1. i \in 1 .. n /\ i - 1 \in 0 .. n
        BY <1>1, <3>1
      <4>2. f[i - 1] \in Words
        BY <1>7, <4>1
      <4> QED BY <1>6, <1>7, <3>1, <4>1, <4>2
    <3> QED BY <1>7, <3>1
  <2> QED BY <2>1
<1>9. line = Loop(line)
  BY <1>8
<1> HIDE DEF line
<1>10. line[0] = start /\ \A i \in 1 .. n : line[i] = More(line[i - 1], i)
  <2>1. \A i \in 0 .. n : line[i] = IF i = 0 THEN start ELSE More(line[i - 1], i)
    BY <1>9
  <2> QED BY <1>1, <2>1
<1> DEFINE
      words(i) == first \o SubSeq(argv, 1, i)
      T == {i \in 0 .. n : /\ line[i] \in Words
                           /\ Reads(Between(<<>>), line[i] \o <<Space>>, Between(words(i)))}
<1>11. first \in Seq(Words) /\ \A i \in 0 .. n : SubSeq(argv, 1, i) \in Seq(Words)
  <2>1. first \in Seq(Words)
    BY <1>2
  <2> QED BY <1>1, <2>1 DEF n
<1>12. 0 \in T
  <2>1. words(0) = first
    <3>1. SubSeq(argv, 1, 0) = <<>>
      BY SubSeqEmpty
    <3> QED BY <1>11, <3>1, ConcatEmptySeq
  <2>2. Reads(Between(<<>>), start, Reader(<<>>, start, 0, FALSE, TRUE))
    <3>1. <<>> \o Slashes(0) = <<>> /\ Append(<<>>, Letter) = start
      BY SlashRun DEF start
    <3>2. FALSE \in BOOLEAN /\ 0 \in Nat /\ Letter \in Chars
          /\ Letter \notin {Slash, Quote} /\ (Letter = Space => FALSE)
      BY CharsDiffer, CharsAre
    <3>3. Reads(Reader(<<>>, <<>>, 0, FALSE, FALSE), <<Letter>>,
                Reader(<<>>, Append(<<>> \o Slashes(0), Letter), 0, FALSE, TRUE))
      BY <3>2, ReadsOther, Zenon
    <3> QED BY <3>1, <3>3 DEF Between, start
  <2>3. Reads(Reader(<<>>, start, 0, FALSE, TRUE), <<Space>>, Between(first))
    <3>1. start \o Slashes(0) = start /\ Append(<<>>, start) = first /\ 0 \in Nat
      <4>1. start \o <<>> = start
        BY <1>2, ConcatEmptySeq DEF Words
      <4>2. Append(<<>>, start) = first
        OBVIOUS
      <4> QED BY <4>1, <4>2, SlashRun
    <3>2. ReadChar(Reader(<<>>, start, 0, FALSE, TRUE), Space)
            = Between(Append(<<>>, start \o Slashes(0)))
      BY <3>1, ReadSpace DEF Between
    <3>3. ReadChar(Reader(<<>>, start, 0, FALSE, TRUE), Space) = Between(first)
      BY <3>1, <3>2
    <3> QED BY <3>3, CharsAre, ReadsOne
  <2>4. Reads(Between(<<>>), start \o <<Space>>, Between(first))
    BY <1>2, <2>2, <2>3, ReadsOn
  <2>5. 0 \in 0 .. n
    BY <1>1
  <2> HIDE DEF words, first
  <2> QED BY <1>2, <1>10, <2>1, <2>4, <2>5
<1>13. ASSUME NEW i \in 1 .. n, i - 1 \in T PROVE i \in T
  <2> DEFINE before == line[i - 1]
             x == Quoted(argv[i])
             space == <<Space>>
             known == words(i - 1)
  <2>1. before \in Words /\ Reads(Between(<<>>), before \o space, Between(known))
    BY <1>13
  <2>2. x \in Words /\ Reads(Between(known), x \o space, Between(Append(known, argv[i])))
    BY <1>1, QuotedIsRead
  <2>3. line[i] = (before \o space) \o x
    BY <1>10 DEF More
  <2>4. Append(known, argv[i]) = words(i)
    <3> DEFINE s == SubSeq(argv, 1, i - 1)
               last == <<argv[i]>>
    <3>1. i - 1 \in 0 .. n /\ 1 \in 1 .. n
      BY <1>1
    <3>2. SubSeq(argv, 1, i) = s \o last
      BY <3>1, SubSeqRecursiveSecond DEF n
    <3>3. s \in Seq(Words) /\ argv[i] \in Words /\ last \in Seq(Words)
      BY <1>1, <1>11, <3>1
    <3> HIDE DEF s, first
    <3>4. first \o s \in Seq(Words)
      BY <1>11, <3>3, ConcatProperties
    <3>5. Append(first \o s, argv[i]) = (first \o s) \o last
      BY <3>3, <3>4, AppendIsConcat
    <3>6. (first \o s) \o last = first \o (s \o last)
      BY <1>11, <3>3, ConcatAssociative
    <3> QED BY <3>2, <3>5, <3>6 DEF s
  <2> HIDE DEF before, x, known, words
  <2>5. space \in Words
    BY <1>2
  <2> HIDE DEF space
  <2>6. before \o space \in Words /\ line[i] \in Words /\ x \o space \in Words
    BY <2>1, <2>2, <2>3, <2>5, Joined
  <2>7. line[i] \o space = (before \o space) \o (x \o space)
    <3> DEFINE t == before \o space
    <3>1. t \in Words /\ x \in Words
      BY <2>2, <2>6
    <3> HIDE DEF t
    <3>2. (t \o x) \o space = t \o (x \o space)
      BY <2>5, <3>1, ConcatAssociative DEF Words
    <3> QED BY <2>3, <3>2 DEF t
  <2>8. Reads(Between(<<>>), line[i] \o space, Between(words(i)))
    BY <2>1, <2>2, <2>4, <2>6, <2>7, ReadsOn
  <2>9. i \in 0 .. n
    BY <1>1
  <2> QED BY <2>6, <2>8, <2>9 DEF space
<1> HIDE DEF T
<1>14. n \in T
  <2>1. \A i \in 0 .. n : i \in T
    BY <1>1, <1>12, <1>13, Upward
  <2> QED BY <1>1, <2>1
<1>15. words(n) = first \o argv
  BY SubSeqFull DEF n
<1> HIDE DEF words
<1> QED BY <1>3, <1>14, <1>15 DEF T, start

\* Two readers of the same text agree.
LEMMA ReadsExact ==
  ASSUME NEW line \in Words, NEW b, Reads(Between(<<>>), line \o <<Space>>, b)
  PROVE  CommandLineToArgv(line) = b.words
<1> DEFINE
      text == Append(line, Space)
      n == Len(text)
      start == [words |-> <<>>, word |-> <<>>, slashes |-> 0, inside |-> FALSE, any |-> FALSE]
      Loop(f) == [i \in 0 .. n |-> IF i = 0 THEN start ELSE ReadChar(f[i - 1], text[i])]
      after == CHOOSE f : f = Loop(f)
<1>1. text = line \o <<Space>> /\ n \in Nat
  <2>1. text = line \o <<Space>>
    BY CharsAre, AppendIsConcat DEF Words
  <2>2. text \in Seq(Chars)
    BY CharsAre DEF Words
  <2> HIDE DEF text
  <2> QED BY <2>1, <2>2
<1>2. CommandLineToArgv(line) = after[n].words
  BY DEF CommandLineToArgv
<1>3. start = Between(<<>>)
  BY DEF Between, Reader
<1> HIDE DEF text, start
<1>4. PICK f : /\ f[0] = start /\ f[n] = b
               /\ \A i \in 1 .. n : f[i] = ReadChar(f[i - 1], text[i])
  BY <1>1, <1>3 DEF Reads
<1> DEFINE g == [i \in 0 .. n |-> f[i]]
<1> HIDE DEF n
<1>5. g = Loop(g)
  <2>1. ASSUME NEW i \in 0 .. n
        PROVE  g[i] = IF i = 0 THEN start ELSE ReadChar(g[i - 1], text[i])
    <3>1. CASE i # 0
      <4>1. i \in 1 .. n /\ i - 1 \in 0 .. n
        BY <1>1, <3>1
      <4>2. g[i] = f[i] /\ g[i - 1] = f[i - 1]
        BY <4>1
      <4> QED BY <1>4, <3>1, <4>1, <4>2
    <3> QED BY <1>4, <3>1
  <2> QED BY <2>1
<1>6. after = Loop(after)
  BY <1>5
<1> HIDE DEF after, g
<1>7. \A i \in 0 .. n : after[i] = IF i = 0 THEN start ELSE ReadChar(after[i - 1], text[i])
  BY <1>6
<1> DEFINE T == {i \in 0 .. n : after[i] = f[i]}
<1>8. 0 \in T
  BY <1>1, <1>4, <1>7
<1>9. ASSUME NEW i \in 1 .. n, i - 1 \in T PROVE i \in T
  <2>1. i \in 0 .. n /\ i # 0
    BY <1>1
  <2> QED BY <1>4, <1>7, <1>9, <2>1
<1> HIDE DEF T
<1>10. \A i \in 0 .. n : i \in T
  BY <1>1, <1>8, <1>9, Upward
<1>11. after[n] = f[n]
  <2>1. n \in 0 .. n
    BY <1>1
  <2> QED BY <1>10, <2>1 DEF T
<1> QED BY <1>2, <1>4, <1>11

\* An argv is one whatever is added to it.
ArgvTypes == argv \in Seq(Words)

LEMMA ArgvGoes == ArgvTypes /\ [SpawnNext]_spawnVars => ArgvTypes'
<1> SUFFICES ASSUME ArgvTypes, [SpawnNext]_spawnVars PROVE ArgvTypes'
  OBVIOUS
<1> USE DEF ArgvTypes
<1>1. CASE UNCHANGED argv
  BY <1>1
<1>2. CASE NewArg
  <2>1. <<>> \in Words
    BY DEF Words
  <2> QED BY <1>2, <2>1 DEF NewArg
<1>3. ASSUME NEW c \in Chars, NewChar(c) PROVE ArgvTypes'
  <2>1. Len(argv) \in DOMAIN argv /\ argv[Len(argv)] \in Words
    BY <1>3 DEF NewChar
  <2>2. Append(argv[Len(argv)], c) \in Words
    BY <2>1 DEF Words
  <2>3. argv' = [argv EXCEPT ![Len(argv)] = Append(argv[Len(argv)], c)]
    BY <1>3 DEF NewChar
  <2> QED BY <2>1, <2>2, <2>3
<1>4. CASE \E key \in DOMAIN overrides : Override(key)
  BY <1>1, <1>4 DEF Override
<1>5. CASE UNCHANGED spawnVars
  BY <1>1, <1>5 DEF spawnVars
<1> QED BY <1>2, <1>3, <1>4, <1>5 DEF SpawnNext

\* Every argv reaches the program as it was given: see ArgvSurvives. What is written for
\* an argument is read as that argument, wherever it stands in the line.
THEOREM ArgvSurvivesAlways == SpawnSpec => []ArgvSurvives
<1>1. SpawnInit => ArgvTypes
  BY DEF SpawnInit, ArgvTypes, Words
<1>2. ArgvTypes => ArgvSurvives
  <2> SUFFICES ASSUME ArgvTypes PROVE ArgvSurvives
    OBVIOUS
  <2> DEFINE line == dd_windows_command_line
             ws == <<<<Letter>>>> \o argv
  <2>1. line \in Words /\ Reads(Between(<<>>), line \o <<Space>>, Between(ws))
    BY LineIsRead DEF ArgvTypes
  <2> HIDE DEF line
  <2>2. CommandLineToArgv(line) = Between(ws).words
    BY <2>1, ReadsExact
  <2>3. Between(ws).words = ws
    BY DEF Between, Reader
  <2> QED BY <2>2, <2>3 DEF ArgvSurvives, line
<1> QED BY <1>1, <1>2, ArgvGoes, PTL DEF SpawnSpec

\* What a process receives is what it was to be given: see ChildReceives.
THEOREM ChildReceivesAlways == SpawnSpec => []ChildReceives
BY ArgvSurvivesAlways, EnvironmentExactAlways, PTL DEF ChildReceives
===============================================================================
