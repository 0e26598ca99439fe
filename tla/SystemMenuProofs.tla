-------------------------- MODULE SystemMenuProofs --------------------------
(* The menu's session: a helper has one party that reaps it (OneReaper), and a *)
(* stop that has returned leaves nothing behind (NothingLeft).  The helpers:   *)
(* each keeps what it points to and what it publishes as long as it is used    *)
(* (LinuxHandlesValid, WindowsHandlesValid), and keeps MenuContract.  For      *)
(* menus of any size and shape, and any number of commands, clicks and icons.  *)
(* And their JSON is read as it is meant (JsonExact), whatever its length.     *)
EXTENDS MenuSession, LinuxMenu, WindowsMenu, MenuJson,
        SequenceTheorems, FiniteSetTheorems, WellFoundedInduction, TLAPS

(***************************************************************************)
(* The session                                                             *)
(***************************************************************************)

Parties == {"runner", "routine"}

StopPlaces == {"stopLook", "stopCall", "stopWrite", "stopWait"}
RunnerPlaces == StopPlaces \cup {"serving", "join", "returned", "raised"}
RoutinePlaces ==
  StopPlaces \cup {"created", "start", "sendRun", "writeRun", "loop", "read",
                   "dispatch", "sendIcon", "writeIcon", "ended"}
Writes == {"writeRun", "writeIcon", "stopWrite"}

TypeOK ==
  /\ lock \in Parties \cup {"free"}
  /\ pid \in BOOLEAN /\ fds \in BOOLEAN /\ active \in BOOLEAN
  /\ failed \in BOOLEAN /\ broken \in BOOLEAN
  /\ proc \in {"none", "up", "zombie", "reaped"}
  /\ host \in {"up", "killed"}
  /\ DOMAIN pc = Parties
  /\ pc["runner"] \in RunnerPlaces /\ pc["routine"] \in RoutinePlaces

\* helper_lock is held by whoever is in a write, and the helper written to is
\* still answered for by helper_pid.
Writing ==
  \A p \in Parties : /\ lock = p <=> pc[p] \in Writes
                     /\ pc[p] \in Writes => pid

\* One party answers for the helper, as OneReaper says; a failed write has
\* given up one that had ended.
Answered ==
  /\ pid => proc \in {"up", "zombie"} /\ ~broken
  /\ \A p \in Parties : pc[p] = "stopWait" =>
       proc \in {"up", "zombie"} /\ ~broken /\ ~pid
  /\ ~(pc["runner"] = "stopWait" /\ pc["routine"] = "stopWait")
  /\ proc \in {"up", "zombie"} /\ ~broken =>
       pid \/ \E p \in Parties : pc[p] = "stopWait"
  /\ broken => proc = "zombie"

\* Before the routine has started the helper there is none to stop.
Unstarted ==
  /\ pc["routine"] \in {"created", "start"} =>
       proc = "none" /\ pc["runner"] \in {"serving", "stopLook", "join"}
  /\ pc["routine"] = "start" => active

\* Where the routine may leave its loop, helper_pid is not set.
Leaving ==
  /\ pc["routine"] = "ended" => ~pid
  /\ pc["routine"] \notin StopPlaces /\ ~active => ~pid
  /\ pc["runner"] \in {"returned", "raised"} => pc["routine"] = "ended"

IInv ==
  /\ TypeOK
  /\ host = "up" => Writing /\ Answered /\ Unstarted /\ Leaving
  /\ host = "killed" => pc["runner"] \notin {"returned", "raised"}

USE DEF Parties

LEMMA InitIInv ==
  ASSUME Init
  PROVE  IInv
<1>1. DOMAIN pc = Parties /\ pc["runner"] = "serving" /\ pc["routine"] = "created"
  BY DEF Init
<1>2. TypeOK
  BY <1>1 DEF Init, TypeOK, StopPlaces, RunnerPlaces, RoutinePlaces
<1>3. Writing /\ Answered /\ Unstarted /\ Leaving
  BY <1>1 DEF Init, Writing, Answered, Unstarted, Leaving, StopPlaces, Writes
<1> QED
  BY <1>2, <1>3 DEF Init, IInv

\* What a step says of the places.
LEMMA StepPc ==
  ASSUME TypeOK, NEW p \in Parties, NEW from, NEW to, Step(p, from, to)
  PROVE  /\ host = "up" /\ pc[p] = from /\ pc'[p] = to
         /\ DOMAIN pc' = Parties
         /\ \A q \in Parties : q # p => pc'[q] = pc[q]
BY DEF TypeOK, Step

\* A look that finds no helper running leaves none to answer for.
LEMMA LookClears ==
  ASSUME TypeOK, Answered, ~Running, Look
  PROVE  /\ pid' = FALSE /\ fds' \in BOOLEAN
         /\ proc' = IF pid THEN "reaped" ELSE proc
BY DEF TypeOK, Answered, Running, Look, CloseState, handles

\* _command_json and _stop, for either party and what it goes on to.
LEMMA StopIInv ==
  ASSUME IInv, NEW p \in Parties, NEW skip,
         \/ p = "runner" /\ skip = "join"
         \/ p = "routine" /\ skip = (IF failed THEN "ended" ELSE "dispatch"),
         StopNext(p, skip)
  PROVE  IInv'
<1> USE DEF IInv, TypeOK, Writing, Answered, Unstarted, Leaving,
            StopPlaces, RunnerPlaces, RoutinePlaces, Writes, routine
<1>0. /\ p = "runner" => skip = "join"
      /\ p = "routine" => skip = IF failed THEN "ended" ELSE "dispatch"
  OBVIOUS
<1>1. CASE StopLook(p, skip)
  <2>1. Step(p, "stopLook", IF Running THEN "stopCall" ELSE skip)
    BY <1>1 DEF StopLook
  <2>2. /\ host = "up" /\ pc[p] = "stopLook"
        /\ pc'[p] = IF Running THEN "stopCall" ELSE skip
        /\ DOMAIN pc' = Parties
        /\ \A q \in Parties : q # p => pc'[q] = pc[q]
    BY <2>1, StepPc
  <2>3. CASE Running
    BY <1>0, <1>1, <2>2, <2>3 DEF StopLook, Locked, Running, Look, restOfHelper, handles
  <2>4. CASE ~Running
    <3>1. /\ pid' = FALSE /\ fds' \in BOOLEAN
          /\ proc' = IF pid THEN "reaped" ELSE proc
      BY <1>1, <2>2, <2>4, LookClears DEF StopLook
    <3> QED
      BY <1>0, <1>1, <2>2, <2>4, <3>1 DEF StopLook, Locked, restOfHelper
  <2> QED
    BY <2>3, <2>4
<1>2. CASE StopCall(p, skip)
  <2>1. Step(p, "stopCall", IF Running THEN "stopWrite" ELSE skip)
    BY <1>2 DEF StopCall, Check
  <2>2. /\ host = "up" /\ pc[p] = "stopCall"
        /\ pc'[p] = IF Running THEN "stopWrite" ELSE skip
        /\ DOMAIN pc' = Parties
        /\ \A q \in Parties : q # p => pc'[q] = pc[q]
    BY <2>1, StepPc
  <2>3. CASE Running
    BY <1>0, <1>2, <2>2, <2>3 DEF StopCall, Check, Locked, Running, Look, restOfHelper, handles
  <2>4. CASE ~Running
    <3>1. /\ pid' = FALSE /\ fds' \in BOOLEAN
          /\ proc' = IF pid THEN "reaped" ELSE proc
      BY <1>2, <2>2, <2>4, LookClears DEF StopCall, Check
    <3> QED
      BY <1>0, <1>2, <2>2, <2>4, <3>1 DEF StopCall, Check, Locked, restOfHelper
  <2> QED
    BY <2>3, <2>4
<1>3. CASE StopWrite(p)
  <2>1. /\ host = "up" /\ pc[p] = "stopWrite" /\ pc'[p] = "stopWait"
        /\ DOMAIN pc' = Parties
        /\ \A q \in Parties : q # p => pc'[q] = pc[q]
    BY <1>3, StepPc DEF StopWrite
  <2> QED
    BY <1>0, <1>3, <2>1 DEF StopWrite, StopCloses, CloseState
<1>4. CASE StopWait(p, skip)
  <2>1. /\ host = "up" /\ pc[p] = "stopWait" /\ pc'[p] = skip
        /\ DOMAIN pc' = Parties
        /\ \A q \in Parties : q # p => pc'[q] = pc[q]
    BY <1>4, StepPc DEF StopWait
  <2> QED
    BY <1>0, <1>4, <2>1 DEF StopWait, restOfHelper, handles
<1>5. CASE WriteKills(p, "stopWrite") /\ UNCHANGED routine
  <2>1. /\ host = "up" /\ pc[p] = "stopWrite" /\ pc' = pc
        /\ host' = "killed" /\ pid' = FALSE /\ fds' = FALSE /\ lock' = "free"
        /\ active' = active /\ failed' = failed /\ broken' = broken /\ proc' = proc
    BY <1>5 DEF WriteKills, CloseState, helper
  <2>2. pc["runner"] \notin {"returned", "raised"}
    BY <2>1
  <2>3. TypeOK'
    <3>1. lock' \in Parties \cup {"free"} /\ host' \in {"up", "killed"}
      BY <2>1
    <3>2. pid' \in BOOLEAN /\ fds' \in BOOLEAN /\ active' \in BOOLEAN
          /\ failed' \in BOOLEAN /\ broken' \in BOOLEAN
      BY <2>1
    <3>3. proc' \in {"none", "up", "zombie", "reaped"}
      BY <2>1
    <3>4. DOMAIN pc' = Parties
          /\ pc'["runner"] \in RunnerPlaces /\ pc'["routine"] \in RoutinePlaces
      BY <2>1
    <3> QED
      BY <3>1, <3>2, <3>3, <3>4
  <2>4. host' # "up" /\ pc'["runner"] \notin {"returned", "raised"}
    BY <2>1, <2>2
  <2> QED
    BY <2>3, <2>4
<1> QED
  BY <1>1, <1>2, <1>3, <1>4, <1>5 DEF StopNext

LEMMA RoutineIInv ==
  ASSUME IInv, RoutineNext
  PROVE  IInv'
<1> USE DEF IInv, TypeOK, Writing, Answered, Unstarted, Leaving, Step,
            StopPlaces, RunnerPlaces, RoutinePlaces, Writes, handles, routine
<1>1. CASE Begin
  BY <1>1 DEF Begin, helper
<1>2. CASE Start
  <2>1. /\ host = "up" /\ pc["routine"] = "start" /\ pc'["routine"] = "sendRun"
        /\ DOMAIN pc' = Parties /\ pc'["runner"] = pc["runner"]
    BY <1>2, StepPc DEF Start
  <2>2. pid' = TRUE /\ fds' = TRUE /\ proc' = "up"
    BY <1>2, <2>1 DEF Start, Running
  <2>3. /\ lock' = lock /\ active' = active /\ failed' = failed
        /\ host' = host /\ broken' = broken
    BY <1>2 DEF Start
  <2>4. ~broken /\ pc["runner"] \in {"serving", "stopLook", "join"} /\ active
    BY <2>1
  <2>5. TypeOK'
    BY <2>1, <2>2, <2>3
  <2>6. Writing'
    BY <1>2, <2>1, <2>3, <2>4 DEF Start, Locked
  <2>7. Answered' /\ Unstarted' /\ Leaving'
    BY <2>1, <2>2, <2>3, <2>4
  <2> QED
    BY <2>1, <2>3, <2>5, <2>6, <2>7
<1>3. CASE StartFails
  BY <1>3 DEF StartFails, Locked, Running, helper
<1>4. CASE SendRun
  <2>1. CASE Check("routine", "sendRun", "writeRun", "stopLook") /\ UNCHANGED <<active, lines>>
               /\ failed' = ~Running
    BY <2>1 DEF Check, Locked, Running, Look, CloseState, restOfHelper
  <2>2. CASE WriteDone("routine", "writeRun", "run", "loop") /\ UNCHANGED routine
    BY <2>2 DEF WriteDone
  <2>3. CASE WriteFails("routine", "writeRun", "stopLook") /\ failed' = TRUE
               /\ UNCHANGED <<active, lines>>
    BY <2>3 DEF WriteFails, CloseState, helper
  <2>4. CASE WriteKills("routine", "writeRun") /\ UNCHANGED routine
    BY <2>4 DEF WriteKills, CloseState, helper
  <2> QED
    BY <1>4, <2>1, <2>2, <2>3, <2>4 DEF SendRun
<1>5. CASE Loop
  BY <1>5 DEF Loop, Locked, Running, Look, CloseState, restOfHelper
<1>6. CASE ReadEvents
  BY <1>6 DEF ReadEvents, Locked
<1>7. CASE Dispatch
  <2>1. /\ host = "up" /\ pc["routine"] = "dispatch" /\ pc'["runner"] = pc["runner"]
        /\ DOMAIN pc' = Parties
        /\ pc'["routine"] \in {"loop", "dispatch", "sendIcon", "stopLook"}
    BY <1>7, StepPc DEF Dispatch
  <2>2. active' \in BOOLEAN /\ failed' = failed
        /\ (pc'["routine"] # "stopLook" => active' = active)
    BY <1>7 DEF Dispatch
  <2> QED
    BY <1>7, <2>1, <2>2 DEF Dispatch, helper
<1>8. CASE SendIcon
  <2>1. CASE Check("routine", "sendIcon", "writeIcon", "dispatch") /\ UNCHANGED routine
    BY <2>1 DEF Check, Locked, Running, Look, CloseState, restOfHelper
  <2>2. CASE WriteDone("routine", "writeIcon", "icon", "dispatch") /\ UNCHANGED routine
    BY <2>2 DEF WriteDone
  <2>3. CASE WriteFails("routine", "writeIcon", "dispatch") /\ UNCHANGED routine
    BY <2>3 DEF WriteFails, CloseState, helper
  <2>4. CASE WriteKills("routine", "writeIcon") /\ UNCHANGED routine
    BY <2>4 DEF WriteKills, CloseState, helper
  <2> QED
    BY <1>8, <2>1, <2>2, <2>3, <2>4 DEF SendIcon
<1>9. CASE StopNext("routine", IF failed THEN "ended" ELSE "dispatch")
  BY <1>9, StopIInv
<1> QED
  BY <1>1, <1>2, <1>3, <1>4, <1>5, <1>6, <1>7, <1>8, <1>9 DEF RoutineNext

LEMMA RunnerIInv ==
  ASSUME IInv, RunnerNext
  PROVE  IInv'
<1>1. CASE ServiceEnds
  BY <1>1 DEF ServiceEnds, IInv, TypeOK, Writing, Answered, Unstarted, Leaving, Step,
              StopPlaces, RunnerPlaces, RoutinePlaces, Writes, handles, helper, routine
<1>2. CASE StopNext("runner", "join")
  BY <1>2, StopIInv
<1>3. CASE Join
  BY <1>3 DEF Join, IInv, TypeOK, Writing, Answered, Unstarted, Leaving, Step,
              StopPlaces, RunnerPlaces, RoutinePlaces, Writes, handles, helper, routine
<1> QED
  BY <1>1, <1>2, <1>3 DEF RunnerNext

\* The helper only ends; nobody is in a write to it for that reason alone.
LEMMA HelperIInv ==
  ASSUME IInv, HelperNext \/ HelperClick \/ HelperCrashes
  PROVE  IInv'
<1> USE DEF IInv, TypeOK, Writing, Answered, Unstarted, Leaving, handles, routine, Ends
<1>1. CASE HelperReads
  BY <1>1 DEF HelperReads
<1>2. CASE HelperHangsUp
  BY <1>2 DEF HelperHangsUp
<1>3. CASE HelperEmits
  BY <1>3 DEF HelperEmits
<1>4. CASE HelperClick
  BY <1>4 DEF HelperClick
<1>5. CASE HelperCrashes
  BY <1>5 DEF HelperCrashes
<1> QED
  BY <1>1, <1>2, <1>3, <1>4, <1>5 DEF HelperNext

LEMMA NextIInv ==
  ASSUME IInv, [Next]_vars
  PROVE  IInv'
<1>1. CASE UNCHANGED vars
  BY <1>1 DEF vars, handles, helper, routine,
              IInv, TypeOK, Writing, Answered, Unstarted, Leaving
<1> QED
  BY <1>1, RoutineIInv, RunnerIInv, HelperIInv DEF Next

LEMMA IInvOneReaper ==
  ASSUME IInv
  PROVE  OneReaper
<1> SUFFICES ASSUME host = "up" PROVE OneReaper
  BY DEF OneReaper
<1>1. CASE pid
  <2>1. \A p \in Parties : pc[p] # "stopWait"
    BY <1>1 DEF IInv, Answered
  <2> QED
    BY <1>1, <2>1 DEF IInv, Answered, OneReaper
<1>2. CASE ~pid
  BY <1>2 DEF IInv, TypeOK, Answered, OneReaper
<1> QED
  BY <1>1, <1>2

LEMMA IInvNothingLeft ==
  ASSUME IInv
  PROVE  NothingLeft
BY DEF IInv, TypeOK, Answered, Leaving, NothingLeft

\* However the helper dies and whoever notices it first, exactly one of
\* helper_pid and the two threads answers for its zombie, and none for a pid
\* that has been collected.
THEOREM OneReaperAlways == Spec => []OneReaper
<1>1. Init => IInv
  BY InitIInv
<1>2. IInv /\ [Next]_vars => IInv'
  BY NextIInv
<1>3. IInv => OneReaper
  BY IInvOneReaper
<1> QED
  BY <1>1, <1>2, <1>3, PTL DEF Spec

\* Runner::stop returns, or raises the routine's error, only when the routine
\* has ended and the helper with it.
THEOREM NothingLeftAlways == Spec => []NothingLeft
<1>1. Init => IInv
  BY InitIInv
<1>2. IInv /\ [Next]_vars => IInv'
  BY NextIInv
<1>3. IInv => NothingLeft
  BY IInvNothingLeft
<1> QED
  BY <1>1, <1>2, <1>3, PTL DEF Spec

(***************************************************************************)
(* Menus                                                                   *)
(***************************************************************************)

Installable == Menus \cup {EmptyMenu}

\* What System::Menu checks holds of each menu, and of the empty one.
LEMMA AllWellFormed ==
  ASSUME NEW m \in Installable
  PROVE  WellFormed(m)
<1>1. CASE m \in Menus
  BY <1>1, MenuAssumption
<1>2. CASE m = EmptyMenu
  BY <1>2 DEF EmptyMenu, WellFormed, Roots
<1> QED BY <1>1, <1>2 DEF Installable

\* What is below an item: itself, the children of what is, and nothing else.
LEMMA SubtreeIs ==
  ASSUME NEW m \in Installable, NEW n \in Names
  PROVE  /\ n \in Subtree(m, n) /\ Subtree(m, n) \subseteq Names
         /\ \A k \in Subtree(m, n) : m.kids[k] \subseteq Subtree(m, n)
         /\ \A k \in Subtree(m, n) \ {n} :
              \E j \in Subtree(m, n) : k \in m.kids[j]
<1> DEFINE t == {k \in Names : \A s \in SUBSET Names :
                   n \in s /\ Closed(m, s) => k \in s}
<1>1. Subtree(m, n) = t
  BY DEF Subtree, Subtrees, Installable
<1>2. \A k \in Names : m.kids[k] \subseteq Names
  BY AllWellFormed DEF WellFormed
<1>3. n \in t /\ t \subseteq Names
  OBVIOUS
<1>4. ASSUME NEW k \in t, NEW i \in m.kids[k]
      PROVE  i \in t
  <2> SUFFICES ASSUME NEW s \in SUBSET Names, n \in s, Closed(m, s)
               PROVE  i \in s
    BY <1>2
  <2>1. k \in s
    OBVIOUS
  <2> QED BY <2>1 DEF Closed
<1>5. ASSUME NEW k \in t \ {n}
      PROVE  \E j \in t : k \in m.kids[j]
  <2> SUFFICES ASSUME \A j \in t : k \notin m.kids[j]
               PROVE  FALSE
    OBVIOUS
  <2> DEFINE s == t \ {k}
  <2>1. n \in s /\ s \in SUBSET Names
    BY <1>3
  <2>2. Closed(m, s)
    BY <1>4 DEF Closed
  <2> HIDE DEF s
  <2>3. k \in s
    BY <2>1, <2>2
  <2> QED BY <2>3 DEF s
<1> HIDE DEF t
<1> QED BY <1>1, <1>3, <1>4, <1>5

\* What has been removed, and all that is below it.
Gone(m, r) == UNION {Subtree(m, n) : n \in r}

\* A root is below nothing else, so it is gone only if it was removed.
LEMMA RootsPresent ==
  ASSUME NEW m \in Installable, NEW r \in SUBSET Names,
         NEW n \in Roots(m) \ r
  PROVE  n \in Names /\ n \in Items(m) \ Gone(m, r)
<1>1. n \in Names /\ \A k \in Names : n \notin m.kids[k]
  BY AllWellFormed DEF WellFormed, Roots
<1>2. n \in Items(m)
  BY <1>1, SubtreeIs DEF Items
<1>3. ASSUME NEW x \in r, n \in Subtree(m, x)
      PROVE  FALSE
  <2>1. x \in Names /\ n # x
    OBVIOUS
  <2>2. PICK j \in Subtree(m, x) : n \in m.kids[j]
    BY <1>3, <2>1, SubtreeIs
  <2>3. j \in Names
    BY <2>1, SubtreeIs
  <2> QED BY <1>1, <2>2, <2>3
<1> QED BY <1>1, <1>2, <1>3 DEF Gone

\* An item has one parent: it is gone only when it was removed or that one is gone.
LEMMA KidsPresent ==
  ASSUME NEW m \in Installable, NEW r \in SUBSET Names,
         NEW n \in Names, n \in Items(m) \ Gone(m, r),
         NEW k \in m.kids[n] \ r
  PROVE  k \in Names /\ k \in Items(m) \ Gone(m, r)
<1>1. /\ k \in Names
      /\ \A j \in Names : k \in m.kids[j] => j = n
  BY AllWellFormed DEF WellFormed
<1>2. k \in Items(m)
  <2>1. PICK q \in Roots(m) : n \in Subtree(m, q)
    BY DEF Items
  <2>2. q \in Names
    BY AllWellFormed DEF WellFormed, Roots
  <2>3. k \in Subtree(m, q)
    BY <2>1, <2>2, SubtreeIs
  <2> QED BY <2>3 DEF Items
<1>3. ASSUME NEW x \in r, k \in Subtree(m, x)
      PROVE  FALSE
  <2>1. x \in Names /\ k # x
    OBVIOUS
  <2>2. PICK j \in Subtree(m, x) : k \in m.kids[j]
    BY <1>3, <2>1, SubtreeIs
  <2>3. j = n
    BY <1>1, <2>1, <2>2, SubtreeIs
  <2> QED BY <2>2, <2>3 DEF Gone
<1> QED BY <1>1, <1>2, <1>3 DEF Gone

(***************************************************************************)
(* The Windows helper                                                      *)
(***************************************************************************)

Popups == [owner : Names, rows : SUBSET Names]

MenuTypeOK ==
  /\ menu \in Installable
  /\ removed \in SUBSET Names
  /\ clicked \in Seq(Names)
  /\ trays \in SUBSET DOMAIN menu.roots
  /\ popups \in Seq(Popups)

Here == Items(menu) \ Gone(menu, removed)

\* An open popup is of an item that is there, as are its rows.
Shown(ps) ==
  /\ Len(ps) <= MaxPopups
  /\ \A d \in DOMAIN ps :
       /\ ps[d].owner \in (IF d = 1 THEN Roots(menu) ELSE ps[d - 1].rows)
       /\ ps[d].owner \in Here \ removed
       /\ ps[d].rows # {}
       /\ ps[d].rows \subseteq (menu.kids[ps[d].owner] \cap Here) \ removed

\* Shown says more than PopupsValid: nothing below a removed item is shown either,
\* which is what a removal that marks the item alone leaves to be shown.
WindowsIInv == MenuTypeOK /\ Shown(popups) /\ TraysResolve

\* popup_close_from leaves the popups below as they are.
LEMMA Closes ==
  ASSUME NEW ps \in Seq(Popups), Shown(ps), NEW d \in 0 .. Len(ps)
  PROVE  /\ CloseFrom(ps, d) \in Seq(Popups)
         /\ Len(CloseFrom(ps, d)) = d
         /\ \A i \in 1 .. d : CloseFrom(ps, d)[i] = ps[i]
         /\ Shown(CloseFrom(ps, d))
<1>1. /\ CloseFrom(ps, d) \in Seq(Popups)
      /\ Len(CloseFrom(ps, d)) = d
      /\ \A i \in 1 .. d : CloseFrom(ps, d)[i] = ps[i]
  BY SubSeqProperties DEF CloseFrom
<1> QED BY <1>1, PopupAssumption DEF Shown

\* popup_open: its owner is a root or a row of the popup below.
LEMMA Opens ==
  ASSUME MenuTypeOK, NEW ps \in Seq(Popups), Shown(ps), NEW d \in 0 .. Len(ps),
         NEW n \in Names, n \in (IF d = 0 THEN Roots(menu) ELSE ps[d].rows) \ removed,
         NEW qs \in PopupOpen(ps, n, d)
  PROVE  qs \in Seq(Popups) /\ Shown(qs)
<1> DEFINE x == [owner |-> n, rows |-> VisibleChildren(n)]
           cs == CloseFrom(ps, d)
<1>1. CASE qs = ps
  BY <1>1
<1>2. /\ cs \in Seq(Popups) /\ Len(cs) = d
      /\ \A i \in 1 .. d : cs[i] = ps[i]
      /\ Shown(cs)
  BY Closes
<1>3. CASE qs = cs
  BY <1>2, <1>3
<1>4. CASE /\ d < MaxPopups /\ VisibleChildren(n) # {}
           /\ qs = Append(cs, x)
  <2>1. n \in Here
    <3>1. CASE d = 0
      BY <3>1, RootsPresent DEF MenuTypeOK, Here
    <3>2. CASE d # 0
      BY <3>2 DEF Shown
    <3> QED BY <3>1, <3>2
  <2>2. x.rows \subseteq (menu.kids[n] \cap Here) \ removed /\ x.rows \subseteq Names
    BY <2>1, KidsPresent DEF MenuTypeOK, Here, VisibleChildren
  <2>3. x \in Popups
    BY <2>2 DEF Popups
  <2>4. x.owner \in (IF d = 0 THEN Roots(menu) ELSE cs[d].rows) \ removed
    BY <1>2
  <2>5. x.rows # {} /\ x.owner = n
    BY <1>4
  <2> HIDE DEF x, cs
  <2>6. /\ qs \in Seq(Popups) /\ Len(qs) = d + 1 /\ qs[d + 1] = x
        /\ \A i \in 1 .. d : qs[i] = cs[i]
    BY <1>2, <1>4, <2>3
  <2>7. ASSUME NEW i \in 1 .. d + 1
        PROVE  /\ qs[i].owner \in (IF i = 1 THEN Roots(menu) ELSE qs[i - 1].rows)
               /\ qs[i].owner \in Here \ removed
               /\ qs[i].rows # {}
               /\ qs[i].rows \subseteq (menu.kids[qs[i].owner] \cap Here) \ removed
    <3>1. CASE i = d + 1
      <4>1. qs[i] = x
        BY <2>6, <3>1
      <4>2. x.owner \in (IF i = 1 THEN Roots(menu) ELSE qs[i - 1].rows)
        <5>1. CASE d = 0
          BY <2>4, <3>1, <5>1
        <5>2. CASE d # 0
          <6>1. i - 1 = d /\ d \in 1 .. d /\ i # 1
            BY <3>1, <5>2
          <6>2. qs[i - 1] = cs[d]
            BY <2>6, <6>1
          <6> QED BY <2>4, <5>2, <6>1, <6>2
        <5> QED BY <5>1, <5>2
      <4> QED BY <2>1, <2>2, <2>4, <2>5, <4>1, <4>2
    <3>2. CASE i \in 1 .. d
      <4>1. qs[i] = cs[i] /\ i \in DOMAIN cs
        BY <1>2, <2>6, <3>2
      <4>2. i # 1 => qs[i - 1] = cs[i - 1]
        BY <2>6, <3>2
      <4>3. /\ cs[i].owner \in (IF i = 1 THEN Roots(menu) ELSE cs[i - 1].rows)
            /\ cs[i].owner \in Here \ removed
            /\ cs[i].rows # {}
            /\ cs[i].rows \subseteq (menu.kids[cs[i].owner] \cap Here) \ removed
        BY <1>2, <4>1 DEF Shown
      <4>4. (IF i = 1 THEN Roots(menu) ELSE qs[i - 1].rows)
              = (IF i = 1 THEN Roots(menu) ELSE cs[i - 1].rows)
        BY <4>2
      <4> QED BY <4>1, <4>3, <4>4
    <3> QED BY <3>1, <3>2
  <2> QED BY <1>4, <2>6, <2>7, PopupAssumption DEF Shown
<1> QED BY <1>1, <1>3, <1>4, PopupAssumption DEF PopupOpen

\* Only install_run and Quit change the menu, and only they and command_remove
\* what is removed: each closes all popups.
LEMMA PopupsStep ==
  ASSUME WindowsIInv, UNCHANGED <<menu, removed, trays>>, clicked' \in Seq(Names),
         popups' \in Seq(Popups), Shown(popups')
  PROVE  WindowsIInv'
<1>1. MenuTypeOK'
  BY DEF WindowsIInv, MenuTypeOK
<1>2. Here' = Here /\ Roots(menu)' = Roots(menu)
  BY DEF Here, Items, Gone, Roots, Subtree
<1>3. Shown(popups)'
  BY <1>2 DEF Shown
<1>4. TraysResolve'
  BY DEF WindowsIInv, TraysResolve, RootOf
<1> QED BY <1>1, <1>3, <1>4 DEF WindowsIInv

\* With no popup open there is nothing to be shown wrongly.
LEMMA NoPopups ==
  /\ <<>> \in Seq(Popups) /\ Len(<<>>) = 0
  /\ Shown(<<>>)
BY PopupAssumption DEF Shown

\* The helper starts with the empty menu.
LEMMA WindowsStarts ==
  ASSUME WindowsInit
  PROVE  WindowsIInv
<1>1. MenuTypeOK /\ TraysResolve
  BY DEF WindowsInit, MenuTypeOK, TraysResolve, Installable, EmptyMenu
<1> QED BY <1>1, NoPopups DEF WindowsInit, WindowsIInv

\* install_run closes all popups, and its icons are of the menu's roots.
LEMMA WindowsInstallStep ==
  ASSUME WindowsIInv, NEW m \in Menus, install_run(m)
  PROVE  WindowsIInv'
<1>1. MenuTypeOK'
  BY DEF install_run, WindowsIInv, MenuTypeOK, Installable
<1>2. Shown(popups)'
  BY PopupAssumption DEF install_run, Shown
<1>3. TraysResolve'
  BY DEF install_run, TraysResolve, RootOf
<1> QED BY <1>1, <1>2, <1>3 DEF WindowsIInv

\* Roots differ, so a root's place is its own, and its icon goes with it.
LEMMA WindowsRemoveStep ==
  ASSUME WindowsIInv, NEW n \in Names, command_remove(n)
  PROVE  WindowsIInv'
<1> USE DEF WindowsIInv
<1>1. MenuTypeOK'
  BY DEF command_remove, MenuTypeOK, TraysWithout, PopupsAfterRemove
<1>2. Shown(popups)'
  BY PopupAssumption DEF command_remove, Shown, PopupsAfterRemove
<1>3. ASSUME NEW id \in trays'
      PROVE  id \in DOMAIN menu.roots /\ menu.roots[id] \notin removed'
  <2>1. id \in trays /\ id \in DOMAIN menu.roots /\ menu.roots[id] \notin removed
    BY DEF command_remove, TraysWithout, TraysResolve, RootOf
  <2>2. menu.roots[id] # n
    <3> SUFFICES ASSUME menu.roots[id] = n
                 PROVE  FALSE
      OBVIOUS
    <3>1. n \in Roots(menu)
      BY <2>1 DEF Roots
    <3>2. Position(menu, n) \in DOMAIN menu.roots /\ menu.roots[Position(menu, n)] = n
      BY <2>1 DEF Position
    <3>3. Position(menu, n) = id
      BY <2>1, <3>2, AllWellFormed DEF MenuTypeOK, WellFormed
    <3> QED BY <3>1, <3>3 DEF command_remove, TraysWithout
  <2> QED BY <2>1, <2>2 DEF command_remove
<1>4. TraysResolve'
  BY <1>3 DEF TraysResolve, RootOf, command_remove
<1> QED BY <1>1, <1>2, <1>4

\* clear_all leaves nothing to point at.
LEMMA WindowsQuitStep ==
  ASSUME WindowsIInv, Quit
  PROVE  WindowsIInv'
BY PopupAssumption DEF WindowsIInv, Quit, MenuTypeOK, Shown, TraysResolve,
                       Installable

\* A row of the popup at d is there, and its own popup comes above.
LEMMA RowPresent ==
  ASSUME WindowsIInv, NEW d \in DOMAIN popups, NEW n \in popups[d].rows
  PROVE  n \in Here \ removed /\ d \in 0 .. Len(popups) /\ d # 0
BY DEF WindowsIInv, MenuTypeOK, Shown

\* handle_popup_mouse over a row: its submenu opens and the others close.
LEMMA MoveStep ==
  ASSUME WindowsIInv, NEW d \in 1 .. MaxPopups, NEW n \in Names, MouseMove(d, n)
  PROVE  WindowsIInv'
<1> USE DEF WindowsIInv
<1>1. /\ d \in DOMAIN popups /\ n \in popups[d].rows /\ popups' \in OpenChild(d, n)
      /\ UNCHANGED <<menu, clicked, removed, trays>>
  BY DEF MouseMove
<1>2. n \in Here \ removed /\ d \in 0 .. Len(popups) /\ d # 0
  BY <1>1, RowPresent
<1>3. popups \in Seq(Popups) /\ clicked \in Seq(Names)
  BY DEF MenuTypeOK
<1>4. popups' \in Seq(Popups) /\ Shown(popups')
  <2>1. CASE popups' = CloseFrom(popups, d)
    BY <1>2, <1>3, <2>1, Closes
  <2>2. CASE popups' = popups
    BY <1>3, <2>2
  <2>3. CASE popups' \in PopupOpen(popups, n, d)
    BY <1>1, <1>2, <1>3, <2>3, Opens
  <2> QED BY <1>1, <2>1, <2>2, <2>3 DEF OpenChild
<1> QED BY <1>1, <1>3, <1>4, PopupsStep

\* A button released over a row: what is reported is there.
LEMMA ClickStep ==
  ASSUME WindowsIInv, NEW d \in 1 .. MaxPopups, NEW n \in Names, MouseClick(d, n)
  PROVE  WindowsIInv' /\ n \in Here
<1> USE DEF WindowsIInv
<1>1. /\ d \in DOMAIN popups /\ n \in popups[d].rows
      /\ popups' = IF n \in Stay THEN CloseFrom(popups, d) ELSE <<>>
      /\ clicked' = Append(clicked, n)
      /\ UNCHANGED <<menu, removed, trays>>
  BY DEF MouseClick, EmitClick
<1>2. n \in Here \ removed /\ d \in 0 .. Len(popups)
  BY <1>1, RowPresent
<1>3. popups \in Seq(Popups) /\ clicked' \in Seq(Names)
  BY <1>1 DEF MenuTypeOK
<1>4. popups' \in Seq(Popups) /\ Shown(popups')
  BY <1>1, <1>2, <1>3, Closes, NoPopups
<1> QED BY <1>1, <1>2, <1>3, <1>4, PopupsStep

\* HostProc on WM_DD_TRAY: the root is looked up now, so it is there.
LEMMA TrayStep ==
  ASSUME WindowsIInv, TrayMessage
  PROVE  /\ WindowsIInv'
         /\ \/ UNCHANGED clicked
            \/ \E n \in Here \cap menu.clickable : clicked' = Append(clicked, n)
<1> USE DEF WindowsIInv
<1> DEFINE root == CHOOSE r \in RootOf(Head(posted)) : TRUE
<1>1. UNCHANGED <<menu, removed, trays>>
  BY DEF TrayMessage
<1>2. popups \in Seq(Popups) /\ clicked \in Seq(Names) /\ menu \in Installable
  BY DEF MenuTypeOK
<1>3. CASE RootOf(Head(posted)) = {}
  <2>1. UNCHANGED <<popups, clicked>>
    BY <1>3 DEF TrayMessage
  <2> QED BY <1>1, <1>2, <2>1, PopupsStep
<1>4. CASE RootOf(Head(posted)) # {}
  <2>1. root \in Roots(menu) \ removed
    BY <1>4 DEF RootOf, Roots
  <2>2. root \in Names /\ root \in Here
    BY <1>2, <2>1, RootsPresent DEF Here, MenuTypeOK
  <2>3. IF VisibleChildren(root) # {}
          THEN popups' \in PopupOpen(<<>>, root, 0) /\ UNCHANGED clicked
          ELSE /\ UNCHANGED popups
               /\ IF root \in menu.clickable THEN EmitClick(root)
                                             ELSE UNCHANGED clicked
    BY <1>4 DEF TrayMessage
  <2> HIDE DEF root
  <2>4. CASE VisibleChildren(root) # {}
    <3>1. 0 \in 0 .. Len(<<>>)
      OBVIOUS
    <3>2. popups' \in Seq(Popups) /\ Shown(popups')
      BY <2>1, <2>2, <2>3, <2>4, <3>1, NoPopups, Opens
    <3> QED BY <1>1, <1>2, <2>3, <2>4, <3>2, PopupsStep
  <2>5. CASE VisibleChildren(root) = {}
    <3>1. UNCHANGED popups /\ (UNCHANGED clicked \/ clicked' = Append(clicked, root))
      BY <2>3, <2>5 DEF EmitClick
    <3>2. clicked' \in Seq(Names)
      BY <1>2, <2>2, <3>1
    <3>3. \/ UNCHANGED clicked
          \/ root \in menu.clickable /\ clicked' = Append(clicked, root)
      BY <2>3, <2>5 DEF EmitClick
    <3> QED BY <1>1, <1>2, <2>2, <3>1, <3>2, <3>3, PopupsStep
  <2> QED BY <2>4, <2>5
<1> QED BY <1>3, <1>4

\* One step for each message the loop dispatches.
LEMMA WindowsStep ==
  ASSUME WindowsIInv, [WindowsNext]_windowsVars
  PROVE  WindowsIInv'
<1>1. CASE \E m \in Menus : install_run(m)
  BY <1>1, WindowsInstallStep
<1>2. CASE \E n \in Names : command_remove(n)
  BY <1>2, WindowsRemoveStep
<1>3. CASE Quit
  BY <1>3, WindowsQuitStep
<1>4. CASE \E d \in 1 .. MaxPopups, n \in Names : MouseMove(d, n)
  BY <1>4, MoveStep
<1>5. CASE \E d \in 1 .. MaxPopups, n \in Names : MouseClick(d, n)
  BY <1>5, ClickStep
<1>6. CASE Dismiss
  <2>1. UNCHANGED <<menu, removed, trays, clicked>> /\ popups' = <<>>
    BY <1>6 DEF Dismiss
  <2> QED BY <2>1, NoPopups, PopupsStep DEF WindowsIInv, MenuTypeOK
<1>7. CASE (\E id \in trays : TrayClicked(id)) \/ UNCHANGED windowsVars
  <2>1. UNCHANGED <<menu, removed, trays, clicked, popups>>
    BY <1>7 DEF TrayClicked, windowsVars
  <2> QED BY <2>1, PopupsStep DEF WindowsIInv, MenuTypeOK
<1>8. CASE TrayMessage
  BY <1>8, TrayStep
<1> QED BY <1>1, <1>2, <1>3, <1>4, <1>5, <1>6, <1>7, <1>8 DEF WindowsNext

\* What the window procedures and emit_click follow without a look is there
\* (WindowsHandlesValid): command_remove and install_run close every popup, and
\* delete_tray takes a removed root's icon, whatever popup_open did before.
THEOREM WindowsHandlesAlways ==
  WindowsSpec => []WindowsHandlesValid
<1>1. WindowsInit => WindowsIInv
  BY WindowsStarts
<1>2. WindowsIInv /\ [WindowsNext]_windowsVars => WindowsIInv'
  BY WindowsStep
<1>3. WindowsIInv => WindowsHandlesValid
  BY DEF WindowsIInv, Shown, WindowsHandlesValid, PopupsValid
<1> QED BY <1>1, <1>2, <1>3, PTL DEF WindowsSpec

\* The contract's menus are these.
LEMMA WindowsMenus ==
  /\ \A m, n : WindowsContract!Subtree(m, n) = Subtree(m, n)
  /\ \A m : WindowsContract!Items(m) = Items(m)
  /\ WindowsContract!EmptyMenu = EmptyMenu
<1>1. WindowsContract!EmptyMenu = EmptyMenu
  BY DEF EmptyMenu, WindowsContract!EmptyMenu
<1>2. WindowsContract!Subtrees = Subtrees
  BY <1>1 DEF Subtrees, WindowsContract!Subtrees, Closed, WindowsContract!Closed
<1>3. \A m, n : WindowsContract!Subtree(m, n) = Subtree(m, n)
  BY <1>2 DEF Subtree, WindowsContract!Subtree
<1>4. \A m : WindowsContract!Items(m) = Items(m)
  BY <1>3 DEF Items, WindowsContract!Items, Roots, WindowsContract!Roots
<1> QED BY <1>1, <1>3, <1>4

\* A click is of an item that is there.
LEMMA Clicks ==
  ASSUME NEW n \in Names, up, n \in Here, n \in menu.clickable,
         clicked' = Append(clicked, n), UNCHANGED <<menu, up, removed>>
  PROVE  WindowsContract!Next
<1>1. Gone(menu', removed') = Gone(menu, removed)
  OBVIOUS
<1>2. WindowsContract!Click(n)
  BY <1>1, WindowsMenus DEF WindowsContract!Click, Here, Gone
<1> QED BY <1>2 DEF WindowsContract!Next

\* A step that changes nothing the contract sees.
LEMMA Rests ==
  ASSUME UNCHANGED <<menu, clicked, up, removed>>
  PROVE  UNCHANGED WindowsContract!vars
BY DEF WindowsContract!vars

\* Every message handled is a step of the contract or none.
LEMMA WindowsContractStep ==
  ASSUME WindowsIInv, [WindowsNext]_windowsVars
  PROVE  [WindowsContract!Next]_(WindowsContract!vars)
<1>1. ASSUME NEW m \in Menus, install_run(m)
      PROVE  WindowsContract!Next
  <2>1. WindowsContract!Run(m)
    BY <1>1 DEF install_run, WindowsContract!Run
  <2> QED BY <2>1 DEF WindowsContract!Next
<1>2. ASSUME NEW n \in Names, command_remove(n)
      PROVE  WindowsContract!Next
  <2>1. /\ up /\ n \in Items(menu) /\ removed' = removed \cup {n}
        /\ UNCHANGED <<menu, clicked, up>>
    BY <1>2 DEF command_remove
  <2>2. UNION {Subtree(menu', k) : k \in removed'} =
          (UNION {Subtree(menu, k) : k \in removed}) \cup Subtree(menu, n)
    BY <2>1
  <2>3. WindowsContract!Remove(n)
    BY <2>1, <2>2, WindowsMenus DEF WindowsContract!Remove
  <2> QED BY <2>3 DEF WindowsContract!Next
<1>3. CASE Quit
  <2>1. WindowsContract!Quit
    BY <1>3, WindowsMenus DEF Quit, WindowsContract!Quit
  <2> QED BY <2>1 DEF WindowsContract!Next
<1>4. ASSUME NEW d \in 1 .. MaxPopups, NEW n \in Names, MouseClick(d, n)
      PROVE  WindowsContract!Next
  BY <1>4, ClickStep, Clicks DEF MouseClick, EmitClick
<1>5. CASE TrayMessage
  <2>1. up /\ UNCHANGED <<menu, up, removed>>
    BY <1>5 DEF TrayMessage
  <2>2. CASE UNCHANGED clicked
    BY <2>1, <2>2, Rests
  <2>3. ASSUME NEW n \in Here \cap menu.clickable, clicked' = Append(clicked, n)
        PROVE  WindowsContract!Next
    <3>1. n \in Names
      BY AllWellFormed DEF WindowsIInv, MenuTypeOK, WellFormed
    <3> QED BY <2>1, <2>3, <3>1, Clicks
  <2> QED BY <1>5, <2>2, <2>3, TrayStep
<1>6. CASE \E d \in 1 .. MaxPopups, n \in Names : MouseMove(d, n)
  BY <1>6, Rests DEF MouseMove
<1>7. CASE Dismiss \/ (\E id \in trays : TrayClicked(id)) \/ UNCHANGED windowsVars
  BY <1>7, Rests DEF Dismiss, TrayClicked, windowsVars
<1> QED BY <1>1, <1>2, <1>3, <1>4, <1>5, <1>6, <1>7 DEF WindowsNext

\* popup_open shows visible children only and no popup outlives a removal, so
\* emit_click, which looks at no mark, reports only what MenuContract allows.
THEOREM WindowsRefinement ==
  WindowsSpec => WindowsImplements
<1>1. WindowsInit => WindowsIInv /\ WindowsContract!Init
  BY WindowsStarts, WindowsMenus DEF WindowsInit, WindowsContract!Init
<1>2. WindowsIInv /\ [WindowsNext]_windowsVars => WindowsIInv'
  BY WindowsStep
<1>3. WindowsIInv /\ [WindowsNext]_windowsVars => [WindowsContract!Next]_(WindowsContract!vars)
  BY WindowsContractStep
<1> QED BY <1>1, <1>2, <1>3, PTL DEF WindowsSpec, WindowsImplements, WindowsContract!Spec

(***************************************************************************)
(* Induction over the numbers                                              *)
(***************************************************************************)

\* Every set of numbers has a least one, from which proofs by induction follow.
LEMMA Least ==
  ASSUME NEW T \in SUBSET Nat, T # {}
  PROVE  \E x \in T : \A y \in T : x <= y
<1> DEFINE R == OpToRel(<, Nat)
<1>1. IsWellFoundedOn(R, Nat)
  BY NatLessThanWellFounded
<1>2. \A x, y \in Nat : <<y, x>> \in R <=> y < x
  BY DEF OpToRel
<1> HIDE DEF R
<1>3. PICK x \in T : \A y \in T : ~ (<<y, x>> \in R)
  BY <1>1, WFMin
<1>4. \A y \in T : y \in Nat /\ x \in Nat
  OBVIOUS
<1>5. \A y \in T : ~ (y < x)
  BY <1>2, <1>3, <1>4
<1> QED BY <1>4, <1>5

\* What holds at 0 and is handed on from each number below n to the next holds at n.
LEMMA Reaches ==
  ASSUME NEW n \in Nat, NEW G, 0 \in G, \A k \in 1 .. n : k - 1 \in G => k \in G
  PROVE  \A k \in 0 .. n : k \in G
<1> SUFFICES ASSUME NEW j \in 0 .. n, j \notin G
             PROVE  FALSE
  OBVIOUS
<1> DEFINE T == {k \in 0 .. n : k \notin G}
<1>1. PICK x \in T : \A y \in T : x <= y
  <2>1. T \in SUBSET Nat /\ T # {}
    OBVIOUS
  <2> HIDE DEF T
  <2> QED BY <2>1, Least
<1>2. x \in 1 .. n
  OBVIOUS
<1>3. x - 1 \in 0 .. n /\ ~ (x <= x - 1)
  BY <1>2
<1>4. x - 1 \notin T
  BY <1>1, <1>3
<1> QED BY <1>2, <1>3, <1>4

(***************************************************************************)
(* The loop that prunes                                                    *)
(***************************************************************************)

Asset == [file : Nat, time : Nat]

\* The loop from its first turn on.
FirstTurn(s) == [files |-> s, i |-> 1]

\* The table Turns chooses does exist, so that Turns is what its definition says.
LEMMA TurnsExist ==
  ASSUME NEW s, NEW n \in Nat
  PROVE  \E t : t = [k \in 0 .. n |-> IF k = 0 THEN FirstTurn(s) ELSE Turn(t[k - 1])]
<1> DEFINE G == {k \in 0 .. n : \E t : t = [j \in 0 .. k |->
                   IF j = 0 THEN FirstTurn(s) ELSE Turn(t[j - 1])]}
<1>1. 0 \in G
  <2> DEFINE t == [j \in 0 .. 0 |-> FirstTurn(s)]
  <2>1. t = [j \in 0 .. 0 |-> IF j = 0 THEN FirstTurn(s) ELSE Turn(t[j - 1])]
    OBVIOUS
  <2> HIDE DEF t
  <2>2. 0 \in 0 .. n
    OBVIOUS
  <2> QED BY <2>1, <2>2
<1>2. ASSUME NEW k \in 1 .. n, k - 1 \in G
      PROVE  k \in G
  <2>1. PICK t : t = [j \in 0 .. k - 1 |-> IF j = 0 THEN FirstTurn(s) ELSE Turn(t[j - 1])]
    BY <1>2
  <2> DEFINE u == [j \in 0 .. k |-> IF j = k THEN Turn(t[k - 1]) ELSE t[j]]
  <2>2. ASSUME NEW j \in 0 .. k
        PROVE  u[j] = IF j = 0 THEN FirstTurn(s) ELSE Turn(u[j - 1])
    <3>1. CASE j = 0
      <4>1. u[j] = t[0] /\ 0 \in 0 .. k - 1
        BY <3>1
      <4> QED BY <2>1, <3>1, <4>1
    <3>2. CASE j # 0
      <4>1. j - 1 \in 0 .. k - 1 /\ j - 1 # k /\ j - 1 \in 0 .. k
        BY <3>2
      <4>2. u[j - 1] = t[j - 1]
        BY <4>1
      <4>3. CASE j = k
        BY <3>2, <4>2, <4>3
      <4>4. CASE j # k
        <5>1. u[j] = t[j] /\ j \in 0 .. k - 1
          BY <4>4
        <5>2. t[j] = Turn(t[j - 1])
          BY <2>1, <3>2, <5>1
        <5> QED BY <3>2, <4>2, <5>1, <5>2
      <4> QED BY <4>3, <4>4
    <3> QED BY <3>1, <3>2
  <2>3. u = [j \in 0 .. k |-> IF j = 0 THEN FirstTurn(s) ELSE Turn(u[j - 1])]
    BY <2>2
  <2> HIDE DEF u
  <2>4. k \in 0 .. n
    OBVIOUS
  <2> QED BY <2>3, <2>4
<1>3. n \in G
  <2> HIDE DEF G
  <2> QED BY <1>1, <1>2, Reaches
<1> QED BY <1>3

\* The loop's turns one by one.
LEMMA TurnsAre ==
  ASSUME NEW s, Len(s) \in Nat
  PROVE  \A k \in 0 .. Len(s) :
           Turns(s)[k] = IF k = 0 THEN FirstTurn(s) ELSE Turn(Turns(s)[k - 1])
<1>1. Turns(s) = CHOOSE t : t = [k \in 0 .. Len(s) |->
                   IF k = 0 THEN FirstTurn(s) ELSE Turn(t[k - 1])]
  BY DEF Turns, FirstTurn
<1>2. Turns(s) = [k \in 0 .. Len(s) |->
                   IF k = 0 THEN FirstTurn(s) ELSE Turn(Turns(s)[k - 1])]
  BY <1>1, TurnsExist
<1> QED BY <1>2

\* Names and times of a root's icon files, in whatever order.
Entries(s) == {s[j] : j \in DOMAIN s}

\* With `left` entries still to be looked at.
Pruning(s, x, left) ==
  /\ x \in [files : Seq(Asset), i : Nat \ {0}]
  /\ Len(x.files) + 1 = x.i + left
  /\ \A j \in 1 .. x.i - 1 : ~ Expired(x.files[j])
  /\ Entries(x.files) \subseteq Entries(s)
  /\ \A e \in Entries(s) : ~ Expired(e) => e \in Entries(x.files)

LEMMA PruningIs ==
  ASSUME NEW s, NEW x \in [files : Seq(Asset), i : Nat \ {0}], NEW left,
         NEW f, NEW i, x.files = f, x.i = i,
         Len(f) + 1 = i + left,
         \A j \in 1 .. i - 1 : ~ Expired(f[j]),
         Entries(f) \subseteq Entries(s),
         \A e \in Entries(s) : ~ Expired(e) => e \in Entries(f)
  PROVE  Pruning(s, x, left)
BY DEF Pruning

\* A turn drops an entry that has expired, or goes on to the next.
LEMMA OneTurn ==
  ASSUME NEW s \in Seq(Asset), NEW x, NEW left \in Nat, left # 0, Pruning(s, x, left)
  PROVE  Pruning(s, Turn(x), left - 1)
<1> DEFINE f == x.files
           i == x.i
<1>1. /\ x = [files |-> f, i |-> i] /\ f \in Seq(Asset) /\ i \in Nat \ {0}
      /\ Len(f) + 1 = i + left /\ i \in DOMAIN f
      /\ \A j \in 1 .. i - 1 : ~ Expired(f[j])
      /\ Entries(f) \subseteq Entries(s)
      /\ \A e \in Entries(s) : ~ Expired(e) => e \in Entries(f)
  BY DEF Pruning
<1>2. CASE ~ Expired(f[i])
  <2> DEFINE k == i + 1
  <2>1. Turn(x) = [files |-> f, i |-> k]
    BY <1>1, <1>2 DEF Turn
  <2> HIDE DEF f, i
  <2>2. Len(f) + 1 = k + (left - 1) /\ k \in Nat \ {0}
    BY <1>1
  <2>3. \A j \in 1 .. k - 1 : ~ Expired(f[j])
    <3> TAKE j \in 1 .. k - 1
    <3>1. i \in Nat /\ (j = i \/ j \in 1 .. i - 1)
      BY <1>1
    <3> QED BY <1>1, <1>2, <3>1
  <2> HIDE DEF k
  <2>4. /\ Turn(x).files = f /\ Turn(x).i = k
        /\ Turn(x) \in [files : Seq(Asset), i : Nat \ {0}]
    BY <1>1, <2>1, <2>2
  <2>5. /\ Entries(f) \subseteq Entries(s)
        /\ \A e \in Entries(s) : ~ Expired(e) => e \in Entries(f)
    BY <1>1
  <2> QED BY ONLY <2>2, <2>3, <2>4, <2>5, PruningIs
<1>3. CASE Expired(f[i])
  <2> DEFINE g == [j \in 1 .. Len(f) - 1 |-> IF j = i THEN f[Len(f)] ELSE f[j]]
  <2>1. Turn(x) = [files |-> g, i |-> i]
    <3>1. Front([f EXCEPT ![i] = Last(f)]) = g
      BY <1>1 DEF Front, Last
    <3> QED BY <1>1, <1>3, <3>1 DEF Turn
  <2> HIDE DEF f, i
  <2>2. /\ g \in Seq(Asset) /\ Len(g) = Len(f) - 1 /\ DOMAIN g = 1 .. Len(f) - 1
        /\ \A j \in 1 .. Len(f) - 1 : g[j] = IF j = i THEN f[Len(f)] ELSE f[j]
    BY <1>1
  <2> HIDE DEF g
  <2>3. Entries(g) \subseteq Entries(f)
    BY <1>1, <2>2 DEF Entries
  <2>4. ASSUME NEW e \in Entries(f), ~ Expired(e)
        PROVE  e \in Entries(g)
    <3>1. PICK j \in DOMAIN f : e = f[j]
      BY DEF Entries
    <3>2. j # i
      BY <1>3, <2>4, <3>1
    <3>3. CASE j = Len(f)
      BY <1>1, <2>2, <3>1, <3>2, <3>3 DEF Entries
    <3>4. CASE j # Len(f)
      BY <1>1, <2>2, <3>1, <3>2, <3>4 DEF Entries
    <3> QED BY <3>3, <3>4
  <2>5. \A j \in 1 .. i - 1 : g[j] = f[j]
    BY <1>1, <2>2
  <2>6. /\ Turn(x).files = g /\ Turn(x).i = i
        /\ Turn(x) \in [files : Seq(Asset), i : Nat \ {0}]
        /\ Len(g) + 1 = i + (left - 1)
    BY <1>1, <2>1, <2>2
  <2>7. \A j \in 1 .. i - 1 : ~ Expired(g[j])
    BY <1>1, <2>5
  <2>8. Entries(g) \subseteq Entries(s)
    BY <1>1, <2>3
  <2>9. \A e \in Entries(s) : ~ Expired(e) => e \in Entries(g)
    BY <1>1, <2>4
  <2> QED BY ONLY <2>6, <2>7, <2>8, <2>9, PruningIs
<1> QED BY <1>2, <1>3

\* The loop drops what has expired and nothing else.
LEMMA Prunes ==
  ASSUME NEW s \in Seq(Asset)
  PROVE  /\ Prune(s) \in Seq(Asset)
         /\ Entries(Prune(s)) = {e \in Entries(s) : ~ Expired(e)}
<1> DEFINE G == {k \in 0 .. Len(s) : Pruning(s, Turns(s)[k], Len(s) - k)}
<1>1. 0 \in G
  <2>1. Turns(s)[0] = FirstTurn(s)
    BY TurnsAre
  <2> QED BY <2>1 DEF Pruning, FirstTurn
<1>2. ASSUME NEW k \in 1 .. Len(s), k - 1 \in G
      PROVE  k \in G
  <2>1. Turns(s)[k] = Turn(Turns(s)[k - 1])
    BY TurnsAre
  <2>2. Pruning(s, Turns(s)[k - 1], Len(s) - k + 1)
    BY <1>2
  <2>3. Len(s) - k + 1 \in Nat /\ Len(s) - k + 1 # 0 /\ Len(s) - k + 1 - 1 = Len(s) - k
    OBVIOUS
  <2> HIDE DEF G
  <2>4. Pruning(s, Turns(s)[k], Len(s) - k)
    BY <2>1, <2>2, <2>3, OneTurn
  <2> QED BY <2>4 DEF G
<1> HIDE DEF G
<1>3. Len(s) \in G
  <2>1. Len(s) \in Nat /\ Len(s) \in 0 .. Len(s)
    OBVIOUS
  <2>2. \A k \in 1 .. Len(s) : k - 1 \in G => k \in G
    BY <1>2
  <2> QED BY <1>1, <2>1, <2>2, Reaches
<1>4. Pruning(s, Turns(s)[Len(s)], 0)
  BY <1>3 DEF G
<1> DEFINE x == Turns(s)[Len(s)]
<1>5. /\ x.files \in Seq(Asset) /\ x.i = Len(x.files) + 1
      /\ \A j \in 1 .. x.i - 1 : ~ Expired(x.files[j])
      /\ Entries(x.files) \subseteq Entries(s)
      /\ \A e \in Entries(s) : ~ Expired(e) => e \in Entries(x.files)
  BY <1>4 DEF Pruning
<1>6. \A e \in Entries(x.files) : ~ Expired(e)
  BY <1>5 DEF Entries
<1> QED BY <1>5, <1>6 DEF Prune



FilesOf(es) == {e.file : e \in es}

\* The names of the files in a table, whatever their order.
LEMMA FilesAre ==
  ASSUME NEW s \in Seq(Asset)
  PROVE  Files(s) = FilesOf(Entries(s)) /\ FilesOf(Entries(s)) \subseteq Nat
<1>1. Entries(s) \subseteq Asset
  BY DEF Entries
<1> QED BY <1>1 DEF Files, FilesOf, Entries, Asset

\* The entries of two tables put together.
LEMMA OfConcatenation ==
  ASSUME NEW p \in Seq(Asset), NEW q \in Seq(Asset)
  PROVE  Entries(p \o q) = Entries(p) \cup Entries(q)
<1> DEFINE pq == p \o q
<1>1. /\ pq \in Seq(Asset) /\ Len(pq) = Len(p) + Len(q)
      /\ \A i \in 1 .. Len(p) + Len(q) :
           pq[i] = IF i <= Len(p) THEN p[i] ELSE q[i - Len(p)]
  BY ConcatProperties
<1> HIDE DEF pq
<1>2. ASSUME NEW e \in Entries(pq)
      PROVE  e \in Entries(p) \cup Entries(q)
  <2>1. PICK i \in 1 .. Len(p) + Len(q) : e = pq[i]
    BY <1>1 DEF Entries
  <2>2. CASE i <= Len(p)
    BY <1>1, <2>1, <2>2 DEF Entries
  <2>3. CASE ~ (i <= Len(p))
    <3>1. i - Len(p) \in DOMAIN q /\ e = q[i - Len(p)]
      BY <1>1, <2>1, <2>3
    <3> QED BY <3>1 DEF Entries
  <2> QED BY <2>2, <2>3
<1>3. ASSUME NEW e \in Entries(p)
      PROVE  e \in Entries(pq)
  <2>1. PICK i \in DOMAIN p : e = p[i]
    BY DEF Entries
  <2>2. i \in DOMAIN pq /\ pq[i] = e
    BY <1>1, <2>1
  <2> QED BY <2>2 DEF Entries
<1>4. ASSUME NEW e \in Entries(q)
      PROVE  e \in Entries(pq)
  <2>1. PICK i \in DOMAIN q : e = q[i]
    BY DEF Entries
  <2>2. Len(p) + i \in DOMAIN pq /\ pq[Len(p) + i] = e
    BY <1>1, <2>1
  <2> QED BY <2>2 DEF Entries
<1> QED BY <1>2, <1>3, <1>4 DEF pq

\* The names after one more entry.
LEMMA OneMoreFile ==
  ASSUME NEW es, NEW x
  PROVE  FilesOf(es \cup {x}) = FilesOf(es) \cup {x.file}
BY DEF FilesOf

EntriesAfter(old, rs, ok, number, n) ==
  IF n \notin rs THEN Entries(old[n])
  ELSE {e \in Entries(old[n]) : ~ Expired(e)} \cup
       (IF n \in ok THEN {[file |-> number[n], time |-> now]} ELSE {})

\* update_status_icon: what is not expired stays, and the new icon comes on top.
LEMMA Updates ==
  ASSUME NEW old \in [Names -> Seq(Asset)], NEW rs \in SUBSET Names, NEW ok \in SUBSET rs,
         NEW number, \A r \in ok : number[r] \in Nat, now \in Nat
  PROVE  /\ Updated(old, rs, ok, number) \in [Names -> Seq(Asset)]
         /\ \A n \in Names :
              Entries(Updated(old, rs, ok, number)[n]) =
                EntriesAfter(old, rs, ok, number, n)
<1> DEFINE u == Updated(old, rs, ok, number)
<1>1. ASSUME NEW n \in Names
      PROVE  /\ u[n] \in Seq(Asset)
             /\ Entries(u[n]) =
                IF n \notin rs THEN Entries(old[n])
                ELSE {e \in Entries(old[n]) : ~ Expired(e)} \cup
                     (IF n \in ok THEN {[file |-> number[n], time |-> now]} ELSE {})
  <2>1. CASE n \notin rs
    BY <2>1 DEF Updated
  <2>2. CASE n \in rs
    <3> DEFINE p == Prune(old[n])
               q == IF n \in ok THEN <<[file |-> number[n], time |-> now]>> ELSE <<>>
    <3>1. u[n] = p \o q
      BY <2>2 DEF Updated
    <3>2. p \in Seq(Asset) /\ Entries(p) = {e \in Entries(old[n]) : ~ Expired(e)}
      BY Prunes
    <3>3. /\ q \in Seq(Asset)
          /\ Entries(q) = IF n \in ok THEN {[file |-> number[n], time |-> now]} ELSE {}
      <4>1. CASE n \in ok
        <5> DEFINE e == [file |-> number[n], time |-> now]
        <5>1. e \in Asset /\ q = <<e>>
          BY <4>1 DEF Asset
        <5> HIDE DEF e, q
        <5>2. q \in Seq(Asset) /\ Entries(q) = {e}
          BY <5>1 DEF Entries
        <5> QED BY <4>1, <5>2 DEF e
      <4>2. CASE n \notin ok
        BY <4>2 DEF Entries
      <4> QED BY <4>1, <4>2
    <3> HIDE DEF p, q, u
    <3>4. Entries(p \o q) = Entries(p) \cup Entries(q)
      BY <3>2, <3>3, OfConcatenation
    <3> QED BY <2>2, <3>1, <3>2, <3>3, <3>4
  <2> QED BY <2>1, <2>2
<1>2. DOMAIN u = Names
  BY DEF Updated
<1>3. u = [n \in Names |-> u[n]]
  BY <1>2 DEF Updated
<1> HIDE DEF u
<1>4. u \in [Names -> Seq(Asset)]
  BY <1>1, <1>3
<1>5. \A n \in Names : Entries(u[n]) = EntriesAfter(old, rs, ok, number, n)
  BY <1>1 DEF EntriesAfter
<1> QED BY <1>4, <1>5 DEF u

\* Each root takes a number of its own, above those taken before.
LEMMA Numbers ==
  ASSUME NEW m \in Menus, NEW ok \in SUBSET Roots(m), sequence \in Nat
  PROVE  /\ Cardinality(ok) \in Nat
         /\ \A r \in ok : Number(m, ok)[r] \in Nat
         /\ \A r \in ok : Number(m, ok)[r] <= sequence + Len(m.roots) + Cardinality(ok)
         /\ \A q, r \in ok : Number(m, ok)[q] = Number(m, ok)[r] => q = r
<1> DEFINE upto(r) == {q \in ok : Position(m, q) <= Position(m, r)}
           N(r) == sequence + Position(m, r) + Cardinality(upto(r))
<1>1. /\ m.roots \in Seq(Names)
      /\ \A i, j \in DOMAIN m.roots : m.roots[i] = m.roots[j] => i = j
  BY MenuAssumption DEF WellFormed
<1>2. IsFiniteSet(Roots(m))
  <2>1. m.roots \in Surjection(1 .. Len(m.roots), Roots(m))
    BY <1>1 DEF Surjection, Roots
  <2>2. IsFiniteSet(1 .. Len(m.roots))
    BY <1>1, FS_Interval
  <2> QED BY <2>1, <2>2, FS_Surjection
<1>3. IsFiniteSet(ok) /\ Cardinality(ok) \in Nat
  BY <1>2, FS_Subset, FS_CardinalityType
<1>4. \A r \in ok : Position(m, r) \in 1 .. Len(m.roots) /\ m.roots[Position(m, r)] = r
  BY <1>1 DEF Position, Roots
<1>5. \A r \in ok : /\ IsFiniteSet(upto(r)) /\ Cardinality(upto(r)) \in Nat
                    /\ Cardinality(upto(r)) <= Cardinality(ok)
  <2> TAKE r \in ok
  <2>1. upto(r) \in SUBSET ok
    OBVIOUS
  <2> HIDE DEF upto
  <2> QED BY <1>3, <2>1, FS_Subset, FS_CardinalityType
<1>6. ASSUME NEW q \in ok, NEW r \in ok, Position(m, q) < Position(m, r)
      PROVE  N(q) < N(r)
  <2>1. upto(q) \in SUBSET upto(r)
    BY <1>1, <1>4, <1>6
  <2> HIDE DEF upto
  <2>2. Cardinality(upto(q)) <= Cardinality(upto(r))
    BY <1>5, <2>1, FS_Subset
  <2> QED BY <1>1, <1>4, <1>5, <1>6, <2>2
<1>7. \A r \in ok : Number(m, ok)[r] = N(r)
  BY DEF Number
<1> HIDE DEF upto
<1>8. \A r \in ok : N(r) \in Nat /\ N(r) <= sequence + Len(m.roots) + Cardinality(ok)
  BY <1>1, <1>3, <1>4, <1>5
<1> HIDE DEF N
<1>9. ASSUME NEW q \in ok, NEW r \in ok, N(q) = N(r)
      PROVE  q = r
  <2>1. ~ (N(q) < N(r)) /\ ~ (N(r) < N(q))
    BY <1>8, <1>9
  <2>2. ~ (Position(m, q) < Position(m, r)) /\ ~ (Position(m, r) < Position(m, q))
    BY <1>6, <2>1
  <2>3. Position(m, q) = Position(m, r)
    BY <1>1, <1>4, <2>2
  <2> QED BY <1>4, <2>3
<1> QED BY <1>3, <1>7, <1>8, <1>9

(***************************************************************************)
(* The Linux helper                                                        *)
(***************************************************************************)

Publication == [root : Names, file : Nat, time : Nat]

LinuxTypeOK ==
  /\ installed \in Installable
  /\ marked \in SUBSET Names
  /\ assets \in [Names -> Seq(Asset)]
  /\ sequence \in Nat /\ now \in Nat
  /\ published \in SUBSET Publication

\* A root that shows an icon still has the file of the newest one.
Shows(r) ==
  \E p \in published : /\ p.root = r
                       /\ \A q \in published : q.root = r => q.file <= p.file
                       /\ p.file \in Files(assets[r])

IconsTracked ==
  /\ disk = UNION {Files(assets[n]) : n \in Names}
  /\ \A p \in published : now - p.time <= Grace =>
       [file |-> p.file, time |-> p.time] \in Entries(assets[p.root])
  /\ \A r \in Roots(installed) \ blank : Shows(r)

\* Numbers are not used twice, so no root prunes another one's files.
NumbersFresh ==
  /\ \A n \in Names : \A f \in Files(assets[n]) : f <= sequence
  /\ \A p \in published : p.file <= sequence
  /\ \A n, k \in Names : n # k => Files(assets[n]) \cap Files(assets[k]) = {}

WidgetsMarked == \A n \in Names : widget[n] = "dead" => n \in marked

LinuxIInv == /\ LinuxTypeOK /\ IconsTracked /\ WidgetsMarked
             /\ running => NumbersFresh

\* A step that leaves menus, widgets and icons alone, be it as time goes by.
LEMMA LinuxRests ==
  ASSUME LinuxIInv, UNCHANGED <<installed, running, marked, widget, iconVars>>,
         now' \in Nat, now' >= now
  PROVE  LinuxIInv'
<1> USE DEF LinuxIInv, iconVars
<1>1. LinuxTypeOK'
  BY DEF LinuxTypeOK
<1>2. \A p \in published : p.time \in Nat
  BY DEF LinuxTypeOK, Publication
<1>3. IconsTracked'
  <2>1. ASSUME NEW p \in published, now' - p.time <= Grace
        PROVE  now - p.time <= Grace
    BY <1>2, <2>1, IconAssumption DEF LinuxTypeOK
  <2>2. Roots(installed)' = Roots(installed) /\ \A r : Shows(r)' = Shows(r)
    BY DEF Roots, Shows
  <2> QED BY <2>1, <2>2 DEF IconsTracked
<1>4. WidgetsMarked' /\ (running' => NumbersFresh')
  BY DEF WidgetsMarked, NumbersFresh
<1> QED BY <1>1, <1>3, <1>4

\* What is left of an item's files by clear_roots: nothing, on disk or in the tables.
LEMMA Cleared ==
  ASSUME LinuxIInv
  PROVE  /\ ClearedDisk = {}
         /\ NoAssets \in [Names -> Seq(Asset)]
         /\ \A n \in Names : Files(NoAssets[n]) = {} /\ Entries(NoAssets[n]) = {}
BY DEF LinuxIInv, IconsTracked, ClearedDisk, NoAssets, Files, Entries

\* Installing, whole or broken off: each icon saved is on disk and in the table
\* of its root.
LEMMA Installing ==
  ASSUME LinuxIInv, NEW m \in Menus, NEW ok \in SUBSET Roots(m),
         NEW rs \in SUBSET Names, ok \subseteq rs,
         assets' = Updated(NoAssets, rs, ok, Number(m, ok)),
         disk' = ClearedDisk \cup {Number(m, ok)[r] : r \in ok},
         published' = Publishes(Number(m, ok)), now' = now
  PROVE  /\ assets' \in [Names -> Seq(Asset)]
         /\ \A n \in Names : Files(assets'[n]) = IF n \in ok THEN {Number(m, ok)[n]} ELSE {}
         /\ disk' = UNION {Files(assets'[n]) : n \in Names}
         /\ published' \in SUBSET Publication
         /\ \A p \in published' :
              /\ p.root \in ok /\ p.file = Number(m, ok)[p.root]
              /\ [file |-> p.file, time |-> p.time] \in Entries(assets'[p.root])
         /\ \A r \in ok : Shows(r)'
<1> DEFINE number == Number(m, ok)
<1>1. DOMAIN number = ok
  BY DEF Number
<1>2. now \in Nat /\ sequence \in Nat
  BY DEF LinuxIInv, LinuxTypeOK
<1>3. \A r \in ok : number[r] \in Nat
  BY <1>2, Numbers
<1> HIDE DEF number
<1>4. assets' = Updated(NoAssets, rs, ok, number) /\ ok \in SUBSET rs
  BY DEF number
<1>5. /\ assets' \in [Names -> Seq(Asset)]
      /\ \A n \in Names :
           Entries(assets'[n]) = IF n \in ok THEN {[file |-> number[n], time |-> now]} ELSE {}
  <2>1. /\ Updated(NoAssets, rs, ok, number) \in [Names -> Seq(Asset)]
        /\ \A n \in Names :
              Entries(Updated(NoAssets, rs, ok, number)[n]) =
                EntriesAfter(NoAssets, rs, ok, number, n)
    <3>1. NoAssets \in [Names -> Seq(Asset)] /\ \A r \in ok : number[r] \in Nat
      BY <1>3, Cleared
    <3>2. now \in Nat /\ rs \in SUBSET Names /\ ok \in SUBSET rs
      BY <1>2, <1>4
    <3> QED BY ONLY <3>1, <3>2, Updates
  <2>2. ASSUME NEW n \in Names
        PROVE  EntriesAfter(NoAssets, rs, ok, number, n) =
                 IF n \in ok THEN {[file |-> number[n], time |-> now]} ELSE {}
    BY <1>4, Cleared DEF EntriesAfter
  <2> QED BY <1>4, <2>1, <2>2
<1>6. \A n \in Names : Files(assets'[n]) = IF n \in ok THEN {number[n]} ELSE {}
  <2> TAKE n \in Names
  <2>1. Files(assets'[n]) = FilesOf(Entries(assets'[n]))
    <3>1. assets'[n] \in Seq(Asset)
      BY <1>5
    <3> QED BY ONLY <3>1, FilesAre
  <2>2. CASE n \in ok
    <3>1. Entries(assets'[n]) = {[file |-> number[n], time |-> now]}
      BY <1>5, <2>2
    <3> QED BY <2>1, <2>2, <3>1 DEF FilesOf
  <2>3. CASE n \notin ok
    <3>1. Entries(assets'[n]) = {}
      BY <1>5, <2>3
    <3> QED BY <2>1, <2>3, <3>1 DEF FilesOf
  <2> QED BY <2>2, <2>3
<1>7. disk' = UNION {Files(assets'[n]) : n \in Names}
  <2>1. disk' = {number[r] : r \in ok}
    BY Cleared DEF number
  <2>2. ok \subseteq Names
    OBVIOUS
  <2>3. \A r \in ok : number[r] \in Files(assets'[r])
    BY <1>6, <2>2
  <2>4. \A n \in Names : \A f \in Files(assets'[n]) : n \in ok /\ f = number[n]
    BY <1>6
  <2> QED BY <2>1, <2>2, <2>3, <2>4
<1>8. published' = {[root |-> r, file |-> number[r], time |-> now] : r \in ok}
  BY <1>1 DEF Publishes, number
<1>9. ok \subseteq Names
  OBVIOUS
<1>10. published' \in SUBSET Publication
  BY <1>2, <1>3, <1>8, <1>9 DEF Publication
<1>11. \A p \in published' :
         /\ p.root \in ok /\ p.file = number[p.root]
         /\ [file |-> p.file, time |-> p.time] \in Entries(assets'[p.root])
  BY <1>5, <1>8, <1>9
<1>12. ASSUME NEW r \in ok
       PROVE  Shows(r)'
  <2> DEFINE p == [root |-> r, file |-> number[r], time |-> now]
  <2>1. p \in published' /\ p.root = r /\ p.file \in Files(assets'[r])
    BY <1>6, <1>8, <1>9
  <2>2. \A q \in published' : q.root = r => q.file <= p.file
    BY <1>3, <1>8
  <2> QED BY <2>1, <2>2 DEF Shows
<1> QED BY <1>5, <1>6, <1>7, <1>10, <1>11, <1>12 DEF number

\* install_roots, whichever icons could be rendered.
LEMMA LinuxInstallStep ==
  ASSUME LinuxIInv, NEW m \in Menus, install_roots(m)
  PROVE  LinuxIInv'
<1> DEFINE rs == Roots(m)
<1>1. PICK ok \in SUBSET rs :
        /\ assets' = Updated(NoAssets, rs, ok, Number(m, ok))
        /\ disk' = ClearedDisk \cup {Number(m, ok)[r] : r \in ok}
        /\ published' = Publishes(Number(m, ok))
        /\ blank' = rs \ ok
        /\ sequence' = sequence + Len(m.roots) + Cardinality(ok)
  BY DEF install_roots
<1>2. /\ installed' = m /\ marked' = {} /\ now' = now
      /\ widget' = [n \in Names |-> BuiltWidget(m, n)]
  BY DEF install_roots
<1>3. rs \in SUBSET Names /\ Len(m.roots) \in Nat
  BY MenuAssumption DEF WellFormed, Roots
<1>4. sequence \in Nat /\ now \in Nat
  BY DEF LinuxIInv, LinuxTypeOK
<1> HIDE DEF rs
<1>5. /\ assets' \in [Names -> Seq(Asset)]
      /\ \A n \in Names : Files(assets'[n]) = IF n \in ok THEN {Number(m, ok)[n]} ELSE {}
      /\ disk' = UNION {Files(assets'[n]) : n \in Names}
      /\ published' \in SUBSET Publication
      /\ \A p \in published' :
           /\ p.root \in ok /\ p.file = Number(m, ok)[p.root]
           /\ [file |-> p.file, time |-> p.time] \in Entries(assets'[p.root])
      /\ \A r \in ok : Shows(r)'
  <2>1. ok \in SUBSET Roots(m)
    BY DEF rs
  <2> QED BY <1>1, <1>2, <1>3, <2>1, Installing
<1>6. /\ Cardinality(ok) \in Nat
      /\ \A r \in ok : Number(m, ok)[r] <= sequence + Len(m.roots) + Cardinality(ok)
      /\ \A q, r \in ok : Number(m, ok)[q] = Number(m, ok)[r] => q = r
  BY <1>4, Numbers DEF rs
<1>7. LinuxTypeOK'
  BY <1>1, <1>2, <1>3, <1>4, <1>5, <1>6 DEF LinuxTypeOK, Installable
<1>8. IconsTracked'
  <2>1. Roots(installed)' \ blank' = ok
    BY <1>1, <1>2 DEF rs, Roots
  <2> QED BY <1>5, <2>1 DEF IconsTracked
<1>9. WidgetsMarked'
  BY <1>2 DEF WidgetsMarked, BuiltWidget
<1>10. NumbersFresh'
  <2> DEFINE N(r) == Number(m, ok)[r]
  <2>1. /\ \A n \in Names : \A f \in Files(assets'[n]) : n \in ok /\ f = N(n)
        /\ \A p \in published' : p.root \in ok /\ p.file = N(p.root)
    BY <1>5
  <2>2. /\ \A r \in ok : N(r) <= sequence'
        /\ \A q, r \in ok : N(q) = N(r) => q = r
    BY <1>1, <1>6
  <2> HIDE DEF N
  <2> QED BY <2>1, <2>2 DEF NumbersFresh
<1> QED BY <1>7, <1>8, <1>9, <1>10 DEF LinuxIInv

\* exit(2) within a run: what was saved before stays and is known.
LEMMA RunFailsStep ==
  ASSUME LinuxIInv, NEW m \in Menus, RunFails(m)
  PROVE  LinuxIInv'
<1>1. PICK done \in 0 .. (Len(m.roots) - 1) : \E ok \in SUBSET {m.roots[i] : i \in 1 .. done} :
        /\ assets' = Updated(NoAssets, ok, ok, Number(m, ok))
        /\ disk' = ClearedDisk \cup {Number(m, ok)[r] : r \in ok}
        /\ published' = Publishes(Number(m, ok))
  BY DEF RunFails
<1>2. PICK ok \in SUBSET {m.roots[i] : i \in 1 .. done} :
        /\ assets' = Updated(NoAssets, ok, ok, Number(m, ok))
        /\ disk' = ClearedDisk \cup {Number(m, ok)[r] : r \in ok}
        /\ published' = Publishes(Number(m, ok))
  BY <1>1
<1>3. /\ Exits /\ UNCHANGED <<sequence, now>>
  BY DEF RunFails
<1>4. m.roots \in Seq(Names)
  BY MenuAssumption DEF WellFormed
<1>5. ok \in SUBSET Roots(m) /\ ok \in SUBSET Names
  BY <1>4 DEF Roots
<1>6. /\ assets' \in [Names -> Seq(Asset)]
      /\ disk' = UNION {Files(assets'[n]) : n \in Names}
      /\ published' \in SUBSET Publication
      /\ \A p \in published' :
           [file |-> p.file, time |-> p.time] \in Entries(assets'[p.root])
  BY <1>2, <1>3, <1>5, Installing
<1>7. LinuxTypeOK'
  BY <1>3, <1>6 DEF LinuxIInv, LinuxTypeOK, Exits, Installable
<1>8. IconsTracked'
  BY <1>3, <1>6 DEF IconsTracked, Exits, EmptyMenu, Roots
<1>9. WidgetsMarked' /\ ~ running'
  BY <1>3 DEF WidgetsMarked, Exits
<1> QED BY <1>7, <1>8, <1>9 DEF LinuxIInv

\* clear_roots deletes every file the items know.
LEMMA LinuxQuitStep ==
  ASSUME LinuxIInv, LinuxQuit
  PROVE  LinuxIInv'
<1>1. /\ Exits /\ UNCHANGED <<sequence, now>>
      /\ assets' = NoAssets /\ disk' = {} /\ published' = {}
  BY Cleared DEF LinuxQuit
<1>2. LinuxTypeOK'
  BY <1>1, Cleared DEF LinuxIInv, LinuxTypeOK, Exits, Installable
<1>3. IconsTracked'
  <2>1. \A n \in Names : Files(assets'[n]) = {}
    BY <1>1, Cleared
  <2> QED BY <1>1, <2>1 DEF IconsTracked, Exits, EmptyMenu, Roots
<1>4. WidgetsMarked' /\ ~ running'
  BY <1>1 DEF WidgetsMarked, Exits
<1> QED BY <1>2, <1>3, <1>4 DEF LinuxIInv

\* The icon command for a root: its own files only are pruned.
LEMMA Iconing ==
  ASSUME LinuxIInv, running, NEW n \in Names
  PROVE  LET kept == Updated(assets, {n}, {}, <<>>)
         IN /\ kept \in [Names -> Seq(Asset)]
            /\ \A k \in Names \ {n} : Entries(kept[k]) = Entries(assets[k])
            /\ Entries(kept[n]) = {e \in Entries(assets[n]) : ~ Expired(e)}
            /\ Files(kept[n]) \subseteq Files(assets[n])
            /\ \A k \in Names \ {n} : Files(kept[k]) = Files(assets[k])
            /\ disk \ (Files(assets[n]) \ Files(kept[n])) = UNION {Files(kept[k]) : k \in Names}
<1> DEFINE kept == Updated(assets, {n}, {}, <<>>)
<1>1. assets \in [Names -> Seq(Asset)] /\ now \in Nat
  BY DEF LinuxIInv, LinuxTypeOK
<1>2. /\ kept \in [Names -> Seq(Asset)]
      /\ \A k \in Names : Entries(kept[k]) = EntriesAfter(assets, {n}, {}, <<>>, k)
  <2>1. {n} \in SUBSET Names /\ {} \in SUBSET {n} /\ \A r \in {} : <<>>[r] \in Nat
    OBVIOUS
  <2> QED BY ONLY <1>1, <2>1, Updates
<1> HIDE DEF kept
<1>3. /\ \A k \in Names \ {n} : Entries(kept[k]) = Entries(assets[k])
      /\ Entries(kept[n]) = {e \in Entries(assets[n]) : ~ Expired(e)}
  BY <1>2 DEF EntriesAfter
<1>4. \A k \in Names : /\ Files(kept[k]) = FilesOf(Entries(kept[k]))
                       /\ Files(assets[k]) = FilesOf(Entries(assets[k]))
  BY <1>1, <1>2, FilesAre
<1>5. Files(kept[n]) \subseteq Files(assets[n])
  BY <1>3, <1>4 DEF FilesOf
<1>6. \A k \in Names \ {n} : Files(kept[k]) = Files(assets[k])
  BY <1>3, <1>4
<1>7. disk \ (Files(assets[n]) \ Files(kept[n])) = UNION {Files(kept[k]) : k \in Names}
  <2>1. disk = UNION {Files(assets[k]) : k \in Names}
    BY DEF LinuxIInv, IconsTracked
  <2>2. \A k \in Names \ {n} : Files(assets[k]) \cap Files(assets[n]) = {}
    BY DEF LinuxIInv, NumbersFresh
  <2> QED BY <1>5, <1>6, <2>1, <2>2
<1> QED BY <1>2, <1>3, <1>5, <1>6, <1>7 DEF kept

\* Pruning alone takes no number.
LEMMA NumberUnused ==
  ASSUME NEW old, NEW rs, NEW a, NEW b
  PROVE  Updated(old, rs, {}, a) = Updated(old, rs, {}, b)
BY DEF Updated

\* What was published and is not expired survives pruning.
LEMMA PublishedKept ==
  ASSUME LinuxIInv, running, NEW n \in Names, NEW p \in published, now - p.time <= Grace
  PROVE  [file |-> p.file, time |-> p.time] \in
           Entries(Updated(assets, {n}, {}, <<>>)[p.root])
<1> DEFINE e == [file |-> p.file, time |-> p.time]
           kept == Updated(assets, {n}, {}, <<>>)
<1>1. /\ \A k \in Names \ {n} : Entries(kept[k]) = Entries(assets[k])
      /\ Entries(kept[n]) = {x \in Entries(assets[n]) : ~ Expired(x)}
  BY Iconing
<1> HIDE DEF kept
<1>2. e \in Entries(assets[p.root]) /\ p.root \in Names
  BY DEF LinuxIInv, LinuxTypeOK, IconsTracked, Publication
<1>3. ~ Expired(e)
  BY IconAssumption DEF Expired, LinuxIInv, LinuxTypeOK, Publication
<1> HIDE DEF e
<1>4. e \in Entries(kept[p.root])
  BY <1>1, <1>2, <1>3
<1> QED BY <1>4 DEF e, kept

\* set_item_icon of a root, whether the text could be rendered or not.
LEMMA IconRootStep ==
  ASSUME LinuxIInv, NEW n \in Names, IconRoot(n)
  PROVE  LinuxIInv'
<1> DEFINE kept == Updated(assets, {n}, {}, <<>>)
           file == sequence + 1
<1>1. /\ running /\ n \in Roots(installed)
      /\ UNCHANGED <<installed, running, marked, widget, now>>
  BY DEF IconRoot, IsRoot
<1>2. PICK ok \in SUBSET {n} :
        /\ assets' = Updated(assets, {n}, ok, [r \in {n} |-> file])
        /\ disk' = (disk \ (Files(assets[n]) \ Files(kept[n])))
                     \cup (IF ok = {} THEN {} ELSE {file})
        /\ sequence' = IF ok = {} THEN sequence ELSE file
        /\ published' = IF ok = {} THEN published
                        ELSE published \cup {[root |-> n, file |-> file, time |-> now]}
        /\ blank' = (blank \ {n}) \cup ({n} \ ok)
  BY DEF IconRoot
<1>3. /\ kept \in [Names -> Seq(Asset)]
      /\ \A k \in Names \ {n} : Entries(kept[k]) = Entries(assets[k])
      /\ Entries(kept[n]) = {e \in Entries(assets[n]) : ~ Expired(e)}
      /\ Files(kept[n]) \subseteq Files(assets[n])
      /\ \A k \in Names \ {n} : Files(kept[k]) = Files(assets[k])
      /\ disk \ (Files(assets[n]) \ Files(kept[n])) = UNION {Files(kept[k]) : k \in Names}
  BY <1>1, Iconing
<1>4. \A p \in published : now - p.time <= Grace =>
        [file |-> p.file, time |-> p.time] \in Entries(kept[p.root])
  BY <1>1, PublishedKept
<1>5. sequence \in Nat /\ now \in Nat /\ assets \in [Names -> Seq(Asset)]
  BY DEF LinuxIInv, LinuxTypeOK
<1>6. NumbersFresh /\ WidgetsMarked /\ IconsTracked /\ LinuxTypeOK
  BY <1>1 DEF LinuxIInv
<1>7. WidgetsMarked'
  BY <1>1, <1>6 DEF WidgetsMarked
<1>8. Roots(installed)' = Roots(installed)
  BY <1>1 DEF Roots
<1>9. CASE ok = {}
  <2>1. assets' = kept
    BY <1>2, <1>9, NumberUnused
  <2> HIDE DEF kept
  <2>2. /\ disk' = UNION {Files(kept[k]) : k \in Names} /\ sequence' = sequence
        /\ published' = published /\ blank' = blank \cup {n}
    BY <1>2, <1>3, <1>9
  <2>3. LinuxTypeOK'
    BY <1>1, <1>3, <1>6, <2>1, <2>2 DEF LinuxTypeOK
  <2>4. ASSUME NEW r \in Roots(installed) \ blank'
        PROVE  Shows(r)'
    <3>1. r \in Roots(installed) \ blank /\ r # n
      BY <2>2
    <3>2. r \in Names
      BY <1>6, AllWellFormed DEF LinuxTypeOK, WellFormed, Roots
    <3>3. Shows(r) /\ Files(kept[r]) = Files(assets[r])
      BY <1>3, <1>6, <3>1, <3>2 DEF IconsTracked
    <3> QED BY <2>1, <2>2, <3>3 DEF Shows
  <2>5. IconsTracked'
    BY <1>1, <1>4, <1>8, <2>1, <2>2, <2>4 DEF IconsTracked
  <2>6. NumbersFresh'
    <3>1. \A k \in Names : Files(kept[k]) \subseteq Files(assets[k])
      BY <1>3
    <3> QED BY <1>6, <2>1, <2>2, <3>1 DEF NumbersFresh
  <2> QED BY <1>7, <2>3, <2>5, <2>6 DEF LinuxIInv
<1>10. CASE ok = {n}
  <2> DEFINE number == [r \in {n} |-> file]
             new == [file |-> file, time |-> now]
             p0 == [root |-> n, file |-> file, time |-> now]
  <2>1. /\ disk' = (UNION {Files(kept[k]) : k \in Names}) \cup {file} /\ sequence' = file
        /\ published' = published \cup {p0} /\ blank' = blank \ {n}
    BY <1>2, <1>3, <1>10
  <2>2. /\ assets' \in [Names -> Seq(Asset)]
        /\ \A k \in Names : Entries(assets'[k]) = EntriesAfter(assets, {n}, {n}, number, k)
    <3>1. assets' = Updated(assets, {n}, {n}, number)
      BY <1>2, <1>10
    <3>2. {n} \in SUBSET Names /\ {n} \in SUBSET {n} /\ \A r \in {n} : number[r] \in Nat
      BY <1>5
    <3> HIDE DEF number
    <3>3. /\ Updated(assets, {n}, {n}, number) \in [Names -> Seq(Asset)]
          /\ \A k \in Names : Entries(Updated(assets, {n}, {n}, number)[k]) =
                                EntriesAfter(assets, {n}, {n}, number, k)
      BY ONLY <1>5, <3>2, Updates
    <3> QED BY <3>1, <3>3
  <2>3. number[n] = file
    OBVIOUS
  <2> HIDE DEF number, kept
  <2>4. /\ \A k \in Names \ {n} : Entries(assets'[k]) = Entries(kept[k])
        /\ Entries(assets'[n]) = Entries(kept[n]) \cup {new}
    BY <1>3, <2>2, <2>3 DEF EntriesAfter
  <2> HIDE DEF file
  <2>5. /\ \A k \in Names \ {n} : Files(assets'[k]) = Files(kept[k])
        /\ Files(assets'[n]) = Files(kept[n]) \cup {file}
    <3>1. \A k \in Names : /\ Files(kept[k]) = FilesOf(Entries(kept[k]))
                           /\ Files(assets'[k]) = FilesOf(Entries(assets'[k]))
      BY <1>3, <2>2, FilesAre
    <3>2. FilesOf(Entries(kept[n]) \cup {new}) = FilesOf(Entries(kept[n])) \cup {file}
      BY OneMoreFile
    <3> QED BY <2>4, <3>1, <3>2
  <2>6. file \in Nat /\ ~ (file <= sequence) /\ \A f \in Nat : f <= sequence => f <= file
    BY <1>5 DEF file
  <2>7. \A p \in published : p \in Publication /\ p.file <= sequence /\ p.file \in Nat
    BY <1>6 DEF LinuxTypeOK, NumbersFresh, Publication
  <2>8. LinuxTypeOK'
    <3>1. p0 \in Publication
      BY <1>5, <2>6 DEF Publication
    <3> HIDE DEF p0
    <3> QED BY <1>1, <1>6, <2>1, <2>2, <2>6, <3>1 DEF LinuxTypeOK
  <2>9. disk' = UNION {Files(assets'[k]) : k \in Names}
    BY <2>1, <2>5
  <2>10. ASSUME NEW p \in published', now - p.time <= Grace
         PROVE  [file |-> p.file, time |-> p.time] \in Entries(assets'[p.root])
    <3>1. CASE p = p0
      BY <2>4, <3>1
    <3>2. CASE p \in published
      <4>1. [file |-> p.file, time |-> p.time] \in Entries(kept[p.root]) /\ p.root \in Names
        BY <1>4, <2>7, <2>10, <3>2 DEF Publication
      <4> QED BY <2>4, <4>1
    <3> QED BY <2>1, <3>1, <3>2
  <2>11. ASSUME NEW r \in Roots(installed) \ blank'
         PROVE  Shows(r)'
    <3>1. CASE r = n
      <4>1. p0 \in published' /\ p0.root = r /\ p0.file \in Files(assets'[r])
        BY <2>1, <2>5, <3>1
      <4>2. \A q \in published' : q.file <= p0.file
        BY <2>1, <2>6, <2>7
      <4> HIDE DEF p0
      <4> QED BY <4>1, <4>2 DEF Shows
    <3>2. CASE r # n
      <4>1. r \in Roots(installed) \ blank
        BY <2>1, <3>2
      <4>2. r \in Names
        BY <1>6, AllWellFormed DEF LinuxTypeOK, WellFormed, Roots
      <4>3. Shows(r) /\ Files(assets'[r]) = Files(assets[r])
        BY <1>3, <1>6, <2>5, <3>2, <4>1, <4>2 DEF IconsTracked
      <4>4. p0.root # r
        BY <3>2
      <4> HIDE DEF p0
      <4> QED BY <2>1, <4>3, <4>4 DEF Shows
    <3> QED BY <3>1, <3>2
  <2>12. IconsTracked'
    BY <1>1, <1>8, <2>9, <2>10, <2>11 DEF IconsTracked
  <2>13. NumbersFresh'
    <3>1. /\ \A k \in Names : Files(kept[k]) \subseteq Files(assets[k])
          /\ \A k \in Names : \A f \in Files(assets[k]) : f <= sequence /\ f \in Nat
      <4>1. \A k \in Names : Files(kept[k]) \subseteq Files(assets[k])
        BY <1>3
      <4>2. \A k \in Names : Files(assets[k]) \subseteq Nat
        <5> TAKE k \in Names
        <5>1. assets[k] \in Seq(Asset)
          BY <1>5
        <5> QED BY <5>1, FilesAre
      <4> QED BY <1>6, <4>1, <4>2 DEF NumbersFresh
    <3>2. \A k \in Names : \A f \in Files(assets'[k]) :
            f \in Files(assets[k]) \/ (k = n /\ f = file)
      BY <2>5, <3>1
    <3>3. \A k \in Names : \A f \in Files(assets'[k]) : f <= file
      BY <2>6, <3>1, <3>2
    <3>4. \A p \in published' : p.file <= file
      BY <2>1, <2>6, <2>7
    <3>5. ASSUME NEW k \in Names, NEW j \in Names, k # j
          PROVE  Files(assets'[k]) \cap Files(assets'[j]) = {}
      <4> SUFFICES ASSUME NEW f \in Files(assets'[k]), f \in Files(assets'[j])
                   PROVE  FALSE
        OBVIOUS
      <4>1. f = file => f \notin Files(assets[k]) /\ f \notin Files(assets[j])
        BY <2>6, <3>1
      <4>2. ~ (f \in Files(assets[k]) /\ f \in Files(assets[j]))
        BY <1>6, <3>5 DEF NumbersFresh
      <4> QED BY <3>2, <3>5, <4>1, <4>2
    <3> QED BY <2>1, <3>3, <3>4, <3>5 DEF NumbersFresh
  <2> QED BY <1>7, <2>8, <2>12, <2>13 DEF LinuxIInv
<1> QED BY <1>9, <1>10

\* exit(2) within an icon command, after the root was pruned.
LEMMA IconFailsStep ==
  ASSUME LinuxIInv, NEW n \in Names, IconFails(n)
  PROVE  LinuxIInv'
<1> DEFINE kept == Updated(assets, {n}, {}, <<>>)
<1>1. /\ running /\ assets' = kept
      /\ disk' = disk \ (Files(assets[n]) \ Files(kept[n]))
      /\ Exits /\ UNCHANGED <<sequence, published, now>>
  BY DEF IconFails
<1>2. /\ kept \in [Names -> Seq(Asset)]
      /\ disk \ (Files(assets[n]) \ Files(kept[n])) = UNION {Files(kept[k]) : k \in Names}
  BY <1>1, Iconing
<1>3. \A p \in published : now - p.time <= Grace =>
        [file |-> p.file, time |-> p.time] \in Entries(kept[p.root])
  BY <1>1, PublishedKept
<1> HIDE DEF kept
<1>4. LinuxTypeOK'
  BY <1>1, <1>2 DEF LinuxIInv, LinuxTypeOK, Exits, Installable
<1>5. IconsTracked'
  BY <1>1, <1>2, <1>3 DEF IconsTracked, Exits, EmptyMenu, Roots
<1>6. WidgetsMarked' /\ ~ running'
  BY <1>1 DEF WidgetsMarked, Exits
<1> QED BY <1>4, <1>5, <1>6 DEF LinuxIInv

\* remove_item destroys widgets below an item, all of which it marks.
LEMMA RemoveItemStep ==
  ASSUME LinuxIInv, NEW n \in Names, remove_item(n)
  PROVE  LinuxIInv'
<1>1. /\ UNCHANGED <<installed, running, iconVars, now>>
      /\ marked' = marked \cup Subtree(installed, n)
  BY DEF remove_item, MarkRemoved
<1>2. n \in Subtree(installed, n) /\ Subtree(installed, n) \in SUBSET Names
  BY SubtreeIs DEF LinuxIInv, LinuxTypeOK
<1>3. LinuxTypeOK'
  BY <1>1, <1>2 DEF LinuxIInv, LinuxTypeOK, iconVars
<1>4. IconsTracked'
  <2>1. Roots(installed)' = Roots(installed) /\ \A r : Shows(r)' = Shows(r)
    BY <1>1 DEF Roots, Shows, iconVars
  <2> QED BY <1>1, <2>1 DEF LinuxIInv, IconsTracked, iconVars
<1>5. WidgetsMarked'
  <2>1. CASE IsRoot(n)
    BY <1>1, <2>1 DEF LinuxIInv, WidgetsMarked, remove_item
  <2>2. CASE ~ IsRoot(n)
    <3>1. widget' = [k \in Names |->
                       IF k = n THEN "null"
                       ELSE IF k \in Subtree(installed, n) /\ widget[k] = "live"
                            THEN "dead" ELSE widget[k]]
      BY <2>2 DEF remove_item
    <3> QED BY <1>1, <3>1 DEF LinuxIInv, WidgetsMarked
  <2> QED BY <2>1, <2>2
<1>6. running' => NumbersFresh'
  BY <1>1 DEF LinuxIInv, NumbersFresh, iconVars
<1> QED BY <1>3, <1>4, <1>5, <1>6 DEF LinuxIInv

\* The helper starts with no icon and no widget.
LEMMA LinuxStarts ==
  ASSUME LinuxInit
  PROVE  LinuxIInv
<1>1. LinuxTypeOK
  BY DEF LinuxInit, LinuxTypeOK, Installable, NoAssets
<1>2. \A n \in Names : Files(assets[n]) = {}
  BY DEF LinuxInit, NoAssets, Files
<1>3. IconsTracked
  BY <1>2 DEF LinuxInit, IconsTracked, EmptyMenu, Roots
<1>4. WidgetsMarked /\ NumbersFresh
  BY <1>2 DEF LinuxInit, WidgetsMarked, NumbersFresh
<1> QED BY <1>1, <1>3, <1>4 DEF LinuxIInv

\* One step for each callback.
LEMMA LinuxStep ==
  ASSUME LinuxIInv, [LinuxNext]_linuxVars
  PROVE  LinuxIInv'
<1>1. CASE \E m \in Menus : install_roots(m)
  BY <1>1, LinuxInstallStep
<1>2. CASE \E m \in Menus : RunFails(m)
  BY <1>2, RunFailsStep
<1>3. CASE \E n \in Names : IconRoot(n)
  BY <1>3, IconRootStep
<1>4. CASE \E n \in Names : IconFails(n)
  BY <1>4, IconFailsStep
<1>5. CASE \E n \in Names : remove_item(n)
  BY <1>5, RemoveItemStep
<1>6. CASE LinuxQuit
  BY <1>6, LinuxQuitStep
<1>7. now \in Nat
  BY DEF LinuxIInv, LinuxTypeOK
<1>8. CASE (\E n \in Names : Activate(n)) \/ UNCHANGED linuxVars
  <2>1. UNCHANGED <<installed, running, marked, widget, iconVars, now>>
    BY <1>8 DEF Activate, linuxVars
  <2> QED BY <1>7, <2>1, LinuxRests
<1>9. CASE Tick
  <2>1. now' = now + 1 /\ UNCHANGED <<installed, running, marked, widget, iconVars>>
    BY <1>9 DEF Tick
  <2> QED BY <1>7, <2>1, LinuxRests
<1> QED BY <1>1, <1>2, <1>3, <1>4, <1>5, <1>6, <1>8, <1>9 DEF LinuxNext

\* What set_item_icon and the desktop shell use is there (LinuxHandlesValid):
\* item_mark_removed marks whatever remove_item destroys, and update_status_icon
\* prunes an icon only after its grace period and after a newer one.
THEOREM LinuxHandlesAlways ==
  LinuxSpec => []LinuxHandlesValid
<1>1. LinuxInit => LinuxIInv
  BY LinuxStarts
<1>2. LinuxIInv /\ [LinuxNext]_linuxVars => LinuxIInv'
  BY LinuxStep
<1>3. ASSUME LinuxIInv
      PROVE  LinuxHandlesValid
  <2> USE <1>3 DEF LinuxIInv
  <2>1. LinuxWidgetsValid
    <3>1. Items(installed) \subseteq Names
      BY SubtreeIs, AllWellFormed DEF LinuxTypeOK, Items, Roots, WellFormed
    <3> QED BY <3>1 DEF LinuxWidgetsValid, WidgetsMarked
  <2>2. assets \in [Names -> Seq(Asset)] /\ disk = UNION {Files(assets[n]) : n \in Names}
    BY DEF LinuxTypeOK, IconsTracked
  <2>3. \A p \in published : now - p.time <= Grace => p.file \in disk
    <3> SUFFICES ASSUME NEW p \in published, now - p.time <= Grace
                 PROVE  p.file \in disk
      OBVIOUS
    <3>1. p.root \in Names /\ [file |-> p.file, time |-> p.time] \in Entries(assets[p.root])
      BY DEF LinuxTypeOK, IconsTracked, Publication
    <3>2. Files(assets[p.root]) = FilesOf(Entries(assets[p.root]))
      BY <2>2, <3>1, FilesAre
    <3>3. p.file \in Files(assets[p.root])
      BY <3>1, <3>2 DEF FilesOf
    <3> QED BY <2>2, <3>1, <3>3
  <2>4. \A r \in Roots(installed) \ blank :
          \E p \in published : /\ p.root = r
                               /\ \A q \in published : q.root = r => q.file <= p.file
                               /\ p.file \in disk
    <3> TAKE r \in Roots(installed) \ blank
    <3>1. r \in Names
      BY AllWellFormed DEF LinuxTypeOK, WellFormed, Roots
    <3>2. Shows(r)
      BY DEF IconsTracked
    <3> QED BY <2>2, <3>1, <3>2 DEF Shows
  <2> QED BY <2>1, <2>2, <2>3, <2>4 DEF LinuxHandlesValid, LinuxIconsKept
<1> QED BY <1>1, <1>2, <1>3, PTL DEF LinuxSpec

\* The contract's menus are these.
LEMMA LinuxMenus ==
  /\ \A m, n : LinuxContract!Subtree(m, n) = Subtree(m, n)
  /\ \A m : LinuxContract!Items(m) = Items(m)
  /\ LinuxContract!EmptyMenu = EmptyMenu
<1>1. LinuxContract!EmptyMenu = EmptyMenu
  BY DEF EmptyMenu, LinuxContract!EmptyMenu
<1>2. LinuxContract!Subtrees = Subtrees
  BY <1>1 DEF Subtrees, LinuxContract!Subtrees, Closed, LinuxContract!Closed
<1>3. \A m, n : LinuxContract!Subtree(m, n) = Subtree(m, n)
  BY <1>2 DEF Subtree, LinuxContract!Subtree
<1>4. \A m : LinuxContract!Items(m) = Items(m)
  BY <1>3 DEF Items, LinuxContract!Items, Roots, LinuxContract!Roots
<1> QED BY <1>1, <1>3, <1>4

\* Every callback is a step of the contract or none.
LEMMA LinuxContractStep ==
  ASSUME [LinuxNext]_linuxVars
  PROVE  [LinuxContract!Next]_(LinuxContract!vars)
<1>1. ASSUME NEW m \in Menus, install_roots(m)
      PROVE  LinuxContract!Next
  <2>1. LinuxContract!Run(m)
    BY <1>1 DEF install_roots, LinuxContract!Run
  <2> QED BY <2>1 DEF LinuxContract!Next
<1>2. ASSUME NEW n \in Names, remove_item(n)
      PROVE  LinuxContract!Next
  <2>1. LinuxContract!Remove(n)
    BY <1>2, LinuxMenus DEF remove_item, Found, MarkRemoved, LinuxContract!Remove
  <2> QED BY <2>1 DEF LinuxContract!Next
<1>3. ASSUME NEW n \in Names, Activate(n)
      PROVE  LinuxContract!Next
  <2>1. LinuxContract!Click(n)
    BY <1>3, LinuxMenus DEF Activate, Found, Emits, LinuxContract!Click
  <2> QED BY <2>1 DEF LinuxContract!Next
<1>4. CASE \/ \E m \in Menus : RunFails(m)
           \/ \E n \in Names : IconFails(n)
           \/ LinuxQuit
  <2>1. running /\ Exits /\ UNCHANGED reported
    BY <1>4 DEF RunFails, IconFails, LinuxQuit
  <2>2. LinuxContract!Quit
    BY <2>1, LinuxMenus DEF Exits, LinuxContract!Quit
  <2> QED BY <2>2 DEF LinuxContract!Next
<1>5. CASE \/ \E n \in Names : IconRoot(n)
           \/ Tick
           \/ UNCHANGED linuxVars
  BY <1>5 DEF IconRoot, Tick, linuxVars, LinuxContract!vars
<1> QED BY <1>1, <1>2, <1>3, <1>4, <1>5 DEF LinuxNext

\* item_mark_removed marks the whole subtree and emit_click looks at the mark, so
\* what is reported is what MenuContract allows; exit(2) is its Quit.
THEOREM LinuxRefinement ==
  LinuxSpec => LinuxImplements
<1>1. LinuxInit => LinuxContract!Init
  BY LinuxMenus DEF LinuxInit, LinuxContract!Init
<1>2. [LinuxNext]_linuxVars => [LinuxContract!Next]_(LinuxContract!vars)
  BY LinuxContractStep
<1> QED BY <1>1, <1>2, PTL DEF LinuxSpec, LinuxImplements, LinuxContract!Spec

(***************************************************************************)
(* Induction along the tokens and turns of MenuJson                        *)
(***************************************************************************)

\* Induction from m to n,
LEMMA Onward ==
  ASSUME NEW m \in Nat, NEW n \in Nat, NEW T, m \in T,
         \A i \in m + 1 .. n : i - 1 \in T => i \in T
  PROVE  \A i \in m .. n : i \in T
<1> DEFINE Out == {i \in m .. n : i \notin T}
<1> SUFFICES ASSUME Out # {} PROVE FALSE
  OBVIOUS
<1>1. Out \in SUBSET Nat
  OBVIOUS
<1> HIDE DEF Out
<1>2. PICK i \in Out : \A j \in Out : i <= j
  BY <1>1, Least
<1>3. i \in m .. n /\ i \notin T /\ i # m
  BY DEF Out
<1>4. i \in m + 1 .. n /\ i - 1 \in m .. n /\ ~ (i <= i - 1)
  BY <1>3
<1>5. i - 1 \in T
  BY <1>2, <1>4 DEF Out
<1> QED BY <1>3, <1>4, <1>5

\* and from all that is smaller.
LEMMA FromSmaller ==
  ASSUME NEW n \in Nat, NEW T, \A i \in 0 .. n : (\A j \in 0 .. i - 1 : j \in T) => i \in T
  PROVE  \A i \in 0 .. n : i \in T
<1> DEFINE Out == {i \in 0 .. n : i \notin T}
<1> SUFFICES ASSUME Out # {} PROVE FALSE
  OBVIOUS
<1>1. Out \in SUBSET Nat
  OBVIOUS
<1> HIDE DEF Out
<1>2. PICK i \in Out : \A j \in Out : i <= j
  BY <1>1, Least
<1>3. i \in 0 .. n /\ i \notin T
  BY DEF Out
<1>4. \A j \in 0 .. i - 1 : j \in 0 .. n /\ ~ (i <= j)
  BY <1>3
<1>5. \A j \in 0 .. i - 1 : j \in T
  BY <1>2, <1>4 DEF Out
<1> QED BY <1>3, <1>5

\* What is defined step by step exists.
Chained(n, S, a, step) ==
  \E f \in [0 .. n -> S] : f[0] = a /\ \A i \in 1 .. n : f[i] = step[<<f[i - 1], i>>]

LEMMA Chain ==
  ASSUME NEW n \in Nat, NEW S, NEW a \in S, NEW step,
         \A i \in 1 .. n : \A x \in S : step[<<x, i>>] \in S
  PROVE  Chained(n, S, a, step)
<1> DEFINE
      Has(i, f) == f[0] = a /\ \A j \in 1 .. i : f[j] = step[<<f[j - 1], j>>]
      T == {i \in 0 .. n : \E f \in [0 .. i -> S] : Has(i, f)}
<1>1. 0 \in T
  <2> DEFINE f == [i \in 0 .. 0 |-> a]
  <2>1. f \in [0 .. 0 -> S] /\ f[0] = a
    OBVIOUS
  <2>2. \A j \in 1 .. 0 : FALSE
    OBVIOUS
  <2> HIDE DEF f
  <2> QED BY <2>1, <2>2
<1>2. ASSUME NEW i \in 1 .. n, i - 1 \in T PROVE i \in T
  <2>1. PICK f \in [0 .. i - 1 -> S] : Has(i - 1, f)
    BY <1>2
  <2> DEFINE last == step[<<f[i - 1], i>>]
             g == [j \in 0 .. i |-> IF j <= i - 1 THEN f[j] ELSE last]
  <2>2. f[i - 1] \in S
    OBVIOUS
  <2>3. last \in S
    BY <2>2
  <2> HIDE DEF last
  <2>4. g \in [0 .. i -> S]
    BY <2>3
  <2>5. g[0] = a
    BY <2>1
  <2>6. ASSUME NEW j \in 1 .. i PROVE g[j] = step[<<g[j - 1], j>>]
    <3>1. j - 1 \in 0 .. i /\ j - 1 <= i - 1 /\ j \in 0 .. i
      OBVIOUS
    <3>2. g[j - 1] = f[j - 1]
      BY <3>1
    <3>3. CASE j = i
      <4>1. g[j] = last
        BY <3>1, <3>3
      <4> HIDE DEF g
      <4> QED BY <3>2, <3>3, <4>1 DEF last
    <3>4. CASE j # i
      <4>1. j \in 1 .. i - 1 /\ j <= i - 1
        BY <3>4
      <4>2. g[j] = f[j]
        BY <3>1, <4>1
      <4> HIDE DEF g
      <4> QED BY <2>1, <3>2, <4>1, <4>2
    <3> QED BY <3>3, <3>4
  <2> HIDE DEF g
  <2>7. Has(i, g)
    BY <2>5, <2>6
  <2> QED BY <2>4, <2>7
<1> HIDE DEF T
<1>3. n \in T
  <2>1. \A i \in 0 .. n : i \in T
    BY <1>1, <1>2, Reaches
  <2> QED BY <2>1
<1> QED BY <1>3 DEF T, Chained

(***************************************************************************)
(* JSON documents                                                          *)
(***************************************************************************)

Places == {"value", "firstItem", "firstKey", "key", "colon", "after", "error"}
States == [at : Places, open : Seq(Nat)]

LEMMA WaitsIs ==
  /\ \A place \in Places, open \in Seq(Nat) : Waits(place, open) \in States
  /\ \A place, open : Waits(place, open).at = place /\ Waits(place, open).open = open
BY DEF Waits, States

LEMMA CloseIs ==
  ASSUME NEW open \in Seq(Nat), open # <<>>
  PROVE  /\ Close(open) \in States /\ Close(open).at = "after"
         /\ Len(Close(open).open) = Len(open) - 1
         /\ \A d \in 1 .. Len(open) - 1 : Close(open).open[d] = open[d]
<1> DEFINE rest == SubSeq(open, 1, Len(open) - 1)
<1>1. rest \in Seq(Nat) /\ Len(rest) = Len(open) - 1
      /\ \A d \in 1 .. Len(open) - 1 : rest[d] = open[d]
  <2>1. 1 \in Int /\ Len(open) - 1 \in Nat /\ \A d \in 1 .. Len(open) - 1 : open[d] \in Nat
    BY EmptySeq
  <2> DEFINE m == Len(open) - 1
  <2>2. m \in Nat /\ \A d \in 1 .. m - 1 + 1 : 1 + d - 1 = d /\ d \in 1 .. m
    BY <2>1
  <2> HIDE DEF m
  <2>3. /\ SubSeq(open, 1, m) \in Seq(Nat)
        /\ Len(SubSeq(open, 1, m)) = IF 1 <= m THEN m - 1 + 1 ELSE 0
        /\ \A d \in 1 .. m - 1 + 1 : SubSeq(open, 1, m)[d] = open[1 + d - 1]
    BY <2>1, <2>2, SubSeqProperties DEF m
  <2>4. m - 1 + 1 = m /\ (~ (1 <= m) => m = 0)
    BY <2>2
  <2> QED BY <2>2, <2>3, <2>4 DEF m
<1>2. "after" \in Places
  BY DEF Places
<1>3. Close(open) = Waits("after", rest)
  BY DEF Close
<1> HIDE DEF rest
<1> QED BY <1>1, <1>2, <1>3, WaitsIs

LEMMA LooksType ==
  ASSUME NEW t \in Seq(Tokens), NEW k \in 1 .. Len(t), NEW st \in States
  PROVE  Looks(t, k, st) \in States
<1>1. st.at \in Places /\ st.open \in Seq(Nat)
  BY DEF States
<1>2. \A place \in Places : Waits(place, st.open) \in States
  BY <1>1, WaitsIs
<1>3. Append(st.open, k) \in Seq(Nat)
  BY <1>1
<1>4. \A place \in Places : Waits(place, Append(st.open, k)) \in States
  BY <1>3, WaitsIs
<1>5. j_value(t, k, st.open) \in States
  BY <1>2, <1>4 DEF j_value, Places
<1>6. CASE st.open = <<>>
  BY <1>2, <1>5, <1>6 DEF Looks, Places
<1>7. CASE st.open # <<>>
  <2>1. Close(st.open) \in States
    BY <1>1, <1>7, CloseIs
  <2>2. j_array(t, k, st) \in States
    BY <1>2, <1>5, <2>1 DEF j_array, Places
  <2>3. j_object(t, k, st) \in States
    BY <1>2, <2>1 DEF j_object, Places
  <2> QED BY <1>2, <1>5, <2>2, <2>3 DEF Looks, Places
<1> QED BY <1>6, <1>7

\* The parser goes from token to token.
LEMMA LookingIs ==
  ASSUME NEW t \in Seq(Tokens)
  PROVE  /\ Looking(t)[0] = Waits("value", <<>>)
         /\ \A k \in 1 .. Len(t) : Looking(t)[k] = Looks(t, k, Looking(t)[k - 1])
         /\ \A k \in 0 .. Len(t) : Looking(t)[k] \in States
<1> DEFINE
      n == Len(t)
      start == Waits("value", <<>>)
      Rule(f) == [k \in 0 .. n |-> IF k = 0 THEN start ELSE Looks(t, k, f[k - 1])]
      step == [p \in States \X (1 .. n) |-> Looks(t, p[2], p[1])]
<1>0. n \in Nat
  OBVIOUS
<1>1. start \in States
  <2>1. "value" \in Places /\ <<>> \in Seq(Nat)
    BY DEF Places
  <2> QED BY <2>1, WaitsIs
<1>2. Looking(t) = CHOOSE f : f = Rule(f)
  BY DEF Looking
<1>3. \A k \in 1 .. n : \A x \in States : step[<<x, k>>] = Looks(t, k, x) /\ step[<<x, k>>] \in States
  BY LooksType
<1> HIDE DEF start, step
<1>4. PICK f \in [0 .. n -> States] :
        f[0] = start /\ \A k \in 1 .. n : f[k] = step[<<f[k - 1], k>>]
  <2>1. Chained(n, States, start, step)
    BY <1>0, <1>1, <1>3, Chain
  <2> QED BY <2>1 DEF Chained
<1>5. f = Rule(f)
  <2>1. ASSUME NEW k \in 0 .. n, k # 0 PROVE f[k] = Looks(t, k, f[k - 1])
    <3>1. k \in 1 .. n /\ k - 1 \in 0 .. n
      BY <2>1
    <3> QED BY <1>3, <1>4, <3>1
  <2> QED BY <1>4, <2>1
<1>6. Looking(t) = Rule(Looking(t))
  BY <1>2, <1>5
<1> DEFINE L == Looking(t)
<1>7. L[0] = start /\ \A k \in 1 .. n : L[k] = Looks(t, k, L[k - 1])
  <2>1. \A k \in 0 .. n : L[k] = IF k = 0 THEN start ELSE Looks(t, k, L[k - 1])
    BY <1>6
  <2> QED BY <2>1
<1> HIDE DEF L
<1>8. \A k \in 0 .. n : L[k] \in States
  <2> DEFINE T == {k \in 0 .. n : L[k] \in States}
  <2>1. 0 \in T /\ \A k \in 1 .. n : k - 1 \in T => k \in T
    BY <1>1, <1>7, LooksType
  <2> HIDE DEF T
  <2>2. \A k \in 0 .. n : k \in T
    BY <1>0, <2>1, Reaches
  <2> QED BY <2>2 DEF T
<1> QED BY <1>7, <1>8 DEF L, start

\* The phrases, by length.
Kinds == {"value", "items", "pairs"}
Marked == Kinds \X Int \X Int

\* Whether a phrase is one depends on shorter ones.
LEMMA DerivedSame ==
  ASSUME NEW t, NEW kind, NEW i \in Int, NEW j \in Int, NEW K1, NEW K2,
         \A other \in Kinds, k \in Int, l \in Int :
           l - k < j - i => (<<other, k, l>> \in K1 <=> <<other, k, l>> \in K2)
  PROVE  Derived(t, kind, i, j, K1) <=> Derived(t, kind, i, j, K2)
<1>1. /\ <<"items", i, j - 1>> \in K1 <=> <<"items", i, j - 1>> \in K2
      /\ <<"pairs", i, j - 1>> \in K1 <=> <<"pairs", i, j - 1>> \in K2
  BY DEF Kinds
<1>2. \A m \in i .. j - 1 :
        /\ <<"items", i, m - 1>> \in K1 <=> <<"items", i, m - 1>> \in K2
        /\ <<"value", m + 1, j>> \in K1 <=> <<"value", m + 1, j>> \in K2
  BY DEF Kinds
<1>3. \A m \in i .. j - 3 :
        /\ <<"pairs", i, m - 1>> \in K1 <=> <<"pairs", i, m - 1>> \in K2
        /\ <<"value", m + 3, j>> \in K1 <=> <<"value", m + 3, j>> \in K2
  BY DEF Kinds
<1> QED BY <1>1, <1>2, <1>3, Zenon DEF Derived

LEMMA SpansAre ==
  ASSUME NEW t \in Seq(Tokens), NEW n \in Int
  PROVE  /\ Spans(t, n) \subseteq Marked
         /\ \A kind, i, j : <<kind, i, j>> \in Spans(t, n) <=>
              kind \in Kinds /\ i \in 1 .. Len(t) - n + 1 /\ j = i + n - 1
BY DEF Spans, Marked, Kinds

LEMMA PhrasesGrow ==
  ASSUME NEW t \in Seq(Tokens)
  PROVE  /\ Phrases(t)[0] = {}
         /\ \A n \in 1 .. Len(t) : \A kind, i, j :
              <<kind, i, j>> \in Phrases(t)[n] <=>
                \/ <<kind, i, j>> \in Phrases(t)[n - 1]
                \/ /\ kind \in Kinds /\ i \in 1 .. Len(t) - n + 1 /\ j = i + n - 1
                   /\ Derived(t, kind, i, j, Phrases(t)[n - 1])
<1> DEFINE
      len == Len(t)
      S == SUBSET Marked
      More(n, known) == known \cup {p \in Spans(t, n) : Derived(t, p[1], p[2], p[3], known)}
      Rule(f) == [n \in 0 .. len |-> IF n = 0 THEN {} ELSE More(n, f[n - 1])]
      step == [p \in S \X (1 .. len) |-> More(p[2], p[1])]
<1>0. len \in Nat
  OBVIOUS
<1>1. {} \in S
  OBVIOUS
<1>2. Phrases(t) = CHOOSE f : f = Rule(f)
  BY DEF Phrases
<1>3. \A n \in 1 .. len : \A x \in S : step[<<x, n>>] = More(n, x)
  OBVIOUS
<1>4. \A n \in 1 .. len : \A x \in S : More(n, x) \in S
  BY SpansAre
<1> HIDE DEF step, More
<1>5. PICK f \in [0 .. len -> S] :
        f[0] = {} /\ \A n \in 1 .. len : f[n] = step[<<f[n - 1], n>>]
  <2>1. \A n \in 1 .. len : \A x \in S : step[<<x, n>>] \in S
    BY <1>3, <1>4
  <2> HIDE DEF S
  <2>2. Chained(len, S, {}, step)
    BY <1>0, <1>1, <2>1, Chain
  <2> QED BY <2>2 DEF Chained
<1>6. f = Rule(f)
  <2>1. ASSUME NEW n \in 0 .. len, n # 0 PROVE f[n] = More(n, f[n - 1])
    <3>1. n \in 1 .. len /\ n - 1 \in 0 .. len
      BY <2>1
    <3>2. f[n - 1] \in S
      BY <1>5, <3>1
    <3> HIDE DEF S
    <3> QED BY <1>3, <1>5, <3>1, <3>2
  <2> QED BY <1>5, <2>1
<1>7. Phrases(t) = Rule(Phrases(t))
  BY <1>2, <1>6
<1> DEFINE P == Phrases(t)
<1>8. P[0] = {} /\ \A n \in 1 .. len : P[n] = More(n, P[n - 1])
  <2>1. \A n \in 0 .. len : P[n] = IF n = 0 THEN {} ELSE More(n, P[n - 1])
    BY <1>7
  <2> QED BY <1>0, <2>1
<1> HIDE DEF P
<1>9. ASSUME NEW n \in 1 .. len, NEW kind, NEW i, NEW j
      PROVE  <<kind, i, j>> \in P[n] <=>
               \/ <<kind, i, j>> \in P[n - 1]
               \/ /\ kind \in Kinds /\ i \in 1 .. len - n + 1 /\ j = i + n - 1
                  /\ Derived(t, kind, i, j, P[n - 1])
  <2>1. <<kind, i, j>> \in P[n] <=>
          \/ <<kind, i, j>> \in P[n - 1]
          \/ <<kind, i, j>> \in Spans(t, n) /\ Derived(t, kind, i, j, P[n - 1])
    BY <1>8 DEF More
  <2>2. <<kind, i, j>> \in Spans(t, n) <=>
          kind \in Kinds /\ i \in 1 .. len - n + 1 /\ j = i + n - 1
    BY <1>0, SpansAre
  <2> QED BY <2>1, <2>2, Zenon
<1> QED BY <1>8, <1>9 DEF P

\* A phrase of a text: what it is made of.
Is(t, kind, i, j) == <<kind, i, j>> \in Phrases(t)[Len(t)]

LEMMA PhraseIs ==
  ASSUME NEW t \in Seq(Tokens), NEW kind \in Kinds, NEW i \in Int, NEW j \in Int
  PROVE  Is(t, kind, i, j) <=>
           1 <= i /\ i <= j /\ j <= Len(t) /\ Derived(t, kind, i, j, Phrases(t)[Len(t)])
<1> DEFINE len == Len(t)
           P == Phrases(t)
<1>0. len \in Nat
  OBVIOUS
<1>1. P[0] = {}
  BY PhrasesGrow
<1> DEFINE
      Rule(n, k, a, b) ==
        <<k, a, b>> \in P[n] <=>
          \/ <<k, a, b>> \in P[n - 1]
          \/ /\ a \in 1 .. len - n + 1 /\ b = a + n - 1
             /\ Derived(t, k, a, b, P[n - 1])
<1>2. \A n \in 1 .. len : \A k \in Kinds, a, b \in Int : Rule(n, k, a, b)
  <2>1. \A n \in 1 .. Len(t) : \A k, a, b :
        <<k, a, b>> \in Phrases(t)[n] <=>
          \/ <<k, a, b>> \in Phrases(t)[n - 1]
          \/ /\ k \in Kinds /\ a \in 1 .. Len(t) - n + 1 /\ b = a + n - 1
             /\ Derived(t, k, a, b, Phrases(t)[n - 1])
    BY PhrasesGrow
  <2> QED BY <2>1, Zenon
<1> HIDE DEF P, len
<1> DEFINE
      Within(n) == \A k \in Kinds, a, b \in Int : <<k, a, b>> \in P[n] =>
                     1 <= a /\ a <= b /\ b <= len /\ b - a + 1 <= n
      Same(m, n) == \A k \in Kinds, a, b \in Int : b - a + 1 <= m =>
                     (<<k, a, b>> \in P[m] <=> <<k, a, b>> \in P[n])
<1>3. \A n \in 0 .. len : Within(n)
  <2> DEFINE T == {n \in 0 .. len : Within(n)}
  <2>1. 0 \in T
    BY <1>0, <1>1
  <2>2. ASSUME NEW n \in 1 .. len, n - 1 \in T PROVE n \in T
    <3>1. ASSUME NEW k \in Kinds, NEW a \in Int, NEW b \in Int, <<k, a, b>> \in P[n]
          PROVE  1 <= a /\ a <= b /\ b <= len /\ b - a + 1 <= n
      <4>1. CASE <<k, a, b>> \in P[n - 1]
        <5>1. 1 <= a /\ a <= b /\ b <= len /\ b - a + 1 <= n - 1
          BY <2>2, <4>1
        <5> QED BY <5>1
      <4>2. CASE a \in 1 .. len - n + 1 /\ b = a + n - 1
        BY <1>0, <4>2
      <4> QED BY <1>2, <3>1, <4>1, <4>2
    <3> QED BY <1>0, <3>1
  <2> HIDE DEF T
  <2>3. \A n \in 0 .. len : n \in T
    BY <1>0, <2>1, <2>2, Reaches
  <2> QED BY <2>3 DEF T
<1>4. ASSUME NEW m \in 0 .. len PROVE Same(m, len)
  <2> DEFINE T == {n \in m .. len : Same(m, n)}
  <2>1. m \in T
    BY <1>0
  <2>2. ASSUME NEW n \in m + 1 .. len, n - 1 \in T PROVE n \in T
    <3>1. ASSUME NEW k \in Kinds, NEW a \in Int, NEW b \in Int, b - a + 1 <= m
          PROVE  <<k, a, b>> \in P[m] <=> <<k, a, b>> \in P[n]
      <4>1. n \in 1 .. len /\ b # a + n - 1
        BY <1>0, <3>1
      <4>2. <<k, a, b>> \in P[n] <=> <<k, a, b>> \in P[n - 1]
        <5>1. Rule(n, k, a, b)
          <6> HIDE DEF Rule, Same, T
          <6> QED BY <1>2, <4>1
        <5> HIDE DEF Same, T
        <5> QED BY <4>1, <5>1
      <4>3. <<k, a, b>> \in P[m] <=> <<k, a, b>> \in P[n - 1]
        BY <2>2, <3>1
      <4> QED BY <4>2, <4>3
    <3> QED BY <1>0, <3>1
  <2> HIDE DEF T
  <2>0. m \in Nat
    BY <1>0
  <2>3. \A n \in m .. len : n \in T
    BY <1>0, <2>0, <2>1, <2>2, Onward
  <2> QED BY <1>0, <2>3 DEF T
<1>5. <<kind, i, j>> \in P[len] => 1 <= i /\ i <= j /\ j <= len
  BY <1>0, <1>3
<1>6. ASSUME 1 <= i, i <= j, j <= len
      PROVE  <<kind, i, j>> \in P[len] <=> Derived(t, kind, i, j, P[len])
  <2> DEFINE l == j - i + 1
  <2>1. l \in 1 .. len /\ l - 1 \in 0 .. len /\ j = i + l - 1 /\ i \in 1 .. len - l + 1
    BY <1>0, <1>6
  <2>2. <<kind, i, j>> \notin P[l - 1]
    BY <1>3, <2>1
  <2>3. <<kind, i, j>> \in P[len] <=> <<kind, i, j>> \in P[l]
    <3>1. Same(l, len)
      BY <1>4, <2>1
    <3> QED BY <3>1
  <2>4. \A other \in Kinds, k, m \in Int :
          m - k < j - i => (<<other, k, m>> \in P[l - 1] <=> <<other, k, m>> \in P[len])
    <3>1. Same(l - 1, len)
      BY <1>4, <2>1
    <3>2. \A k, m \in Int : m - k < j - i => m - k + 1 <= l - 1
      OBVIOUS
    <3> QED BY <3>1, <3>2
  <2> HIDE DEF l
  <2>5. Derived(t, kind, i, j, P[l - 1]) <=> Derived(t, kind, i, j, P[len])
    BY <2>4, DerivedSame
  <2> QED BY <1>2, <2>1, <2>2, <2>3, <2>5
<1> QED BY <1>5, <1>6 DEF Is, P, len

LEMMA ValueIs ==
  ASSUME NEW t \in Seq(Tokens), NEW i \in Int, NEW j \in Int
  PROVE  Is(t, "value", i, j) <=>
           /\ 1 <= i /\ i <= j /\ j <= Len(t)
           /\ \/ i = j /\ t[i] \in {"str", "lit"}
              \/ Is(t, "items", i, j - 1) /\ t[j] = "arrayEnd"
              \/ Is(t, "pairs", i, j - 1) /\ t[j] = "objectEnd"
              \/ j = i + 1 /\ t[i] = "array" /\ t[j] = "arrayEnd"
              \/ j = i + 1 /\ t[i] = "object" /\ t[j] = "objectEnd"
<1>1. Is(t, "value", i, j) <=>
        1 <= i /\ i <= j /\ j <= Len(t) /\ Derived(t, "value", i, j, Phrases(t)[Len(t)])
  BY PhraseIs DEF Kinds
<1>2. Derived(t, "value", i, j, Phrases(t)[Len(t)]) <=>
        \/ i = j /\ t[i] \in {"str", "lit"}
        \/ Is(t, "items", i, j - 1) /\ t[j] = "arrayEnd"
        \/ Is(t, "pairs", i, j - 1) /\ t[j] = "objectEnd"
        \/ j = i + 1 /\ t[i] = "array" /\ t[j] = "arrayEnd"
        \/ j = i + 1 /\ t[i] = "object" /\ t[j] = "objectEnd"
  BY DEF Derived, Is
<1> QED BY <1>1, <1>2, Zenon

LEMMA ItemsAre ==
  ASSUME NEW t \in Seq(Tokens), NEW i \in Int, NEW j \in Int
  PROVE  Is(t, "items", i, j) <=>
           /\ 1 <= i /\ i <= j /\ j <= Len(t) /\ t[i] = "array"
           /\ \E m \in i .. j - 1 : /\ m = i \/ (Is(t, "items", i, m - 1) /\ t[m] = "comma")
                                    /\ Is(t, "value", m + 1, j)
<1>1. Is(t, "items", i, j) <=>
        1 <= i /\ i <= j /\ j <= Len(t) /\ Derived(t, "items", i, j, Phrases(t)[Len(t)])
  BY PhraseIs DEF Kinds
<1>2. Derived(t, "items", i, j, Phrases(t)[Len(t)]) <=>
        /\ t[i] = "array"
        /\ \E m \in i .. j - 1 : /\ m = i \/ (Is(t, "items", i, m - 1) /\ t[m] = "comma")
                                 /\ Is(t, "value", m + 1, j)
  BY DEF Derived, Is
<1> QED BY <1>1, <1>2, Zenon

LEMMA PairsAre ==
  ASSUME NEW t \in Seq(Tokens), NEW i \in Int, NEW j \in Int
  PROVE  Is(t, "pairs", i, j) <=>
           /\ 1 <= i /\ i <= j /\ j <= Len(t) /\ t[i] = "object"
           /\ \E m \in i .. j - 3 : /\ m = i \/ (Is(t, "pairs", i, m - 1) /\ t[m] = "comma")
                                    /\ t[m + 1] = "str" /\ t[m + 2] = "colon"
                                    /\ Is(t, "value", m + 3, j)
<1>1. Is(t, "pairs", i, j) <=>
        1 <= i /\ i <= j /\ j <= Len(t) /\ Derived(t, "pairs", i, j, Phrases(t)[Len(t)])
  BY PhraseIs DEF Kinds
<1>2. Derived(t, "pairs", i, j, Phrases(t)[Len(t)]) <=>
        /\ t[i] = "object"
        /\ \E m \in i .. j - 3 : /\ m = i \/ (Is(t, "pairs", i, m - 1) /\ t[m] = "comma")
                                 /\ t[m + 1] = "str" /\ t[m + 2] = "colon"
                                 /\ Is(t, "value", m + 3, j)
  BY DEF Derived, Is
<1> QED BY <1>1, <1>2, Zenon

\* At m the array or object at p begins, or goes on with a comma; a key comes then.
Goes(t, kind, p, m) == m = p \/ (Is(t, kind, p, m - 1) /\ t[m] = "comma")

Keyed(t, m) == t[m + 1] = "str" /\ t[m + 2] = "colon"

LEMMA PhraseBounds ==
  ASSUME NEW t \in Seq(Tokens), NEW kind \in Kinds, NEW i \in Int, NEW j \in Int,
         Is(t, kind, i, j)
  PROVE  1 <= i /\ i <= j /\ j <= Len(t)
BY PhraseIs

LEMMA GoesBounds ==
  ASSUME NEW t \in Seq(Tokens), NEW kind \in Kinds, NEW p \in Int, NEW m \in Int,
         Goes(t, kind, p, m)
  PROVE  p <= m
<1>1. m - 1 \in Int
  OBVIOUS
<1>2. ASSUME Is(t, kind, p, m - 1) PROVE p <= m
  <2>1. p <= m - 1
    BY <1>1, <1>2, PhraseBounds
  <2> QED BY <2>1
<1>3. m = p \/ Is(t, kind, p, m - 1)
  BY Zenon DEF Goes
<1> QED BY <1>2, <1>3

LEMMA MoreItems ==
  ASSUME NEW t \in Seq(Tokens), NEW p \in 1 .. Len(t), NEW m \in Int, NEW k \in Int,
         t[p] = "array", Goes(t, "items", p, m), Is(t, "value", m + 1, k)
  PROVE  Is(t, "items", p, k)
<1>1. m + 1 \in Int /\ {"items", "value"} \subseteq Kinds
  BY DEF Kinds
<1>2. m + 1 <= k /\ k <= Len(t) /\ p <= m
  BY <1>1, PhraseBounds, GoesBounds
<1>3. m \in p .. k - 1 /\ 1 <= p /\ p <= k /\ p \in Int
  BY <1>2
<1> QED BY <1>2, <1>3, ItemsAre, Zenon DEF Goes

LEMMA MorePairs ==
  ASSUME NEW t \in Seq(Tokens), NEW p \in 1 .. Len(t), NEW m \in Int, NEW k \in Int,
         t[p] = "object", Goes(t, "pairs", p, m),
         Keyed(t, m), Is(t, "value", m + 3, k)
  PROVE  Is(t, "pairs", p, k)
<1>1. m + 3 \in Int /\ {"pairs", "value"} \subseteq Kinds
  BY DEF Kinds
<1>2. m + 3 <= k /\ k <= Len(t) /\ p <= m
  BY <1>1, PhraseBounds, GoesBounds
<1>3. m \in p .. k - 3 /\ 1 <= p /\ p <= k /\ p \in Int
  BY <1>2
<1> QED BY <1>2, <1>3, PairsAre, Zenon DEF Goes, Keyed

\* A value is awaited at q in the array or object that is open at p.
Ready(t, p, q) ==
  \/ t[p] = "array" /\ Goes(t, "items", p, q - 1)
  \/ t[p] = "object" /\ Goes(t, "pairs", p, q - 3) /\ Keyed(t, q - 3)

\* What is read of the array or object that is open at p ends with a value at k.
Reached(t, p, k) == \/ t[p] = "array" /\ Is(t, "items", p, k)
                    \/ t[p] = "object" /\ Is(t, "pairs", p, k)

LEMMA ReachedOn ==
  ASSUME NEW t \in Seq(Tokens), NEW p \in 1 .. Len(t), NEW q \in Int, NEW k \in Int,
         Ready(t, p, q), Is(t, "value", q, k)
  PROVE  Reached(t, p, k)
<1>1. q - 1 \in Int /\ (q - 1) + 1 = q /\ q - 3 \in Int /\ (q - 3) + 3 = q
  OBVIOUS
<1>2. CASE t[p] = "array" /\ Goes(t, "items", p, q - 1)
  <2> DEFINE m == q - 1
  <2>1. m \in Int /\ Goes(t, "items", p, m) /\ Is(t, "value", m + 1, k)
    BY <1>1, <1>2
  <2> HIDE DEF m
  <2> QED BY <1>2, <2>1, MoreItems DEF Reached
<1>3. CASE t[p] = "object" /\ Goes(t, "pairs", p, q - 3) /\ Keyed(t, q - 3)
  <2> DEFINE m == q - 3
  <2>1. m \in Int /\ Goes(t, "pairs", p, m) /\ Keyed(t, m) /\ Is(t, "value", m + 3, k)
    BY <1>1, <1>3
  <2> HIDE DEF m
  <2>2. Is(t, "pairs", p, k)
    BY <1>3, <2>1, MorePairs, Zenon
  <2> QED BY <1>3, <2>2 DEF Reached
<1> QED BY <1>2, <1>3, Zenon DEF Ready

\* The arrays and objects that are open, each begun where a value was awaited.
Top(open) == open[Len(open)]
Awaits(t, open, q) == IF open = <<>> THEN q = 1 ELSE Ready(t, Top(open), q)
Delivered(t, open, k) == IF open = <<>> THEN Is(t, "value", 1, k) ELSE Reached(t, Top(open), k)
Nested(t, open) ==
  /\ open \in Seq(1 .. Len(t))
  /\ \A d \in 1 .. Len(open) : IF d = 1 THEN open[d] = 1 ELSE Ready(t, open[d - 1], open[d])

\* What the parser has seen, in each place.
Seen(t, k, st) ==
  LET p == Top(st.open)
  IN  CASE st.at = "value" -> Awaits(t, st.open, k + 1)
        [] st.at = "firstItem" -> st.open # <<>> /\ p = k /\ t[k] = "array"
        [] st.at = "firstKey" -> st.open # <<>> /\ p = k /\ t[k] = "object"
        [] st.at = "key" -> st.open # <<>> /\ t[p] = "object" /\ Goes(t, "pairs", p, k)
        [] st.at = "colon" -> /\ st.open # <<>> /\ t[p] = "object"
                              /\ Goes(t, "pairs", p, k - 1) /\ t[k] = "str"
        [] OTHER -> Delivered(t, st.open, k)

Sound(t, k, st) == st.at # "error" => Nested(t, st.open) /\ Seen(t, k, st)

Longer(S, s, e) ==
  LET more == Append(s, e)
  IN  /\ more \in Seq(S) /\ Len(more) = Len(s) + 1
      /\ more # <<>> /\ more[Len(s) + 1] = e
      /\ \A d \in 1 .. Len(s) : more[d] = s[d]

LEMMA OneMore ==
  ASSUME NEW S, NEW s \in Seq(S), NEW e \in S
  PROVE  Longer(S, s, e)
BY AppendProperties DEF Longer

LEMMA NestedMore ==
  ASSUME NEW t \in Seq(Tokens), NEW open, NEW k \in 1 .. Len(t),
         Nested(t, open), Awaits(t, open, k)
  PROVE  /\ Nested(t, Append(open, k))
         /\ Append(open, k) # <<>> /\ Top(Append(open, k)) = k
<1> DEFINE more == Append(open, k)
<1>1. open \in Seq(1 .. Len(t))
  BY DEF Nested
<1>2. /\ more \in Seq(1 .. Len(t)) /\ Len(more) = Len(open) + 1
      /\ more # <<>> /\ more[Len(open) + 1] = k
      /\ \A d \in 1 .. Len(open) : more[d] = open[d]
  <2>1. Longer(1 .. Len(t), open, k)
    BY <1>1, OneMore, Zenon
  <2> QED BY <2>1, Zenon DEF Longer
<1>3. Len(open) \in Nat /\ (open = <<>> <=> Len(open) = 0)
  BY <1>1
<1> HIDE DEF more
<1>4. ASSUME NEW d \in 1 .. Len(more)
      PROVE  IF d = 1 THEN more[d] = 1 ELSE Ready(t, more[d - 1], more[d])
  <2>1. CASE d = Len(open) + 1
    <3>1. CASE open = <<>>
      BY <1>2, <1>3, <2>1, <3>1 DEF Awaits
    <3>2. CASE open # <<>>
      <4>1. d # 1 /\ d - 1 = Len(open) /\ d - 1 \in 1 .. Len(open)
        BY <1>3, <2>1, <3>2
      <4>2. more[d] = k /\ more[d - 1] = Top(open)
        BY <1>2, <2>1, <4>1 DEF Top
      <4> QED BY <3>2, <4>1, <4>2 DEF Awaits
    <3> QED BY <3>1, <3>2
  <2>2. CASE d # Len(open) + 1
    <3>1. d \in 1 .. Len(open) /\ (d # 1 => d - 1 \in 1 .. Len(open))
      BY <1>2, <1>3, <2>2
    <3>2. more[d] = open[d] /\ (d # 1 => more[d - 1] = open[d - 1])
      BY <1>2, <3>1
    <3> QED BY <3>1, <3>2 DEF Nested
  <2> QED BY <2>1, <2>2
<1>5. Nested(t, more) /\ Top(more) = k
  BY <1>2, <1>4 DEF Nested, Top
<1> QED BY <1>2, <1>5 DEF more

LEMMA Delivers ==
  ASSUME NEW t \in Seq(Tokens), NEW open, NEW q \in Int, NEW k \in Int,
         Nested(t, open), Awaits(t, open, q), Is(t, "value", q, k)
  PROVE  Delivered(t, open, k)
<1>1. CASE open = <<>>
  BY <1>1 DEF Awaits, Delivered
<1>2. CASE open # <<>>
  <2>1. Top(open) \in 1 .. Len(t)
    BY <1>2 DEF Nested, Top
  <2>2. Ready(t, Top(open), q)
    BY <1>2 DEF Awaits
  <2>3. Reached(t, Top(open), k)
    BY <2>1, <2>2, ReachedOn
  <2> QED BY <1>2, <2>3 DEF Delivered
<1> QED BY <1>1, <1>2

\* An array or object that ends is a value.
LEMMA SoundClose ==
  ASSUME NEW t \in Seq(Tokens), NEW open, NEW k \in Int,
         Nested(t, open), open # <<>>, Is(t, "value", Top(open), k)
  PROVE  Sound(t, k, Close(open))
<1> DEFINE rest == Close(open).open
<1>1. open \in Seq(1 .. Len(t)) /\ open \in Seq(Nat) /\ Len(open) \in Nat \ {0}
  BY DEF Nested
<1>2. /\ Close(open).at = "after" /\ Close(open) \in States
      /\ Len(rest) = Len(open) - 1
      /\ \A d \in 1 .. Len(open) - 1 : rest[d] = open[d]
  BY <1>1, CloseIs
<1>3. rest \in Seq(Nat)
  BY <1>2 DEF States
<1>0. \A l \in Nat \ {0} : /\ l # 1 => l - 1 \in 1 .. l - 1
                           /\ l \in 1 .. l /\ \A d \in 1 .. l - 1 : d \in 1 .. l
  OBVIOUS
<1>4. \A d \in 1 .. Len(rest) : rest[d] \in 1 .. Len(t)
  <2>1. \A d \in 1 .. Len(open) : open[d] \in 1 .. Len(t)
    BY <1>1
  <2> HIDE DEF rest
  <2> QED BY <1>0, <1>1, <1>2, <2>1
<1> HIDE DEF rest
<1>5. rest \in Seq(1 .. Len(t))
  <2>1. \A s \in Seq(Nat) : (\A d \in 1 .. Len(s) : s[d] \in 1 .. Len(t)) => s \in Seq(1 .. Len(t))
    OBVIOUS
  <2> QED BY <1>3, <1>4, <2>1
<1>6. Nested(t, rest)
  <2>1. ASSUME NEW d \in 1 .. Len(rest)
        PROVE  IF d = 1 THEN rest[d] = 1 ELSE Ready(t, rest[d - 1], rest[d])
    <3>1. d \in 1 .. Len(open) /\ d \in 1 .. Len(open) - 1
          /\ (d # 1 => d - 1 \in 1 .. Len(open) - 1)
      BY <1>1, <1>2
    <3>2. rest[d] = open[d] /\ (d # 1 => rest[d - 1] = open[d - 1])
      BY <1>2, <3>1
    <3> QED BY <3>1, <3>2 DEF Nested
  <2> QED BY <1>5, <2>1 DEF Nested
<1>7. Awaits(t, rest, Top(open))
  <2>1. CASE Len(open) = 1
    <3>1. rest = <<>>
      BY <1>2, <1>3, <2>1
    <3>2. Top(open) = 1
      BY <2>1 DEF Nested, Top
    <3> QED BY <3>1, <3>2 DEF Awaits
  <2>2. CASE Len(open) # 1
    <3>1. Len(open) \in 1 .. Len(open) /\ Len(open) - 1 \in 1 .. Len(open) - 1
      BY <1>0, <1>1, <2>2
    <3>2. rest # <<>> /\ Top(rest) = open[Len(open) - 1]
      <4>1. Len(rest) \in 1 .. Len(rest)
        BY <1>2, <3>1
      <4> QED BY <1>2, <3>1, <4>1 DEF Top
    <3>3. Ready(t, open[Len(open) - 1], Top(open))
      BY <2>2, <3>1 DEF Nested, Top
    <3> QED BY <3>2, <3>3 DEF Awaits
  <2> QED BY <2>1, <2>2
<1>8. Top(open) \in Int
  BY <1>1 DEF Top
<1>9. Delivered(t, rest, k)
  BY <1>6, <1>7, <1>8, Delivers
<1> QED BY <1>2, <1>6, <1>9 DEF Sound, Seen, rest

\* A token that may begin a value, where one is awaited.
LEMMA SoundValue ==
  ASSUME NEW t \in Seq(Tokens), NEW open, NEW k \in 1 .. Len(t),
         Nested(t, open), Awaits(t, open, k)
  PROVE  Sound(t, k, j_value(t, k, open))
<1> DEFINE more == Append(open, k)
<1>1. Nested(t, more) /\ more # <<>> /\ Top(more) = k
  BY NestedMore
<1> HIDE DEF more
<1>2. CASE t[k] = "array"
  <2>1. j_value(t, k, open) = Waits("firstItem", more)
    BY <1>2 DEF j_value, more
  <2>2. Sound(t, k, Waits("firstItem", more))
    BY <1>1, <1>2, WaitsIs DEF Sound, Seen
  <2> QED BY <2>1, <2>2
<1>3. CASE t[k] = "object"
  <2>1. j_value(t, k, open) = Waits("firstKey", more)
    BY <1>3 DEF j_value, more
  <2>2. Sound(t, k, Waits("firstKey", more))
    BY <1>1, <1>3, WaitsIs DEF Sound, Seen
  <2> QED BY <2>1, <2>2
<1>4. CASE t[k] \in {"str", "lit"}
  <2>1. j_value(t, k, open) = Waits("after", open)
    BY <1>4 DEF j_value
  <2>2. Is(t, "value", k, k)
    BY <1>4, ValueIs
  <2>3. Delivered(t, open, k)
    BY <2>2, Delivers
  <2>4. Sound(t, k, Waits("after", open))
    BY <2>3, WaitsIs DEF Sound, Seen
  <2> QED BY <2>1, <2>4
<1>5. CASE t[k] \notin {"array", "object", "str", "lit"}
  <2>1. j_value(t, k, open) = Waits("error", open)
    BY <1>5 DEF j_value
  <2> QED BY <2>1, WaitsIs DEF Sound
<1> QED BY <1>2, <1>3, <1>4, <1>5

LEMMA SoundArray ==
  ASSUME NEW t \in Seq(Tokens), NEW k \in 1 .. Len(t), NEW st \in States,
         Nested(t, st.open), Seen(t, k - 1, st), st.open # <<>>,
         st.at \notin {"value", "error"}, t[Top(st.open)] = "array"
  PROVE  Sound(t, k, j_array(t, k, st))
<1> DEFINE open == st.open
           p == Top(open)
<1>1. p \in 1 .. Len(t)
  BY DEF Nested, Top
<1>2. Waits("error", open).at = "error"
  BY WaitsIs
<1>3. CASE st.at = "firstItem"
  <2>1. p = k - 1
    BY <1>3 DEF Seen
  <2>2. CASE t[k] = "arrayEnd"
    <3>1. p \in Int /\ k = p + 1 /\ 1 <= p /\ p <= k /\ k <= Len(t)
      BY <1>1, <2>1
    <3>2. Is(t, "value", p, k)
      BY <2>2, <3>1, ValueIs
    <3>3. j_array(t, k, st) = Close(open)
      BY <2>2 DEF j_array
    <3> QED BY <3>2, <3>3, SoundClose
  <2>3. CASE t[k] # "arrayEnd"
    <3>1. Awaits(t, open, k)
      BY <2>1 DEF Awaits, Ready, Goes
    <3>2. j_array(t, k, st) = j_value(t, k, open)
      BY <1>3, <2>3 DEF j_array
    <3> QED BY <3>1, <3>2, SoundValue
  <2> QED BY <2>2, <2>3
<1>4. CASE st.at = "after"
  <2>1. Is(t, "items", p, k - 1)
    BY <1>4 DEF Seen, Delivered, Reached
  <2>2. CASE t[k] = "arrayEnd"
    <3>1. p \in Int /\ k - 1 \in Int /\ "items" \in Kinds
      BY <1>1 DEF Kinds
    <3>2. 1 <= p /\ p <= k - 1
      BY <2>1, <3>1, PhraseBounds
    <3>3. 1 <= p /\ p <= k /\ k <= Len(t)
      BY <3>1, <3>2
    <3>4. Is(t, "value", p, k)
      BY <2>1, <2>2, <3>1, <3>3, ValueIs
    <3>5. j_array(t, k, st) = Close(open)
      BY <2>2 DEF j_array
    <3> QED BY <3>4, <3>5, SoundClose
  <2>3. CASE t[k] = "comma"
    <3>1. (k + 1) - 1 = k
      OBVIOUS
    <3>2. Awaits(t, open, k + 1)
      BY <2>1, <2>3, <3>1 DEF Awaits, Ready, Goes
    <3>3. j_array(t, k, st) = Waits("value", open)
      BY <1>4, <2>3 DEF j_array
    <3> QED BY <3>2, <3>3, WaitsIs DEF Sound, Seen
  <2>4. CASE t[k] \notin {"arrayEnd", "comma"}
    <3>1. j_array(t, k, st) = Waits("error", open)
      BY <1>4, <2>4 DEF j_array
    <3> QED BY <1>2, <3>1 DEF Sound
  <2> QED BY <2>2, <2>3, <2>4
<1>5. st.at \notin {"firstKey", "key", "colon"}
  BY DEF Seen
<1> QED BY <1>3, <1>4, <1>5 DEF States, Places

LEMMA SoundObject ==
  ASSUME NEW t \in Seq(Tokens), NEW k \in 1 .. Len(t), NEW st \in States,
         Nested(t, st.open), Seen(t, k - 1, st), st.open # <<>>,
         st.at \notin {"value", "error"}, t[Top(st.open)] = "object"
  PROVE  Sound(t, k, j_object(t, k, st))
<1> DEFINE open == st.open
           p == Top(open)
<1>1. p \in 1 .. Len(t) /\ p \in Int /\ k - 1 \in Int
  BY DEF Nested, Top
<1>2. Waits("error", open).at = "error"
  BY WaitsIs
<1>3. CASE st.at \in {"firstKey", "key"}
  <2>1. Goes(t, "pairs", p, k - 1) /\ (st.at = "firstKey" => p = k - 1)
    BY <1>3 DEF Seen, Goes
  <2>2. CASE t[k] = "objectEnd" /\ st.at = "firstKey"
    <3>1. k = p + 1 /\ 1 <= p /\ p <= k /\ k <= Len(t)
      BY <1>1, <2>1, <2>2
    <3>2. Is(t, "value", p, k)
      BY <1>1, <2>2, <3>1, ValueIs
    <3>3. j_object(t, k, st) = Close(open)
      BY <2>2 DEF j_object
    <3> QED BY <3>2, <3>3, SoundClose
  <2>3. CASE t[k] = "str"
    <3>1. j_object(t, k, st) = Waits("colon", open)
      BY <1>3, <2>3 DEF j_object
    <3> QED BY <2>1, <2>3, <3>1, WaitsIs DEF Sound, Seen
  <2>4. CASE t[k] # "str" /\ ~ (t[k] = "objectEnd" /\ st.at = "firstKey")
    <3>1. j_object(t, k, st) = Waits("error", open)
      BY <1>3, <2>4 DEF j_object
    <3> QED BY <1>2, <3>1 DEF Sound
  <2> QED BY <2>2, <2>3, <2>4
<1>4. CASE st.at = "colon"
  <2>1. Goes(t, "pairs", p, k - 2) /\ t[k - 1] = "str"
    <3>1. (k - 1) - 1 = k - 2
      OBVIOUS
    <3> QED BY <1>4, <3>1 DEF Seen
  <2>2. CASE t[k] = "colon"
    <3>1. (k + 1) - 3 = k - 2 /\ (k - 2) + 1 = k - 1 /\ (k - 2) + 2 = k
      OBVIOUS
    <3>2. Keyed(t, k - 2)
      BY <2>1, <2>2, <3>1 DEF Keyed
    <3>3. Awaits(t, open, k + 1)
      BY <2>1, <3>1, <3>2 DEF Awaits, Ready
    <3>4. j_object(t, k, st) = Waits("value", open)
      BY <1>4, <2>2 DEF j_object
    <3> QED BY <3>3, <3>4, WaitsIs DEF Sound, Seen
  <2>3. CASE t[k] # "colon"
    <3>1. j_object(t, k, st) = Waits("error", open)
      BY <1>4, <2>3 DEF j_object
    <3> QED BY <1>2, <3>1 DEF Sound
  <2> QED BY <2>2, <2>3
<1>5. CASE st.at = "after"
  <2>1. Is(t, "pairs", p, k - 1)
    BY <1>5 DEF Seen, Delivered, Reached
  <2>2. CASE t[k] = "objectEnd"
    <3>1. 1 <= p /\ p <= k - 1
      BY <1>1, <2>1, PhraseBounds DEF Kinds
    <3>2. 1 <= p /\ p <= k /\ k <= Len(t)
      BY <1>1, <3>1
    <3>3. Is(t, "value", p, k)
      BY <1>1, <2>1, <2>2, <3>2, ValueIs
    <3>4. j_object(t, k, st) = Close(open)
      BY <1>5, <2>2 DEF j_object
    <3> QED BY <3>3, <3>4, SoundClose
  <2>3. CASE t[k] = "comma"
    <3>1. Goes(t, "pairs", p, k)
      BY <2>1, <2>3 DEF Goes
    <3>2. j_object(t, k, st) = Waits("key", open)
      BY <1>5, <2>3 DEF j_object
    <3> QED BY <3>1, <3>2, WaitsIs DEF Sound, Seen
  <2>4. CASE t[k] \notin {"objectEnd", "comma"}
    <3>1. j_object(t, k, st) = Waits("error", open)
      BY <1>5, <2>4 DEF j_object
    <3> QED BY <1>2, <3>1 DEF Sound
  <2> QED BY <2>2, <2>3, <2>4
<1>6. st.at # "firstItem"
  BY DEF Seen
<1> QED BY <1>3, <1>4, <1>5, <1>6 DEF States, Places

LEMMA SoundLook ==
  ASSUME NEW t \in Seq(Tokens), NEW k \in 1 .. Len(t), NEW st \in States, Sound(t, k - 1, st)
  PROVE  Sound(t, k, Looks(t, k, st))
<1>1. CASE st.at = "value"
  <2>1. Nested(t, st.open) /\ Awaits(t, st.open, k)
    <3>1. (k - 1) + 1 = k
      OBVIOUS
    <3> QED BY <1>1, <3>1 DEF Sound, Seen
  <2>2. Looks(t, k, st) = j_value(t, k, st.open)
    BY <1>1 DEF Looks
  <2> QED BY <2>1, <2>2, SoundValue
<1>2. CASE st.at \notin {"value", "error"} /\ st.open # <<>> /\ t[Top(st.open)] = "array"
  <2>1. Looks(t, k, st) = j_array(t, k, st)
    BY <1>2 DEF Looks, Top
  <2> QED BY <1>2, <2>1, SoundArray DEF Sound
<1>3. CASE st.at \notin {"value", "error"} /\ st.open # <<>> /\ t[Top(st.open)] = "object"
  <2>1. Looks(t, k, st) = j_object(t, k, st)
    BY <1>3 DEF Looks, Top
  <2> QED BY <1>3, <2>1, SoundObject DEF Sound
<1>4. CASE /\ st.at # "value"
           /\ st.at = "error" \/ st.open = <<>> \/ t[Top(st.open)] \notin {"array", "object"}
  <2>1. Looks(t, k, st) = Waits("error", st.open)
    BY <1>4 DEF Looks, Top
  <2> QED BY <2>1, WaitsIs DEF Sound
<1> QED BY <1>1, <1>2, <1>3, <1>4

\* What j_parse accepts is a value.
LEMMA ParseSound ==
  ASSUME NEW t \in Seq(Tokens), j_parse(t)
  PROVE  Is(t, "value", 1, Len(t))
<1> DEFINE n == Len(t)
           L == Looking(t)
           T == {k \in 0 .. n : Sound(t, k, L[k])}
<1>1. n \in Nat
  OBVIOUS
<1>2. /\ L[0] = Waits("value", <<>>)
      /\ \A k \in 1 .. n : L[k] = Looks(t, k, L[k - 1])
      /\ \A k \in 0 .. n : L[k] \in States
  BY LookingIs
<1> HIDE DEF L, n
<1>3. 0 \in T
  <2>1. Nested(t, <<>>)
    BY DEF Nested
  <2>2. Awaits(t, <<>>, 0 + 1)
    BY DEF Awaits
  <2>3. Sound(t, 0, L[0])
    BY <1>2, <2>1, <2>2, WaitsIs DEF Sound, Seen
  <2> QED BY <1>1, <2>3
<1>4. ASSUME NEW k \in 1 .. n, k - 1 \in T PROVE k \in T
  <2>1. L[k - 1] \in States /\ Sound(t, k - 1, L[k - 1]) /\ k \in 0 .. n
    BY <1>1, <1>2, <1>4
  <2>2. Sound(t, k, Looks(t, k, L[k - 1]))
    BY <2>1, SoundLook DEF n
  <2> QED BY <1>2, <2>1, <2>2
<1> HIDE DEF T
<1>5. n \in T
  <2>1. \A k \in 0 .. n : k \in T
    BY <1>1, <1>3, <1>4, Reaches
  <2> QED BY <1>1, <2>1
<1>6. L[n] = Waits("after", <<>>)
  BY DEF j_parse, L, n
<1>7. Delivered(t, <<>>, n)
  BY <1>5, <1>6, WaitsIs DEF T, Sound, Seen
<1> QED BY <1>7 DEF Delivered, n

\* A value is awaited at i, the brackets in open being open.
Expects(t, i, open) ==
  \/ Looking(t)[i - 1] = Waits("value", open)
  \/ Looking(t)[i - 1] = Waits("firstItem", open) /\ open # <<>> /\ t[Top(open)] = "array"

\* The parser passes over a phrase.
PassesValue(t, i, j) ==
  Is(t, "value", i, j) =>
    \A open \in Seq(Nat) : Expects(t, i, open) => Looking(t)[j] = Waits("after", open)
PassesItems(t, i, j) ==
  Is(t, "items", i, j) =>
    \A open \in Seq(Nat) : Looking(t)[i] = Waits("firstItem", Append(open, i)) =>
                             Looking(t)[j] = Waits("after", Append(open, i))
PassesPairs(t, i, j) ==
  Is(t, "pairs", i, j) =>
    \A open \in Seq(Nat) : Looking(t)[i] = Waits("firstKey", Append(open, i)) =>
                             Looking(t)[j] = Waits("after", Append(open, i))
Passes(t, i, j) == PassesValue(t, i, j) /\ PassesItems(t, i, j) /\ PassesPairs(t, i, j)

LEMMA Appended ==
  ASSUME NEW open \in Seq(Nat), NEW i \in Nat
  PROVE  /\ Append(open, i) \in Seq(Nat) /\ Append(open, i) # <<>>
         /\ Top(Append(open, i)) = i
         /\ Close(Append(open, i)) = Waits("after", open)
<1> DEFINE more == Append(open, i)
<1>1. /\ more \in Seq(Nat) /\ more # <<>> /\ Len(more) = Len(open) + 1
      /\ more[Len(open) + 1] = i
  OBVIOUS
<1>2. SubSeq(more, 1, Len(open)) = open
  OBVIOUS
<1>3. Len(open) \in Nat /\ Len(open) + 1 - 1 = Len(open)
  OBVIOUS
<1> HIDE DEF more
<1>4. Top(more) = i /\ Close(more) = Waits("after", open)
  <2>1. Len(more) - 1 = Len(open)
    BY <1>1, <1>3
  <2> QED BY <1>1, <1>2, <2>1 DEF Top, Close
<1> QED BY <1>1, <1>4, Zenon DEF more

\* One look, in each kind of bracket and outside.
LEMMA LookAtValue ==
  ASSUME NEW t \in Seq(Tokens), NEW i \in 1 .. Len(t), NEW open \in Seq(Nat),
         Expects(t, i, open), t[i] # "arrayEnd"
  PROVE  Looking(t)[i] = j_value(t, i, open)
<1> DEFINE st == Looking(t)[i - 1]
<1>1. Looking(t)[i] = Looks(t, i, st)
  BY LookingIs
<1> HIDE DEF st
<1>2. CASE st = Waits("value", open)
  BY <1>1, <1>2, WaitsIs DEF Looks
<1>3. CASE st = Waits("firstItem", open) /\ open # <<>> /\ t[Top(open)] = "array"
  BY <1>1, <1>3, WaitsIs DEF Looks, j_array, Top
<1> QED BY <1>2, <1>3 DEF Expects, st

LEMMA LookInArray ==
  ASSUME NEW t \in Seq(Tokens), NEW k \in 1 .. Len(t), NEW open \in Seq(Nat), open # <<>>,
         t[Top(open)] = "array"
  PROVE  /\ /\ Looking(t)[k - 1] \in {Waits("after", open), Waits("firstItem", open)}
            /\ t[k] = "arrayEnd"
            => Looking(t)[k] = Close(open)
         /\ Looking(t)[k - 1] = Waits("after", open) /\ t[k] = "comma"
            => Looking(t)[k] = Waits("value", open)
<1>1. Looking(t)[k] = Looks(t, k, Looking(t)[k - 1])
  BY LookingIs
<1> QED BY <1>1, WaitsIs DEF Looks, j_array, Top

LEMMA LookInObject ==
  ASSUME NEW t \in Seq(Tokens), NEW k \in 1 .. Len(t), NEW open \in Seq(Nat), open # <<>>,
         t[Top(open)] = "object"
  PROVE  /\ /\ Looking(t)[k - 1] \in {Waits("after", open), Waits("firstKey", open)}
            /\ t[k] = "objectEnd"
            => Looking(t)[k] = Close(open)
         /\ Looking(t)[k - 1] = Waits("after", open) /\ t[k] = "comma"
            => Looking(t)[k] = Waits("key", open)
         /\ /\ Looking(t)[k - 1] \in {Waits("firstKey", open), Waits("key", open)}
            /\ t[k] = "str"
            => Looking(t)[k] = Waits("colon", open)
         /\ Looking(t)[k - 1] = Waits("colon", open) /\ t[k] = "colon"
            => Looking(t)[k] = Waits("value", open)
<1>1. Looking(t)[k] = Looks(t, k, Looking(t)[k - 1])
  BY LookingIs
<1> QED BY <1>1, WaitsIs DEF Looks, j_object, Top

\* A phrase is passed over when the shorter ones are.
LEMMA ValuePassed ==
  ASSUME NEW t \in Seq(Tokens), NEW i \in 1 .. Len(t), NEW j \in 1 .. Len(t),
         \A a, b \in 1 .. Len(t) : b - a < j - i => Passes(t, a, b)
  PROVE  PassesValue(t, i, j)
<1> SUFFICES ASSUME Is(t, "value", i, j), NEW open \in Seq(Nat), Expects(t, i, open)
             PROVE  Looking(t)[j] = Waits("after", open)
  BY DEF PassesValue
<1> DEFINE more == Append(open, i)
<1>1. more \in Seq(Nat) /\ more # <<>> /\ Top(more) = i /\ Close(more) = Waits("after", open)
  BY Appended
<1> HIDE DEF more
<1>2. i \in Int /\ j \in Int /\ j - 1 \in Int
  OBVIOUS
<1>3. CASE i = j /\ t[i] \in {"str", "lit"}
  <2>1. Looking(t)[i] = j_value(t, i, open)
    BY <1>3, LookAtValue
  <2> QED BY <1>3, <2>1 DEF j_value
<1>4. CASE t[i] = "array" /\ t[j] = "arrayEnd" /\ (Is(t, "items", i, j - 1) \/ j = i + 1)
  <2>1. Looking(t)[i] = Waits("firstItem", more)
    <3>1. Looking(t)[i] = j_value(t, i, open)
      BY <1>4, LookAtValue
    <3> QED BY <1>4, <3>1 DEF j_value, more
  <2>2. Looking(t)[j - 1] \in {Waits("after", more), Waits("firstItem", more)}
    <3>1. CASE Is(t, "items", i, j - 1)
      <4>1. i <= j - 1
        BY <1>2, <3>1, PhraseBounds DEF Kinds
      <4>2. j - 1 \in 1 .. Len(t) /\ (j - 1) - i < j - i
        BY <4>1
      <4>3. PassesItems(t, i, j - 1)
        BY <4>2 DEF Passes
      <4> QED BY <2>1, <3>1, <4>3 DEF PassesItems, more
    <3>2. CASE j = i + 1
      <4>1. j - 1 = i
        BY <3>2
      <4> QED BY <2>1, <4>1
    <3> QED BY <1>4, <3>1, <3>2
  <2> QED BY <1>1, <1>4, <2>2, LookInArray
<1>5. CASE t[i] = "object" /\ t[j] = "objectEnd" /\ (Is(t, "pairs", i, j - 1) \/ j = i + 1)
  <2>1. Looking(t)[i] = Waits("firstKey", more)
    <3>1. Looking(t)[i] = j_value(t, i, open)
      BY <1>5, LookAtValue
    <3> QED BY <1>5, <3>1 DEF j_value, more
  <2>2. Looking(t)[j - 1] \in {Waits("after", more), Waits("firstKey", more)}
    <3>1. CASE Is(t, "pairs", i, j - 1)
      <4>1. i <= j - 1
        BY <1>2, <3>1, PhraseBounds DEF Kinds
      <4>2. j - 1 \in 1 .. Len(t) /\ (j - 1) - i < j - i
        BY <4>1
      <4>3. PassesPairs(t, i, j - 1)
        BY <4>2 DEF Passes
      <4> QED BY <2>1, <3>1, <4>3 DEF PassesPairs, more
    <3>2. CASE j = i + 1
      <4>1. j - 1 = i
        BY <3>2
      <4> QED BY <2>1, <4>1
    <3> QED BY <1>5, <3>1, <3>2
  <2> QED BY <1>1, <1>5, <2>2, LookInObject
<1>6. Is(t, "items", i, j - 1) => t[i] = "array"
  BY <1>2, ItemsAre
<1>7. Is(t, "pairs", i, j - 1) => t[i] = "object"
  BY <1>2, PairsAre
<1>8. \/ i = j /\ t[i] \in {"str", "lit"}
      \/ Is(t, "items", i, j - 1) /\ t[j] = "arrayEnd"
      \/ Is(t, "pairs", i, j - 1) /\ t[j] = "objectEnd"
      \/ j = i + 1 /\ t[i] = "array" /\ t[j] = "arrayEnd"
      \/ j = i + 1 /\ t[i] = "object" /\ t[j] = "objectEnd"
  BY <1>2, ValueIs
<1> QED BY <1>3, <1>4, <1>5, <1>6, <1>7, <1>8

LEMMA ItemsPassed ==
  ASSUME NEW t \in Seq(Tokens), NEW i \in 1 .. Len(t), NEW j \in 1 .. Len(t),
         \A a, b \in 1 .. Len(t) : b - a < j - i => Passes(t, a, b)
  PROVE  PassesItems(t, i, j)
<1> DEFINE more(open) == Append(open, i)
<1> SUFFICES ASSUME Is(t, "items", i, j), NEW open \in Seq(Nat),
                    Looking(t)[i] = Waits("firstItem", more(open))
             PROVE  Looking(t)[j] = Waits("after", more(open))
  BY DEF PassesItems
<1>0. i \in Int /\ j \in Int
  OBVIOUS
<1>1. more(open) \in Seq(Nat) /\ more(open) # <<>> /\ Top(more(open)) = i
  BY Appended
<1>2. t[i] = "array"
  BY ItemsAre
<1>3. PICK m \in i .. j - 1 : Goes(t, "items", i, m) /\ Is(t, "value", m + 1, j)
  BY <1>0, ItemsAre, Zenon DEF Goes
<1>4. m + 1 \in 1 .. Len(t) /\ m \in 1 .. Len(t) /\ j - (m + 1) < j - i /\ (m + 1) - 1 = m
  OBVIOUS
<1>5. Expects(t, m + 1, more(open))
  <2>1. CASE m = i
    BY <1>1, <1>2, <1>4, <2>1 DEF Expects
  <2>2. CASE Is(t, "items", i, m - 1) /\ t[m] = "comma"
    <3>1. i <= m - 1
      BY <2>2, PhraseBounds DEF Kinds
    <3>2. m - 1 \in 1 .. Len(t) /\ (m - 1) - i < j - i
      BY <1>4, <3>1
    <3>3. PassesItems(t, i, m - 1)
      BY <3>2 DEF Passes
    <3>4. Looking(t)[m - 1] = Waits("after", more(open))
      BY <2>2, <3>3 DEF PassesItems
    <3> HIDE DEF more
    <3>5. Looking(t)[m] = Waits("value", more(open))
      BY <1>1, <1>2, <1>4, <2>2, <3>4, LookInArray
    <3> QED BY <1>4, <3>5 DEF Expects
  <2> QED BY <1>3, <2>1, <2>2, Zenon DEF Goes
<1>6. PassesValue(t, m + 1, j)
  BY <1>4 DEF Passes
<1> HIDE DEF more
<1> QED BY <1>1, <1>3, <1>5, <1>6 DEF PassesValue

LEMMA PairsPassed ==
  ASSUME NEW t \in Seq(Tokens), NEW i \in 1 .. Len(t), NEW j \in 1 .. Len(t),
         \A a, b \in 1 .. Len(t) : b - a < j - i => Passes(t, a, b)
  PROVE  PassesPairs(t, i, j)
<1> DEFINE more(open) == Append(open, i)
<1> SUFFICES ASSUME Is(t, "pairs", i, j), NEW open \in Seq(Nat),
                    Looking(t)[i] = Waits("firstKey", more(open))
             PROVE  Looking(t)[j] = Waits("after", more(open))
  BY DEF PassesPairs
<1>0. i \in Int /\ j \in Int
  OBVIOUS
<1>1. more(open) \in Seq(Nat) /\ more(open) # <<>> /\ Top(more(open)) = i
  BY Appended
<1>2. t[i] = "object"
  BY PairsAre
<1>3. PICK m \in i .. j - 3 : /\ Goes(t, "pairs", i, m) /\ Keyed(t, m)
                              /\ Is(t, "value", m + 3, j)
  BY <1>0, PairsAre, Zenon DEF Goes, Keyed
<1>4. /\ m \in 1 .. Len(t) /\ m + 1 \in 1 .. Len(t) /\ m + 2 \in 1 .. Len(t) /\ m + 3 \in 1 .. Len(t)
      /\ j - (m + 3) < j - i
      /\ (m + 1) - 1 = m /\ (m + 2) - 1 = m + 1 /\ (m + 3) - 1 = m + 2
  OBVIOUS
<1>5. Looking(t)[m] \in {Waits("firstKey", more(open)), Waits("key", more(open))}
  <2>1. CASE m = i
    BY <2>1
  <2>2. CASE Is(t, "pairs", i, m - 1) /\ t[m] = "comma"
    <3>1. i <= m - 1
      BY <2>2, PhraseBounds DEF Kinds
    <3>2. m - 1 \in 1 .. Len(t) /\ (m - 1) - i < j - i
      BY <1>4, <3>1
    <3>3. PassesPairs(t, i, m - 1)
      BY <3>2 DEF Passes
    <3>4. Looking(t)[m - 1] = Waits("after", more(open))
      BY <2>2, <3>3 DEF PassesPairs
    <3> HIDE DEF more
    <3>5. Looking(t)[m] = Waits("key", more(open))
      BY <1>1, <1>2, <1>4, <2>2, <3>4, LookInObject
    <3> QED BY <3>5
  <2> QED BY <1>3, <2>1, <2>2, Zenon DEF Goes
<1> HIDE DEF more
<1>6. Looking(t)[m + 1] = Waits("colon", more(open))
  BY <1>1, <1>2, <1>3, <1>4, <1>5, LookInObject DEF Keyed
<1>7. Looking(t)[m + 2] = Waits("value", more(open))
  BY <1>1, <1>2, <1>3, <1>4, <1>6, LookInObject DEF Keyed
<1>8. Expects(t, m + 3, more(open))
  BY <1>4, <1>7 DEF Expects
<1>9. PassesValue(t, m + 3, j)
  BY <1>4 DEF Passes
<1> QED BY <1>1, <1>3, <1>8, <1>9 DEF PassesValue

\* What is a value j_parse accepts.
LEMMA ParseComplete ==
  ASSUME NEW t \in Seq(Tokens), Is(t, "value", 1, Len(t))
  PROVE  j_parse(t)
<1> DEFINE n == Len(t)
           T == {d \in 0 .. n : \A i, j \in 1 .. n : j - i = d => Passes(t, i, j)}
<1>1. n \in Nat /\ 1 <= n
  <2>1. Len(t) \in Int
    OBVIOUS
  <2> QED BY <2>1, PhraseBounds DEF Kinds
<1>2. ASSUME NEW d \in 0 .. n, \A e \in 0 .. d - 1 : e \in T PROVE d \in T
  <2>1. ASSUME NEW i \in 1 .. n, NEW j \in 1 .. n, j - i = d PROVE Passes(t, i, j)
    <3>1. ASSUME NEW a \in 1 .. n, NEW b \in 1 .. n, b - a < j - i PROVE Passes(t, a, b)
      <4>1. CASE a <= b
        <5>1. b - a \in 0 .. d - 1
          BY <2>1, <3>1, <4>1
        <5> QED BY <1>2, <5>1
      <4>2. CASE ~ (a <= b)
        <5>1. \A kind \in Kinds : ~ Is(t, kind, a, b)
          BY <1>1, <4>2, PhraseBounds
        <5> QED BY <5>1 DEF Passes, PassesValue, PassesItems, PassesPairs, Kinds
      <4> QED BY <4>1, <4>2
    <3> QED BY <3>1, ValuePassed, ItemsPassed, PairsPassed DEF Passes
  <2> QED BY <2>1
<1>3. \A d \in 0 .. n : d \in T
  <2> HIDE DEF T
  <2> QED BY <1>1, <1>2, FromSmaller
<1>4. Passes(t, 1, n)
  <2>1. n - 1 \in 0 .. n /\ 1 \in 1 .. n /\ n \in 1 .. n
    BY <1>1
  <2>2. n - 1 \in T
    BY <1>3, <2>1
  <2> HIDE DEF n
  <2> QED BY <2>1, <2>2
<1>5. Expects(t, 1, <<>>)
  <2>1. 1 - 1 = 0
    OBVIOUS
  <2> QED BY <2>1, LookingIs DEF Expects
<1>6. <<>> \in Seq(Nat)
  OBVIOUS
<1>7. Looking(t)[n] = Waits("after", <<>>)
  BY <1>4, <1>5, <1>6 DEF Passes, PassesValue
<1> QED BY <1>7 DEF j_parse

\* The helpers accept JSON and nothing else.
LEMMA ParseExact ==
  ASSUME NEW t \in Seq(Tokens)
  PROVE  j_parse(t) <=> <<"value", 1, Len(t)>> \in Phrases(t)[Len(t)]
BY ParseSound, ParseComplete DEF Is

(***************************************************************************)
(* JSON strings                                                            *)
(***************************************************************************)

\* Quotients and remainders in the encodings.
Over16(u) == u \div 16
Over256(u) == u \div 256
Over64(u) == u \div 64
Over4096(u) == u \div 4096
Over262144(u) == u \div 262144
Rest16(u) == u % 16
Rest64(u) == u % 64

LEMMA By16 ==
  \A u \in Nat : Over16(u) \in Nat /\ Rest16(u) \in 0 .. 15 /\ u = Over16(u) * 16 + Rest16(u)
<1> SUFFICES ASSUME NEW u \in Nat
             PROVE  Over16(u) \in Nat /\ Rest16(u) \in 0 .. 15 /\ u = Over16(u) * 16 + Rest16(u)
  OBVIOUS
<1>1. Over16(u) \in Nat
  BY DEF Over16
<1>2. Rest16(u) \in 0 .. 15
  BY DEF Rest16
<1>3. u = Over16(u) * 16 + Rest16(u)
  BY DEF Over16, Rest16
<1> QED BY <1>1, <1>2, <1>3

LEMMA By64 ==
  \A u \in Nat : Over64(u) \in Nat /\ Rest64(u) \in 0 .. 63 /\ u = Over64(u) * 64 + Rest64(u)
<1> SUFFICES ASSUME NEW u \in Nat
             PROVE  Over64(u) \in Nat /\ Rest64(u) \in 0 .. 63 /\ u = Over64(u) * 64 + Rest64(u)
  OBVIOUS
<1>1. Over64(u) \in Nat
  BY DEF Over64
<1>2. Rest64(u) \in 0 .. 63
  BY DEF Rest64
<1>3. u = Over64(u) * 64 + Rest64(u)
  BY DEF Over64, Rest64
<1> QED BY <1>1, <1>2, <1>3

LEMMA By256 == \A u \in Nat : Over256(u) = Over16(Over16(u)) /\ Over4096(u) = Over16(Over256(u))
<1>1. \A u \in Nat : Over256(u) = Over16(Over16(u))
  BY DEF Over256, Over16
<1>2. \A u \in Nat : Over4096(u) = Over16(Over256(u))
  BY DEF Over256, Over16, Over4096
<1> QED BY <1>1, <1>2

LEMMA By4096 ==
  \A u \in Nat : Over4096(u) = Over64(Over64(u)) /\ Over262144(u) = Over64(Over4096(u))
<1>1. \A u \in Nat : Over4096(u) = Over64(Over64(u))
  BY DEF Over64, Over4096
<1>2. \A u \in Nat : Over262144(u) = Over64(Over4096(u))
  BY DEF Over64, Over4096, Over262144
<1> QED BY <1>1, <1>2

\* A code unit in four hexadecimal digits.
LEMMA FourDigits ==
  ASSUME NEW u \in CodeUnits
  PROVE  /\ Over4096(u) \in 0 .. 15 /\ Rest16(Over256(u)) \in 0 .. 15
         /\ Rest16(Over16(u)) \in 0 .. 15 /\ Rest16(u) \in 0 .. 15
         /\ u = ((Over4096(u) * 16 + Rest16(Over256(u))) * 16 + Rest16(Over16(u))) * 16 + Rest16(u)
<1> DEFINE v == Over16(u)
           w == Over256(u)
           a == Over4096(u)
           b == Rest16(w)
           c == Rest16(v)
           d == Rest16(u)
<1>0. u \in Nat
  BY DEF CodeUnits
<1>1. v \in Nat /\ d \in 0 .. 15 /\ u = v * 16 + d
  BY <1>0, By16, Zenon
<1>2. w = Over16(v) /\ a = Over16(w)
  BY <1>0, By256, Zenon
<1> HIDE DEF v
<1>3. w \in Nat /\ c \in 0 .. 15 /\ v = w * 16 + c
  BY <1>1, <1>2, By16, Zenon
<1> HIDE DEF w
<1>4. a \in Nat /\ b \in 0 .. 15 /\ w = a * 16 + b
  BY <1>2, <1>3, By16, Zenon
<1> HIDE DEF a, b, c, d
<1>5. u = ((a * 16 + b) * 16 + c) * 16 + d
  BY <1>1, <1>3, <1>4
<1>6. a \in 0 .. 15
  <2>1. u <= 65535
    BY DEF CodeUnits
  <2>2. v <= 4095
    BY <1>0, <1>1, <2>1
  <2>3. w <= 255
    BY <1>1, <1>3, <2>2
  <2> QED BY <1>3, <1>4, <2>3
<1> QED BY <1>1, <1>3, <1>4, <1>5, <1>6, Zenon DEF a, b, c, d, v, w

LEMMA EscapeIs ==
  \A u : UnicodeEscape(u) = <<92, 117, Hex(Over4096(u)), Hex(Rest16(Over256(u))),
                              Hex(Rest16(Over16(u))), Hex(Rest16(u))>>
BY DEF UnicodeEscape, Over4096, Over256, Over16, Rest16

\* A code point in bytes of six bits.
LEMMA SixBits ==
  ASSUME NEW p \in Nat
  PROVE  /\ Over64(p) \in Nat /\ Rest64(p) \in 0 .. 63 /\ p = Over64(p) * 64 + Rest64(p)
         /\ Over4096(p) \in Nat /\ Rest64(Over64(p)) \in 0 .. 63
         /\ Over64(p) = Over4096(p) * 64 + Rest64(Over64(p))
         /\ Over262144(p) \in Nat /\ Rest64(Over4096(p)) \in 0 .. 63
         /\ Over4096(p) = Over262144(p) * 64 + Rest64(Over4096(p))
<1>1. Over64(p) \in Nat /\ Rest64(p) \in 0 .. 63 /\ p = Over64(p) * 64 + Rest64(p)
  BY By64, Zenon
<1>2. Over4096(p) = Over64(Over64(p)) /\ Over262144(p) = Over64(Over4096(p))
  BY By4096, Zenon
<1>3. /\ Over4096(p) \in Nat /\ Rest64(Over64(p)) \in 0 .. 63
      /\ Over64(p) = Over4096(p) * 64 + Rest64(Over64(p))
  BY <1>1, <1>2, By64, Zenon
<1>4. /\ Over262144(p) \in Nat /\ Rest64(Over4096(p)) \in 0 .. 63
      /\ Over4096(p) = Over262144(p) * 64 + Rest64(Over4096(p))
  BY <1>2, <1>3, By64, Zenon
<1> QED BY <1>1, <1>3, <1>4, Zenon

\* A hexadecimal digit is read as what was written.
LEMMA HexDigit ==
  ASSUME NEW d \in 0 .. 15
  PROVE  Hex(d) \in 48 .. 102 /\ hexval(Hex(d)) = d
BY DEF Hex, hexval

LEMMA HexvalType ==
  ASSUME NEW c \in Nat
  PROVE  hexval(c) \in Int
BY DEF hexval

LEMMA Hex4Type ==
  ASSUME NEW s \in Seq(Nat), NEW i \in Nat \ {0}
  PROVE  Hex4(s, i) \in Int
<1>1. CASE i + 3 > Len(s) \/ \E k \in i .. (i + 3) : hexval(s[k]) < 0
  BY <1>1 DEF Hex4
<1>2. CASE ~ (i + 3 > Len(s) \/ \E k \in i .. (i + 3) : hexval(s[k]) < 0)
  <2> DEFINE a == hexval(s[i])
             b == hexval(s[i + 1])
             c == hexval(s[i + 2])
             d == hexval(s[i + 3])
  <2>1. s[i] \in Nat /\ s[i + 1] \in Nat /\ s[i + 2] \in Nat /\ s[i + 3] \in Nat
    <3>1. i + 3 <= Len(s) /\ Len(s) \in Nat
      BY <1>2
    <3>2. i \in 1 .. Len(s) /\ i + 1 \in 1 .. Len(s) /\ i + 2 \in 1 .. Len(s) /\ i + 3 \in 1 .. Len(s)
      BY <3>1
    <3> QED BY <3>2, ElementOfSeq, Zenon
  <2>2. a \in Int /\ b \in Int /\ c \in Int /\ d \in Int
    BY <2>1, HexvalType
  <2>3. Hex4(s, i) = ((a * 16 + b) * 16 + c) * 16 + d
    BY <1>2 DEF Hex4
  <2> HIDE DEF a, b, c, d
  <2> QED BY <2>2, <2>3
<1> QED BY <1>1, <1>2

LEMMA FourPlaces ==
  \A k \in Nat : \A l \in k .. (k + 3) : l = k \/ l = k + 1 \/ l = k + 2 \/ l = k + 3
OBVIOUS

LEMMA NotBehind == \A k, l \in Nat : k + 3 <= l => ~ (k + 3 > l)
OBVIOUS

LEMMA DigitsCount == \A d \in 0 .. 15 : ~ (d < 0)
OBVIOUS

\* \uXXXX is read as the unit it was written for.
LEMMA Hex4Reads ==
  ASSUME NEW s \in Seq(Nat), NEW i \in Nat \ {0}, NEW u \in CodeUnits, i + 5 <= Len(s),
         \A j \in 1 .. 6 : s[i + j - 1] = UnicodeEscape(u)[j]
  PROVE  s[i] = Backslash /\ s[i + 1] = 117 /\ Hex4(s, i + 2) = u
<1> DEFINE a == Over4096(u)
           b == Rest16(Over256(u))
           c == Rest16(Over16(u))
           d == Rest16(u)
<1>1. a \in 0 .. 15 /\ b \in 0 .. 15 /\ c \in 0 .. 15 /\ d \in 0 .. 15
  BY FourDigits, Zenon
<1>2. u = ((a * 16 + b) * 16 + c) * 16 + d
  BY FourDigits, Zenon
<1>3. UnicodeEscape(u) = <<92, 117, Hex(a), Hex(b), Hex(c), Hex(d)>>
  BY EscapeIs, Zenon
<1> HIDE DEF a, b, c, d
<1>4. /\ s[i] = 92 /\ s[i + 1] = 117 /\ s[i + 2] = Hex(a) /\ s[i + 3] = Hex(b)
      /\ s[i + 4] = Hex(c) /\ s[i + 5] = Hex(d)
  <2>1. /\ i + 1 - 1 = i /\ i + 2 - 1 = i + 1 /\ i + 3 - 1 = i + 2
        /\ i + 4 - 1 = i + 3 /\ i + 5 - 1 = i + 4 /\ i + 6 - 1 = i + 5
    OBVIOUS
  <2>2. s[i + 1 - 1] = 92 /\ s[i + 2 - 1] = 117 /\ s[i + 3 - 1] = Hex(a)
    BY <1>3
  <2>3. s[i + 4 - 1] = Hex(b) /\ s[i + 5 - 1] = Hex(c) /\ s[i + 6 - 1] = Hex(d)
    BY <1>3
  <2> QED BY <2>1, <2>2, <2>3
<1>5. /\ hexval(s[i + 2]) = a /\ hexval(s[i + 3]) = b
      /\ hexval(s[i + 4]) = c /\ hexval(s[i + 5]) = d
  BY <1>1, <1>4, HexDigit
<1> DEFINE k == i + 2
<1>6. /\ k \in Nat /\ k + 3 <= Len(s)
      /\ hexval(s[k]) = a /\ hexval(s[k + 1]) = b /\ hexval(s[k + 2]) = c /\ hexval(s[k + 3]) = d
  <2>1. k = i + 2 /\ k + 1 = i + 3 /\ k + 2 = i + 4 /\ k + 3 = i + 5
    OBVIOUS
  <2> QED BY <1>5, <2>1
<1> HIDE DEF k
<1>7. \A l \in k .. (k + 3) : ~ (hexval(s[l]) < 0)
  <2>1. \A l \in k .. (k + 3) : l = k \/ l = k + 1 \/ l = k + 2 \/ l = k + 3
    BY <1>6, FourPlaces, Zenon
  <2>2. \A l \in k .. (k + 3) : hexval(s[l]) \in {a, b, c, d}
    <3>1. \A l : l = k \/ l = k + 1 \/ l = k + 2 \/ l = k + 3 => hexval(s[l]) \in {a, b, c, d}
      BY <1>6, Zenon
    <3> QED BY <2>1, <3>1, Zenon
  <2>3. \A x \in {a, b, c, d} : ~ (x < 0)
    <3>1. ~ (a < 0) /\ ~ (b < 0) /\ ~ (c < 0) /\ ~ (d < 0)
      BY <1>1, DigitsCount, Zenon
    <3> QED BY <3>1, Zenon
  <2> QED BY <2>2, <2>3, Zenon
<1>8. Hex4(s, k) = ((a * 16 + b) * 16 + c) * 16 + d
  <2>1. ~ (k + 3 > Len(s))
    <3>1. Len(s) \in Nat
      BY LenProperties, Zenon
    <3> QED BY <1>6, <3>1, NotBehind, Zenon
  <2>2. Hex4(s, k) = ((hexval(s[k]) * 16 + hexval(s[k + 1])) * 16 + hexval(s[k + 2])) * 16
                         + hexval(s[k + 3])
    <3>1. ~ (k + 3 > Len(s) \/ \E l \in k .. (k + 3) : hexval(s[l]) < 0)
      BY <1>7, <2>1, Zenon
    <3> QED BY <3>1, Zenon DEF Hex4
  <2> QED BY <1>6, <2>2
<1>9. Hex4(s, i + 2) = u
  BY <1>2, <1>8, Zenon DEF k
<1> QED BY <1>4, <1>9 DEF Backslash

LEMMA EscapeType ==
  ASSUME NEW u \in CodeUnits
  PROVE  /\ Len(UnicodeEscape(u)) = 6
         /\ \A j \in 1 .. 6 : UnicodeEscape(u)[j] \in 32 .. 255
         /\ UnicodeEscape(u) \in Seq(32 .. 255)
<1> DEFINE a == Over4096(u)
           b == Rest16(Over256(u))
           c == Rest16(Over16(u))
           d == Rest16(u)
<1>1. a \in 0 .. 15 /\ b \in 0 .. 15 /\ c \in 0 .. 15 /\ d \in 0 .. 15
  BY FourDigits, Zenon
<1>2. UnicodeEscape(u) = <<92, 117, Hex(a), Hex(b), Hex(c), Hex(d)>>
  BY EscapeIs, Zenon
<1> HIDE DEF a, b, c, d
<1>3. \A x \in {a, b, c, d} : Hex(x) \in 32 .. 255
  BY <1>1 DEF Hex
<1> QED BY <1>2, <1>3

\* UTF-8, byte by byte.
Utf8Bytes(cp) ==
  IF cp <= 127 THEN <<cp>>
  ELSE IF cp <= 2047 THEN <<192 + Over64(cp), 128 + Rest64(cp)>>
  ELSE IF cp <= 65535 THEN <<224 + Over4096(cp), 128 + Rest64(Over64(cp)), 128 + Rest64(cp)>>
  ELSE <<240 + Over262144(cp), 128 + Rest64(Over4096(cp)),
         128 + Rest64(Over64(cp)), 128 + Rest64(cp)>>

LEMMA Utf8Is == \A out, cp : append_utf8(out, cp) = out \o Utf8Bytes(cp)
BY DEF append_utf8, Utf8Bytes, Over64, Over4096, Over262144, Rest64

LEMMA Utf8Type ==
  ASSUME NEW out \in Seq(Nat), NEW cp \in Nat
  PROVE  append_utf8(out, cp) \in Seq(Nat) /\ Utf8Bytes(cp) \in Seq(Nat)
<1> DEFINE q == Over64(cp)
           q2 == Over4096(cp)
           q3 == Over262144(cp)
           r == Rest64(cp)
           r1 == Rest64(q)
           r2 == Rest64(q2)
<1>1. q \in Nat /\ q2 \in Nat /\ q3 \in Nat /\ r \in 0 .. 63 /\ r1 \in 0 .. 63 /\ r2 \in 0 .. 63
  BY SixBits, Zenon
<1>2. Utf8Bytes(cp) = IF cp <= 127 THEN <<cp>>
                      ELSE IF cp <= 2047 THEN <<192 + q, 128 + r>>
                      ELSE IF cp <= 65535 THEN <<224 + q2, 128 + r1, 128 + r>>
                      ELSE <<240 + q3, 128 + r2, 128 + r1, 128 + r>>
  BY DEF Utf8Bytes
<1> HIDE DEF q, q2, q3, r, r1, r2
<1>3. /\ <<cp>> \in Seq(Nat) /\ <<192 + q, 128 + r>> \in Seq(Nat)
      /\ <<224 + q2, 128 + r1, 128 + r>> \in Seq(Nat)
  BY <1>1
<1>4. <<240 + q3, 128 + r2, 128 + r1, 128 + r>> \in Seq(Nat)
  BY <1>1
<1>5. Utf8Bytes(cp) \in Seq(Nat)
  BY <1>2, <1>3, <1>4
<1> DEFINE bytes == Utf8Bytes(cp)
<1>6. append_utf8(out, cp) = out \o bytes /\ bytes \in Seq(Nat)
  BY <1>5, Utf8Is
<1> HIDE DEF bytes
<1>7. out \o bytes \in Seq(Nat)
  BY <1>6
<1> QED BY <1>5, <1>6, <1>7

\* One turn of j_string, case by case.
Readings == [at : Nat \ {0}, out : Seq(Nat), read : {"more", "all", "error"}]
Reading(i, out) == [at |-> i, out |-> out, read |-> "more"]
Escaped(s, i) == IF i < Len(s) THEN s[i + 1] ELSE 0
LowAt(s, i) == IF i + 7 <= Len(s) /\ s[i + 6] = Backslash /\ s[i + 7] = 117
               THEN Hex4(s, i + 8) ELSE -1
Pair(high, low) == 65536 + (high - 55296) * 1024 + (low - 56320)
Paired(s, i) == HighSurrogate(Hex4(s, i + 2)) /\ LowSurrogate(LowAt(s, i))

LEMMA TurnIs ==
  ASSUME NEW s, NEW st
  PROVE  StringTurn(s, st) =
    LET i == st.at
    IN  CASE st.read # "more" -> st
          [] st.read = "more" /\ i <= Len(s) /\ s[i] = DoubleQuote -> [st EXCEPT !.read = "all"]
          [] st.read = "more" /\ i <= Len(s) /\ s[i] \notin {DoubleQuote, Backslash} ->
               Reading(i + 1, Append(st.out, s[i]))
          [] /\ st.read = "more" /\ i <= Len(s) /\ s[i] = Backslash
             /\ Escaped(s, i) \in DOMAIN Short ->
               Reading(i + 2, Append(st.out, Short[Escaped(s, i)]))
          [] /\ st.read = "more" /\ i <= Len(s) /\ s[i] = Backslash
             /\ Escaped(s, i) = 117 /\ Hex4(s, i + 2) >= 0 ->
               IF Paired(s, i)
                 THEN Reading(i + 12, append_utf8(st.out, Pair(Hex4(s, i + 2), LowAt(s, i))))
                 ELSE Reading(i + 6, append_utf8(st.out, Hex4(s, i + 2)))
          [] OTHER -> [st EXCEPT !.read = "error"]
BY SMT DEF StringTurn, Reading, Escaped, LowAt, Pair, Paired

LEMMA ReadingIs ==
  \A i, out : Reading(i, out).at = i /\ Reading(i, out).out = out /\ Reading(i, out).read = "more"
BY DEF Reading

LEMMA TurnQuote ==
  ASSUME NEW s, NEW i \in Nat, NEW out, i <= Len(s), s[i] = DoubleQuote
  PROVE  StringTurn(s, Reading(i, out)).read = "all" /\ StringTurn(s, Reading(i, out)).out = out
<1> DEFINE st == Reading(i, out)
<1>1. st.at = i /\ st.out = out /\ st.read = "more"
  BY ReadingIs, SMT
<1>2. StringTurn(s, st) = [st EXCEPT !.read = "all"]
  <2> HIDE DEF st
  <2>1. s[i] # Backslash
    BY SMT DEF DoubleQuote, Backslash
  <2> QED BY <1>1, <2>1, TurnIs, SMT
<1>3. [st EXCEPT !.read = "all"] = [at |-> i, out |-> out, read |-> "all"]
  BY SMT DEF Reading
<1> QED BY <1>2, <1>3, SMT

LEMMA TurnPlain ==
  ASSUME NEW s, NEW i \in Nat, NEW out, i <= Len(s), s[i] \notin {DoubleQuote, Backslash}
  PROVE  StringTurn(s, Reading(i, out)) = Reading(i + 1, Append(out, s[i]))
<1> DEFINE st == Reading(i, out)
<1>1. st.at = i /\ st.out = out /\ st.read = "more"
  BY ReadingIs, SMT
<1>2. s[i] # DoubleQuote /\ s[i] # Backslash
  OBVIOUS
<1> HIDE DEF st
<1>3. StringTurn(s, st) = Reading(i + 1, Append(out, s[i]))
  BY <1>1, <1>2, TurnIs, SMT
<1> QED BY <1>3, SMT DEF st

LEMMA TurnShort ==
  ASSUME NEW s, NEW i \in Nat, NEW out, i <= Len(s), s[i] = Backslash,
         Escaped(s, i) \in DOMAIN Short
  PROVE  StringTurn(s, Reading(i, out)) = Reading(i + 2, Append(out, Short[Escaped(s, i)]))
<1> DEFINE st == Reading(i, out)
<1>1. st.at = i /\ st.out = out /\ st.read = "more"
  BY ReadingIs, SMT
<1>2. s[i] # DoubleQuote
  BY SMT DEF DoubleQuote, Backslash
<1>3. s[i] \in {DoubleQuote, Backslash}
  OBVIOUS
<1> HIDE DEF st
<1>4. Escaped(s, i) # 117
  BY SMT DEF Short
<1>5. StringTurn(s, st) = Reading(i + 2, Append(out, Short[Escaped(s, i)]))
  BY <1>1, <1>2, <1>3, <1>4, TurnIs, SMT
<1> QED BY <1>5, SMT DEF st

LEMMA TurnUnicode ==
  ASSUME NEW s, NEW i \in Nat, NEW out, i <= Len(s), s[i] = Backslash,
         Escaped(s, i) = 117, Hex4(s, i + 2) >= 0
  PROVE  StringTurn(s, Reading(i, out)) =
           IF Paired(s, i)
             THEN Reading(i + 12, append_utf8(out, Pair(Hex4(s, i + 2), LowAt(s, i))))
             ELSE Reading(i + 6, append_utf8(out, Hex4(s, i + 2)))
<1> DEFINE st == Reading(i, out)
<1>1. st.at = i /\ st.out = out /\ st.read = "more"
  BY ReadingIs, SMT
<1>2. s[i] # DoubleQuote
  BY SMT DEF DoubleQuote, Backslash
<1>3. s[i] \in {DoubleQuote, Backslash}
  OBVIOUS
<1>4. Escaped(s, i) \notin DOMAIN Short
  BY SMT DEF Short
<1> HIDE DEF st
<1>5. StringTurn(s, st) =
        IF Paired(s, i)
          THEN Reading(i + 12, append_utf8(out, Pair(Hex4(s, i + 2), LowAt(s, i))))
          ELSE Reading(i + 6, append_utf8(out, Hex4(s, i + 2)))
  BY <1>1, <1>2, <1>3, <1>4, TurnIs, SMT
<1> QED BY <1>5, SMT DEF st

LEMMA PairType ==
  ASSUME NEW high \in Int, NEW low \in Int, HighSurrogate(high), LowSurrogate(low)
  PROVE  Pair(high, low) \in Nat
BY SMT DEF Pair, HighSurrogate, LowSurrogate

LEMMA TurnType ==
  ASSUME NEW s \in Seq(Nat), NEW st \in Readings
  PROVE  StringTurn(s, st) \in Readings
<1> DEFINE i == st.at
<1>1. i \in Nat \ {0} /\ st.out \in Seq(Nat)
  BY DEF Readings
<1>2. \A out \in Seq(Nat) : Reading(i + 1, out) \in Readings /\ Reading(i + 2, out) \in Readings
                            /\ Reading(i + 6, out) \in Readings /\ Reading(i + 12, out) \in Readings
  BY <1>1 DEF Readings, Reading
<1>3. [st EXCEPT !.read = "all"] \in Readings /\ [st EXCEPT !.read = "error"] \in Readings
  BY DEF Readings
<1>4. i <= Len(s) => s[i] \in Nat
  BY <1>1
<1>5. \A e \in DOMAIN Short : Short[e] \in Nat
  BY DEF Short
<1>6. Hex4(s, i + 2) \in Int /\ LowAt(s, i) \in Int
  <2>1. i + 2 \in Nat \ {0} /\ i + 8 \in Nat \ {0}
    BY <1>1, SMT
  <2>2. Hex4(s, i + 2) \in Int /\ Hex4(s, i + 8) \in Int
    BY <2>1, Hex4Type, Zenon
  <2> QED BY <2>1, <2>2, SMT DEF LowAt
<1>7. Hex4(s, i + 2) >= 0 => append_utf8(st.out, Hex4(s, i + 2)) \in Seq(Nat)
  <2>1. Hex4(s, i + 2) >= 0 => Hex4(s, i + 2) \in Nat
    BY <1>6, SMT
  <2> QED BY <1>1, <2>1, Utf8Type, Zenon
<1>8. Paired(s, i) => append_utf8(st.out, Pair(Hex4(s, i + 2), LowAt(s, i))) \in Seq(Nat)
  <2>1. Paired(s, i) => Pair(Hex4(s, i + 2), LowAt(s, i)) \in Nat
    BY <1>6, PairType, Zenon DEF Paired
  <2> QED BY <1>1, <2>1, Utf8Type, Zenon
<1>9. \A c \in Nat : Append(st.out, c) \in Seq(Nat)
  BY <1>1
<1>10. i <= Len(s) => Reading(i + 1, Append(st.out, s[i])) \in Readings
  BY <1>2, <1>4, <1>9
<1>11. \A e \in DOMAIN Short : Reading(i + 2, Append(st.out, Short[e])) \in Readings
  BY <1>2, <1>5, <1>9
<1>12. Hex4(s, i + 2) >= 0 => Reading(i + 6, append_utf8(st.out, Hex4(s, i + 2))) \in Readings
  BY <1>2, <1>7
<1>13. Paired(s, i) =>
         Reading(i + 12, append_utf8(st.out, Pair(Hex4(s, i + 2), LowAt(s, i)))) \in Readings
  BY <1>2, <1>8
<1> HIDE DEF i
<1> QED BY <1>3, <1>10, <1>11, <1>12, <1>13, TurnIs, SMT DEF i

\* j_string goes from turn to turn, and stays where it is done.
StringRun(s, f) ==
  /\ f[0] = Reading(1, <<>>)
  /\ \A n \in 1 .. Len(s) + 1 : f[n] = StringTurn(s, f[n - 1])
  /\ \A n \in 0 .. Len(s) + 1 : f[n].read # "more" => j_string(s) = f[n]

LEMMA StringRuns ==
  ASSUME NEW s \in Seq(Nat)
  PROVE  \E f : StringRun(s, f)
<1> DEFINE
      len == Len(s) + 1
      start == Reading(1, <<>>)
      Rule(f) == [n \in 0 .. len |-> IF n = 0 THEN start ELSE StringTurn(s, f[n - 1])]
      after == CHOOSE f : f = Rule(f)
      step == [p \in Readings \X (1 .. len) |-> StringTurn(s, p[1])]
<1>0. len \in Nat
  OBVIOUS
<1>1. start \in Readings
  BY DEF Readings, Reading
<1>2. j_string(s) = after[len]
  BY DEF j_string, Reading
<1>3. \A n \in 1 .. len : \A x \in Readings : step[<<x, n>>] = StringTurn(s, x) /\ step[<<x, n>>] \in Readings
  BY TurnType
<1> HIDE DEF start, step, len
<1>4. PICK f \in [0 .. len -> Readings] :
        f[0] = start /\ \A n \in 1 .. len : f[n] = step[<<f[n - 1], n>>]
  <2>1. Chained(len, Readings, start, step)
    BY <1>0, <1>1, <1>3, Chain
  <2> QED BY <2>1 DEF Chained
<1>5. f = Rule(f)
  <2>1. ASSUME NEW n \in 0 .. len, n # 0 PROVE f[n] = StringTurn(s, f[n - 1])
    <3>1. n \in 1 .. len /\ n - 1 \in 0 .. len
      BY <1>0, <2>1
    <3> QED BY <1>3, <1>4, <3>1
  <2> QED BY <1>4, <2>1
<1>6. after = Rule(after)
  BY <1>5
<1> HIDE DEF after
<1>7. after[0] = start /\ \A n \in 1 .. len : after[n] = StringTurn(s, after[n - 1])
  <2>1. \A n \in 0 .. len : after[n] = IF n = 0 THEN start ELSE StringTurn(s, after[n - 1])
    BY <1>6
  <2> QED BY <1>0, <2>1
<1>8. ASSUME NEW m \in 0 .. len, after[m].read # "more" PROVE after[len] = after[m]
  <2> DEFINE T == {n \in m .. len : after[n] = after[m]}
  <2>1. m \in T
    BY <1>0
  <2>2. ASSUME NEW n \in m + 1 .. len, n - 1 \in T PROVE n \in T
    <3>1. n \in 1 .. len /\ n \in m .. len
      BY <1>0
    <3>2. after[n - 1] = after[m] /\ after[n] = StringTurn(s, after[n - 1])
      BY <1>7, <2>2, <3>1
    <3>3. StringTurn(s, after[m]) = after[m]
      BY <1>8, TurnIs, SMT
    <3> QED BY <3>1, <3>2, <3>3
  <2> HIDE DEF T
  <2>3. m \in Nat
    BY <1>0
  <2>4. \A n \in m .. len : n \in T
    BY <1>0, <2>1, <2>2, <2>3, Onward
  <2> QED BY <1>0, <2>4 DEF T
<1>9. StringRun(s, after)
  BY <1>2, <1>7, <1>8 DEF StringRun, start, len
<1> QED BY <1>9

\* Texts written one behind the other: where each is.
WrittenAt(texts, S, f) ==
  LET n == Len(texts)
  IN  /\ f \in [0 .. n -> Nat] /\ f[0] = 0
      /\ \A i \in 1 .. n : f[i] = f[i - 1] + Len(texts[i]) /\ f[i] <= f[n]
      /\ Written(texts) \in Seq(S) /\ Len(Written(texts)) = f[n] + 1
      /\ Written(texts)[f[n] + 1] = DoubleQuote
      /\ \A i \in 1 .. n : \A j \in 1 .. Len(texts[i]) : Written(texts)[f[i - 1] + j] = texts[i][j]

LEMMA WrittenIs ==
  ASSUME NEW S \in SUBSET Nat, DoubleQuote \in S, NEW texts \in Seq(Seq(S))
  PROVE  \E f : WrittenAt(texts, S, f)
<1> DEFINE
      n == Len(texts)
      More(x, i) == x \o texts[i]
      Rule(f) == [i \in 0 .. n |-> IF i = 0 THEN <<>> ELSE More(f[i - 1], i)]
      upto == CHOOSE f : f = Rule(f)
      step == [p \in Seq(S) \X (1 .. n) |-> More(p[1], p[2])]
<1>0. n \in Nat /\ \A i \in 1 .. n : texts[i] \in Seq(S)
  OBVIOUS
<1>1. <<>> \in Seq(S)
  OBVIOUS
<1>2. Written(texts) = Append(upto[n], DoubleQuote)
  BY DEF Written
<1>3. \A i \in 1 .. n : \A x \in Seq(S) : step[<<x, i>>] = More(x, i)
  OBVIOUS
<1>4. \A i \in 1 .. n : \A x \in Seq(S) : More(x, i) \in Seq(S)
  BY <1>0, ConcatProperties
<1> HIDE DEF step, n, More
<1>5. PICK f \in [0 .. n -> Seq(S)] : f[0] = <<>> /\ \A i \in 1 .. n : f[i] = step[<<f[i - 1], i>>]
  <2>1. \A i \in 1 .. n : \A x \in Seq(S) : step[<<x, i>>] \in Seq(S)
    BY <1>3, <1>4, Zenon
  <2>2. Chained(n, Seq(S), <<>>, step)
    BY <1>0, <1>1, <2>1, Chain
  <2> QED BY <2>2 DEF Chained
<1>6. f = Rule(f)
  <2>1. ASSUME NEW i \in 0 .. n, i # 0 PROVE f[i] = More(f[i - 1], i)
    <3>1. i \in 1 .. n /\ i - 1 \in 0 .. n
      BY <1>0, <2>1
    <3>2. f[i - 1] \in Seq(S)
      BY <3>1
    <3> QED BY <1>3, <1>5, <3>1, <3>2
  <2> QED BY <1>5, <2>1
<1>7. upto = Rule(upto)
  BY <1>6
<1> HIDE DEF upto
<1>8. upto[0] = <<>> /\ \A i \in 1 .. n : upto[i] = upto[i - 1] \o texts[i]
  <2>1. \A i \in 0 .. n : upto[i] = IF i = 0 THEN <<>> ELSE More(upto[i - 1], i)
    BY <1>7
  <2>2. upto[0] = <<>> /\ \A i \in 1 .. n : upto[i] = More(upto[i - 1], i)
    <3>1. 0 \in 0 .. n /\ \A i \in 1 .. n : i \in 0 .. n /\ i # 0
      BY <1>0
    <3> QED BY <2>1, <3>1, Zenon
  <2> QED BY <2>2, Zenon DEF More
<1> DEFINE
      Before(i, m) == /\ upto[i] \in Seq(S) /\ Len(upto[i]) <= Len(upto[m])
                      /\ \A x \in 1 .. Len(upto[i]) : upto[m][x] = upto[i][x]
      T == {m \in 0 .. n : \A i \in 0 .. m : Before(i, m)}
<1>9. 0 \in T
  <2>1. \A i \in 0 .. 0 : i = 0
    OBVIOUS
  <2>2. Len(upto[0]) = 0
    BY <1>8
  <2>3. upto[0] \in Seq(S) /\ \A x \in 1 .. Len(upto[0]) : FALSE
    BY <1>1, <1>8, <2>2
  <2> QED BY <1>0, <2>1, <2>2, <2>3
<1>10. ASSUME NEW m \in 1 .. n, m - 1 \in T PROVE m \in T
  <2> DEFINE a == upto[m - 1]
             b == upto[m]
             c == texts[m]
  <2>0. m - 1 \in 0 .. m - 1 /\ m \in 0 .. n
    BY <1>0
  <2>1. a \in Seq(S) /\ \A i \in 0 .. m - 1 : Before(i, m - 1)
    BY <1>10, <2>0
  <2>2. b = a \o c /\ c \in Seq(S)
    BY <1>0, <1>8
  <2> HIDE DEF a, c
  <2>3. b \in Seq(S) /\ Len(b) = Len(a) + Len(c) /\ \A x \in 1 .. Len(a) : b[x] = a[x]
    BY <2>1, <2>2
  <2>4. Len(a) \in Nat /\ Len(c) \in Nat /\ Len(b) \in Nat
    BY <2>1, <2>2, <2>3
  <2> HIDE DEF b
  <2>5. ASSUME NEW i \in 0 .. m
        PROVE  /\ upto[i] \in Seq(S) /\ Len(upto[i]) <= Len(b)
               /\ \A x \in 1 .. Len(upto[i]) : b[x] = upto[i][x]
    <3>1. CASE i = m
      BY <2>3, <2>4, <3>1 DEF b
    <3>2. CASE i # m
      <4>1. i \in 0 .. m - 1
        BY <1>0, <3>2
      <4>2. /\ upto[i] \in Seq(S) /\ Len(upto[i]) <= Len(a)
            /\ \A x \in 1 .. Len(upto[i]) : a[x] = upto[i][x]
        BY <2>1, <4>1 DEF a
      <4>3. Len(upto[i]) \in Nat
        BY <4>2
      <4> QED BY <2>3, <2>4, <4>2, <4>3
    <3> QED BY <3>1, <3>2
  <2>6. \A i \in 0 .. m : Before(i, m)
    BY <2>5 DEF b
  <2> QED BY <2>0, <2>6
<1> HIDE DEF T
<1>11. n \in T
  <2>1. \A m \in 0 .. n : m \in T
    BY <1>0, <1>9, <1>10, Reaches
  <2> QED BY <1>0, <2>1
<1>12. \A i \in 0 .. n : Before(i, n)
  BY <1>11 DEF T
<1> DEFINE l == [i \in 0 .. n |-> Len(upto[i])]
           text == upto[n]
<1>13. text \in Seq(S) /\ Len(text) \in Nat
  BY <1>0, <1>12
<1>14. l \in [0 .. n -> Nat] /\ l[n] = Len(text) /\ l[0] = 0
  <2>1. \A i \in 0 .. n : Len(upto[i]) \in Nat
    BY <1>12
  <2>2. Len(upto[0]) = 0
    BY <1>8
  <2> QED BY <1>0, <2>1, <2>2
<1>15. ASSUME NEW i \in 1 .. n
       PROVE  /\ l[i] = l[i - 1] + Len(texts[i]) /\ l[i] <= l[n]
              /\ \A j \in 1 .. Len(texts[i]) : l[i - 1] + j \in 1 .. l[n]
                                               /\ text[l[i - 1] + j] = texts[i][j]
  <2> DEFINE a == upto[i - 1]
             b == upto[i]
             c == texts[i]
  <2>1. i - 1 \in 0 .. n /\ i \in 0 .. n
    BY <1>0
  <2>2. a \in Seq(S) /\ b \in Seq(S) /\ b = a \o c /\ c \in Seq(S)
    BY <1>0, <1>8, <1>12, <2>1
  <2>3. l[i - 1] = Len(a) /\ l[i] = Len(b)
    BY <2>1
  <2>4. Len(b) <= Len(text) /\ \A x \in 1 .. Len(b) : text[x] = b[x]
    BY <1>12, <2>1
  <2> HIDE DEF a, c, text, l
  <2>5. /\ Len(b) = Len(a) + Len(c) /\ Len(a) \in Nat /\ Len(c) \in Nat
        /\ \A j \in 1 .. Len(c) : b[Len(a) + j] = c[j]
    BY <2>2
  <2> HIDE DEF b
  <2>6. \A j \in 1 .. Len(c) : Len(a) + j \in 1 .. Len(b) /\ Len(a) + j \in 1 .. Len(text)
    BY <1>13, <2>4, <2>5
  <2>7. \A j \in 1 .. Len(c) : text[Len(a) + j] = c[j]
    BY <2>4, <2>5, <2>6
  <2> QED BY <1>14, <2>3, <2>4, <2>5, <2>6, <2>7 DEF c
<1> HIDE DEF l, text
<1> DEFINE whole == Append(text, DoubleQuote)
<1>16. /\ whole \in Seq(S) /\ Len(whole) = Len(text) + 1 /\ whole[Len(text) + 1] = DoubleQuote
       /\ \A x \in 1 .. Len(text) : whole[x] = text[x]
  BY <1>13
<1>17. Written(texts) = whole
  BY <1>2 DEF text
<1> HIDE DEF whole
<1>18. ASSUME NEW i \in 1 .. n, NEW j \in 1 .. Len(texts[i])
       PROVE  whole[l[i - 1] + j] = texts[i][j]
  BY <1>14, <1>15, <1>16
<1>19. /\ Len(whole) = l[n] + 1 /\ whole[l[n] + 1] = DoubleQuote
       /\ \A i \in 1 .. n : l[i] = l[i - 1] + Len(texts[i]) /\ l[i] <= l[n]
  BY <1>14, <1>15, <1>16
<1>20. WrittenAt(texts, S, l)
  BY <1>14, <1>16, <1>17, <1>18, <1>19, Zenon DEF WrittenAt, n
<1> QED BY <1>20, Zenon

LEMMA SeqWithin ==
  ASSUME NEW S, NEW T, S \subseteq T, NEW s \in Seq(S)
  PROVE  s \in Seq(T)
OBVIOUS

\* Each byte of a name is written in characters that are no controls,
Printed == 32 .. 255

LEMMA EmitIs ==
  ASSUME NEW c \in StringBytes
  PROVE  /\ c \in {34, 92} => EmitByte(c) = <<92, c>>
         /\ c = 10 => EmitByte(c) = <<92, 110>>
         /\ c = 13 => EmitByte(c) = <<92, 114>>
         /\ c = 9 => EmitByte(c) = <<92, 116>>
         /\ c < 32 /\ c \notin {9, 10, 13} => EmitByte(c) = UnicodeEscape(c)
         /\ c >= 32 /\ c \notin {34, 92} => EmitByte(c) = <<c>>
<1>1. c \in Nat
  BY SMT DEF StringBytes
<1> QED BY <1>1, SMT DEF EmitByte

LEMMA EmitType ==
  ASSUME NEW c \in StringBytes
  PROVE  EmitByte(c) \in Seq(Printed) /\ Len(EmitByte(c)) \in Nat \ {0}
<1>1. c \in Nat /\ c \in CodeUnits
  BY SMT DEF StringBytes, CodeUnits
<1>2. CASE c \in {34, 92}
  <2>1. EmitByte(c) = <<92, c>>
    BY <1>2, EmitIs, Zenon
  <2>2. 92 \in Printed /\ c \in Printed
    BY <1>2, SMT DEF Printed
  <2> QED BY <2>1, <2>2, SMT
<1>3. CASE c = 10
  <2>1. EmitByte(c) = <<92, 110>>
    BY <1>3, EmitIs, Zenon
  <2>2. 92 \in Printed /\ 110 \in Printed
    BY <1>3, SMT DEF Printed
  <2> QED BY <2>1, <2>2, SMT
<1>4. CASE c = 13
  <2>1. EmitByte(c) = <<92, 114>>
    BY <1>4, EmitIs, Zenon
  <2>2. 92 \in Printed /\ 114 \in Printed
    BY <1>4, SMT DEF Printed
  <2> QED BY <2>1, <2>2, SMT
<1>5. CASE c = 9
  <2>1. EmitByte(c) = <<92, 116>>
    BY <1>5, EmitIs, Zenon
  <2>2. 92 \in Printed /\ 116 \in Printed
    BY <1>5, SMT DEF Printed
  <2> QED BY <2>1, <2>2, SMT
<1>6. CASE c < 32 /\ c \notin {9, 10, 13}
  <2>1. EmitByte(c) = UnicodeEscape(c)
    BY <1>6, EmitIs, Zenon
  <2>2. UnicodeEscape(c) \in Seq(Printed) /\ Len(UnicodeEscape(c)) = 6
    BY <1>1, EscapeType, Zenon DEF Printed
  <2> QED BY <2>1, <2>2, SMT
<1>7. CASE c >= 32 /\ c \notin {34, 92}
  <2>1. EmitByte(c) = <<c>>
    BY <1>7, EmitIs, Zenon
  <2>2. c \in Printed
    BY <1>7, SMT DEF StringBytes, Printed
  <2> QED BY <2>1, <2>2, SMT
<1> QED BY <1>1, <1>2, <1>3, <1>4, <1>5, <1>6, <1>7, SMT

LEMMA NotHigh ==
  ASSUME NEW c \in Nat, c < 32
  PROVE  ~ HighSurrogate(c)
BY SMT DEF HighSurrogate

\* and is read as that byte.
LEMMA ByteRead ==
  ASSUME NEW s \in Seq(Nat), NEW i \in Nat \ {0}, NEW out \in Seq(Nat), NEW c \in StringBytes,
         i + Len(EmitByte(c)) <= Len(s),
         \A j \in 1 .. Len(EmitByte(c)) : s[i + j - 1] = EmitByte(c)[j]
  PROVE  StringTurn(s, Reading(i, out)) = Reading(i + Len(EmitByte(c)), Append(out, c))
<1>1. c \in Nat /\ c \in CodeUnits /\ Len(s) \in Nat
  BY SMT DEF StringBytes, CodeUnits
<1>2. ASSUME NEW d, EmitByte(c) = <<92, d>>, d \in DOMAIN Short, Short[d] = c
      PROVE  StringTurn(s, Reading(i, out)) = Reading(i + Len(EmitByte(c)), Append(out, c))
  <2>1. Len(EmitByte(c)) = 2 /\ i <= Len(s) /\ i < Len(s)
    BY <1>1, <1>2, SMT
  <2>2. s[i + 1 - 1] = 92 /\ s[i + 2 - 1] = d
    BY <1>2, SMT
  <2>3. i + 1 - 1 = i /\ i + 2 - 1 = i + 1
    BY SMT
  <2>4. s[i] = Backslash /\ Escaped(s, i) = d
    BY <2>1, <2>2, <2>3, SMT DEF Backslash, Escaped
  <2>5. StringTurn(s, Reading(i, out)) = Reading(i + 2, Append(out, Short[Escaped(s, i)]))
    BY <1>2, <2>1, <2>4, TurnShort, SMT
  <2> QED BY <1>2, <2>1, <2>4, <2>5, Zenon
<1>3. CASE c \in {34, 92}
  <2>1. c \in DOMAIN Short /\ Short[c] = c
    BY <1>3, SMT DEF Short
  <2> QED BY <1>2, <1>3, <2>1, EmitIs, Zenon
<1>4. CASE c = 10
  <2>1. 110 \in DOMAIN Short /\ Short[110] = c
    BY <1>4, SMT DEF Short
  <2> QED BY <1>2, <1>4, <2>1, EmitIs, Zenon
<1>5. CASE c = 13
  <2>1. 114 \in DOMAIN Short /\ Short[114] = c
    BY <1>5, SMT DEF Short
  <2> QED BY <1>2, <1>5, <2>1, EmitIs, Zenon
<1>6. CASE c = 9
  <2>1. 116 \in DOMAIN Short /\ Short[116] = c
    BY <1>6, SMT DEF Short
  <2> QED BY <1>2, <1>6, <2>1, EmitIs, Zenon
<1>7. CASE c < 32 /\ c \notin {9, 10, 13}
  <2>1. EmitByte(c) = UnicodeEscape(c) /\ Len(UnicodeEscape(c)) = 6
    BY <1>1, <1>7, EmitIs, EscapeType, Zenon
  <2>2. i + 5 <= Len(s) /\ i <= Len(s) /\ i < Len(s)
    <3>1. i + 6 <= Len(s)
      BY <2>1, Zenon
    <3> QED BY <1>1, <3>1, SMT
  <2>3. s[i] = Backslash /\ s[i + 1] = 117 /\ Hex4(s, i + 2) = c
    <3>1. \A j \in 1 .. 6 : s[i + j - 1] = UnicodeEscape(c)[j]
      BY <2>1, Zenon
    <3> QED BY <1>1, <2>2, <3>1, Hex4Reads, Zenon
  <2>4. Escaped(s, i) = 117 /\ Hex4(s, i + 2) >= 0
    BY <1>1, <2>2, <2>3, SMT DEF Escaped
  <2>5. ~ Paired(s, i)
    <3>1. ~ HighSurrogate(c)
      BY <1>1, <1>7, NotHigh, Zenon
    <3> QED BY <2>3, <3>1, Zenon DEF Paired
  <2>6. StringTurn(s, Reading(i, out)) = Reading(i + 6, append_utf8(out, c))
    BY <2>2, <2>3, <2>4, <2>5, TurnUnicode, SMT
  <2>7. append_utf8(out, c) = Append(out, c)
    <3>1. Utf8Bytes(c) = <<c>>
      BY <1>1, <1>7, SMT DEF Utf8Bytes
    <3>2. append_utf8(out, c) = out \o <<c>>
      BY <3>1, Utf8Is, Zenon
    <3> QED BY <1>1, <3>2, AppendIsConcat, Zenon
  <2> QED BY <2>1, <2>6, <2>7, Zenon
<1>8. CASE c >= 32 /\ c \notin {34, 92}
  <2>1. EmitByte(c) = <<c>>
    BY <1>8, EmitIs, Zenon
  <2>2. Len(EmitByte(c)) = 1 /\ i <= Len(s) /\ s[i] = c
    <3>1. Len(EmitByte(c)) = 1 /\ EmitByte(c)[1] = c /\ i + 1 - 1 = i
      BY <2>1, SMT
    <3> QED BY <1>1, <3>1, SMT
  <2>3. s[i] \notin {DoubleQuote, Backslash}
    BY <1>8, <2>2, SMT DEF DoubleQuote, Backslash
  <2>4. StringTurn(s, Reading(i, out)) = Reading(i + 1, Append(out, s[i]))
    BY <2>2, <2>3, TurnPlain, SMT
  <2> QED BY <2>2, <2>4, Zenon
<1> QED BY <1>1, <1>3, <1>4, <1>5, <1>6, <1>7, <1>8, SMT

\* So a name is read back from its event.
LEMMA NameRead ==
  ASSUME NEW s \in Seq(StringBytes)
  PROVE  LET event == emit_json_string(s)
             st == j_string(event)
         IN  st.read = "all" /\ st.out = s /\ \A i \in DOMAIN event : event[i] >= 32
<1> DEFINE
      n == Len(s)
      texts == [i \in 1 .. n |-> EmitByte(s[i])]
      event == Written(texts)
<1>0. n \in Nat /\ \A i \in 1 .. n : s[i] \in StringBytes
  OBVIOUS
<1>1. emit_json_string(s) = event
  BY Zenon DEF emit_json_string
<1>2. /\ texts \in Seq(Seq(Printed)) /\ Len(texts) = n
      /\ \A i \in 1 .. n : texts[i] = EmitByte(s[i]) /\ Len(texts[i]) \in Nat \ {0}
  <2>1. \A i \in 1 .. n : EmitByte(s[i]) \in Seq(Printed) /\ Len(EmitByte(s[i])) \in Nat \ {0}
    BY <1>0, EmitType, Zenon
  <2> QED BY <1>0, <2>1
<1>3. Printed \in SUBSET Nat /\ DoubleQuote \in Printed /\ StringBytes \in SUBSET Nat
  BY SMT DEF Printed, DoubleQuote, StringBytes
<1> HIDE DEF texts
<1>4. PICK l : WrittenAt(texts, Printed, l)
  BY <1>2, <1>3, WrittenIs, Zenon
<1>5. /\ l \in [0 .. n -> Nat] /\ l[0] = 0
      /\ \A i \in 1 .. n : l[i] = l[i - 1] + Len(texts[i]) /\ l[i] <= l[n]
      /\ event \in Seq(Printed) /\ Len(event) = l[n] + 1
      /\ event[l[n] + 1] = DoubleQuote
      /\ \A i \in 1 .. n : \A j \in 1 .. Len(texts[i]) : event[l[i - 1] + j] = texts[i][j]
  BY <1>2, <1>4, Zenon DEF WrittenAt
<1> HIDE DEF event, n
<1>6. \A i \in 1 .. n : i - 1 \in 0 .. n /\ i \in 0 .. n
  BY <1>0
<1>7. event \in Seq(Nat) /\ \A i \in DOMAIN event : event[i] >= 32
  <2>1. \A x \in Printed : x >= 32
    BY SMT DEF Printed
  <2>2. \A i \in DOMAIN event : event[i] \in Printed
    BY <1>5
  <2>3. event \in Seq(Nat)
    BY <1>3, <1>5, SeqWithin, Zenon
  <2> QED BY <2>1, <2>2, <2>3, Zenon
<1>8. PICK f : StringRun(event, f)
  BY <1>7, StringRuns, Zenon
<1>9. l[n] >= n
  <2> DEFINE T == {i \in 0 .. n : l[i] >= i}
  <2>1. 0 \in T
    BY <1>0, <1>5
  <2>2. ASSUME NEW i \in 1 .. n, i - 1 \in T PROVE i \in T
    <3>1. l[i - 1] >= i - 1 /\ l[i - 1] \in Nat /\ i \in 0 .. n
      BY <1>5, <1>6, <2>2
    <3>2. l[i] = l[i - 1] + Len(texts[i]) /\ Len(texts[i]) \in Nat \ {0}
      BY <1>2, <1>5
    <3> QED BY <3>1, <3>2
  <2> HIDE DEF T
  <2>3. \A i \in 0 .. n : i \in T
    BY <1>0, <2>1, <2>2, Reaches
  <2>4. n \in T
    BY <1>0, <2>3
  <2> QED BY <2>4, Zenon DEF T
<1>10. l[n] \in Nat /\ n + 1 \in 1 .. Len(event) + 1 /\ (n + 1) - 1 = n
  BY <1>0, <1>5, <1>9
<1> DEFINE T == {i \in 0 .. n : f[i] = Reading(l[i] + 1, SubSeq(s, 1, i))}
<1>11. 0 \in T
  <2>1. f[0] = Reading(1, <<>>)
    BY <1>8, Zenon DEF StringRun
  <2>2. SubSeq(s, 1, 0) = <<>> /\ l[0] + 1 = 1
    BY <1>5
  <2>3. 0 \in 0 .. n
    BY <1>0
  <2>4. f[0] = Reading(l[0] + 1, SubSeq(s, 1, 0))
    BY <2>1, <2>2, Zenon
  <2> QED BY <2>3, <2>4
<1>12. ASSUME NEW i \in 1 .. n, i - 1 \in T PROVE i \in T
  <2> DEFINE a == l[i - 1]
             out == SubSeq(s, 1, i - 1)
             c == s[i]
  <2>1. a \in Nat /\ l[i] = a + Len(EmitByte(c)) /\ l[i] <= l[n] /\ c \in StringBytes
    BY <1>0, <1>2, <1>5, <1>6
  <2>2. Len(EmitByte(c)) \in Nat
    BY <2>1, EmitType, Zenon
  <2>3. out \in Seq(Nat) /\ Append(out, c) = SubSeq(s, 1, i)
    <3>1. s \in Seq(Nat)
      BY <1>3, SeqWithin, Zenon
    <3>2. i \in 1 .. Len(s)
      BY DEF n
    <3> QED BY <3>1, <3>2
  <2>4. f[i - 1] = Reading(a + 1, out)
    BY <1>12
  <2>5. f[i] = StringTurn(event, f[i - 1])
    <3>1. i \in 1 .. Len(event) + 1
      BY <1>0, <1>10
    <3> QED BY <1>8, <3>1, Zenon DEF StringRun
  <2>6. \A j \in 1 .. Len(EmitByte(c)) : event[a + 1 + j - 1] = EmitByte(c)[j]
    <3>1. \A j \in 1 .. Len(EmitByte(c)) : event[a + j] = EmitByte(c)[j]
      BY <1>2, <1>5, Zenon
    <3>2. \A j \in 1 .. Len(EmitByte(c)) : a + 1 + j - 1 = a + j
      BY <2>1, <2>2
    <3> QED BY <3>1, <3>2, Zenon
  <2>7. a + 1 + Len(EmitByte(c)) <= Len(event) /\ a + 1 \in Nat \ {0}
    <3>1. Len(event) = l[n] + 1 /\ l[n] \in Nat
      BY <1>5, <1>10, Zenon
    <3> HIDE DEF a, c
    <3> QED BY <2>1, <2>2, <3>1
  <2> HIDE DEF a, out, c
  <2>8. StringTurn(event, Reading(a + 1, out)) = Reading(a + 1 + Len(EmitByte(c)), Append(out, c))
    BY <1>7, <2>1, <2>3, <2>6, <2>7, ByteRead, Zenon
  <2>9. a + 1 + Len(EmitByte(c)) = l[i] + 1
    BY <2>1, <2>2
  <2>10. f[i] = Reading(l[i] + 1, SubSeq(s, 1, i))
    BY <2>3, <2>4, <2>5, <2>8, <2>9, Zenon
  <2> QED BY <1>6, <2>10
<1> HIDE DEF T
<1>13. f[n] = Reading(l[n] + 1, s)
  <2>1. \A i \in 0 .. n : i \in T
    BY <1>0, <1>11, <1>12, Reaches
  <2>2. f[n] = Reading(l[n] + 1, SubSeq(s, 1, n))
    BY <1>0, <2>1 DEF T
  <2>3. SubSeq(s, 1, n) = s
    BY DEF n
  <2> QED BY <2>2, <2>3, Zenon
<1>14. f[n + 1] = StringTurn(event, Reading(l[n] + 1, s))
  <2>1. f[n + 1] = StringTurn(event, f[(n + 1) - 1])
    BY <1>8, <1>10, Zenon DEF StringRun
  <2> QED BY <1>10, <1>13, <2>1, Zenon
<1>15. f[n + 1].read = "all" /\ f[n + 1].out = s
  <2>1. l[n] + 1 \in Nat /\ l[n] + 1 <= Len(event)
    BY <1>5, <1>10
  <2>2. event[l[n] + 1] = DoubleQuote
    BY <1>5, Zenon
  <2> DEFINE st == StringTurn(event, Reading(l[n] + 1, s))
  <2>3. st.read = "all" /\ st.out = s
    BY <2>1, <2>2, TurnQuote
  <2> QED BY <1>14, <2>3, Zenon
<1>16. j_string(event) = f[n + 1]
  <2>1. n + 1 \in 0 .. Len(event) + 1
    BY <1>10
  <2>2. f[n + 1].read # "more"
    BY <1>15
  <2> QED BY <1>8, <2>1, <2>2, Zenon DEF StringRun
<1> QED BY <1>1, <1>7, <1>15, <1>16, Zenon

\* Where each point of a UTF-8 text begins.
Utf8With(b, points, f) ==
  LET n == Len(points)
  IN  /\ f \in [0 .. n -> Nat] /\ f[0] = 0
      /\ \A k \in 1 .. n : f[k] = f[k - 1] + Width(points[k])
      /\ \A k \in 0 .. n : f[k] <= f[n]
      /\ Len(b) = f[n]
      /\ \A k \in 1 .. n :
           LET i == f[k - 1] + 1
               w == Width(points[k])
           IN  /\ PointAt(b, i, w) = points[k]
               /\ \A j \in i + 1 .. i + w - 1 : b[j] \in 128 .. 191

LEMMA WidthType == \A p : Width(p) \in 1 .. 4
BY SMT DEF Width

LEMMA Utf8WithIs ==
  ASSUME NEW b \in Seq(Nat), NEW points \in Seq(Nat), NEW f, Utf8With(b, points, f)
  PROVE  IsUtf8(b, points)
<1> DEFINE
      n == Len(points)
      More(x, k) == x + Width(points[k])
      Rule(h) == [k \in 0 .. n |-> IF k = 0 THEN 0 ELSE More(h[k - 1], k)]
      before == CHOOSE h : h = Rule(h)
      Good(h) == /\ Len(b) = h[n]
                 /\ \A k \in 1 .. n :
                      LET i == h[k - 1] + 1
                          w == Width(points[k])
                      IN  /\ PointAt(b, i, w) = points[k]
                          /\ \A j \in i + 1 .. i + w - 1 : b[j] \in 128 .. 191
<1>0. n \in Nat
  OBVIOUS
<1>1. IsUtf8(b, points) <=> Good(before)
  BY Zenon DEF IsUtf8
<1>2. /\ f \in [0 .. n -> Nat] /\ f[0] = 0 /\ Good(f)
      /\ \A k \in 1 .. n : f[k] = More(f[k - 1], k)
  BY Zenon DEF Utf8With
<1> HIDE DEF Good, More, n
<1>3. \A k \in 0 .. n : k # 0 => k \in 1 .. n
  BY <1>0
<1>4. f = Rule(f)
  <2>1. \A k \in 0 .. n : f[k] = IF k = 0 THEN 0 ELSE More(f[k - 1], k)
    BY <1>2, <1>3, Zenon
  <2> QED BY <1>2, <2>1
<1>5. before = Rule(before)
  BY <1>4
<1> HIDE DEF before
<1>6. /\ 0 \in 0 .. n /\ n \in 0 .. n
      /\ \A k \in 1 .. n : k \in 0 .. n /\ k # 0 /\ k - 1 \in 0 .. n
  BY <1>0
<1>7. \A k \in 0 .. n : before[k] = IF k = 0 THEN 0 ELSE More(before[k - 1], k)
  BY <1>5
<1> DEFINE T == {k \in 0 .. n : before[k] = f[k]}
<1>8. 0 \in T
  BY <1>2, <1>6, <1>7
<1>9. ASSUME NEW k \in 1 .. n, k - 1 \in T PROVE k \in T
  <2>1. before[k - 1] = f[k - 1]
    BY <1>9
  <2>2. before[k] = More(before[k - 1], k) /\ f[k] = More(f[k - 1], k)
    BY <1>2, <1>6, <1>7, Zenon
  <2> QED BY <1>6, <2>1, <2>2
<1> HIDE DEF T
<1>10. \A k \in 0 .. n : before[k] = f[k]
  <2>1. \A k \in 0 .. n : k \in T
    BY <1>0, <1>8, <1>9, Reaches
  <2> QED BY <2>1 DEF T
<1>11. f = before
  <2>1. before = [k \in 0 .. n |-> before[k]]
    BY <1>5
  <2>2. f = [k \in 0 .. n |-> f[k]]
    BY <1>2
  <2> QED BY <1>10, <2>1, <2>2
<1> QED BY <1>1, <1>2, <1>11, Zenon

\* What append_utf8 appends is one point more.
LEMMA Utf8Cases ==
  ASSUME NEW p \in Nat
  PROVE  /\ p < 128 => Width(p) = 1 /\ Utf8Bytes(p) = <<p>>
         /\ p >= 128 /\ p < 2048 =>
              Width(p) = 2 /\ Utf8Bytes(p) = <<192 + Over64(p), 128 + Rest64(p)>>
         /\ p >= 2048 /\ p < 65536 =>
              /\ Width(p) = 3
              /\ Utf8Bytes(p) = <<224 + Over4096(p), 128 + Rest64(Over64(p)), 128 + Rest64(p)>>
         /\ p >= 65536 =>
              /\ Width(p) = 4
              /\ Utf8Bytes(p) = <<240 + Over262144(p), 128 + Rest64(Over4096(p)),
                                  128 + Rest64(Over64(p)), 128 + Rest64(p)>>
BY SMT DEF Width, Utf8Bytes

LEMMA PointCases ==
  ASSUME NEW b, NEW i
  PROVE  /\ PointAt(b, i, 1) = b[i] - 0
         /\ PointAt(b, i, 2) = (b[i] - 192) * 64 + (b[i + 1] - 128)
         /\ PointAt(b, i, 3) = ((b[i] - 224) * 64 + (b[i + 1] - 128)) * 64 + (b[i + 2] - 128)
         /\ PointAt(b, i, 4) =
              (((b[i] - 240) * 64 + (b[i + 1] - 128)) * 64 + (b[i + 2] - 128)) * 64
                + (b[i + 3] - 128)
BY SMT DEF PointAt, Lead

PointBytes(b, i, p) ==
  /\ PointAt(b, i, Width(p)) = p
  /\ \A j \in i + 1 .. i + Width(p) - 1 : b[j] \in 128 .. 191

LEMMA PointReads ==
  ASSUME NEW b, NEW i \in Nat, NEW p \in Nat,
         \A j \in 1 .. Width(p) : b[i + j - 1] = Utf8Bytes(p)[j]
  PROVE  PointBytes(b, i, p) /\ Len(Utf8Bytes(p)) = Width(p)
<1> DEFINE q == Over64(p)
           q2 == Over4096(p)
           q3 == Over262144(p)
           r == Rest64(p)
           r1 == Rest64(q)
           r2 == Rest64(q2)
<1>1. /\ q \in Nat /\ q2 \in Nat /\ q3 \in Nat /\ r \in 0 .. 63 /\ r1 \in 0 .. 63 /\ r2 \in 0 .. 63
      /\ p = q * 64 + r /\ q = q2 * 64 + r1 /\ q2 = q3 * 64 + r2
  BY SixBits, Zenon
<1>2. i + 1 - 1 = i /\ i + 2 - 1 = i + 1 /\ i + 3 - 1 = i + 2 /\ i + 4 - 1 = i + 3
  BY SMT
<1>3. /\ p < 128 => Width(p) = 1 /\ Utf8Bytes(p) = <<p>>
      /\ p >= 128 /\ p < 2048 => Width(p) = 2 /\ Utf8Bytes(p) = <<192 + q, 128 + r>>
      /\ p >= 2048 /\ p < 65536 =>
           Width(p) = 3 /\ Utf8Bytes(p) = <<224 + q2, 128 + r1, 128 + r>>
      /\ p >= 65536 =>
           Width(p) = 4 /\ Utf8Bytes(p) = <<240 + q3, 128 + r2, 128 + r1, 128 + r>>
  BY Utf8Cases, SMT
<1> HIDE DEF q, q2, q3, r, r1, r2
<1>4. CASE p < 128
  <2>1. Width(p) = 1 /\ Utf8Bytes(p) = <<p>>
    BY <1>3, <1>4, SMT
  <2>2. b[i] = p
    BY <1>2, <2>1, SMT
  <2>3. PointAt(b, i, 1) = p
    BY <2>2, PointCases, SMT
  <2>4. \A j \in i + 1 .. i + 1 - 1 : FALSE
    BY SMT
  <2> QED BY <2>1, <2>3, <2>4, SMT DEF PointBytes
<1>5. CASE p >= 128 /\ p < 2048
  <2>1. Width(p) = 2 /\ Utf8Bytes(p) = <<192 + q, 128 + r>>
    BY <1>3, <1>5, SMT
  <2>2. b[i] = 192 + q /\ b[i + 1] = 128 + r
    BY <1>2, <2>1, SMT
  <2>3. PointAt(b, i, 2) = p
    BY <1>1, <2>2, PointCases, SMT
  <2>4. \A j \in i + 1 .. i + 2 - 1 : j = i + 1
    BY SMT
  <2>5. b[i + 1] \in 128 .. 191
    BY <1>1, <2>2, SMT
  <2> QED BY <2>1, <2>3, <2>4, <2>5, SMT DEF PointBytes
<1>6. CASE p >= 2048 /\ p < 65536
  <2>1. Width(p) = 3 /\ Utf8Bytes(p) = <<224 + q2, 128 + r1, 128 + r>>
    BY <1>3, <1>6, SMT
  <2>2. b[i] = 224 + q2 /\ b[i + 1] = 128 + r1 /\ b[i + 2] = 128 + r
    BY <1>2, <2>1, SMT
  <2>3. PointAt(b, i, 3) = p
    BY <1>1, <2>2, PointCases, SMT
  <2>4. \A j \in i + 1 .. i + 3 - 1 : j = i + 1 \/ j = i + 2
    BY SMT
  <2>5. b[i + 1] \in 128 .. 191 /\ b[i + 2] \in 128 .. 191
    BY <1>1, <2>2, SMT
  <2> QED BY <2>1, <2>3, <2>4, <2>5, SMT DEF PointBytes
<1>7. CASE p >= 65536
  <2>1. Width(p) = 4 /\ Utf8Bytes(p) = <<240 + q3, 128 + r2, 128 + r1, 128 + r>>
    BY <1>3, <1>7, SMT
  <2>2. /\ b[i] = 240 + q3 /\ b[i + 1] = 128 + r2 /\ b[i + 2] = 128 + r1
        /\ b[i + 3] = 128 + r
    BY <1>2, <2>1, SMT
  <2>3. PointAt(b, i, 4) = p
    BY <1>1, <2>2, PointCases, SMT
  <2>4. \A j \in i + 1 .. i + 4 - 1 : j = i + 1 \/ j = i + 2 \/ j = i + 3
    BY SMT
  <2>5. b[i + 1] \in 128 .. 191 /\ b[i + 2] \in 128 .. 191 /\ b[i + 3] \in 128 .. 191
    BY <1>1, <2>2, SMT
  <2> QED BY <2>1, <2>3, <2>4, <2>5, SMT DEF PointBytes
<1> QED BY <1>4, <1>5, <1>6, <1>7, SMT

LEMMA PointSame ==
  ASSUME NEW b, NEW c, NEW i \in Nat, NEW p,
         \A j \in 1 .. Width(p) : c[i + j - 1] = b[i + j - 1],
         PointBytes(b, i, p)
  PROVE  PointBytes(c, i, p)
<1> DEFINE w == Width(p)
<1>1. w \in 1 .. 4
  BY WidthType, Zenon
<1>2. i + 1 - 1 = i /\ i + 2 - 1 = i + 1 /\ i + 3 - 1 = i + 2 /\ i + 4 - 1 = i + 3
  BY SMT
<1>3. PointAt(b, i, w) = p /\ \A j \in i + 1 .. i + w - 1 : b[j] \in 128 .. 191
  BY Zenon DEF PointBytes
<1>4. \A j \in 1 .. w : c[i + j - 1] = b[i + j - 1]
  OBVIOUS
<1> HIDE DEF w
<1>5. \A j \in i + 1 .. i + w - 1 : c[j] \in 128 .. 191
  <2>1. ASSUME NEW j \in i + 1 .. i + w - 1 PROVE c[j] \in 128 .. 191
    <3> DEFINE k == j - i + 1
    <3>1. k \in 1 .. w /\ i + k - 1 = j
      BY <1>1, SMT
    <3> HIDE DEF k
    <3>2. c[i + k - 1] = b[i + k - 1]
      BY <1>4, <3>1, Zenon
    <3> QED BY <1>3, <3>1, <3>2, Zenon
  <2> QED BY <2>1
<1>6. PointAt(c, i, w) = p
  <2>1. CASE w = 1
    <3>1. c[i] = b[i]
      BY <1>2, <1>4, <2>1, SMT
    <3> QED BY <1>3, <2>1, <3>1, PointCases, SMT
  <2>2. CASE w = 2
    <3>1. c[i] = b[i] /\ c[i + 1] = b[i + 1]
      BY <1>2, <1>4, <2>2, SMT
    <3> QED BY <1>3, <2>2, <3>1, PointCases, SMT
  <2>3. CASE w = 3
    <3>1. c[i] = b[i] /\ c[i + 1] = b[i + 1] /\ c[i + 2] = b[i + 2]
      BY <1>2, <1>4, <2>3, SMT
    <3> QED BY <1>3, <2>3, <3>1, PointCases, SMT
  <2>4. CASE w = 4
    <3>1. c[i] = b[i] /\ c[i + 1] = b[i + 1] /\ c[i + 2] = b[i + 2] /\ c[i + 3] = b[i + 3]
      BY <1>2, <1>4, <2>4, SMT
    <3> QED BY <1>3, <2>4, <3>1, PointCases, SMT
  <2> QED BY <1>1, <2>1, <2>2, <2>3, <2>4, SMT
<1> QED BY <1>5, <1>6, Zenon DEF PointBytes, w

Utf8(b, points) ==
  b \in Seq(Nat) /\ points \in Seq(Nat) /\ \E f : Utf8With(b, points, f)

LEMMA Utf8None == Utf8(<<>>, <<>>)
<1> DEFINE f == [k \in 0 .. 0 |-> 0]
<1>1. f \in [0 .. 0 -> Nat] /\ f[0] = 0
  OBVIOUS
<1>2. \A k \in 1 .. 0 : FALSE
  OBVIOUS
<1>3. \A k \in 0 .. 0 : f[k] <= f[0]
  OBVIOUS
<1>4. Len(<<>>) = 0 /\ <<>> \in Seq(Nat)
  OBVIOUS
<1> HIDE DEF f
<1>5. Utf8With(<<>>, <<>>, f)
  BY <1>1, <1>2, <1>3, <1>4, Zenon DEF Utf8With
<1> QED BY <1>4, <1>5, Zenon DEF Utf8

LEMMA Utf8More ==
  ASSUME NEW b, NEW points, Utf8(b, points), NEW p \in Nat
  PROVE  Utf8(append_utf8(b, p), Append(points, p))
<1> DEFINE
      n == Len(points)
      bytes == Utf8Bytes(p)
      c == append_utf8(b, p)
      w == Width(p)
      all == Append(points, p)
<1>0. b \in Seq(Nat) /\ points \in Seq(Nat) /\ n \in Nat
  BY DEF Utf8
<1>1. PICK f : Utf8With(b, points, f)
  BY Zenon DEF Utf8
<1>2. /\ f \in [0 .. n -> Nat] /\ f[0] = 0
      /\ \A k \in 1 .. n : f[k] = f[k - 1] + Width(points[k])
      /\ \A k \in 0 .. n : f[k] <= f[n]
      /\ Len(b) = f[n]
      /\ \A k \in 1 .. n : PointBytes(b, f[k - 1] + 1, points[k])
  BY <1>1, Zenon DEF Utf8With, PointBytes
<1>3. w \in 1 .. 4
  BY WidthType, Zenon
<1>4. c = b \o bytes /\ bytes \in Seq(Nat)
  BY <1>0, Utf8Is, Utf8Type, Zenon
<1>5. Len(all) = n + 1 /\ all[n + 1] = p /\ \A k \in 1 .. n : all[k] = points[k]
  BY <1>0
<1>6. all \in Seq(Nat)
  BY <1>0
<1> HIDE DEF n, bytes, c, w, all
<1>7. /\ c \in Seq(Nat) /\ Len(c) = Len(b) + Len(bytes)
      /\ \A x \in 1 .. Len(b) : c[x] = b[x]
      /\ \A x \in 1 .. Len(bytes) : c[Len(b) + x] = bytes[x]
  BY <1>0, <1>4
<1>8. Len(bytes) = w
  <2>1. ASSUME NEW d, \A j \in 1 .. w : d[0 + j - 1] = bytes[j] PROVE Len(bytes) = w
    BY <2>1, PointReads, Zenon DEF bytes, w
  <2> DEFINE d == [x \in 0 .. w - 1 |-> bytes[x + 1]]
  <2>2. \A j \in 1 .. w : 0 + j - 1 \in 0 .. w - 1 /\ (0 + j - 1) + 1 = j
    BY <1>3
  <2>3. \A j \in 1 .. w : d[0 + j - 1] = bytes[j]
    BY <2>2
  <2> HIDE DEF d
  <2> QED BY <2>1, <2>3, Zenon
<1>9. f[n] \in Nat /\ n \in 0 .. n
  BY <1>0, <1>2
<1>10. PointBytes(c, f[n] + 1, p)
  <2>1. \A j \in 1 .. w : c[f[n] + j] = bytes[j]
    BY <1>2, <1>7, <1>8, Zenon
  <2>2. \A j \in 1 .. w : f[n] + 1 + j - 1 = f[n] + j
    BY <1>9, <1>3
  <2>3. \A j \in 1 .. w : c[f[n] + 1 + j - 1] = bytes[j]
    BY <2>1, <2>2, Zenon
  <2>4. f[n] + 1 \in Nat
    BY <1>9
  <2> QED BY <2>3, <2>4, PointReads, Zenon DEF bytes, w
<1>11. ASSUME NEW k \in 1 .. n PROVE PointBytes(c, f[k - 1] + 1, all[k])
  <2> DEFINE i == f[k - 1] + 1
             v == Width(points[k])
  <2>1. k - 1 \in 0 .. n /\ k \in 0 .. n
    BY <1>0
  <2>2. v \in 1 .. 4 /\ f[k - 1] \in Nat /\ f[k] = f[k - 1] + v /\ f[k] <= f[n] /\ f[n] = Len(b)
    BY <1>2, <2>1, WidthType
  <2> HIDE DEF v
  <2> DEFINE x == f[k - 1]
             l == Len(b)
  <2>3. \A j \in 1 .. v : i + j - 1 \in 1 .. l
    <3>1. x \in Nat /\ l \in Nat /\ x + v <= l /\ v \in 1 .. 4
      BY <1>0, <2>2
    <3>2. i = x + 1
      OBVIOUS
    <3> HIDE DEF x, l, i
    <3> QED BY <3>1, <3>2
  <2>4. i \in Nat
    BY <2>2
  <2> HIDE DEF i
  <2>5. \A j \in 1 .. v : c[i + j - 1] = b[i + j - 1]
    BY <1>7, <2>3, Zenon
  <2>6. PointBytes(b, i, points[k])
    BY <1>2, Zenon DEF i
  <2>7. PointBytes(c, i, points[k])
    BY <2>4, <2>5, <2>6, PointSame, Zenon DEF v
  <2> QED BY <1>5, <2>7, Zenon DEF i
<1> DEFINE g == [k \in 0 .. n + 1 |-> IF k <= n THEN f[k] ELSE f[n] + w]
<1>12. g \in [0 .. n + 1 -> Nat] /\ g[n + 1] = f[n] + w /\ \A k \in 0 .. n : g[k] = f[k]
  <2>1. \A k \in 0 .. n + 1 : k <= n => k \in 0 .. n
    BY <1>0
  <2>2. f[n] + w \in Nat
    BY <1>3, <1>9
  <2>3. \A k \in 0 .. n + 1 : g[k] \in Nat
    BY <1>2, <2>1, <2>2
  <2>4. n + 1 \in 0 .. n + 1 /\ ~ (n + 1 <= n)
    BY <1>0
  <2>5. g[n + 1] = f[n] + w
    BY <2>4
  <2>6. \A k \in 0 .. n : k \in 0 .. n + 1 /\ k <= n
    BY <1>0
  <2> QED BY <2>3, <2>5, <2>6
<1> HIDE DEF g
<1>13. 0 \in 0 .. n /\ \A k \in 1 .. n + 1 : k = n + 1 \/ k \in 1 .. n
  BY <1>0
<1>14. \A k \in 1 .. n : k \in 0 .. n /\ k - 1 \in 0 .. n
  BY <1>0
<1>15. (n + 1) - 1 = n
  BY <1>0
<1>16. g[0] = 0
  BY <1>2, <1>12, <1>13, Zenon
<1>17. \A k \in 1 .. n + 1 : g[k] = g[k - 1] + Width(all[k])
  <2>1. \A k \in 1 .. n : g[k] = g[k - 1] + Width(all[k])
    BY <1>2, <1>5, <1>12, <1>14, Zenon
  <2>2. g[n + 1] = g[(n + 1) - 1] + Width(all[n + 1])
    BY <1>5, <1>9, <1>12, <1>15, Zenon DEF w
  <2> QED BY <1>13, <2>1, <2>2, Zenon
<1>18. \A k \in 0 .. n + 1 : g[k] <= g[n + 1]
  <2>1. \A k \in 0 .. n : g[k] <= g[n + 1]
    <3>1. \A k \in 0 .. n : f[k] \in Nat /\ f[k] <= f[n]
      BY <1>2
    <3>2. \A k \in 0 .. n : f[k] <= f[n] + w
      BY <1>3, <1>9, <3>1
    <3> QED BY <1>12, <3>2, Zenon
  <2>2. g[n + 1] <= g[n + 1]
    BY <1>3, <1>9, <1>12
  <2>3. \A k \in 0 .. n + 1 : k = n + 1 \/ k \in 0 .. n
    BY <1>0
  <2> QED BY <2>1, <2>2, <2>3, Zenon
<1>19. Len(c) = g[n + 1]
  BY <1>2, <1>7, <1>8, <1>12, Zenon
<1>20. \A k \in 1 .. n + 1 : PointBytes(c, g[k - 1] + 1, all[k])
  <2>1. \A k \in 1 .. n : PointBytes(c, g[k - 1] + 1, all[k])
    BY <1>11, <1>12, <1>14, Zenon
  <2>2. PointBytes(c, g[(n + 1) - 1] + 1, all[n + 1])
    <3>1. g[(n + 1) - 1] = f[n]
      BY <1>9, <1>12, <1>15
    <3> QED BY <1>5, <1>10, <3>1
  <2> QED BY <1>13, <2>1, <2>2, Zenon
<1>21. Utf8With(c, all, g)
  BY <1>5, <1>12, <1>16, <1>17, <1>18, <1>19, <1>20, Zenon DEF Utf8With, PointBytes
<1> QED BY <1>6, <1>7, <1>21, Zenon DEF Utf8, c, all

\* A string of code units, each written \uXXXX: unit k is at 6 * k - 5.
UnitTexts(u) == [i \in 1 .. Len(u) |-> UnicodeEscape(u[i])]
EscapeAt(s, k, unit) == \A j \in 1 .. 6 : s[(6 * k - 5) + j - 1] = UnicodeEscape(unit)[j]

LEMMA UnitsWritten ==
  ASSUME NEW u \in Seq(CodeUnits)
  PROVE  LET s == Written(UnitTexts(u))
             n == Len(u)
         IN  /\ s \in Seq(Nat) /\ Len(s) = 6 * n + 1 /\ s[6 * n + 1] = DoubleQuote
             /\ \A k \in 1 .. n : EscapeAt(s, k, u[k])
<1> DEFINE n == Len(u)
           texts == UnitTexts(u)
           s == Written(texts)
<1>0. n \in Nat /\ \A i \in 1 .. n : u[i] \in CodeUnits
  OBVIOUS
<1>1. /\ texts \in Seq(Seq(Printed)) /\ Len(texts) = n
      /\ \A i \in 1 .. n : texts[i] = UnicodeEscape(u[i]) /\ Len(texts[i]) = 6
  <2>1. \A i \in 1 .. n : UnicodeEscape(u[i]) \in Seq(Printed) /\ Len(UnicodeEscape(u[i])) = 6
    BY <1>0, EscapeType, Zenon DEF Printed
  <2>2. texts = [i \in 1 .. n |-> UnicodeEscape(u[i])]
    BY Zenon DEF UnitTexts
  <2> HIDE DEF texts
  <2> QED BY <1>0, <2>1, <2>2
<1>2. Printed \in SUBSET Nat /\ DoubleQuote \in Printed
  BY SMT DEF Printed, DoubleQuote
<1> HIDE DEF texts
<1>3. PICK l : WrittenAt(texts, Printed, l)
  BY <1>1, <1>2, WrittenIs, Zenon
<1>4. /\ l \in [0 .. n -> Nat] /\ l[0] = 0
      /\ \A i \in 1 .. n : l[i] = l[i - 1] + Len(texts[i])
      /\ s \in Seq(Printed) /\ Len(s) = l[n] + 1
      /\ s[l[n] + 1] = DoubleQuote
      /\ \A i \in 1 .. n : \A j \in 1 .. Len(texts[i]) : s[l[i - 1] + j] = texts[i][j]
  BY <1>1, <1>3, Zenon DEF WrittenAt
<1> HIDE DEF s, n
<1>5. s \in Seq(Nat)
  BY <1>2, <1>4, SeqWithin, Zenon
<1>6. \A i \in 0 .. n : l[i] = 6 * i
  <2> DEFINE T == {i \in 0 .. n : l[i] = 6 * i}
  <2>1. 0 \in T
    BY <1>0, <1>4
  <2>2. ASSUME NEW i \in 1 .. n, i - 1 \in T PROVE i \in T
    <3>1. l[i - 1] = 6 * (i - 1) /\ i \in 0 .. n
      BY <1>0, <2>2
    <3>2. l[i] = l[i - 1] + 6
      BY <1>1, <1>4, Zenon
    <3>3. l[i] = 6 * i
      BY <3>1, <3>2
    <3> QED BY <3>1, <3>3
  <2> HIDE DEF T
  <2>3. \A i \in 0 .. n : i \in T
    BY <1>0, <2>1, <2>2, Reaches
  <2> QED BY <2>3, Zenon DEF T
<1>7. l[n] = 6 * n
  BY <1>0, <1>6
<1>8. ASSUME NEW k \in 1 .. n PROVE EscapeAt(s, k, u[k])
  <2>1. l[k - 1] = 6 * (k - 1)
    BY <1>0, <1>6
  <2>2. \A j \in 1 .. 6 : s[l[k - 1] + j] = UnicodeEscape(u[k])[j]
    BY <1>1, <1>4, Zenon
  <2>3. \A j \in 1 .. 6 : (6 * k - 5) + j - 1 = l[k - 1] + j
    BY <1>0, <2>1
  <2> QED BY <2>2, <2>3, Zenon DEF EscapeAt
<1>9. Len(s) = 6 * n + 1 /\ s[6 * n + 1] = DoubleQuote
  BY <1>4, <1>7, Zenon
<1> QED BY <1>5, <1>8, <1>9, Zenon DEF s, n, texts

\* Its code points, one after the other.
Progress(n) == [used : 0 .. n, points : Seq(Nat)]
PairAt(u, m) == m < Len(u) /\ HighSurrogate(u[m]) /\ LowSurrogate(u[m + 1])

LEMMA NextIs ==
  ASSUME NEW u, NEW st
  PROVE  NextPoint(u, st) =
    IF st.used = Len(u) THEN st
    ELSE IF PairAt(u, st.used + 1)
      THEN [used |-> (st.used + 1) + 1,
            points |-> Append(st.points, Pair(u[st.used + 1], u[(st.used + 1) + 1]))]
      ELSE [used |-> st.used + 1, points |-> Append(st.points, u[st.used + 1])]
BY SMT DEF NextPoint, PairAt, Pair, HighSurrogate, LowSurrogate

\* The point that is taken where st stands, and how many units it is.
Taken(u, st) == IF PairAt(u, st.used + 1)
                THEN Pair(u[st.used + 1], u[(st.used + 1) + 1]) ELSE u[st.used + 1]
Size(u, st) == IF PairAt(u, st.used + 1) THEN 2 ELSE 1

LEMMA NextTakes ==
  ASSUME NEW u \in Seq(CodeUnits), NEW st \in Progress(Len(u)), st.used # Len(u)
  PROVE  /\ NextPoint(u, st) \in Progress(Len(u))
         /\ Taken(u, st) \in Nat /\ Size(u, st) \in {1, 2}
         /\ NextPoint(u, st).used = st.used + Size(u, st)
         /\ NextPoint(u, st).points = Append(st.points, Taken(u, st))
<1> DEFINE n == Len(u)
           m == st.used + 1
<1>1. n \in Nat /\ st.used \in 0 .. n /\ st.points \in Seq(Nat) /\ m \in 1 .. n
  BY DEF Progress
<1>2. CodeUnits \in SUBSET Nat
  BY SMT DEF CodeUnits
<1>3. \A k \in 1 .. n : u[k] \in Nat
  BY <1>2, ElementOfSeq, Zenon
<1>4. CASE PairAt(u, m)
  <2>1. m + 1 \in 1 .. n /\ HighSurrogate(u[m]) /\ LowSurrogate(u[m + 1])
    BY <1>1, <1>4 DEF PairAt
  <2>2. u[m] \in Nat /\ u[m + 1] \in Nat
    BY <1>1, <1>3, <2>1, Zenon
  <2> DEFINE p == Pair(u[m], u[m + 1])
  <2>3. p \in Nat
    BY <2>1, <2>2, PairType, SMT
  <2> HIDE DEF p
  <2>4. NextPoint(u, st) = [used |-> m + 1, points |-> Append(st.points, p)]
    BY <1>1, <1>4, NextIs, SMT DEF p
  <2>5. Taken(u, st) = p /\ Size(u, st) = 2
    BY <1>4, Zenon DEF Taken, Size, p
  <2>6. Append(st.points, p) \in Seq(Nat) /\ m + 1 \in 0 .. n /\ m + 1 = st.used + 2
    <3>1. Append(st.points, p) \in Seq(Nat)
      BY <1>1, <2>3
    <3>2. m + 1 \in 0 .. n
      <4>1. n \in Nat /\ m + 1 \in 1 .. n
        BY <1>1, <2>1, Zenon
      <4> HIDE DEF m, n
      <4> QED BY <4>1
    <3>3. m + 1 = st.used + 2
      BY <1>1
    <3> QED BY <3>1, <3>2, <3>3, Zenon
  <2> QED BY <2>3, <2>4, <2>5, <2>6 DEF Progress
<1>5. CASE ~ PairAt(u, m)
  <2> DEFINE p == u[m]
  <2>4. NextPoint(u, st) = [used |-> m, points |-> Append(st.points, p)]
    BY <1>1, <1>5, NextIs, SMT
  <2>5. Taken(u, st) = p /\ Size(u, st) = 1
    BY <1>5, Zenon DEF Taken, Size
  <2> HIDE DEF p
  <2>6. Append(st.points, p) \in Seq(Nat) /\ m \in 0 .. n /\ m = st.used + 1
    BY <1>1, <1>3 DEF p
  <2> QED BY <1>3, <2>4, <2>5, <2>6 DEF Progress, p
<1> QED BY <1>4, <1>5

PointRun(u, g) ==
  /\ g[0] = [used |-> 0, points |-> <<>>]
  /\ \A k \in 0 .. Len(u) : g[k] \in Progress(Len(u))
  /\ \A k \in 1 .. Len(u) : g[k] = NextPoint(u, g[k - 1])
  /\ CodePoints(u) = g[Len(u)].points

LEMMA PointRuns ==
  ASSUME NEW u \in Seq(CodeUnits)
  PROVE  \E g : PointRun(u, g)
<1> DEFINE
      n == Len(u)
      P == Progress(n)
      start == [used |-> 0, points |-> <<>>]
      Rule(g) == [k \in 0 .. n |-> IF k = 0 THEN start ELSE NextPoint(u, g[k - 1])]
      after == CHOOSE g : g = Rule(g)
      step == [p \in P \X (1 .. n) |-> NextPoint(u, p[1])]
<1>0. n \in Nat
  OBVIOUS
<1>1. start \in P
  BY <1>0 DEF Progress
<1>2. CodePoints(u) = after[n].points
  BY DEF CodePoints
<1>3. \A x \in P : NextPoint(u, x) \in P
  <2>1. ASSUME NEW x \in P PROVE NextPoint(u, x) \in P
    <3>1. CASE x.used = n
      BY <3>1, NextIs, SMT
    <3>2. CASE x.used # n
      BY <3>2, NextTakes, Zenon
    <3> QED BY <3>1, <3>2
  <2> QED BY <2>1
<1>4. \A k \in 1 .. n : \A x \in P : step[<<x, k>>] = NextPoint(u, x) /\ step[<<x, k>>] \in P
  BY <1>3
<1> HIDE DEF start, step, n, P
<1>5. PICK g \in [0 .. n -> P] :
        g[0] = start /\ \A k \in 1 .. n : g[k] = step[<<g[k - 1], k>>]
  <2>1. Chained(n, P, start, step)
    BY <1>0, <1>1, <1>4, Chain
  <2> QED BY <2>1 DEF Chained
<1>6. \A k \in 1 .. n : k \in 0 .. n /\ k # 0 /\ k - 1 \in 0 .. n
  BY <1>0
<1>7. \A k \in 0 .. n : k # 0 => k \in 1 .. n
  BY <1>0
<1>8. g = Rule(g)
  <2>1. \A k \in 1 .. n : g[k] = NextPoint(u, g[k - 1])
    BY <1>4, <1>5, <1>6
  <2>2. \A k \in 0 .. n : g[k] = IF k = 0 THEN start ELSE NextPoint(u, g[k - 1])
    BY <1>5, <1>7, <2>1, Zenon
  <2> QED BY <1>5, <2>2
<1>9. after = Rule(after)
  BY <1>8
<1> HIDE DEF after
<1>10. \A k \in 0 .. n : after[k] = IF k = 0 THEN start ELSE NextPoint(u, after[k - 1])
  BY <1>9
<1>11. 0 \in 0 .. n
  BY <1>0
<1>12. after[0] = start /\ \A k \in 1 .. n : after[k] = NextPoint(u, after[k - 1])
  BY <1>6, <1>10, <1>11, Zenon
<1> DEFINE T == {k \in 0 .. n : after[k] \in P}
<1>13. 0 \in T
  BY <1>1, <1>11, <1>12
<1>14. ASSUME NEW k \in 1 .. n, k - 1 \in T PROVE k \in T
  BY <1>3, <1>6, <1>12, <1>14
<1> HIDE DEF T
<1>15. \A k \in 0 .. n : after[k] \in P
  <2>1. \A k \in 0 .. n : k \in T
    BY <1>0, <1>13, <1>14, Reaches
  <2> QED BY <2>1, Zenon DEF T
<1>16. PointRun(u, after)
  BY <1>2, <1>12, <1>15, Zenon DEF PointRun, n, P, start
<1> QED BY <1>16, Zenon

\* A turn of j_string takes the same point.
UnitText(u, s) ==
  LET n == Len(u)
  IN  /\ s \in Seq(Nat) /\ Len(s) = 6 * n + 1 /\ s[6 * n + 1] = DoubleQuote
      /\ \A k \in 1 .. n : EscapeAt(s, k, u[k])

LEMMA UnitsAreNat == \A c \in CodeUnits : c \in Nat /\ c >= 0
BY SMT DEF CodeUnits

UnitAt(s, k, unit) ==
  /\ s[6 * k - 5] = Backslash /\ s[(6 * k - 5) + 1] = 117
  /\ Hex4(s, (6 * k - 5) + 2) = unit

LEMMA EscapeReads ==
  ASSUME NEW s, NEW k, NEW c, s \in Seq(Nat), k \in Nat \ {0}, c \in CodeUnits,
         6 * k <= Len(s), EscapeAt(s, k, c)
  PROVE  UnitAt(s, k, c)
<1> DEFINE e == 6 * k - 5
           l == Len(s)
<1>1. \A j \in 1 .. 6 : s[e + j - 1] = UnicodeEscape(c)[j]
  BY Zenon DEF EscapeAt
<1>2. l \in Nat /\ 6 * k <= l
  OBVIOUS
<1> HIDE DEF l
<1>3. e \in Nat \ {0} /\ e + 5 <= l
  BY <1>2
<1> HIDE DEF e
<1>4. e + 5 <= Len(s) /\ e \in Nat \ {0}
  BY <1>3, Zenon DEF l
<1>5. s[e] = Backslash /\ s[e + 1] = 117 /\ Hex4(s, e + 2) = c
  BY <1>1, <1>4, Hex4Reads, Zenon
<1> QED BY <1>5, Zenon DEF e, UnitAt

LEMMA UnitTurn ==
  ASSUME NEW u \in Seq(CodeUnits), NEW s, UnitText(u, s),
         NEW st \in Progress(Len(u)), NEW out, st.used # Len(u)
  PROVE  StringTurn(s, Reading(6 * st.used + 1, out)) =
           Reading(6 * (st.used + Size(u, st)) + 1, append_utf8(out, Taken(u, st)))
<1> DEFINE n == Len(u)
           y == st.used
           m == y + 1
           i == 6 * m - 5
           l == Len(s)
<1>2. s \in Seq(Nat) /\ l = 6 * n + 1 /\ s[6 * n + 1] = DoubleQuote
  BY Zenon DEF UnitText
<1>3. \A k \in 1 .. n : u[k] \in CodeUnits /\ EscapeAt(s, k, u[k])
  BY ElementOfSeq, Zenon DEF UnitText
<1>5. n \in Nat /\ y \in 0 .. n /\ y # n
  BY DEF Progress
<1> HIDE DEF n, y, l
<1>1. m \in 1 .. n
  BY <1>5
<1>4. 6 * y + 1 = i /\ i \in Nat \ {0}
  BY <1>5
<1>6. ASSUME NEW k \in 1 .. n
      PROVE  /\ s[6 * k - 5] = Backslash /\ s[(6 * k - 5) + 1] = 117
             /\ Hex4(s, (6 * k - 5) + 2) = u[k]
  <2>1. 6 * k <= Len(s) /\ k \in Nat \ {0}
    BY <1>2, <1>5 DEF l
  <2>2. u[k] \in CodeUnits /\ EscapeAt(s, k, u[k])
    BY <1>3, Zenon
  <2>3. UnitAt(s, k, u[k])
    BY <1>2, <2>1, <2>2, EscapeReads, Zenon
  <2> QED BY <2>3, Zenon DEF UnitAt
<1>7. s[i] = Backslash /\ s[i + 1] = 117 /\ Hex4(s, i + 2) = u[m]
  BY <1>1, <1>6, Zenon
<1>8. \A c \in CodeUnits : c \in Nat /\ c >= 0
  BY UnitsAreNat, Zenon
<1>9. i <= l /\ i < l /\ i \in Nat
  BY <1>2, <1>5
<1>10. m < n => i + 7 <= l /\ m + 1 \in 1 .. n /\ i + 6 = 6 * (m + 1) - 5
                /\ i + 7 = (6 * (m + 1) - 5) + 1 /\ i + 8 = (6 * (m + 1) - 5) + 2
  BY <1>2, <1>5
<1>11. ~ (m < n) => m = n /\ i + 6 = 6 * n + 1
  BY <1>5
<1>17. i + 12 = 6 * (y + 2) + 1 /\ i + 6 = 6 * (y + 1) + 1
  BY <1>5
<1> HIDE DEF i, m
<1>12. Escaped(s, i) = 117 /\ Hex4(s, i + 2) >= 0
  <2>1. u[m] >= 0
    BY <1>1, <1>3, <1>8, Zenon
  <2> QED BY <1>7, <1>9, <2>1, Zenon DEF Escaped, l
<1>13. Paired(s, i) <=> PairAt(u, m)
  <2>1. CASE m < n
    <3> DEFINE j == 6 * (m + 1) - 5
    <3>3. m + 1 \in 1 .. n /\ i + 6 = j /\ i + 7 = j + 1 /\ i + 8 = j + 2
      BY <1>10, <2>1, Zenon
    <3>4. s[j] = Backslash /\ s[j + 1] = 117 /\ Hex4(s, j + 2) = u[m + 1]
      BY <1>6, <3>3, Zenon
    <3> HIDE DEF j
    <3>1. /\ s[i + 6] = Backslash /\ s[i + 7] = 117 /\ Hex4(s, i + 8) = u[m + 1]
          /\ i + 7 <= l
      BY <1>10, <2>1, <3>3, <3>4, Zenon
    <3>2. LowAt(s, i) = u[m + 1]
      BY <3>1, Zenon DEF LowAt, l
    <3> QED BY <1>7, <2>1, <3>2, Zenon DEF Paired, PairAt, n
  <2>2. CASE ~ (m < n)
    <3>1. s[i + 6] = DoubleQuote
      BY <1>2, <1>11, <2>2, Zenon
    <3>2. DoubleQuote # Backslash
      BY SMT DEF DoubleQuote, Backslash
    <3>3. LowAt(s, i) = -1
      BY <3>1, <3>2, Zenon DEF LowAt
    <3>4. ~ LowSurrogate(-1)
      BY SMT DEF LowSurrogate
    <3> QED BY <2>2, <3>3, <3>4, Zenon DEF Paired, PairAt, n
  <2> QED BY <2>1, <2>2
<1>14. StringTurn(s, Reading(i, out)) =
         IF Paired(s, i)
           THEN Reading(i + 12, append_utf8(out, Pair(Hex4(s, i + 2), LowAt(s, i))))
           ELSE Reading(i + 6, append_utf8(out, Hex4(s, i + 2)))
  <2>1. i <= Len(s)
    BY <1>9, Zenon DEF l
  <2>2. s[i] = Backslash
    BY <1>7, Zenon
  <2>3. i \in Nat
    BY <1>9, Zenon
  <2> QED BY <1>12, <2>1, <2>2, <2>3, TurnUnicode, SMT
<1>15. CASE PairAt(u, m)
  <2>1. m < n
    BY <1>15, Zenon DEF PairAt, n
  <2>2. LowAt(s, i) = u[m + 1]
    <3> DEFINE j == 6 * (m + 1) - 5
    <3>3. m + 1 \in 1 .. n /\ i + 6 = j /\ i + 7 = j + 1 /\ i + 8 = j + 2
      BY <1>10, <2>1, Zenon
    <3>4. s[j] = Backslash /\ s[j + 1] = 117 /\ Hex4(s, j + 2) = u[m + 1]
      BY <1>6, <3>3, Zenon
    <3> HIDE DEF j
    <3>1. /\ s[i + 6] = Backslash /\ s[i + 7] = 117 /\ Hex4(s, i + 8) = u[m + 1]
          /\ i + 7 <= l
      BY <1>10, <2>1, <3>3, <3>4, Zenon
    <3> QED BY <3>1, Zenon DEF LowAt, l
  <2>3. Taken(u, st) = Pair(u[m], u[m + 1]) /\ Size(u, st) = 2
    BY <1>15, Zenon DEF Taken, Size, m, y
  <2>5. StringTurn(s, Reading(i, out)) = Reading(i + 12, append_utf8(out, Taken(u, st)))
    BY <1>7, <1>13, <1>14, <1>15, <2>2, <2>3, Zenon
  <2> QED BY <1>4, <1>17, <2>3, <2>5, Zenon DEF y
<1>16. CASE ~ PairAt(u, m)
  <2>1. Taken(u, st) = u[m] /\ Size(u, st) = 1
    BY <1>16, Zenon DEF Taken, Size, m, y
  <2>3. StringTurn(s, Reading(i, out)) = Reading(i + 6, append_utf8(out, Taken(u, st)))
    BY <1>7, <1>13, <1>14, <1>16, <2>1, Zenon
  <2> QED BY <1>4, <1>17, <2>1, <2>3, Zenon DEF y
<1> QED BY <1>15, <1>16

\* So the code points come out in UTF-8.
LEMMA UnitsRead ==
  ASSUME NEW u \in Seq(CodeUnits)
  PROVE  LET st == j_string(Written([i \in 1 .. Len(u) |-> UnicodeEscape(u[i])]))
         IN  st.read = "all" /\ IsUtf8(st.out, CodePoints(u))
<1> DEFINE n == Len(u)
           s == Written(UnitTexts(u))
           l == Len(s)
<1>0. n \in Nat
  OBVIOUS
<1>1. s \in Seq(Nat) /\ l = 6 * n + 1 /\ s[6 * n + 1] = DoubleQuote
  BY UnitsWritten, Zenon
<1>2. UnitText(u, s)
  BY UnitsWritten, Zenon DEF UnitText
<1> HIDE DEF s
<1>3. PICK f : StringRun(s, f)
  BY <1>1, StringRuns, Zenon
<1>4. PICK g : PointRun(u, g)
  BY PointRuns, Zenon
<1> HIDE DEF n, l
<1>5. /\ \A k \in 1 .. n : k \in 1 .. l + 1 /\ k \in 0 .. l + 1 /\ k - 1 \in 0 .. n /\ k \in 0 .. n
      /\ n \in 0 .. l + 1 /\ n + 1 \in 1 .. l + 1 /\ n + 1 \in 0 .. l + 1 /\ (n + 1) - 1 = n
      /\ 0 \in 0 .. n /\ n \in 0 .. n
  BY <1>0, <1>1
<1>6. \A k \in 1 .. l + 1 : f[k] = StringTurn(s, f[k - 1])
  BY <1>3, Zenon DEF StringRun, l
<1>7. \A k \in 0 .. l + 1 : f[k].read # "more" => j_string(s) = f[k]
  BY <1>3, Zenon DEF StringRun, l
<1>8. /\ \A k \in 0 .. n : g[k] \in Progress(n)
      /\ \A k \in 1 .. n : g[k] = NextPoint(u, g[k - 1])
      /\ CodePoints(u) = g[n].points
  BY <1>4, Zenon DEF PointRun, n
<1> DEFINE
      Going(x, st) == x = Reading(6 * st.used + 1, x.out)
      Over(x, st) == x.read = "all" /\ st.used = n
      Agree(x, st) == (Going(x, st) \/ Over(x, st)) /\ Utf8(x.out, st.points)
      T == {k \in 0 .. n : Agree(f[k], g[k]) /\ g[k].used >= k}
<1>9. 0 \in T
  <2>1. f[0] = Reading(1, <<>>)
    BY <1>3, Zenon DEF StringRun
  <2>2. g[0].used = 0 /\ g[0].points = <<>>
    <3>1. g[0] = [used |-> 0, points |-> <<>>]
      BY <1>4, Zenon DEF PointRun
    <3> QED BY <3>1
  <2>3. 6 * g[0].used + 1 = 1 /\ g[0].used >= 0
    BY <2>2
  <2>4. f[0].out = <<>>
    BY <2>1, ReadingIs, Zenon
  <2>5. Going(f[0], g[0])
    BY <2>1, <2>3, <2>4, Zenon
  <2>6. Utf8(f[0].out, g[0].points)
    BY <2>2, <2>4, Utf8None, Zenon
  <2> QED BY <1>5, <2>3, <2>5, <2>6, Zenon
<1>10. ASSUME NEW x, NEW st \in Progress(n), st.used = n, Agree(x, st)
       PROVE  StringTurn(s, x).read = "all" /\ StringTurn(s, x).out = x.out
  <2>1. CASE Going(x, st)
    <3>1. x = Reading(6 * n + 1, x.out)
      BY <1>10, <2>1, Zenon
    <3>2. 6 * n + 1 \in Nat /\ 6 * n + 1 <= l
      BY <1>0, <1>1
    <3> DEFINE out == x.out
               y == StringTurn(s, Reading(6 * n + 1, out))
    <3> HIDE DEF out
    <3>3. y.read = "all" /\ y.out = out
      <4> DEFINE i == 6 * n + 1
      <4>1. i \in Nat /\ i <= Len(s) /\ s[i] = DoubleQuote
        BY <1>1, <3>2, Zenon DEF l
      <4> HIDE DEF i
      <4>2. StringTurn(s, Reading(i, out)).read = "all" /\ StringTurn(s, Reading(i, out)).out = out
        BY <4>1, TurnQuote, Zenon
      <4> QED BY <4>2, Zenon DEF i
    <3> QED BY <3>1, <3>3, Zenon DEF out
  <2>2. CASE Over(x, st)
    <3>1. StringTurn(s, x) = x
      BY <2>2, TurnIs, SMT
    <3> QED BY <2>2, <3>1, Zenon
  <2> QED BY <1>10, <2>1, <2>2, Zenon
<1>11. ASSUME NEW k \in 1 .. n, k - 1 \in T PROVE k \in T
  <2> DEFINE x == f[k - 1]
             st == g[k - 1]
  <2>1. f[k] = StringTurn(s, x) /\ g[k] = NextPoint(u, st) /\ st \in Progress(n)
    BY <1>5, <1>6, <1>8, Zenon
  <2>2. Agree(x, st) /\ st.used >= k - 1
    BY <1>11, Zenon
  <2> HIDE DEF x, st
  <2>3. CASE st.used = n
    <3>1. g[k] = st
      BY <2>1, <2>3, NextIs, SMT DEF n
    <3>2. f[k].read = "all" /\ f[k].out = x.out
      BY <1>10, <2>1, <2>2, <2>3, Zenon
    <3>3. g[k].used >= k
      BY <1>0, <2>3, <3>1
    <3>4. Agree(f[k], g[k])
      BY <2>2, <2>3, <3>1, <3>2, Zenon
    <3> QED BY <1>5, <3>3, <3>4, Zenon
  <2>4. CASE st.used # n
    <3>1. Going(x, st) /\ Utf8(x.out, st.points)
      BY <2>2, <2>4, Zenon
    <3> DEFINE used == st.used + Size(u, st)
               out == append_utf8(x.out, Taken(u, st))
    <3>2. /\ Taken(u, st) \in Nat /\ Size(u, st) \in {1, 2}
          /\ g[k].used = used
          /\ g[k].points = Append(st.points, Taken(u, st))
      BY <2>1, <2>4, NextTakes, Zenon DEF n
    <3>3. StringTurn(s, Reading(6 * st.used + 1, x.out)) = Reading(6 * used + 1, out)
      <4>1. st \in Progress(Len(u)) /\ st.used # Len(u)
        BY <2>1, <2>4, Zenon DEF n
      <4> DEFINE o == x.out
      <4> HIDE DEF o
      <4>2. StringTurn(s, Reading(6 * st.used + 1, o)) =
              Reading(6 * (st.used + Size(u, st)) + 1, append_utf8(o, Taken(u, st)))
        BY <1>2, <4>1, UnitTurn, Zenon
      <4> QED BY <4>2, Zenon DEF o
    <3>4. Utf8(out, g[k].points)
      BY <3>1, <3>2, Utf8More, Zenon
    <3>5. f[k] = Reading(6 * g[k].used + 1, out)
      BY <2>1, <3>1, <3>2, <3>3, Zenon
    <3>6. f[k].out = out
      BY <3>5, ReadingIs, Zenon
    <3>7. g[k].used >= k
      <4>1. st.used \in Nat
        BY <1>0, <2>1 DEF Progress
      <4> QED BY <2>2, <3>2, <4>1
    <3>8. Agree(f[k], g[k])
      BY <3>4, <3>5, <3>6, Zenon
    <3> QED BY <1>5, <3>7, <3>8, Zenon
  <2> QED BY <2>3, <2>4
<1> HIDE DEF T
<1>12. n \in T
  <2>1. \A k \in 0 .. n : k \in T
    BY <1>0, <1>9, <1>11, Reaches
  <2> QED BY <1>5, <2>1
<1>13. Agree(f[n], g[n]) /\ g[n].used = n
  <2>1. Agree(f[n], g[n]) /\ g[n].used >= n
    BY <1>12, Zenon DEF T
  <2>2. g[n].used \in 0 .. n
    BY <1>5, <1>8 DEF Progress
  <2>3. g[n].used = n
    BY <1>0, <2>1, <2>2
  <2> QED BY <2>1, <2>3
<1>14. f[n + 1].read = "all" /\ f[n + 1].out = f[n].out
  <2>1. f[n + 1] = StringTurn(s, f[n])
    <3>1. f[n + 1] = StringTurn(s, f[(n + 1) - 1])
      BY <1>5, <1>6, Zenon
    <3> QED BY <1>5, <3>1, Zenon
  <2>2. g[n] \in Progress(n)
    BY <1>5, <1>8, Zenon
  <2> QED BY <1>10, <1>13, <2>1, <2>2, Zenon
<1>15. j_string(s) = f[n + 1]
  <2>1. f[n + 1].read # "more"
    BY <1>14
  <2> QED BY <1>5, <1>7, <2>1, Zenon
<1>16. IsUtf8(f[n + 1].out, CodePoints(u))
  <2>1. Utf8(f[n + 1].out, CodePoints(u))
    BY <1>8, <1>13, <1>14, Zenon
  <2> QED BY <2>1, Utf8WithIs, Zenon DEF Utf8
<1> QED BY <1>14, <1>15, <1>16, Zenon DEF s, UnitTexts

(***************************************************************************)
(* The texts, strings and names of the model                               *)
(***************************************************************************)
JsonIInv == tokens \in Seq(Tokens) /\ units \in Seq(CodeUnits) /\ name \in Seq(StringBytes)

LEMMA JsonIInvInit == JsonInit => JsonIInv
<1> SUFFICES ASSUME JsonInit PROVE JsonIInv
  OBVIOUS
<1>1. Seeds \subseteq Seq(Tokens)
  BY JsonAssumption, Zenon
<1>2. \A S : <<>> \in Seq(S)
  OBVIOUS
<1>3. tokens \in Seq(Tokens)
  BY <1>1, <1>2, Zenon DEF JsonInit
<1>4. units = <<>> /\ name = <<>>
  BY Zenon DEF JsonInit
<1> QED BY <1>2, <1>3, <1>4, Zenon DEF JsonIInv

LEMMA JsonIInvStep == JsonIInv /\ [JsonNext]_jsonVars => JsonIInv'
<1> SUFFICES ASSUME JsonIInv, [JsonNext]_jsonVars PROVE JsonIInv'
  OBVIOUS
<1>1. tokens \in Seq(Tokens) /\ units \in Seq(CodeUnits) /\ name \in Seq(StringBytes)
  BY Zenon DEF JsonIInv
<1>2. ASSUME NEW t \in Tokens, Grow(t) PROVE JsonIInv'
  <2>1. tokens' = Append(tokens, t) /\ units' = units /\ name' = name
    BY <1>2, Zenon DEF Grow
  <2>2. tokens' \in Seq(Tokens)
    BY <1>1, <2>1, AppendProperties, Zenon
  <2> QED BY <1>1, <2>1, <2>2, Zenon DEF JsonIInv
<1>3. ASSUME NEW i \in DOMAIN tokens, NEW t \in Tokens, Edit(i, t) PROVE JsonIInv'
  <2>1. tokens' = [tokens EXCEPT ![i] = t] /\ units' = units /\ name' = name
    BY <1>3, Zenon DEF Edit
  <2>2. tokens' \in Seq(Tokens)
    BY <1>1, <2>1
  <2> QED BY <1>1, <2>1, <2>2, Zenon DEF JsonIInv
<1>4. ASSUME NEW u \in Units, AddUnit(u) PROVE JsonIInv'
  <2>1. units' = Append(units, u) /\ tokens' = tokens /\ name' = name
    BY <1>4, Zenon DEF AddUnit
  <2>2. units' \in Seq(CodeUnits)
    BY <1>1, <2>1, JsonAssumption, AppendProperties, Zenon
  <2> QED BY <1>1, <2>1, <2>2, Zenon DEF JsonIInv
<1>5. ASSUME NEW c \in Bytes, AddByte(c) PROVE JsonIInv'
  <2>1. name' = Append(name, c) /\ tokens' = tokens /\ units' = units
    BY <1>5, Zenon DEF AddByte
  <2>2. name' \in Seq(StringBytes)
    BY <1>1, <2>1, JsonAssumption, AppendProperties, Zenon
  <2> QED BY <1>1, <2>1, <2>2, Zenon DEF JsonIInv
<1>6. CASE UNCHANGED jsonVars
  BY <1>1, <1>6, Zenon DEF jsonVars, JsonIInv
<1> QED BY <1>2, <1>3, <1>4, <1>5, <1>6, Zenon DEF JsonNext

\* The JSON of the menu is read as it is meant, whatever the texts (JsonExact):
\* j_parse accepts a text of any length exactly when the grammar derives it, a
\* string of any code units comes out of j_string as the UTF-8 of its code points,
\* and a name is read back from the event emit_json_string writes of it.
THEOREM JsonExactAlways == JsonSpec => []JsonExact
<1>1. JsonIInv => JsonExact
  <2> SUFFICES ASSUME JsonIInv PROVE JsonExact
    OBVIOUS
  <2>1. tokens \in Seq(Tokens) /\ units \in Seq(CodeUnits) /\ name \in Seq(StringBytes)
    BY Zenon DEF JsonIInv
  <2>2. DocumentsExact
    BY <2>1, ParseExact, Zenon DEF DocumentsExact
  <2>3. StringsExact
    BY <2>1, UnitsRead, NameRead, Zenon DEF StringsExact
  <2> QED BY <2>2, <2>3, Zenon DEF JsonExact
<1> QED BY <1>1, JsonIInvInit, JsonIInvStep, PTL DEF JsonSpec
=============================================================================
