---------------------------- MODULE MenuContract ----------------------------
(***************************************************************************)
(* What a native menu helper promises System::Menu, whatever the desktop:  *)
(* it shows the menu of the last `run`, an item and everything below it is *)
(* gone once its `remove` has been handled, and a click is reported only   *)
(* for an item of that menu that is clickable and not gone.                *)
(* LinuxMenu and WindowsMenu are shown to implement it.                    *)
(***************************************************************************)
EXTENDS MenuTree

VARIABLES
  menu,     \* the menu installed
  gone,     \* its items that have been removed, with all below them
  clicked,  \* the click events written so far
  up        \* whether the helper runs

vars == <<menu, gone, clicked, up>>

Init == menu = EmptyMenu /\ gone = {} /\ clicked = <<>> /\ up = TRUE

Run(m) == /\ up
          /\ menu' = m /\ gone' = {}
          /\ UNCHANGED <<clicked, up>>

Remove(n) == /\ up
             /\ n \in Items(menu)
             /\ gone' = gone \cup Subtree(menu, n)
             /\ UNCHANGED <<menu, clicked, up>>

Click(n) == /\ up
            /\ n \in Items(menu) \ gone
            /\ n \in menu.clickable
            /\ clicked' = Append(clicked, n)
            /\ UNCHANGED <<menu, gone, up>>

Quit == /\ up
        /\ menu' = EmptyMenu /\ gone' = {} /\ up' = FALSE
        /\ UNCHANGED clicked

Next == \/ \E m \in Menus : Run(m)
        \/ \E n \in Names : Remove(n) \/ Click(n)
        \/ Quit

Spec == Init /\ [][Next]_vars
=============================================================================
