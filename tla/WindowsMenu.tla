---------------------------- MODULE WindowsMenu ----------------------------
(***************************************************************************)
(* The Win32 helper, native/system_menu_helper_win.c: a message loop that  *)
(* handles the command lines its reader thread posts, the messages of the  *)
(* tray icons and the input of the popup windows it draws its menus with.  *)
(* A step is one dispatched message; the windows of nested popups are a    *)
(* stack whose entries point into the items of the menu.                   *)
(*                                                                         *)
(* Abstracted: geometry (the mouse is over some row, or over none), texts, *)
(* icons and painting.  The first popup has the mouse capture for as long  *)
(* as it is open.  Left out: the TaskbarCreated message, which is          *)
(* broadcast to top-level windows and never reaches a message-only one.    *)
(***************************************************************************)
EXTENDS MenuTree

CONSTANTS
  Stay,       \* the items with click_stay
  MaxPopups,  \* DD_MAX_POPUPS
  MaxPosted   \* bound on the tray messages in the queue

VARIABLES
  menu, clicked, up,  \* see MenuContract
  removed,  \* items with item->removed
  trays,    \* ids of the icons in the notification area
  posted,   \* WM_DD_TRAY messages not yet dispatched: the ids clicked
  popups    \* g_popups[0 .. g_popup_count - 1]: owner and rows of each

ASSUME PopupAssumption == MaxPopups \in Nat

windowsVars == <<menu, clicked, up, removed, trays, posted, popups>>

-----------------------------------------------------------------------------
(* Items *)

\* item_visible_child_count, and the rows popup_open collects.
VisibleChildren(n) == menu.kids[n] \ removed

\* find_root_by_tray_id.  clear_all resets g_next_tray_id, so the id of a root is
\* its position, in whichever menu is installed.
RootOf(id) ==
  IF id \in DOMAIN menu.roots /\ menu.roots[id] \notin removed
  THEN {menu.roots[id]} ELSE {}

\* emit_click: unlike the Linux twin it does not look at item->removed.
EmitClick(n) == /\ Len(clicked) < MaxReports
                /\ clicked' = Append(clicked, n)

-----------------------------------------------------------------------------
(* Popups *)

\* Mutant: one popup too few is closed.
CloseFrom_OffByOne(ps, depth) ==
  IF Len(ps) > depth THEN SubSeq(ps, 1, depth + 1) ELSE ps
\* popup_close_from(depth): the popups above are destroyed.
CloseFrom(ps, depth) == SubSeq(ps, 1, depth)

\* popup_open, by what it may leave: too deep or nothing to show, no change; no
\* window, the deeper popups closed; else the new popup on top.
PopupOpen(ps, owner, depth) ==
  IF depth >= MaxPopups \/ VisibleChildren(owner) = {} THEN {ps}
  ELSE {CloseFrom(ps, depth),
        Append(CloseFrom(ps, depth),
               [owner |-> owner, rows |-> VisibleChildren(owner)])}

\* popup_open_child: nothing when the child is the one that is open.
OpenChild(d, n) ==
  IF VisibleChildren(n) = {} THEN {CloseFrom(popups, d)}
  ELSE IF d < Len(popups) /\ popups[d + 1].owner = n THEN {popups}
  ELSE PopupOpen(popups, n, d)

\* handle_popup_mouse with the mouse over row n of the popup at d (counting from
\* one): its submenu opens and the others close.
MouseMove(d, n) ==
  /\ up /\ d \in DOMAIN popups /\ n \in popups[d].rows
  /\ popups' \in OpenChild(d, n)
  /\ UNCHANGED <<menu, clicked, up, removed, trays, posted>>

\* The same with a button released: an item without visible children that has a
\* click is reported, and the menu closes unless the item is to stay.
MouseClick(d, n) ==
  /\ up /\ d \in DOMAIN popups /\ n \in popups[d].rows
  /\ n \notin removed /\ VisibleChildren(n) = {} /\ n \in menu.clickable
  /\ popups' = IF n \in Stay THEN CloseFrom(popups, d) ELSE <<>>
  /\ EmitClick(n)
  /\ UNCHANGED <<menu, up, removed, trays, posted>>

\* popup_close_all: a click outside, Escape, or the capture lost to another
\* window.  ReleaseCapture comes back as WM_CAPTURECHANGED while
\* g_closing_popups is set, and is ignored.
Dismiss ==
  /\ up /\ popups # <<>>
  /\ popups' = <<>>
  /\ UNCHANGED <<menu, clicked, up, removed, trays, posted>>

-----------------------------------------------------------------------------
(* Tray icons *)

\* The shell posts a message for a click on an icon it shows.
TrayClicked(id) ==
  /\ up /\ id \in trays /\ Len(posted) < MaxPosted
  /\ posted' = Append(posted, id)
  /\ UNCHANGED <<menu, clicked, up, removed, trays, popups>>

\* HostProc on WM_DD_TRAY: the id is looked up when the message is dispatched.
\* popup_show_root closes what is open and opens the root's children.
TrayMessage ==
  /\ up /\ posted # <<>>
  /\ posted' = Tail(posted)
  /\ IF RootOf(Head(posted)) = {} THEN UNCHANGED <<popups, clicked>>
     ELSE LET root == CHOOSE r \in RootOf(Head(posted)) : TRUE
          IN IF VisibleChildren(root) # {}
             THEN popups' \in PopupOpen(<<>>, root, 0) /\ UNCHANGED clicked
             ELSE /\ UNCHANGED popups
                  /\ IF root \in menu.clickable THEN EmitClick(root)
                                                ELSE UNCHANGED clicked
  /\ UNCHANGED <<menu, up, removed, trays>>

-----------------------------------------------------------------------------
(* Commands *)

\* Mutant: a removal leaves the open popups alone.
PopupsAfterRemove_Open == popups
PopupsAfterRemove == <<>>

\* clear_all, then an icon per root; NIM_ADD may fail unnoticed.
install_run(m) ==
  /\ up
  /\ menu' = m /\ removed' = {} /\ popups' = <<>>
  /\ trays' \in SUBSET DOMAIN m.roots
  /\ UNCHANGED <<clicked, up, posted>>

\* Mutant: the icon of a root stays in the tray.
TraysWithout_Child(n) == trays
TraysWithout(n) == IF n \in Roots(menu) THEN trays \ {Position(menu, n)} ELSE trays

\* command_icon changes nothing that is modelled here.
command_remove(n) ==
  /\ up /\ n \in Items(menu) \ removed
  /\ removed' = removed \cup {n}
  /\ trays' = TraysWithout(n)
  /\ popups' = PopupsAfterRemove
  /\ UNCHANGED <<menu, clicked, up, posted>>

\* The stop command, or WM_CLOSE which the reader posts at the end of the input,
\* behind the commands it read before.
Quit ==
  /\ up
  /\ menu' = EmptyMenu /\ removed' = {} /\ popups' = <<>> /\ trays' = {}
  /\ posted' = <<>> /\ up' = FALSE
  /\ UNCHANGED clicked

-----------------------------------------------------------------------------
WindowsInit ==
  /\ menu = EmptyMenu /\ clicked = <<>> /\ up = TRUE
  /\ removed = {} /\ trays = {} /\ posted = <<>> /\ popups = <<>>

WindowsNext ==
  \/ \E m \in Menus : install_run(m)
  \/ \E n \in Names : command_remove(n)
  \/ Quit
  \/ \E d \in 1..MaxPopups, n \in Names : MouseMove(d, n) \/ MouseClick(d, n)
  \/ Dismiss
  \/ \E id \in trays : TrayClicked(id)
  \/ TrayMessage

WindowsSpec == WindowsInit /\ [][WindowsNext]_windowsVars

-----------------------------------------------------------------------------
\* The popups fit the array g_popups, and what they point to is there: the first
\* one belongs to a root, each next one to a row of the one below it, and owners
\* and rows are items of the installed menu that are not removed.
PopupsValid ==
  /\ Len(popups) <= MaxPopups
  /\ \A d \in DOMAIN popups :
       /\ popups[d].owner \in (IF d = 1 THEN Roots(menu) ELSE popups[d - 1].rows)
       /\ popups[d].owner \notin removed
       /\ popups[d].rows # {}
       /\ popups[d].rows \subseteq menu.kids[popups[d].owner] \ removed

\* Every icon in the notification area belongs to a root that is not removed:
\* the ids are numbered anew with each menu, so an icon left behind would answer
\* for a root of the next one.
TraysResolve == \A id \in trays : RootOf(id) # {}

\* What the window procedures follow without looking: the items behind the open
\* popups and behind the icons in the notification area.
WindowsHandlesValid == PopupsValid /\ TraysResolve

\* Only the item itself is marked; what is below it is gone all the same.
WindowsContract == INSTANCE MenuContract WITH
  gone <- UNION {Subtree(menu, n) : n \in removed}

\* The helper keeps MenuContract although emit_click checks nothing: no popup
\* that shows a removed item, or one below it, survives the removal.
WindowsImplements == WindowsContract!Spec
=============================================================================
