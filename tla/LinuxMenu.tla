------------------------------ MODULE LinuxMenu ------------------------------
(***************************************************************************)
(* The GTK/AppIndicator helper, native/system_menu_helper_linux.c: one     *)
(* thread that handles the commands on its standard input, the user's      *)
(* activations of menu widgets, and nothing else.  One callback is a step. *)
(*                                                                         *)
(* What can go wrong is memory and files: item->menu_item points to a      *)
(* widget GTK may have destroyed with the one above it, and every icon a   *)
(* root publishes is a file in a temporary directory that the desktop      *)
(* shell reads later, that must be deleted in the end, and not too soon.   *)
(*                                                                         *)
(* Abstracted: texts and pixels; a command is its operation and its name   *)
(* (MenuJson has the parsing).  External, and taken to work: GTK destroys  *)
(* a widget's submenu with it and an indicator's menu with the indicator.  *)
(***************************************************************************)
EXTENDS MenuTree, SequencesExt

CONSTANTS
  Grace,     \* 60 s: how long an icon file outlives its being replaced
  MaxTime,   \* bound on the clock
  MaxIcons   \* bound on g_icon_sequence

ASSUME IconAssumption == Grace \in Nat

VARIABLES
  installed, reported, running,  \* the menu, clicked and up of MenuContract
  marked,     \* items with item->removed
  widget,     \* item->menu_item: "null", "live", or "dead" when GTK destroyed it
  status,     \* the AppIndicator of a root: "none", "active", "passive"
  assets,     \* item->icon_files and icon_file_times
  disk,       \* icon files in the roots' temporary directories
  sequence,   \* g_icon_sequence
  now,        \* time(NULL)
  published,  \* history: icons set since the menu was installed
  blank       \* history: roots whose last icon could not be rendered

iconVars == <<assets, disk, sequence, published, blank>>
linuxVars == <<installed, reported, running, marked, widget, status, iconVars, now>>

-----------------------------------------------------------------------------
\* Mutant: as on Windows, only the item itself is marked.
MarkRemoved_ItemOnly(n) == {n}
MarkRemoved(n) == Subtree(installed, n)

\* find_item: the names of a menu are distinct, so its first match is the item.
Found(n) == n \in Items(installed)
IsRoot(n) == n \in Roots(installed)

-----------------------------------------------------------------------------
(* Icons *)

\* Mutant: an asset goes when its grace period is not quite over.
Expired_TooSoon(asset) == now - asset.time >= Grace
Expired(asset) == now - asset.time > Grace

\* The loop over icon_files, by what a turn of it does to the files and the
\* index: the last entry takes the place of an expired one and is looked at next.
Turn(x) ==
  IF Expired(x.files[x.i])
  THEN [x EXCEPT !.files = Front([@ EXCEPT ![x.i] = Last(x.files)])]
  ELSE [x EXCEPT !.i = @ + 1]
Turns(s) ==
  LET after[n \in 0 .. Len(s)] ==
        IF n = 0 THEN [files |-> s, i |-> 1] ELSE Turn(after[n - 1])
  IN after
Prune(s) == Turns(s)[Len(s)].files

Files(s) == {s[i].file : i \in DOMAIN s}

\* update_status_icon for the roots rs at once, numbering from `from`: prune,
\* then save the new file and set the icon.  Roots whose text could not be
\* rendered (rs \ ok) keep the icon they have.
Updated(old, rs, ok, number) ==
  [r \in DOMAIN old |->
     IF r \notin rs THEN old[r]
     ELSE Prune(old[r]) \o
          (IF r \in ok THEN <<[file |-> number[r], time |-> now]>> ELSE <<>>)]

-----------------------------------------------------------------------------
(* Commands *)

NoAssets == [n \in Names |-> <<>>]

\* clear_roots, item_free: the tracked files are unlinked and the directory
\* removed; the widgets go with the indicators.
ClearedDisk == disk \ UNION {Files(assets[n]) : n \in Names}

\* build_menu, build_root_menu: every item below a root has a widget; a root
\* has one of its own only when it has no children.
BuiltWidget(m, n) ==
  IF n \in Items(m) /\ (n \in Roots(m) => m.kids[n] = {})
  THEN "live" ELSE "null"

\* Each root takes a number for its indicator's id, and one for its icon if
\* that could be rendered.
Number(m, ok) ==
  [r \in ok |-> sequence + Position(m, r)
                 + Cardinality({q \in ok : Position(m, q) <= Position(m, r)})]

Publishes(number) == {[root |-> r, file |-> number[r], time |-> now] : r \in DOMAIN number}

\* install_roots
install_roots(m) ==
  LET rs == Roots(m)
  IN /\ running
     /\ sequence + 2 * Len(m.roots) <= MaxIcons
     /\ \E ok \in SUBSET rs :
          LET number == Number(m, ok)
          IN /\ assets' = Updated(NoAssets, rs, ok, number)
             /\ disk' = ClearedDisk \cup {number[r] : r \in ok}
             /\ published' = Publishes(number)
             /\ blank' = rs \ ok
             /\ sequence' = sequence + Len(m.roots) + Cardinality(ok)
     /\ installed' = m
     /\ marked' = {}
     /\ widget' = [n \in Names |-> BuiltWidget(m, n)]
     /\ status' = [n \in Names |-> IF n \in rs THEN "active" ELSE "none"]
     /\ UNCHANGED <<reported, running, now>>

\* set_item_icon of a root: update_status_icon.  Of any other item it sets the
\* label of item->menu_item (see LinuxWidgetsValid), which changes nothing here.
IconRoot(n) ==
  /\ running /\ Found(n) /\ n \notin marked /\ IsRoot(n)
  /\ sequence < MaxIcons
  /\ \E ok \in SUBSET {n} :
       LET kept == Updated(assets, {n}, {}, <<>>)[n]
           file == sequence + 1
       IN /\ assets' = Updated(assets, {n}, ok, [r \in {n} |-> file])
          /\ disk' = (disk \ (Files(assets[n]) \ Files(kept)))
                       \cup (IF ok = {} THEN {} ELSE {file})
          /\ sequence' = IF ok = {} THEN sequence ELSE file
          /\ published' = IF ok = {} THEN published
                          ELSE published \cup {[root |-> n, file |-> file, time |-> now]}
          /\ blank' = (blank \ {n}) \cup ({n} \ ok)
  /\ UNCHANGED <<installed, reported, running, marked, widget, status, now>>

\* No directory or no file for an icon: exit(2) at that point of a run command
\* or of an icon command, with the files saved before left where they are.  The
\* counter goes with the process.
Exits == /\ installed' = EmptyMenu /\ marked' = {} /\ running' = FALSE
         /\ widget' = [k \in Names |-> "null"]
         /\ status' = [k \in Names |-> "none"]
         /\ blank' = {}

RunFails(m) ==
  /\ running
  /\ sequence + 2 * Len(m.roots) <= MaxIcons
  /\ \E done \in 0..(Len(m.roots) - 1) : \E ok \in SUBSET {m.roots[i] : i \in 1..done} :
       LET number == Number(m, ok)
       IN /\ assets' = Updated(NoAssets, ok, ok, number)
          /\ disk' = ClearedDisk \cup {number[r] : r \in ok}
          /\ published' = Publishes(number)
  /\ Exits
  /\ UNCHANGED <<reported, sequence, now>>

IconFails(n) ==
  /\ running /\ Found(n) /\ n \notin marked /\ IsRoot(n)
  /\ LET kept == Updated(assets, {n}, {}, <<>>)
     IN /\ assets' = kept
        /\ disk' = disk \ (Files(assets[n]) \ Files(kept[n]))
  /\ Exits
  /\ UNCHANGED <<reported, sequence, published, now>>

\* remove_item: an indicator is hidden with its widgets in place; a menu item
\* is destroyed, its submenu with it, and only its own pointer is cleared.
remove_item(n) ==
  /\ running /\ Found(n) /\ n \notin marked
  /\ marked' = marked \cup MarkRemoved(n)
  /\ IF IsRoot(n)
     THEN /\ status' = [status EXCEPT ![n] = "passive"]
          /\ UNCHANGED widget
     ELSE /\ widget' = [k \in Names |->
                          IF k = n THEN "null"
                          ELSE IF k \in Subtree(installed, n) /\ widget[k] = "live"
                               THEN "dead" ELSE widget[k]]
          /\ UNCHANGED status
  /\ UNCHANGED <<installed, reported, running, iconVars, now>>

\* The stop command, the end of the input (which wins over commands still to be
\* read) and the clean-up after gtk_main.
LinuxQuit ==
  /\ running
  /\ Exits
  /\ assets' = NoAssets /\ disk' = ClearedDisk /\ published' = {}
  /\ UNCHANGED <<reported, sequence, now>>

-----------------------------------------------------------------------------
(* The user and the clock *)

\* Mutant: emit_click does not look at the mark (the Windows twin does not).
Emits_Always(n) == TRUE
Emits(n) == n \notin marked

\* on_menu_activate and on_stay_button_press, connected to items without
\* children, then emit_click.  The menu of a hidden indicator may still be open.
Activate(n) ==
  /\ running /\ Found(n) /\ widget[n] = "live"
  /\ installed.kids[n] = {} /\ n \in installed.clickable
  /\ Emits(n)
  /\ Len(reported) < MaxReports
  /\ reported' = Append(reported, n)
  /\ UNCHANGED <<installed, running, marked, widget, status, iconVars, now>>

Tick == /\ running /\ now < MaxTime
        /\ now' = now + 1
        /\ UNCHANGED <<installed, reported, running, marked, widget, status, iconVars>>

-----------------------------------------------------------------------------
LinuxInit ==
  /\ installed = EmptyMenu /\ reported = <<>> /\ running = TRUE
  /\ marked = {}
  /\ widget = [n \in Names |-> "null"]
  /\ status = [n \in Names |-> "none"]
  /\ assets = NoAssets /\ disk = {} /\ sequence = 0
  /\ now = 0 /\ published = {} /\ blank = {}

LinuxNext ==
  \/ \E m \in Menus : install_roots(m) \/ RunFails(m)
  \/ \E n \in Names : IconRoot(n) \/ IconFails(n) \/ remove_item(n) \/ Activate(n)
  \/ LinuxQuit
  \/ Tick

LinuxSpec == LinuxInit /\ [][LinuxNext]_linuxVars

-----------------------------------------------------------------------------
\* set_item_icon sets the label of item->menu_item for any item that is not
\* marked removed: that pointer never leads to a widget GTK has destroyed, which
\* is why remove_item has to mark the whole subtree and not the item alone.
LinuxWidgetsValid ==
  \A n \in Items(installed) \ marked : widget[n] # "dead"

\* The files on disk are those the items know, and none after an orderly end (so
\* that freeing an item empties its directory and rmdir succeeds); an icon the shell
\* was told of is readable for the grace period; and the icon a root shows now
\* is readable however long ago it was set.
LinuxIconsKept ==
  /\ disk = UNION {Files(assets[n]) : n \in Names}
  /\ \A p \in published : now - p.time <= Grace => p.file \in disk
  /\ \A r \in Roots(installed) \ blank :
       \E p \in published : /\ p.root = r
                            /\ \A q \in published : q.root = r => q.file <= p.file
                            /\ p.file \in disk

\* What the helper keeps for each item is there as long as it is used: its
\* widgets, and the files of the icons it has published.
LinuxHandlesValid == LinuxWidgetsValid /\ LinuxIconsKept

LinuxContract == INSTANCE MenuContract WITH
  menu <- installed, clicked <- reported, up <- running, gone <- marked

\* The helper keeps MenuContract: it reports a click only for an item that is
\* clickable and neither removed nor below one that is.
LinuxImplements == LinuxContract!Spec
=============================================================================
