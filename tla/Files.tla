---------------------------------- MODULE Files ----------------------------------
(***************************************************************************)
(* The two file browsers: the file manager window (apps/filemanager.c) and *)
(* the explorer surface (surfaces/explorer.c), over a tree that other      *)
(* programs change meanwhile.                                              *)
(*                                                                         *)
(* A path is the sequence of its names. Both browsers show a copy of the   *)
(* directory made when it was last read; a selection is an index into that *)
(* copy. Scrolling and hovering are left out; a click is any row listed.   *)
(***************************************************************************)
EXTENDS Integers, Sequences, SequencesExt, FiniteSets

CONSTANTS FileNames,    \* a sequence: the order readdir lists them in
          MaxTreeDepth, \* bound on the depth of the tree
          FM_MAX_HIST,
          SidebarPaths, \* the places of the file manager's side bar
          COLS,         \* cards in a row of the explorer
          MaxChanges    \* bound on changes by other programs

VARIABLES
  vfs,     \* path -> "none", "file" or "dir"
  fm,      \* g_fm
  ex,      \* g_ex
  gone,    \* the last path the file manager deleted, and the one its banner named
  changes  \* changes by other programs so far

filevars == <<vfs, fm, ex, gone, changes>>

NEWFOLDER == "NewFolder"
DOTDOT == ".."
AllPaths == UNION {[1 .. n -> ToSet(FileNames)] : n \in 0 .. MaxTreeDepth}
Row(name, dir) == [name |-> name, dir |-> dir]

Exists(t, p) == p \in AllPaths /\ t[p] # "none"
IsDir(t, p) == p \in AllPaths /\ t[p] = "dir"

\* What a directory lists; nothing if it is no directory any more.
ListingOf(t, p) ==
  LET present == SelectSeq(FileNames, LAMBDA n : Exists(t, Append(p, n)))
  IN  IF IsDir(t, p) THEN [i \in DOMAIN present |-> Row(present[i], t[Append(p, present[i])] = "dir")]
      ELSE <<>>

\* vfs_unlink takes a directory with all that is in it.
Unlink(t, p) == [q \in AllPaths |-> IF p # <<>> /\ IsPrefix(p, q) THEN "none" ELSE t[q]]

\* vfs_mkdir of a name that is there succeeds and changes nothing.
Mkdir(t, p) == IF p \in AllPaths /\ IsDir(t, Front(p)) /\ t[p] = "none" THEN [t EXCEPT ![p] = "dir"] ELSE t

Parent(p) == IF p = <<>> THEN p ELSE Front(p)

(***************************************************************************)
(* The file manager                                                        *)
(***************************************************************************)
\* A path that resolves to a file lists its parent too.
Items(t, p) == IF Exists(t, p) /\ p # <<>> THEN <<Row(DOTDOT, TRUE)>> \o ListingOf(t, p) ELSE ListingOf(t, p)

Visited(f, t, p) == [f EXCEPT !.cwd = p, !.items = Items(t, p), !.selected = 1, !.delete_confirm = FALSE]

\* The directory left goes to the history, while that has room.
fm_load_dir(f, t, p) ==
  [Visited(f, t, p) EXCEPT !.history = IF Len(@) < FM_MAX_HIST /\ f.cwd # p THEN Append(@, f.cwd) ELSE @]

fm_go_up(f, t) == fm_load_dir(f, t, Parent(f.cwd))

\* A directory that is gone leaves the path as it was, with nothing listed.
fm_go_back(f, t) ==
  IF f.history = <<>> THEN f
  ELSE [Visited(f, t, Last(f.history)) EXCEPT !.history = Front(@),
                                              !.cwd = IF Exists(t, Last(f.history)) THEN @ ELSE f.cwd]

HasRow(f) == f.selected \in DOMAIN f.items

fm_open_selected(f, t) ==
  CASE ~HasRow(f) \/ ~f.items[f.selected].dir -> f
    [] OTHER -> IF f.items[f.selected].name = DOTDOT THEN fm_go_up(f, t)
                ELSE fm_load_dir(f, t, Append(f.cwd, f.items[f.selected].name))

FmBecomes(f) == fm' = f /\ UNCHANGED <<vfs, ex, gone, changes>>

\* The press of a mouse button cancels a deletion in any case.
fm_mouse(target) ==
  LET f == [fm EXCEPT !.delete_confirm = FALSE]
  IN  FmBecomes(CASE target = "back" -> fm_go_back(f, vfs)
                  [] target = "up" -> fm_go_up(f, vfs)
                  [] target = "refresh" -> fm_load_dir(f, vfs, f.cwd)
                  [] OTHER -> f)

fm_sidebar(p) == FmBecomes(fm_load_dir([fm EXCEPT !.delete_confirm = FALSE], vfs, p))

\* A second click on the row clicked last is a double click, if it comes in time.
fm_row(i, in_time) ==
  /\ i \in DOMAIN fm.items
  /\ LET f == [fm EXCEPT !.delete_confirm = FALSE, !.last_clicked = i, !.selected = i]
     IN  FmBecomes(IF i = fm.last_clicked /\ in_time /\ f.items[i].dir THEN fm_open_selected(f, vfs) ELSE f)


fm_arrow(d) ==
  FmBecomes([fm EXCEPT !.selected = IF @ + d \in DOMAIN fm.items THEN @ + d ELSE @, !.delete_confirm = FALSE])

fm_key(k) ==
  FmBecomes(CASE k = "enter" -> fm_open_selected(fm, vfs)
              [] k = "backspace" -> fm_go_up(fm, vfs)
              [] k = "escape" -> [fm EXCEPT !.delete_confirm = FALSE])

\* The first Delete asks, naming the selected entry; the second deletes.
fm_delete_ask ==
  /\ ~fm.delete_confirm
  /\ FmBecomes([fm EXCEPT !.delete_confirm = TRUE, !.delete_idx = fm.selected])

fm_delete_selected ==
  /\ fm.delete_confirm
  /\ IF ~HasRow(fm) \/ fm.items[fm.selected].name = DOTDOT
     THEN FmBecomes([fm EXCEPT !.delete_confirm = FALSE])
     ELSE LET p == Append(fm.cwd, fm.items[fm.selected].name)
          IN  /\ vfs' = Unlink(vfs, p)
              /\ fm' = fm_load_dir(fm, vfs', fm.cwd)
              /\ gone' = [path |-> p, named |-> IF fm.delete_idx \in DOMAIN fm.items
                                                THEN Append(fm.cwd, fm.items[fm.delete_idx].name) ELSE <<>>]
              /\ UNCHANGED <<ex, changes>>

(***************************************************************************)
(* The explorer                                                            *)
(***************************************************************************)
NOSEL == 0
ex_list_dir(e, t) == [e EXCEPT !.items = ListingOf(t, e.cwd), !.selected = NOSEL]
ExBecomes(e) == ex' = e /\ UNCHANGED <<vfs, fm, gone, changes>>

ex_enter(e) ==
  IF e.selected # NOSEL /\ e.items[e.selected].dir
  THEN ex_list_dir([e EXCEPT !.cwd = Append(@, e.items[e.selected].name)], vfs) ELSE e

ex_card(i) == i \in DOMAIN ex.items /\ ExBecomes(ex_enter([ex EXCEPT !.selected = i]))

ex_parent == ExBecomes(ex_list_dir([ex EXCEPT !.cwd = Parent(@)], vfs))

\* Without a selection left and up do nothing, and right goes to the first card.
ex_key(k) ==
  ExBecomes(CASE k = "right" -> [ex EXCEPT !.selected = IF @ < Len(ex.items) THEN @ + 1 ELSE @]
              [] k = "left"  -> [ex EXCEPT !.selected = IF @ > 1 THEN @ - 1 ELSE @]
              [] k = "down"  -> [ex EXCEPT !.selected = IF @ + COLS <= Len(ex.items) THEN @ + COLS ELSE @]
              [] k = "up"    -> [ex EXCEPT !.selected = IF @ - COLS >= 1 THEN @ - COLS ELSE @]
              [] k = "enter" -> ex_enter(ex))

\* Reading the directory again already drops the selection.
ex_delete_selected ==
  /\ ex.selected # NOSEL
  /\ vfs' = Unlink(vfs, Append(ex.cwd, ex.items[ex.selected].name))
  /\ ex' = ex_list_dir(ex, vfs')
  /\ UNCHANGED <<fm, gone, changes>>

\* The first name tried always succeeds.
ex_new_folder ==
  /\ IsDir(vfs, ex.cwd) /\ Len(ex.cwd) < MaxTreeDepth
  /\ vfs' = Mkdir(vfs, Append(ex.cwd, NEWFOLDER))
  /\ ex' = ex_list_dir(ex, vfs')
  /\ UNCHANGED <<fm, gone, changes>>

(***************************************************************************)
(* Other programs, and the specification                                   *)
(***************************************************************************)
Other(p) ==
  /\ changes < MaxChanges /\ p # <<>> /\ IsDir(vfs, Front(p))
  /\ \/ vfs[p] # "none" /\ vfs' = Unlink(vfs, p)
     \/ vfs[p] = "none" /\ \E kind \in {"file", "dir"} : vfs' = [vfs EXCEPT ![p] = kind]
  /\ changes' = changes + 1
  /\ UNCHANGED <<fm, ex, gone>>

FilesInit ==
  /\ vfs = [p \in AllPaths |-> IF p \in SidebarPaths \/ p = <<>> THEN "dir" ELSE "none"]
  /\ fm = [cwd |-> <<>>, items |-> Items(vfs, <<>>), selected |-> 1, history |-> <<>>,
           last_clicked |-> 0, delete_confirm |-> FALSE, delete_idx |-> 1]
  /\ ex = [cwd |-> <<>>, items |-> ListingOf(vfs, <<>>), selected |-> NOSEL]
  /\ gone = [path |-> <<>>, named |-> <<>>] /\ changes = 0

FmNext ==
  \/ \E target \in {"back", "up", "refresh", "blank"} : fm_mouse(target)
  \/ \E p \in SidebarPaths : fm_sidebar(p)
  \/ \E i \in 1 .. Len(FileNames) + 1, in_time \in BOOLEAN : fm_row(i, in_time)
  \/ \E d \in {-1, 1} : fm_arrow(d)
  \/ \E k \in {"enter", "backspace", "escape"} : fm_key(k)
  \/ fm_delete_ask \/ fm_delete_selected

ExNext ==
  \/ \E i \in 1 .. Len(FileNames) : ex_card(i)
  \/ \E k \in {"right", "left", "down", "up", "enter"} : ex_key(k)
  \/ ex_parent \/ ex_delete_selected \/ ex_new_folder

OtherNext == \E p \in AllPaths : Other(p)

FilesNext == FmNext \/ ExNext \/ OtherNext

FilesSpec == FilesInit /\ [][FilesNext]_filevars

================================================================================
