---------------------------------- MODULE Dock ----------------------------------
(***************************************************************************)
(* The launcher service (services/launcher.c): the taskbar and application *)
(* grid of the builds that run it in a kernel thread instead of the        *)
(* classic desktop, over the same window manager and applications. Its     *)
(* clicks and frames interleave with the window manager's event loop.      *)
(***************************************************************************)
EXTENDS Windows

CONSTANT LAUNCHER_MAX_WINS

VARIABLE dock   \* g_launcher: wins (0 where not active), win_count, grid_open, running

DockSlots == 1 .. LAUNCHER_MAX_WINS

\* The first entry that is not active; a full table forgets the window.
launcher_track_window(d, wid) ==
  IF \A i \in DockSlots : d.wins[i] # 0 THEN d
  ELSE LET i == CHOOSE i \in DockSlots : d.wins[i] = 0 /\ \A j \in DockSlots : d.wins[j] = 0 => i <= j
       IN  [d EXCEPT !.wins[i] = wid, !.win_count = @ + 1]

\* Every other tick.
_untrack_closed_windows ==
  LET gone == {i \in DockSlots : dock.wins[i] # 0 /\ wm_find_slot(W, dock.wins[i]) = {}}
  IN  /\ dock' = [dock EXCEPT !.wins = [i \in DockSlots |-> IF i \in gone THEN 0 ELSE @[i]],
                              !.win_count = @ - Cardinality(gone)]
      /\ UNCHANGED winvars

\* launch_*: app_*_create makes the window, or returns (and by some raises) the one
\* it has; either is tracked. With no slot or no memory nothing is.
Launch(a, d) ==
  /\ \/ /\ app[a] = 0 /\ wmst.next <= MaxWid
        /\ \E s \in wm_alloc_slot(W) : Becomes(wm_create_window(W, s))
        /\ app' = [app EXCEPT ![a] = wmst.next]
        /\ dock' = launcher_track_window(d, wmst.next)
     \/ /\ app[a] = 0
        /\ dock' = d /\ UNCHANGED <<win, z, wmst, app>>
     \/ /\ app[a] # 0
        /\ Becomes(IF a \in Raises THEN wm_raise(W, app[a]) ELSE W)
        /\ dock' = launcher_track_window(d, app[a]) /\ UNCHANGED app
  /\ UNCHANGED <<bar, ws, held>>

\* The thread opens a terminal first.
launcher_run == ~dock.running /\ Launch("terminal", [dock EXCEPT !.running = TRUE])

\* A click on a tile closes the grid.
dock_tile(a) == dock.grid_open /\ Launch(a, [dock EXCEPT !.grid_open = FALSE])

\* The start button opens the grid; a click beside the tiles closes it.
dock_grid ==
  /\ dock.running
  /\ dock' = [dock EXCEPT !.grid_open = ~@]
  /\ UNCHANGED winvars

\* A window button. The entry of a window that is gone is dropped, but not counted.
dock_click(i) ==
  /\ ~dock.grid_open /\ dock.wins[i] # 0
  /\ LET wid   == dock.wins[i]
         front == wm_raise(wm_focus(W, wid), wid)
     IN  \/ /\ wm_find_slot(W, wid) = {}
            /\ dock' = [dock EXCEPT !.wins[i] = 0]
            /\ UNCHANGED <<win, z, wmst>>
         \/ /\ \E s \in wm_find_slot(W, wid) :
                 Becomes(CASE win[s].minimized -> [front EXCEPT !.win[s].minimized = FALSE, !.win[s].visible = TRUE]
                           [] ~win[s].minimized /\ wid = wmst.focus ->
                                [W EXCEPT !.win[s].minimized = TRUE, !.win[s].visible = FALSE]
                           [] OTHER -> front)
            /\ UNCHANGED dock
  /\ UNCHANGED <<app, bar, ws, held>>

DockInit == WinInit /\ dock = [wins |-> [i \in DockSlots |-> 0], win_count |-> 0, grid_open |-> FALSE, running |-> FALSE]

DockNext ==
  \/ launcher_run
  \/ \E a \in WinApps : dock_tile(a)
  \/ \E i \in DockSlots : dock_click(i)
  \/ dock_grid \/ _untrack_closed_windows
  \/ /\ \/ \E s \in WinSlots : \/ app["terminal"] = win[s].id /\ terminal_exit(s)
                               \/ \E part \in {"close", "title", "client"} : mouse_down(s, part)
        \/ mouse_up
     /\ UNCHANGED dock
================================================================================
