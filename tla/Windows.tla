--------------------------------- MODULE Windows ---------------------------------
(***************************************************************************)
(* The window manager (gui/window_manager.c) under the classic desktop     *)
(* loop (gui/desktop.c) with its taskbar and workspaces                    *)
(* (gui/workspace.c), and the applications that keep one window each       *)
(* (apps/terminal.c, filemanager.c, texteditor.c, settings.c,              *)
(* sysmonitor.c, stress_test.c).                                           *)
(*                                                                         *)
(* One process runs the loop; an action is one event dispatched or one     *)
(* click handled. The gui_launch_* entry points are called at any time.    *)
(* Geometry is left out: which window lies under the pointer, and on which *)
(* part of it, is any choice the flags allow.                              *)
(***************************************************************************)
EXTENDS Integers, Sequences, SequencesExt, FiniteSets

CONSTANTS WM_MAX_WINDOWS,  \* slots of windows[]
          TASKBAR_MAX,     \* entries of the taskbar
          WS_COUNT,        \* workspaces
          WS_MAX_WINDOWS,  \* windows a workspace lists
          WinApps,         \* applications with one window
          Raises,          \* those that raise their window when opened again
          MaxWid           \* bound on the windows ever made

VARIABLES
  win,   \* windows[]: used, id, visible, minimized, drag, resize
  z,     \* z_order: slots, back to front
  wmst,  \* focus: wm_focused_wid, next: next_wid
  app,   \* each application's window, 0 if it has none
  bar,   \* the taskbar's window ids, in order
  ws,    \* lists: the windows of each workspace, cur: g_current
  held   \* the left button is down (the model's own)

winvars == <<win, z, wmst, app, bar, ws, held>>

WinSlots == 0 .. WM_MAX_WINDOWS - 1
Workspaces == 0 .. WS_COUNT - 1
NoWid == -1
NoWindow == [used |-> FALSE, id |-> 0, visible |-> FALSE, minimized |-> FALSE, drag |-> FALSE, resize |-> FALSE]

\* One value for the parts of the window manager, for its routines to compose.
W == [win |-> win, z |-> z, focus |-> wmst.focus, next |-> wmst.next]
Becomes(w) == win' = w.win /\ z' = w.z /\ wmst' = [focus |-> w.focus, next |-> w.next]

(***************************************************************************)
(* The window manager                                                      *)
(***************************************************************************)
wm_find_slot(w, wid) == {s \in WinSlots : w.win[s].used /\ w.win[s].id = wid}
wm_alloc_slot(w) == {s \in WinSlots : ~w.win[s].used /\ \A t \in WinSlots : ~w.win[t].used => s <= t}

z_remove(w, s) == [w EXCEPT !.z = Remove(@, s)]
z_push_front(w, s) ==
  LET v == z_remove(w, s)
  IN  IF Len(v.z) < WM_MAX_WINDOWS THEN [v EXCEPT !.z = Append(@, s)] ELSE v

wm_focus(w, wid) == [w EXCEPT !.focus = wid]
wm_raise(w, wid) == FoldSet(LAMBDA s, v : z_push_front(v, s), w, wm_find_slot(w, wid))

\* A new window in a slot is shown, focused and not dragged; the resize of the
\* window that had the slot before is not reset.
wm_create_window(w, s) ==
  LET v == [w EXCEPT !.win[s] = [@ EXCEPT !.used = TRUE, !.id = w.next, !.visible = TRUE,
                                          !.minimized = FALSE, !.drag = FALSE],
                     !.next = @ + 1]
  IN  wm_focus(z_push_front(v, s), w.next)

\* The focus passes to the window now in front.
wm_destroy_window_keep(w, s) ==
  LET v == [z_remove(w, s) EXCEPT !.win[s].used = FALSE] IN v

wm_destroy_window(w, s) ==
  LET v == [z_remove(w, s) EXCEPT !.win[s].used = FALSE]
  IN  IF w.focus # w.win[s].id THEN v
      ELSE wm_focus(v, IF v.z # <<>> THEN v.win[Last(v.z)].id ELSE NoWid)

(***************************************************************************)
(* Opening and closing applications                                        *)
(***************************************************************************)
taskbar_add(b, wid) == IF Len(b) >= TASKBAR_MAX THEN b ELSE Append(b, wid)

\* To the current workspace, unless the window is listed already or the list is full.
workspace_add_window(v, wid) ==
  IF \/ \E k \in Workspaces : wid \in v.lists[k]
     \/ Cardinality(v.lists[v.cur]) >= WS_MAX_WINDOWS
  THEN v ELSE [v EXCEPT !.lists[v.cur] = @ \cup {wid}]

\* gui_launch_*: an application that has a window returns it (raised, by some) and
\* is listed on the taskbar once more; with no slot or no memory nothing happens.
Launched(wid) ==
  /\ bar' = taskbar_add(bar, wid)
  /\ ws' = workspace_add_window(ws, wid)
  /\ UNCHANGED held

launch_again(a) ==
  /\ app[a] # 0
  /\ Becomes(IF a \in Raises THEN wm_raise(W, app[a]) ELSE W)
  /\ Launched(app[a]) /\ UNCHANGED app

launch(a) ==
  /\ app[a] = 0 /\ wmst.next <= MaxWid
  /\ \E s \in wm_alloc_slot(W) : Becomes(wm_create_window(W, s))
  /\ app' = [app EXCEPT ![a] = wmst.next]
  /\ Launched(wmst.next)

\* wm_close: the application hears of it, frees its state and forgets the window.
WinClosed(w, s) ==
  /\ Becomes(wm_destroy_window(w, s))
  /\ app' = [a \in WinApps |-> IF app[a] = w.win[s].id THEN 0 ELSE app[a]]

\* The terminal's "exit", typed while it has the focus.
terminal_exit(s) ==
  /\ win[s].used /\ win[s].id = wmst.focus
  /\ WinClosed(W, s)
  /\ UNCHANGED <<bar, ws, held>>

(***************************************************************************)
(* Mouse events: wm_dispatch_events                                        *)
(***************************************************************************)
\* The front-most visible window under the pointer takes the press: it is focused
\* and raised, and then closed, resized, dragged or given the event.
mouse_down(s, part) ==
  /\ ~held /\ win[s].used /\ win[s].visible
  /\ LET w == wm_raise(wm_focus(W, win[s].id), win[s].id)
     IN  CASE part = "close"  -> WinClosed(w, s)
           [] part = "edge"   -> Becomes([w EXCEPT !.win[s].resize = TRUE]) /\ UNCHANGED app
           [] part = "title"  -> Becomes([w EXCEPT !.win[s].drag = TRUE]) /\ UNCHANGED app
           [] part = "client" -> Becomes(w) /\ UNCHANGED app
  /\ held' = TRUE
  /\ UNCHANGED <<bar, ws>>

\* Every window in use stops being dragged and resized.
mouse_up ==
  /\ held /\ held' = FALSE
  /\ win' = [s \in WinSlots |-> IF win[s].used
                                THEN [win[s] EXCEPT !.drag = FALSE, !.resize = FALSE] ELSE win[s]]
  /\ UNCHANGED <<z, wmst, app, bar, ws>>

(***************************************************************************)
(* The desktop's own clicks                                                *)
(***************************************************************************)
\* A taskbar button: a minimized window comes back, the focused one is minimized,
\* another is focused.
taskbar_click(i) ==
  /\ i <= Len(bar)
  /\ \E s \in wm_find_slot(W, bar[i]) :
       LET front == wm_raise(wm_focus(W, bar[i]), bar[i])
       IN  Becomes(CASE win[s].minimized -> [front EXCEPT !.win[s].minimized = FALSE, !.win[s].visible = TRUE]
                     [] ~win[s].minimized /\ bar[i] = wmst.focus ->
                          [W EXCEPT !.win[s].minimized = TRUE, !.win[s].visible = FALSE]
                     [] OTHER -> front)
  /\ UNCHANGED <<app, bar, ws, held>>

\* The windows listed by the old workspace are hidden, those of the new one shown
\* unless the user minimized them.
workspace_switch(n) ==
  /\ n # ws.cur
  /\ LET Shown(s) == IF win[s].id \in ws.lists[n] THEN ~win[s].minimized \/ win[s].visible
                     ELSE IF win[s].id \in ws.lists[ws.cur] THEN FALSE ELSE win[s].visible
     IN  win' = [s \in WinSlots |-> IF win[s].used THEN [win[s] EXCEPT !.visible = Shown(s)] ELSE win[s]]
  /\ ws' = [ws EXCEPT !.cur = n]
  /\ UNCHANGED <<z, wmst, app, bar, held>>

taskbar_remove_closed ==
  /\ bar' = SelectSeq(bar, LAMBDA wid : wm_find_slot(W, wid) # {})
  /\ UNCHANGED <<win, z, wmst, app, ws, held>>

(***************************************************************************)
(* Specification                                                           *)
(***************************************************************************)
wm_init ==
  /\ win = [s \in WinSlots |-> NoWindow]
  /\ z = <<>> /\ wmst = [focus |-> NoWid, next |-> 1]

WinInit ==
  /\ wm_init
  /\ app = [a \in WinApps |-> 0] /\ bar = <<>> /\ held = FALSE
  /\ ws = [lists |-> [k \in Workspaces |-> {}], cur |-> 0]

WinNext ==
  \/ \E a \in WinApps : launch(a) \/ launch_again(a)
  \/ \E s \in WinSlots : \/ app["terminal"] = win[s].id /\ terminal_exit(s)
                         \/ \E part \in {"close", "edge", "title", "client"} : mouse_down(s, part)
  \/ mouse_up \/ taskbar_remove_closed
  \/ \E i \in 1 .. TASKBAR_MAX : taskbar_click(i)
  \/ \E n \in Workspaces : workspace_switch(n)

WinSpec == WinInit /\ [][WinNext]_winvars

(***************************************************************************)
(* Properties                                                              *)
(***************************************************************************)
\* The stacking order lists exactly the windows in use, once each; ids are not
\* shared; the focus is on a window in use whenever there is one; and an
\* application has a window in use exactly while it thinks it has one, whichever
\* way the window was closed (window_manager.c:61-78, 184-197, 280-288).
StackExact ==
  LET used == {s \in WinSlots : win[s].used}
      ids  == {win[s].id : s \in used}
  IN  /\ IsInjective(z) /\ ToSet(z) = used
      /\ Cardinality(ids) = Cardinality(used)
      /\ IF used = {} THEN wmst.focus = NoWid ELSE wmst.focus \in ids
      /\ ids = {app[a] : a \in WinApps} \ {0}
================================================================================
