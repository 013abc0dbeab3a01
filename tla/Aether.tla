---------------------------------- MODULE Aether ----------------------------------
(***************************************************************************)
(* The render engine behind the desktop (aether/are.c) with its surface    *)
(* registry (aether/surface.c), its context (aether/context.c), the        *)
(* launcher overlay (surfaces/launcher.c) and the floating applications    *)
(* (apps/clock.c, calculator.c, imgviewer.c, netconfig.c), each of which   *)
(* remembers the surface it opened.                                        *)
(*                                                                         *)
(* One process runs the engine: an action is one input event dispatched or *)
(* one frame. The state is one record, so that the routines that change it *)
(* compose as they do in the code. Positions and pixels are left out.      *)
(***************************************************************************)
EXTENDS Integers, Sequences, SequencesExt

CONSTANTS SURFACE_MAX,            \* slots of the registry
          FLOAT_MAX,              \* entries of g_floats
          OVERLAYS,               \* entries of overlays[]
          CTX_TRANSITION_FRAMES,  \* frames of a transition
          CoreApps,               \* sequence of the field applications opened by a session
          FloatApps,              \* applications with a floating surface
          MaxSessions             \* bound on the sessions

VARIABLE ui

aevars == <<ui>>

Sids == 0 .. SURFACE_MAX - 1
SID_NONE == SURFACE_MAX
Dead == [alive |-> FALSE, type |-> "none", app |-> "none", dirty |-> FALSE]
Closed == [open |-> FALSE, sid |-> SID_NONE]
Launcher == "launcher"

(***************************************************************************)
(* The registry                                                            *)
(***************************************************************************)
surface_get(u, id) == id \in Sids /\ u.surf[id].alive
surface_invalidate(u, id) ==
  IF surface_get(u, id) THEN [u EXCEPT !.surf[id].dirty = TRUE] ELSE u
Invalidated(u, ids) == FoldSeq(LAMBDA id, v : surface_invalidate(v, id), u, ids)

\* The first free slot; SID_NONE if there is none or no memory for the pixels.
surface_create(u, mem) ==
  LET free == {i \in Sids : ~u.surf[i].alive}
  IN  IF mem /\ free # {} THEN CHOOSE i \in free : \A j \in free : i <= j ELSE SID_NONE

\* The close callback tells a floating application that its surface is gone.
surface_destroy_mute(u, id) == IF surface_get(u, id) THEN [u EXCEPT !.surf[id] = Dead] ELSE u

surface_destroy(u, id) ==
  IF ~surface_get(u, id) THEN u
  ELSE [u EXCEPT !.apps = [a \in FloatApps |-> IF a = u.surf[id].app THEN Closed ELSE @[a]],
                 !.surf[id] = Dead]

\* A dirty surface is painted, and the mark taken away.
surface_tick(u, id) == IF surface_get(u, id) THEN [u EXCEPT !.surf[id].dirty = FALSE] ELSE u

(***************************************************************************)
(* The context                                                             *)
(***************************************************************************)
context_active(u) == IF u.active < Len(u.field) THEN u.field[u.active + 1] ELSE SID_NONE
context_add_surface(u, id) ==
  IF Len(u.field) >= SURFACE_MAX THEN u ELSE [u EXCEPT !.field = Append(@, id)]

context_remove_surface(u, id) ==
  IF ~Contains(u.field, id) THEN u
  ELSE LET rest == Remove(u.field, id)
       IN  [u EXCEPT !.field = rest,
                     !.active = IF @ >= Len(rest) /\ @ > 0 THEN @ - 1 ELSE @]

context_goto(u, idx) ==
  IF idx \notin 0 .. Len(u.field) - 1 \/ (idx = u.active /\ ~u.trans) THEN u
  ELSE Invalidated([u EXCEPT !.target = idx, !.frame = 0, !.trans = TRUE], u.field)

context_navigate(u, delta) ==
  LET n == Len(u.field)
      to == u.active + delta
      target == IF to < 0 THEN 0 ELSE IF to >= n THEN n - 1 ELSE to
  IN  IF n <= 1 \/ target = u.active THEN u ELSE context_goto(u, target)

context_tick(u) ==
  IF ~u.trans THEN u
  ELSE IF u.frame + 1 < CTX_TRANSITION_FRAMES THEN [u EXCEPT !.frame = @ + 1]
  ELSE LET v == [u EXCEPT !.frame = @ + 1, !.active = u.target, !.trans = FALSE]
       IN  surface_invalidate(v, context_active(v))

context_toggle_overview(u) == Invalidated([u EXCEPT !.overview = ~@], u.field)
context_push_overlay(u, id) ==
  IF Len(u.overlays) >= OVERLAYS THEN u ELSE [u EXCEPT !.overlays = Append(@, id)]
context_pop_overlay(u) == IF u.overlays = <<>> THEN u ELSE [u EXCEPT !.overlays = Front(@)]
context_overlay_visible(u) == u.overlays # <<>>

(***************************************************************************)
(* Surfaces of the engine                                                  *)
(***************************************************************************)
float_add(u, id) == IF Len(u.floats) < FLOAT_MAX THEN [u EXCEPT !.floats = Append(@, id)] ELSE u

float_remove(u, id) ==
  IF ~Contains(u.floats, id) THEN u
  ELSE [u EXCEPT !.floats = Remove(@, id), !.drag = IF @ = id THEN SID_NONE ELSE @]

are_add_surface(u, type, app, id) ==
  IF id = SID_NONE THEN u
  ELSE LET v == [u EXCEPT !.surf[id] = [alive |-> TRUE, type |-> type, app |-> app, dirty |-> TRUE]]
       IN  CASE type = "overlay" -> context_push_overlay(v, id)
             [] type = "float"   -> float_add(v, id)
             [] OTHER            -> context_add_surface(v, id)

are_remove_surface(u, id) ==
  surface_destroy(context_remove_surface(float_remove(u, id), id), id)

\* An application that is already open only returns its surface; one whose
\* surface could not be made is open with none, and tries again next time.
float_open(u, a, mem) ==
  IF u.apps[a].open /\ u.apps[a].sid # SID_NONE THEN u
  ELSE LET id == surface_create(u, mem)
           v  == are_add_surface(u, "float", a, id)
       IN  [v EXCEPT !.apps[a] = [open |-> TRUE, sid |-> id]]

(***************************************************************************)
(* Sessions                                                                *)
(***************************************************************************)
\* The field applications and then the launcher, as far as memory goes.
are_launch_core_surfaces(u) ==
  LET Opened(v, type, a) == are_add_surface(v, type, a, surface_create(v, TRUE))
  IN  Opened(FoldSeq(LAMBDA a, v : Opened(v, "app", a), u, CoreApps), "overlay", Launcher)

\* The top of the loop of are_run: what the last session listed is destroyed, the
\* registry and the context are cleared (a surface still alive is forgotten with
\* its pixels), the user logs in and the next session's surfaces are opened.
Session(u) ==
  LET gone  == FoldSeq(LAMBDA id, v : surface_destroy(v, id), u, u.field \o u.overlays \o u.floats)
      clear == [gone EXCEPT !.surf = [i \in Sids |-> Dead],
                            !.field = <<>>, !.active = 0, !.trans = FALSE, !.frame = 0,
                            !.target = 0, !.overview = FALSE, !.overlays = <<>>,
                            !.floats = <<>>, !.drag = SID_NONE]
  IN  [are_launch_core_surfaces(clear) EXCEPT !.running = TRUE, !.sessions = @ + 1]

are_init ==
  [surf |-> [i \in Sids |-> Dead], field |-> <<>>, active |-> 0, trans |-> FALSE, frame |-> 0,
   target |-> 0, overview |-> FALSE, overlays |-> <<>>, floats |-> <<>>, drag |-> SID_NONE,
   apps |-> [a \in FloatApps |-> Closed], running |-> FALSE, sessions |-> 0]

are_run ==
  /\ ~ui.running /\ ui.sessions < MaxSessions
  /\ ui' = Session(ui)

(***************************************************************************)
(* Input dispatched by are_dispatch_input                                  *)
(***************************************************************************)
gesture_swipe(delta) == ui.running /\ ui' = context_navigate(ui, delta)
gesture_overview == ui.running /\ ui' = context_toggle_overview(ui)
gesture_focus == ui.running /\ ui.overview /\ ui' = context_toggle_overview(ui)

\* The launcher is put away, or the first overlay surface of the registry shown.
gesture_launcher ==
  /\ ui.running
  /\ LET over == {i \in Sids : ui.surf[i].alive /\ ui.surf[i].type = "overlay"}
     IN  ui' = IF context_overlay_visible(ui) THEN context_pop_overlay(ui)
               ELSE IF over = {} THEN ui
               ELSE context_push_overlay(ui, CHOOSE i \in over : \A j \in over : i <= j)

gesture_close_surface ==
  /\ ui.running /\ ui.field # <<>>
  /\ ui' = are_remove_surface(ui, context_active(ui))

\* A click in the overview leaves it and goes to the surface under the pointer.
overview_click(hit) ==
  /\ ui.running /\ ui.overview /\ hit < Len(ui.field)
  /\ ui' = context_goto(context_toggle_overview(ui), hit)

\* The launcher has the input: a field application is gone to by the slot it
\* started in, a floating one is opened; both put the launcher away first. After
\* a click it is marked for painting, after Enter it is not.
Chosen(u) == ui' \in {u, surface_invalidate(u, Last(ui.overlays))}

ln_input_slot(slot) ==
  /\ ui.running /\ ~ui.overview /\ context_overlay_visible(ui)
  /\ Chosen(context_goto(context_pop_overlay(ui), slot))

ln_input_open(a, mem) ==
  /\ ui.running /\ ~ui.overview /\ context_overlay_visible(ui)
  /\ Chosen(float_open(context_pop_overlay(ui), a, mem))

ln_input_escape ==
  /\ ui.running /\ ~ui.overview /\ context_overlay_visible(ui)
  /\ ui' = context_pop_overlay(ui)

Desktop == ui.running /\ ~ui.overview /\ ~context_overlay_visible(ui)

\* A drag ends when the button goes up. It starts on a title bar unless a drag
\* of a live surface is under way, and the close button closes.
float_release == Desktop /\ surface_get(ui, ui.drag) /\ ui' = [ui EXCEPT !.drag = SID_NONE]
float_press(id) ==
  /\ Desktop /\ Contains(ui.floats, id) /\ surface_get(ui, id) /\ ~surface_get(ui, ui.drag)
  /\ ui' = [ui EXCEPT !.drag = id]
float_close(id) ==
  /\ Desktop /\ Contains(ui.floats, id) /\ surface_get(ui, id) /\ ~surface_get(ui, ui.drag)
  /\ ui' = are_remove_surface(ui, id)

\* The settings surface or the terminal, when it has the input, ends the session.
are_logout ==
  /\ Desktop /\ surface_get(ui, context_active(ui))
  /\ ui.surf[context_active(ui)].app \in {"terminal", "settings"}
  /\ ui' = [ui EXCEPT !.running = FALSE]

(***************************************************************************)
(* Frames                                                                  *)
(***************************************************************************)
\* The rest of a frame: the transition advances, every listed surface is painted
\* if it is dirty.
frame ==
  /\ ui.running
  /\ ui' = LET v == context_tick(ui)
           IN  FoldSeq(LAMBDA id, w : surface_tick(w, id), v, v.field \o v.overlays \o v.floats)

AeInit == ui = are_init

AeNext ==
  \/ are_run \/ gesture_overview \/ gesture_focus \/ gesture_launcher \/ gesture_close_surface
  \/ \E delta \in {1, -1} : gesture_swipe(delta)
  \/ \E hit \in 0 .. SURFACE_MAX - 1 : overview_click(hit)
  \/ \E slot \in 0 .. Len(CoreApps) - 1 : ln_input_slot(slot)
  \/ \E a \in FloatApps, mem \in BOOLEAN : ln_input_open(a, mem)
  \/ \E id \in Sids : float_press(id) \/ float_close(id)
  \/ ln_input_escape \/ float_release \/ are_logout \/ frame

AeSpec == AeInit /\ [][AeNext]_aevars

(***************************************************************************)
(* Properties                                                              *)
(***************************************************************************)
\* Nothing refers to a surface that is gone, though slots are reused: the field,
\* the overlays and the floating list name live surfaces, once each; a drag is of
\* a listed floating surface; and an open application's surface is its own
\* (surface.c:97-106, are.c:72-84, 267-272, clock.c:216-221).
NothingStale ==
  /\ \A list \in {ui.field, ui.overlays, ui.floats} :
       /\ IsInjective(list)
       /\ \A i \in DOMAIN list : surface_get(ui, list[i])
  /\ ui.drag # SID_NONE => Contains(ui.floats, ui.drag)
  /\ \A a \in FloatApps : ui.apps[a].open /\ ui.apps[a].sid # SID_NONE =>
       /\ Contains(ui.floats, ui.apps[a].sid)
       /\ ui.surf[ui.apps[a].sid].app = a
================================================================================
