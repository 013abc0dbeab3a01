--------------------------------- MODULE Display ---------------------------------
(***************************************************************************)
(* The display and input services: the compositor (display/compositor.c)   *)
(* and the input service (input/input_svc.c), two kernel threads of the    *)
(* builds without the render engine, and their clients.                    *)
(*                                                                         *)
(* Clients post MSG_DISP_* and MSG_INPUT_SUBSCRIBE messages to the two     *)
(* service ports, which keep their order. A thread handles one message at  *)
(* a time; between the input thread's look at the compositor's focus and   *)
(* the delivery of the event the compositor may run. Only the order of the *)
(* z values is observable, so they are the sequence stack, back to front.  *)
(* Geometry is left out: a click names the surfaces under the pointer.     *)
(***************************************************************************)
EXTENDS Integers, Sequences, FiniteSets, SequencesExt

CONSTANTS COMP_MAX_SURFACES, INPUT_MAX_SUBSCRIBERS, RAW_MAX,
          Masks,        \* event masks clients subscribe with
          Decorations,  \* whether clients ask for a title bar
          MaxSurfaces,  \* bound on surfaces ever created
          MaxEvents,    \* bound on events of the keyboard and the mouse
          MaxPort       \* bound on messages waiting at the two service ports

VARIABLES
  surf,    \* compositor slots: [id, visible, focused, decorated, damaged, drag]
  stack,   \* slots of valid surfaces by z, the topmost last
  comp,    \* [focused, next_id, count, port]: the rest of g_compositor
  svc,     \* g_input_svc: [focused, subs, raw, port, at]
  got,     \* the surface that got the last event had the focus since it was posted
  posted   \* number of input events so far

dispvars == <<surf, stack, comp, svc, got, posted>>

SurfSlots == 1 .. COMP_MAX_SURFACES
Ids == 1 .. MaxSurfaces
SURF_INVALID == 0

NoSurface == [id |-> SURF_INVALID, visible |-> FALSE, focused |-> FALSE, decorated |-> FALSE,
              damaged |-> FALSE, drag |-> FALSE]

\* The state an operation of the compositor works on.
C == [surf |-> surf, stack |-> stack, comp |-> comp]
CompBecomes(c) == surf' = c.surf /\ stack' = c.stack /\ comp' = c.comp

(***************************************************************************)
(* The compositor's operations                                             *)
(***************************************************************************)
\* As a set of at most one slot.
_find_surf(c, id) == {s \in SurfSlots : id # SURF_INVALID /\ c.surf[s].id = id}

_alloc_surf(c) == {s \in SurfSlots : /\ c.surf[s].id = SURF_INVALID
                                     /\ \A t \in SurfSlots : c.surf[t].id = SURF_INVALID => s <= t}

\* All valid surfaces are on the stack: z becomes one more than the largest.
compositor_raise(c, id) ==
  [c EXCEPT !.stack = SelectSeq(@, LAMBDA t : t \notin _find_surf(c, id)) \o SetToSeq(_find_surf(c, id))]

Redrawn(c, slots, focused) ==
  [c EXCEPT !.surf = [s \in SurfSlots |-> IF s \in slots THEN [@[s] EXCEPT !.focused = focused, !.damaged = TRUE]
                                          ELSE @[s]]]

\* The id is taken over whether or not it names a surface.
compositor_focus(c, id) ==
  LET off == Redrawn(c, _find_surf(c, c.comp.focused), FALSE)
      on  == Redrawn([off EXCEPT !.comp.focused = id], _find_surf(c, id), TRUE)
  IN  compositor_raise(on, id)

\* Refused when the table or the heap is full.
compositor_create_surface(c, decorated) ==
  LET s  == CHOOSE t \in _alloc_surf(c) : TRUE
      id == c.comp.next_id
      new == [NoSurface EXCEPT !.id = id, !.visible = TRUE, !.decorated = decorated,
                               !.damaged = TRUE]
  IN  compositor_focus([c EXCEPT !.surf[s] = new, !.stack = Append(@, s),
                                 !.comp.next_id = @ + 1, !.comp.count = @ + 1], id)

\* The topmost remaining surface gets the focus, if the one destroyed had it.
compositor_destroy_surface(c, id) ==
  LET gone == _find_surf(c, id)
      d == [c EXCEPT !.surf = [s \in SurfSlots |-> IF s \in gone THEN NoSurface ELSE @[s]],
                     !.stack = SelectSeq(@, LAMBDA t : t \notin gone),
                     !.comp.count = @ - 1]
  IN  CASE gone = {} -> c
        [] c.comp.focused # id -> d
        [] d.stack = <<>> -> [d EXCEPT !.comp.focused = SURF_INVALID]
        [] OTHER -> compositor_focus([d EXCEPT !.comp.focused = SURF_INVALID], d.surf[Last(d.stack)].id)

Updated(c, id, F(_)) ==
  [c EXCEPT !.surf = [s \in SurfSlots |-> IF s \in _find_surf(c, id) THEN F(@[s]) ELSE @[s]]]

\* A new size redraws the title bar in a new buffer; with no memory for one the
\* surface keeps its size and is damaged all the same. compositor_commit and
\* compositor_set_title do no more.
compositor_set_geometry(c, id) == Updated(c, id, LAMBDA s : [s EXCEPT !.damaged = TRUE])
compositor_set_visible(c, id, visible) == Updated(c, id, LAMBDA s : [s EXCEPT !.visible = visible])

(***************************************************************************)
(* The compositor thread                                                   *)
(***************************************************************************)
\* Queued events notice the focus as it is after the step (bookkeeping of the model).
Seen(s) == [s EXCEPT !.raw = [i \in DOMAIN @ |-> [@[i] EXCEPT !.since = @ \cup {comp'.focused}]]]

\* One message: [op, id, flag]. A create may find no memory.
compositor_handle_msg ==
  /\ comp.port # <<>>
  /\ LET m == Head(comp.port)
         c == [C EXCEPT !.comp.port = Tail(@)]
     IN  \/ CompBecomes(CASE m.op = "create" /\ _alloc_surf(c) # {} -> compositor_create_surface(c, m.flag)
                          [] m.op = "destroy" -> compositor_destroy_surface(c, m.id)
                          [] m.op = "geom" -> compositor_set_geometry(c, m.id)
                          [] m.op = "vis" -> compositor_set_visible(c, m.id, m.flag)
                          [] m.op = "raise" -> compositor_focus(compositor_raise(c, m.id), m.id)
                          [] OTHER -> c)
         \/ m.op = "create" /\ CompBecomes(c)
  /\ svc' = Seen(svc)
  /\ UNCHANGED <<got, posted>>

\* A press with the surfaces of under below the pointer: the topmost visible one
\* gets the focus, is destroyed by its close button, or starts to be dragged.
_handle_mouse_press(under, part) ==
  LET vis == SelectSeq(stack, LAMBDA s : s \in under /\ surf[s].visible)
      hit == Last(vis)
      c   == compositor_focus(C, surf[hit].id)
  IN  /\ vis # <<>>
      /\ surf[hit].decorated \/ part = "client"
      /\ CompBecomes(CASE part = "close" -> compositor_destroy_surface(c, surf[hit].id)
                       [] part = "title" -> [c EXCEPT !.surf[hit].drag = TRUE]
                       [] OTHER -> c)
      /\ svc' = Seen(svc)
      /\ UNCHANGED <<got, posted>>

_handle_mouse_release ==
  /\ \E s \in SurfSlots : surf[s].drag
  /\ surf' = [s \in SurfSlots |-> [surf[s] EXCEPT !.drag = FALSE]]
  /\ UNCHANGED <<stack, comp, svc, got, posted>>

\* Visible surfaces are drawn back to front; the others keep their damage.
compositor_composite ==
  /\ \E s \in SurfSlots : surf[s].visible /\ surf[s].damaged
  /\ surf' = [s \in SurfSlots |-> [surf[s] EXCEPT !.damaged = @ /\ ~surf[s].visible]]
  /\ UNCHANGED <<stack, comp, svc, got, posted>>

(***************************************************************************)
(* The input service                                                       *)
(***************************************************************************)
\* Drivers post; a full queue drops the event. since collects the surfaces that
\* have the compositor's focus from now until the delivery.
input_post(kind) ==
  /\ posted < MaxEvents
  /\ posted' = posted + 1
  /\ svc' = [svc EXCEPT !.raw = IF Len(@) >= RAW_MAX THEN @
                                ELSE Append(@, [kind |-> kind, since |-> {comp.focused}])]
  /\ UNCHANGED <<surf, stack, comp, got>>

_find_sub(v, id) == {i \in DOMAIN v.subs : v.subs[i].id = id}

\* Mutant of input_svc_sync: the focus is only looked up when there is none.
input_svc_sync_once ==
  /\ svc.at = "idle" /\ svc.raw # <<>>
  /\ svc' = [svc EXCEPT !.focused = IF @ = SURF_INVALID THEN comp.focused ELSE @, !.at = "synced"]
  /\ UNCHANGED <<surf, stack, comp, got, posted>>

\* The oldest raw event: first the focus is taken over from the compositor
\* (FOCUS_OUT and FOCUS_IN go to the two surfaces, if they subscribed) ...
input_svc_sync ==
  /\ svc.at = "idle" /\ svc.raw # <<>>
  /\ svc' = [svc EXCEPT !.focused = comp.focused, !.at = "synced"]
  /\ UNCHANGED <<surf, stack, comp, got, posted>>

\* ... then it goes to the focused surface, if that one subscribed to its kind.
input_svc_dispatch ==
  /\ svc.at = "synced"
  /\ got' = \/ \A i \in _find_sub(svc, svc.focused) : Head(svc.raw).kind \notin svc.subs[i].mask
            \/ svc.focused \in Head(svc.raw).since
  /\ svc' = [svc EXCEPT !.raw = Tail(@), !.at = "idle"]
  /\ UNCHANGED <<surf, stack, comp, posted>>

\* MSG_INPUT_SUBSCRIBE: a known surface is updated, a full table refuses, and
\* nothing ever leaves the table.
input_svc_handle_msg ==
  /\ svc.at = "idle" /\ svc.port # <<>>
  /\ LET m == Head(svc.port)
         have == _find_sub(svc, m.id)
         entry == [id |-> m.id, mask |-> m.mask]
     IN  svc' = [svc EXCEPT !.port = Tail(@),
                            !.subs = IF have # {} THEN [i \in DOMAIN @ |-> IF i \in have THEN entry ELSE @[i]]
                                     ELSE IF Len(@) < INPUT_MAX_SUBSCRIBERS THEN Append(@, entry) ELSE @]
  /\ UNCHANGED <<surf, stack, comp, got, posted>>

(***************************************************************************)
(* Clients                                                                 *)
(***************************************************************************)
Waiting == Len(comp.port) + Len(svc.port)

\* A client knows the ids it got from create replies.
client_create(decorated) ==
  /\ comp.next_id + Len(comp.port) <= MaxSurfaces /\ Waiting < MaxPort
  /\ comp' = [comp EXCEPT !.port = Append(@, [op |-> "create", id |-> SURF_INVALID, flag |-> decorated])]
  /\ UNCHANGED <<surf, stack, svc, got, posted>>

client_request(op, id, flag) ==
  /\ id < comp.next_id /\ Waiting < MaxPort
  /\ comp' = [comp EXCEPT !.port = Append(@, [op |-> op, id |-> id, flag |-> flag])]
  /\ UNCHANGED <<surf, stack, svc, got, posted>>

client_subscribe(id, mask) ==
  /\ id < comp.next_id /\ Waiting < MaxPort
  /\ svc' = [svc EXCEPT !.port = Append(@, [id |-> id, mask |-> mask])]
  /\ UNCHANGED <<surf, stack, comp, got, posted>>

DispInit ==
  /\ surf = [s \in SurfSlots |-> NoSurface] /\ stack = <<>>
  /\ comp = [focused |-> SURF_INVALID, next_id |-> 1, count |-> 0, port |-> <<>>]
  /\ svc = [focused |-> SURF_INVALID, subs |-> <<>>, raw |-> <<>>, port |-> <<>>, at |-> "idle"]
  /\ got = TRUE /\ posted = 0

\* What changes the focus and follows it ...
FocusNext ==
  \/ compositor_handle_msg
  \/ \E under \in SUBSET SurfSlots, part \in {"client", "close"} : _handle_mouse_press(under, part)
  \/ \E kind \in {"key", "mouse"} : input_post(kind)
  \/ input_svc_sync \/ input_svc_dispatch \/ input_svc_handle_msg
  \/ \E d \in Decorations : client_create(d)
  \/ \E id \in Ids : \/ \E op \in {"destroy", "raise"} : client_request(op, id, TRUE)
                     \/ \E mask \in Masks : client_subscribe(id, mask)

\* ... and the compositor by itself.
WindowNext ==
  \/ compositor_handle_msg \/ _handle_mouse_release \/ compositor_composite
  \/ \E under \in SUBSET SurfSlots, part \in {"client", "title", "close"} : _handle_mouse_press(under, part)
  \/ \E d \in Decorations : client_create(d)
  \/ \E id \in Ids : \/ \E op \in {"destroy", "geom", "raise"} : client_request(op, id, TRUE)
                     \/ \E v \in BOOLEAN : client_request("vis", id, v)

DispNext == FocusNext \/ WindowNext

DispSpec == DispInit /\ [][DispNext]_dispvars

(***************************************************************************)
(* Properties                                                              *)
(***************************************************************************)
\* An event is delivered to a surface that had the compositor's focus at some
\* moment between the event and its delivery, however the two threads interleave
\* and whatever was created, raised or destroyed meanwhile; and the compositor
\* marks exactly the surface it gives the keyboard to as focused
\* (input_svc.c:224-241, compositor.c:336-369).
FocusFollowed ==
  /\ got
  /\ \A s \in SurfSlots : surf[s].id # SURF_INVALID => (surf[s].focused <=> surf[s].id = comp.focused)
  /\ comp.count = Len(stack)
================================================================================
