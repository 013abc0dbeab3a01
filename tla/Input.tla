---------------------------------- MODULE Input ----------------------------------
(***************************************************************************)
(* The input path: the PS/2 keyboard and mouse interrupt handlers          *)
(* (drivers/keyboard.c, drivers/mouse.c), the queue of the old window      *)
(* manager (gui/event.c) and the queue of the render engine                *)
(* (aether/input.c).                                                       *)
(*                                                                         *)
(* The handlers run between any two steps of the reading thread. The       *)
(* readers are split where the code reads or moves an index:               *)
(* keyboard_poll moves the tail before it copies the entry it takes, and   *)
(* gui_event_pop copies first. An event carries the number of its arrival. *)
(***************************************************************************)
EXTENDS Integers, Sequences, FiniteSets

CONSTANTS KBD_RAW_SZ, KBD_BUFFER_SIZE, EVT_QUEUE_SIZE, INPUT_QUEUE_SZ,
          LINE_MAX,    \* max_len of keyboard_readline
          MAX_X,       \* right edge of the screen; one axis is modelled
          Keys,        \* the scan codes the keyboard sends
          Moves,       \* movements a mouse packet can carry
          MaxKeys,     \* bound on the scan codes that arrive
          MaxPackets   \* bound on the mouse packets that arrive

VARIABLES
  kbd,     \* kbd_state and kbd_e0
  raw,     \* kbd_raw_buf, its head and tail
  chars,   \* kbd_buffer, its head and tail
  poll,    \* keyboard_poll under way: [at, slot]
  inq,     \* g_queue of aether/input.c
  line,    \* the line keyboard_readline is building, as the count of its characters
  mouse,   \* x, buttons, prev_buttons, scroll and packet_idx
  ptr,     \* g_ptr and g_ptr_buttons
  evt,     \* evt_queue, evt_head, evt_tail and gui_post_mouse's prev_buttons
  count    \* arrivals so far: codes, keys (accepted by raw_push), taken, packets

kbdvars == <<kbd, raw, chars, poll, line>>
mousevars == <<mouse, ptr, evt>>
inputvars == <<kbdvars, mousevars, inq, count>>

Extended == {"up"}
Empty == [kc |-> "", ch |-> "", alt |-> FALSE, down |-> FALSE, n |-> 0]

Pressed == [LSHIFT |-> FALSE, LCTRL |-> FALSE, LALT |-> FALSE, CAPSLOCK |-> FALSE, e0 |-> FALSE]

(***************************************************************************)
(* Rings                                                                   *)
(***************************************************************************)
\* raw_push: one slot stays free, and a full ring drops the event.
raw_push_full(r, e) ==
  [r EXCEPT !.buf[r.head] = e, !.head = (r.head + 1) % KBD_RAW_SZ]

raw_push(r, e) ==
  IF (r.head + 1) % KBD_RAW_SZ = r.tail THEN r
  ELSE [r EXCEPT !.buf[r.head] = e, !.head = (r.head + 1) % KBD_RAW_SZ]

\* buf_push on the character ring, kept as the sequence between tail and head.
buf_push(s, c) == IF Len(s) = KBD_BUFFER_SIZE - 1 THEN s ELSE Append(s, c)

\* gui_event_push: all slots are used; the indices count up and wrap in the buffer.
gui_event_push(q, e) ==
  IF q.head - q.tail >= EVT_QUEUE_SIZE THEN q
  ELSE [q EXCEPT !.buf[q.head % EVT_QUEUE_SIZE] = e, !.head = @ + 1]

\* queue_push of aether/input.c.
queue_push(s, e) == IF Len(s) = INPUT_QUEUE_SZ - 1 THEN s ELSE Append(s, e)

(***************************************************************************)
(* Keyboard interrupt                                                      *)
(***************************************************************************)
\* The character of a key: Caps Lock reverses Shift on letters only.
Char(key) ==
  CASE key = "a"     -> IF kbd.LSHIFT # kbd.CAPSLOCK THEN "A" ELSE "a"
    [] key = "1"     -> IF kbd.LSHIFT THEN "!" ELSE "1"
    [] key = "enter" -> "\n"
    [] OTHER         -> ""

Event(key, released) ==
  [kc |-> IF key \in {"a", "1"} THEN Char(key) ELSE key, ch |-> Char(key),
   alt |-> kbd.LALT, down |-> ~released, n |-> count.keys + 1]

\* raw_push of one event; it has its number only if it was accepted.
Pushed(e) ==
  /\ raw' = raw_push(raw, e)
  /\ count' = [count EXCEPT !.codes = @ + 1, !.keys = @ + (IF raw' = raw THEN 0 ELSE 1)]

\* The prefix byte of an extended key.
keyboard_irq_prefix ==
  /\ count.codes < MaxKeys
  /\ kbd' = [kbd EXCEPT !.e0 = TRUE]
  /\ UNCHANGED <<raw, chars, poll, inq, line, count, mousevars>>

\* Any other byte: after a prefix only the extended keys produce an event, a
\* modifier changes the state, every other key goes to both rings.
keyboard_irq_handler(key, released) ==
  /\ count.codes < MaxKeys
  /\ UNCHANGED <<poll, inq, line, mousevars>>
  /\ \/ /\ kbd.e0
        /\ kbd' = [kbd EXCEPT !.e0 = FALSE]
        /\ IF key \in Extended
           THEN Pushed(Event(key, released))
           ELSE count' = [count EXCEPT !.codes = @ + 1] /\ UNCHANGED raw
        /\ UNCHANGED chars
     \/ /\ ~kbd.e0 /\ key \in {"LSHIFT", "LCTRL", "LALT"}
        /\ kbd' = [kbd EXCEPT ![key] = ~released]
        /\ count' = [count EXCEPT !.codes = @ + 1]
        /\ UNCHANGED <<raw, chars>>
     \/ /\ ~kbd.e0 /\ key = "CAPSLOCK"
        /\ kbd' = [kbd EXCEPT !.CAPSLOCK = IF released THEN @ ELSE ~@]
        /\ count' = [count EXCEPT !.codes = @ + 1]
        /\ UNCHANGED <<raw, chars>>
     \/ /\ ~kbd.e0 /\ key \in {"a", "1", "enter", "f1"}
        /\ Pushed(Event(key, released))
        /\ chars' = IF ~released /\ Char(key) # "" THEN buf_push(chars, Char(key)) ELSE chars
        /\ UNCHANGED kbd

(***************************************************************************)
(* Keyboard readers                                                        *)
(***************************************************************************)
\* keyboard_poll, first half: the tail moves past the entry.
keyboard_poll ==
  /\ poll.at = "out"
  /\ raw.head # raw.tail
  /\ poll' = [at |-> "moved", slot |-> raw.tail]
  /\ raw' = [raw EXCEPT !.tail = (@ + 1) % KBD_RAW_SZ]
  /\ UNCHANGED <<kbd, chars, inq, line, count, mousevars>>

\* input_key_to_gesture: Alt with an arrow (or with w or q) on the way down.
Gesture(e) == e.alt /\ e.down /\ e.kc \in Extended

\* keyboard_poll, second half, and input_poll's use of the entry: a gesture or a
\* key goes to the queue of the render engine.
input_poll_key ==
  /\ poll.at = "moved"
  /\ LET e == raw.buf[poll.slot] IN
       /\ inq' = queue_push(inq, [type |-> IF Gesture(e) THEN "gesture" ELSE "key", n |-> e.n,
                                  buttons |-> {}, prev |-> {}])
       /\ count' = [count EXCEPT !.taken = e.n]
  /\ poll' = [poll EXCEPT !.at = "out"]
  /\ UNCHANGED <<kbd, raw, chars, line, mousevars>>

\* keyboard_getchar (and keyboard_read) under keyboard_readline: Enter ends the
\* line, a character is kept while there is room. Backspace is not among the keys.
keyboard_readline ==
  /\ chars # <<>>
  /\ chars' = Tail(chars)
  /\ line' = IF Head(chars) = "\n" THEN 0
             ELSE IF line < LINE_MAX - 1 THEN line + 1 ELSE line
  /\ UNCHANGED <<kbd, raw, poll, inq, count, mousevars>>

(***************************************************************************)
(* Mouse interrupt                                                         *)
(***************************************************************************)
Clamp(x) == IF x < 0 THEN 0 ELSE IF x > MAX_X THEN MAX_X ELSE x

\* gui_post_mouse: movement, then the buttons that went down, then those that
\* came up. prev_buttons changes even when the queue has no room.
gui_post_mouse(q, x, dx, b) ==
  LET put(c, p, type, w) == IF c THEN gui_event_push(p, [type |-> type, x |-> x, buttons |-> w]) ELSE p
      moved == put(dx # 0, q, "move", b)
      down  == put(b \ q.prev # {}, moved, "down", b \ q.prev)
  IN  [put(q.prev \ b # {}, down, "up", q.prev \ b) EXCEPT !.prev = b]

\* mouse_irq_handler: three bytes make a packet; the last one decodes it, moves
\* the pointer within the screen and posts the event.
mouse_irq_byte ==
  /\ mouse.idx < 2 /\ count.packets < MaxPackets
  /\ mouse' = [mouse EXCEPT !.idx = @ + 1]
  /\ UNCHANGED <<ptr, evt, kbdvars, inq, count>>

mouse_irq_handler(dx, b, z, overflow) ==
  /\ mouse.idx = 2 /\ count.packets < MaxPackets
  /\ count' = [count EXCEPT !.packets = @ + 1]
  /\ IF overflow
     THEN mouse' = [mouse EXCEPT !.idx = 0] /\ UNCHANGED evt
     ELSE /\ mouse' = [x |-> Clamp(mouse.x + dx), buttons |-> b, prev |-> mouse.buttons,
                       scroll |-> z, idx |-> 0]
          /\ evt' = gui_post_mouse(evt, Clamp(mouse.x + dx), dx, b)
  /\ UNCHANGED <<ptr, kbdvars, inq>>

(***************************************************************************)
(* Mouse readers                                                           *)
(***************************************************************************)
\* input_poll's second part: the mouse's state is sampled, not its packets.
input_poll_mouse ==
  /\ poll.at = "out"
  /\ ptr' = [x |-> mouse.x, buttons |-> mouse.buttons]
  /\ inq' = IF mouse.x # ptr.x \/ mouse.buttons # ptr.buttons \/ mouse.scroll # 0
            THEN queue_push(inq, [type |-> "pointer", n |-> 0, buttons |-> mouse.buttons,
                                  prev |-> ptr.buttons])
            ELSE inq
  /\ UNCHANGED <<mouse, evt, kbdvars, count>>

\* input_pop, by are_dispatch_input.
input_pop == inq # <<>> /\ inq' = Tail(inq) /\ UNCHANGED <<kbdvars, mousevars, count>>

\* gui_event_pop: the entry is copied, then the tail moves.
gui_event_pop ==
  /\ evt.head # evt.tail
  /\ evt' = [evt EXCEPT !.tail = @ + 1]
  /\ UNCHANGED <<mouse, ptr, kbdvars, inq, count>>

(***************************************************************************)
(* Specification                                                           *)
(***************************************************************************)
\* keyboard_init, mouse_init, gui_event_queue_init and input_init.
InputInit ==
  /\ kbd = Pressed
  /\ raw = [buf |-> [i \in 0 .. KBD_RAW_SZ - 1 |-> Empty], head |-> 0, tail |-> 0]
  /\ chars = <<>> /\ inq = <<>> /\ line = 0
  /\ poll = [at |-> "out", slot |-> 0]
  /\ mouse = [x |-> MAX_X \div 2, buttons |-> {}, prev |-> {}, scroll |-> 0, idx |-> 0]
  /\ ptr = [x |-> 0, buttons |-> {}]
  /\ evt = [buf |-> [i \in 0 .. EVT_QUEUE_SIZE - 1 |-> [type |-> "none", x |-> 0, buttons |-> {}]],
            head |-> 0, tail |-> 0, prev |-> {}]
  /\ count = [codes |-> 0, keys |-> 0, taken |-> 0, packets |-> 0]

KeyNext ==
  \/ keyboard_irq_prefix
  \/ \E key \in Keys, released \in BOOLEAN : keyboard_irq_handler(key, released)
  \/ keyboard_poll \/ input_poll_key \/ keyboard_readline \/ input_pop

MouseNext ==
  \/ mouse_irq_byte
  \/ \E dx \in Moves, b \in SUBSET {"left"}, z \in {0, 1}, overflow \in BOOLEAN :
       mouse_irq_handler(dx, b, z, overflow)
  \/ input_poll_mouse \/ gui_event_pop \/ input_pop

InputNext == KeyNext \/ MouseNext
InputSpec == InputInit /\ [][InputNext]_inputvars

(***************************************************************************)
(* Properties                                                              *)
(***************************************************************************)
\* keyboard_poll hands over every event raw_push accepted, once and in order,
\* although it gives the slot back before it has copied the entry and the
\* interrupt handler can fill the ring in between (keyboard.c:298-308).
KeysInOrder == [][count'.taken # count.taken => count'.taken = count.taken + 1]_inputvars
================================================================================
