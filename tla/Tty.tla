--------------------------------- MODULE Tty ---------------------------------
(***************************************************************************)
(* A virtual terminal of kernel/tty.c in its initial, canonical mode (no     *)
(* code changes the flags), with its foreground process of module Signal.   *)
(* The keyboard interrupt or a PTY master feeds characters while a reader   *)
(* takes them out one by one.  The output ring, which only echo and         *)
(* tty_write fill and nothing empties, is left out.                         *)
(***************************************************************************)
EXTENDS Signal

CONSTANTS
    TTY_BUF_SIZE,      \* 4096
    Letters,           \* ordinary characters
    MaxTyped           \* bound on the characters typed

\* The characters with a meaning: '\n' (also '\r'), and those of cc.
NL == "nl"
ERASE == "erase"
KILL == "kill"
EOF == "eof"
INTR == "intr"
QUIT == "quit"
SUSP == "susp"
Signalling == [c \in {INTR, QUIT, SUSP} |->
    CASE c = INTR -> SIGINT [] c = QUIT -> SIGQUIT [] c = SUSP -> SIGTSTP]

ASSUME TtyConstants == TTY_BUF_SIZE \in Nat \ {0, 1} /\ MaxTyped \in Nat

VARIABLES
    input, canon,      \* rings
    reader,            \* the tty_read in progress: characters still wanted, -1 for none
    popped,            \* ghost: what readers have taken from input
    line, committed,   \* ghost: the line being typed, and the lines finished
    full,              \* ghost: a push has found its ring full
    typed              \* ghost: number of characters typed

tty_vars == <<input, canon, reader, popped, line, committed, full, typed>>

Slots == 0 .. TTY_BUF_SIZE - 1
EmptyRing == [buf |-> [k \in Slots |-> NL], head |-> 0, tail |-> 0]
ring_empty(r) == r.head = r.tail
ring_full(r) == (r.tail + 1) % TTY_BUF_SIZE = r.head
ring_push(r, c) ==
    IF ring_full(r) THEN r
    ELSE [r EXCEPT !.buf[r.tail] = c, !.tail = (@ + 1) % TTY_BUF_SIZE]
ring_pop(r) == [r EXCEPT !.head = (@ + 1) % TTY_BUF_SIZE]
Contents(r) ==
    [k \in 1 .. (r.tail + TTY_BUF_SIZE - r.head) % TTY_BUF_SIZE |-> r.buf[(r.head + k - 1) % TTY_BUF_SIZE]]

\* tty_ring_push of each character of q in turn, and whether one was dropped.
PushAll(r, q) ==
    LET n == Min({Len(q), TTY_BUF_SIZE - 1 - Len(Contents(r))})
    IN  [buf |-> [k \in Slots |-> LET d == (k + TTY_BUF_SIZE - r.tail) % TTY_BUF_SIZE
                                  IN  IF d < n THEN q[d + 1] ELSE r.buf[k]],
         head |-> r.head, tail |-> (r.tail + n) % TTY_BUF_SIZE]
Overflows(r, q) == Len(q) > TTY_BUF_SIZE - 1 - Len(Contents(r))

TtyInit ==
    /\ input = EmptyRing /\ canon = EmptyRing /\ reader = -1
    /\ popped = <<>> /\ line = <<>> /\ committed = <<>> /\ full = FALSE /\ typed = 0

\* ISIG: a signalling character only sends its signal to the foreground process.
input_signal(c) ==
    /\ signal_send_proc(Signalling[c])
    /\ UNCHANGED <<input, canon, line, committed, full>>

\* Mutant of Erased: the tail steps back without wrapping.
Erased_no_wrap(r) == IF ring_empty(r) THEN r ELSE [r EXCEPT !.tail = IF @ = 0 THEN 0 ELSE @ - 1]

Erased(r) ==
    IF ring_empty(r) THEN r
    ELSE [r EXCEPT !.tail = IF @ = 0 THEN TTY_BUF_SIZE - 1 ELSE @ - 1]

input_erase ==
    /\ canon' = Erased(canon)
    /\ line' = IF line = <<>> THEN line ELSE SubSeq(line, 1, Len(line) - 1)
    /\ UNCHANGED <<input, committed, full>>

input_kill ==
    /\ canon' = [canon EXCEPT !.head = 0, !.tail = 0]
    /\ line' = <<>>
    /\ UNCHANGED <<input, committed, full>>

input_eof ==
    /\ input' = ring_push(input, EOF)
    /\ committed' = Append(committed, EOF)
    /\ full' = (full \/ ring_full(input))
    /\ UNCHANGED <<canon, line>>

input_letter(c) ==
    /\ canon' = ring_push(canon, c)
    /\ line' = Append(line, c)
    /\ full' = (full \/ ring_full(canon))
    /\ UNCHANGED <<input, committed>>

\* The end of a line moves the canonical ring to the input ring.
input_newline ==
    LET cooked == ring_push(canon, NL)
    IN  /\ input' = PushAll(input, Contents(cooked))
        /\ canon' = [cooked EXCEPT !.head = cooked.tail]
        /\ line' = <<>>
        /\ committed' = committed \o Append(line, NL)
        /\ full' = (full \/ ring_full(canon) \/ Overflows(input, Contents(cooked)))

tty_input_char(c) ==
    /\ typed < MaxTyped /\ typed' = typed + 1
    /\ \/ c \in DOMAIN Signalling /\ input_signal(c)
       \/ /\ \/ c = ERASE /\ input_erase
             \/ c = KILL /\ input_kill
             \/ c = EOF /\ input_eof
             \/ c = NL /\ input_newline
             \/ c \in Letters /\ input_letter(c)
          /\ UNCHANGED signal_vars
    /\ UNCHANGED <<reader, popped>>

\* tty_read: waits for input, then takes characters up to n, a newline, the end
\* of file, or until the ring is empty.
tty_read(n) ==
    /\ reader = -1 /\ ~ring_empty(input)
    /\ reader' = n
    /\ UNCHANGED <<input, canon, popped, line, committed, full, typed, signal_vars>>

tty_read_char ==
    /\ reader > 0 /\ ~ring_empty(input)
    /\ LET c == input.buf[input.head]
       IN  /\ input' = ring_pop(input)
           /\ popped' = Append(popped, c)
           /\ reader' = IF c \in {EOF, NL} THEN 0 ELSE reader - 1
    /\ UNCHANGED <<canon, line, committed, full, typed, signal_vars>>

tty_read_return ==
    /\ reader = 0 \/ (reader > 0 /\ ring_empty(input))
    /\ reader' = -1
    /\ UNCHANGED <<input, canon, popped, line, committed, full, typed, signal_vars>>

TtyNext ==
    \/ \E c \in Letters \cup {NL, ERASE, KILL, EOF} \cup DOMAIN Signalling : tty_input_char(c)
    \/ \E n \in 1 .. 2 : tty_read(n)
    \/ tty_read_char \/ tty_read_return

(***************************************************************************)
(* Properties                                                               *)
(***************************************************************************)
\* As long as no ring has been full, readers get exactly the edited lines that
\* were typed, in order, each character once, and the line in progress is what is
\* left of it after erasing.  The line discipline's ring arithmetic (erase steps
\* the tail back, kill resets both ends) loses nothing and repeats nothing.
ReadsWhatWasTyped ==
    ~full => /\ popped \o Contents(input) = committed
             /\ Contents(canon) = line
=============================================================================
