--------------------------------- MODULE Editor ---------------------------------
(***************************************************************************)
(* The text editor (apps/texteditor.c): an array of lines of limited       *)
(* length, edited at a cursor, is shown to behave as one text with line    *)
(* breaks in it (text, its characters before and after the cursor).        *)
(***************************************************************************)
EXTENDS Integers, Sequences, SequencesExt

CONSTANTS TE_MAX_LINES, LINE_LEN,  \* LINE_LEN: TE_MAX_LINE_LEN - 1
          VISIBLE,                 \* lines the window shows
          EdLetters,
          Welcome                  \* the lines a new editor shows

VARIABLES te,    \* g_te: lines, line and col (the cursor), scroll, modified
          text,  \* before, after: what the user typed, as one text
          cut    \* joining two lines has lost characters

edvars == <<te, text, cut>>

BREAK == "break"
Take(s, n) == SubSeq(s, 1, IF Len(s) < n THEN Len(s) ELSE n)
Drop(s, n) == SubSeq(s, n + 1, Len(s))
Current(t) == t.lines[t.line]

te_scroll_to_cursor(t) ==
  [t EXCEPT !.scroll = CASE t.line < @ -> t.line
                         [] t.line >= @ + VISIBLE -> t.line - VISIBLE + 1
                         [] OTHER -> @]

\* The cursor in another line, in that line at the latest behind its end.
InLine(t, l, c) == [t EXCEPT !.line = l, !.col = IF c > Len(t.lines[l]) THEN Len(t.lines[l]) ELSE c]

Arrow(t, k) ==
  CASE k = "up" /\ t.line > 1 -> InLine(t, t.line - 1, t.col)
    [] k = "down" /\ t.line < Len(t.lines) -> InLine(t, t.line + 1, t.col)
    [] k = "left" /\ t.col > 0 -> [t EXCEPT !.col = @ - 1]
    [] k = "left" /\ t.col = 0 /\ t.line > 1 -> InLine(t, t.line - 1, LINE_LEN)
    [] k = "right" /\ t.col < Len(Current(t)) -> [t EXCEPT !.col = @ + 1]
    [] k = "right" /\ t.col >= Len(Current(t)) /\ t.line < Len(t.lines) -> InLine(t, t.line + 1, 0)
    [] OTHER -> t

\* The last slot of the array stays unused.
Enter(t) ==
  IF Len(t.lines) >= TE_MAX_LINES - 1 THEN t
  ELSE [t EXCEPT !.lines = Take(@, t.line - 1) \o <<Take(Current(t), t.col), Drop(Current(t), t.col)>>
                           \o Drop(@, t.line),
                 !.line = @ + 1, !.col = 0, !.modified = TRUE]

\* Mutant of Joined: the cursor goes to the start of the joined line.
Joined_home(t) ==
  [t EXCEPT !.lines = Take(@, t.line - 2) \o <<Take(t.lines[t.line - 1] \o Current(t), LINE_LEN)>> \o Drop(@, t.line),
            !.line = @ - 1, !.col = 0, !.modified = TRUE]

\* The line is appended to the one before it, as far as it fits.
Joined(t) ==
  [t EXCEPT !.lines = Take(@, t.line - 2) \o <<Take(t.lines[t.line - 1] \o Current(t), LINE_LEN)>> \o Drop(@, t.line),
            !.line = @ - 1, !.col = Len(t.lines[t.line - 1]), !.modified = TRUE]

Backspace(t) ==
  CASE t.col > 0 -> [t EXCEPT !.lines[t.line] = Take(@, t.col - 1) \o Drop(@, t.col),
                              !.col = @ - 1, !.modified = TRUE]
    [] t.col = 0 /\ t.line > 1 -> Joined(t)
    [] OTHER -> t

Insert(t, c) ==
  IF Len(Current(t)) >= LINE_LEN THEN t
  ELSE [t EXCEPT !.lines[t.line] = Take(@, t.col) \o <<c>> \o Drop(@, t.col),
                 !.col = @ + 1, !.modified = TRUE]

(***************************************************************************)
(* te_on_event, and what the key means for the one text                    *)
(***************************************************************************)
Overflows == te.col = 0 /\ te.line > 1 /\ Len(te.lines[te.line - 1]) + Len(Current(te)) > LINE_LEN

\* Cursor keys move along the text; up and down land where the editor says.
AtCursor(t) ==
  LET whole == FoldLeft(LAMBDA acc, l : acc \o <<BREAK>> \o l, <<>>, t.lines)
      pos   == FoldLeft(LAMBDA n, l : n + 1 + Len(l), 0, Take(t.lines, t.line - 1)) + t.col
  IN  [before |-> SubSeq(whole, 2, pos + 1), after |-> Drop(whole, pos + 1)]

Typed(c) ==
  /\ te' = te_scroll_to_cursor(CASE c = BREAK -> Enter(te) [] OTHER -> Insert(te, c))
  /\ text' = IF (c = BREAK /\ Len(te.lines) >= TE_MAX_LINES - 1) \/ (c # BREAK /\ Len(Current(te)) >= LINE_LEN)
             THEN text ELSE [text EXCEPT !.before = Append(@, c)]
  /\ UNCHANGED cut

Erased ==
  /\ te' = te_scroll_to_cursor(Backspace(te))
  /\ text' = IF text.before = <<>> THEN text ELSE [text EXCEPT !.before = Front(@)]
  /\ cut' = (cut \/ Overflows)

Moved(k) ==
  /\ te' = te_scroll_to_cursor(Arrow(te, k))
  /\ text' = CASE k = "left" /\ text.before # <<>> ->
                    [before |-> Front(text.before), after |-> <<Last(text.before)>> \o text.after]
               [] k = "right" /\ text.after # <<>> ->
                    [before |-> Append(text.before, Head(text.after)), after |-> Tail(text.after)]
               [] k \in {"up", "down"} ->
                    LET all == text.before \o text.after
                        n   == Len(AtCursor(te').before)
                    IN  [before |-> Take(all, n), after |-> Drop(all, n)]
               [] OTHER -> text
  /\ UNCHANGED cut

\* app_texteditor_create: the welcome text, the cursor in its last line.
EdInit ==
  /\ te = [lines |-> Welcome, line |-> Len(Welcome), col |-> 0, scroll |-> 1, modified |-> FALSE]
  /\ text = AtCursor(te) /\ cut = FALSE

EdNext ==
  /\ ~cut   \* bound: nothing is said of the text once joining has cut it
  /\ \/ \E c \in EdLetters \cup {BREAK} : Typed(c)
     \/ Erased
     \/ \E k \in {"up", "down", "left", "right"} : Moved(k)

EdSpec == EdInit /\ [][EdNext]_edvars

\* The lines and the cursor are those of the text as typed, erased and moved in: Enter
\* and Backspace at the ends of lines, Left and Right across them, and full lines
\* and a full buffer included, until a join does not fit one line and loses its end
\* (texteditor.c:158-228). The cursor stays in the window after every key.
TextFollowed ==
  ~cut => /\ AtCursor(te) = text
          /\ te.line \in te.scroll .. te.scroll + VISIBLE - 1 \/ ~te.modified
================================================================================
