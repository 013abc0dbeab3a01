--------------------------------- MODULE Terminal ---------------------------------
(***************************************************************************)
(* The three command lines: the terminal of the desktop                    *)
(* (surfaces/terminal.c: line buffer, history ring, shell_exec), the       *)
(* terminal window of the older desktop (apps/terminal.c) and the kernel   *)
(* shell (userland/shell.c), over one small file tree.                     *)
(*                                                                         *)
(* A line is a sequence of letters; CommandOf says which command each text *)
(* is. A command is [op, a, b] with arguments [at, path]: "none" (missing),*)
(* "up" (the text ".."), "home" (~), "abs" or "rel". The tree gives a path *)
(* (a sequence of names) what is there; the file system itself is module   *)
(* Vfs. Output, the cells of the screen and the clipboard (nothing ever    *)
(* fills it) are left out; so are the commands that only print.            *)
(***************************************************************************)
EXTENDS Integers, Sequences, SequencesExt

CONSTANTS Glyphs,         \* printable characters
          LINE_CAP,       \* line_len stays below it (255)
          TERM_HIST_MAX,  \* history of the desktop's terminal (64)
          OLD_HIST,       \* history of the terminal window (32)
          CommandOf,      \* text -> command, for the texts that are commands
          TermPaths,      \* the paths the commands can name
          HOME_PATH,      \* /home/user
          MaxDepth        \* bound on the length of a working directory

VARIABLES
  term,   \* g_term: buf, len, hist, count, head, pos (-1: live input), save, cwd
  ran,    \* the lines history should know, oldest first (the model's own)
  old,    \* term_t: input, hist, nav (0: not navigating), cwd
  oldran, \* the lines its history should know (the model's own)
  kcwd,   \* cwd of the kernel shell
  tfs     \* path -> [kind, data]

termvars == <<term, ran, old, oldran, kcwd, tfs>>

NUL == ""
Nothing == [kind |-> "none", data |-> 0]
NewFile == [kind |-> "file", data |-> 0]
NewDir == [kind |-> "dir", data |-> 0]

(***************************************************************************)
(* Paths and the tree                                                      *)
(***************************************************************************)
Canon(p) == FoldLeft(LAMBDA r, c : IF c # ".." THEN Append(r, c)
                                   ELSE IF r = <<>> THEN r ELSE Front(r), <<>>, p)

At(t, p) == IF Canon(p) = <<>> THEN NewDir
            ELSE IF Canon(p) \in TermPaths THEN t[Canon(p)] ELSE Nothing

\* The directory a name is made in or removed from is there (".." is no entry of a
\* directory, and a path that ends in it is always resolved without one).
Placed(t, p) == p # <<>> /\ Last(p) # ".." /\ Canon(p) \in TermPaths /\ At(t, Front(p)).kind = "dir"

\* vfs_mkdir and vfs_create: a name that exists already is left as it is.
Made(t, p, new) == IF Placed(t, p) /\ At(t, p) = Nothing THEN [t EXCEPT ![Canon(p)] = new] ELSE t

\* vfs_unlink: a directory takes what is under it along.
Unlinked(t, p) ==
  IF ~Placed(t, p) THEN t
  ELSE [q \in TermPaths |-> IF IsPrefix(Canon(p), q) THEN Nothing ELSE t[q]]

\* vfs_open(dst, O_CREAT | O_TRUNC), then the copy loop. A source that is the
\* destination was just emptied; a directory takes the bytes into its own node.
Copied(t, src, dst) ==
  IF Canon(src) = Canon(dst) THEN [t EXCEPT ![Canon(dst)].data = 0]
  ELSE IF Canon(dst) = <<>> THEN t
  ELSE [Made(t, dst, NewFile) EXCEPT ![Canon(dst)].data = At(t, src).data]

Openable(t, p) == At(t, p) # Nothing \/ Placed(t, p)

(***************************************************************************)
(* The desktop's terminal: commands                                        *)
(***************************************************************************)
term_make_path(cwd, arg) ==
  CASE arg.at = "none" -> cwd
    [] arg.at = "home" -> HOME_PATH \o arg.path
    [] arg.at = "abs"  -> arg.path
    [] arg.at = "up"   -> Append(cwd, "..")
    [] arg.at = "rel"  -> cwd \o arg.path

\* term_make_path(src, src, ...) of cp and mv: input and output are one buffer. An
\* absolute path is copied onto itself; in the other cases the text put first
\* overwrites the argument and is repeated up to the end of the buffer, which
\* names no file.
SamePath(arg) == IF arg.at = "abs" THEN {arg.path} ELSE {}

\* What shell_exec leaves in <<tree, cwd>>.
shell_exec(t, cwd, c) ==
  LET a == term_make_path(cwd, c.a)
      b == term_make_path(cwd, c.b)
      srcs == {s \in SamePath(c.a) : At(t, s).kind = "file" /\ Openable(t, b)}
  IN  CASE c.op = "mkdir" -> <<Made(t, a, NewDir), cwd>>
        [] c.op = "touch" -> <<Made(t, a, NewFile), cwd>>
        [] c.op = "rm"    -> <<Unlinked(t, a), cwd>>
        [] c.op = "cp"    -> <<IF srcs = {} THEN t ELSE Copied(t, CHOOSE s \in srcs : TRUE, b), cwd>>
        [] c.op = "mv"    -> <<IF srcs = {} THEN t
                               ELSE LET s == CHOOSE s \in srcs : TRUE IN Unlinked(Copied(t, s, b), s), cwd>>
        [] c.op = "cd"    -> <<t, CASE c.a.at = "none" -> <<>>
                                    [] c.a.at = "up" -> IF cwd = <<>> THEN cwd ELSE Front(cwd)
                                    [] OTHER -> IF At(t, a).kind = "dir" THEN a ELSE cwd>>
        [] OTHER          -> <<t, cwd>>

(***************************************************************************)
(* The desktop's terminal: line editor and history                         *)
(***************************************************************************)
Buf == 1 .. LINE_CAP + 1
Zeroed == [i \in Buf |-> NUL]
strlen(b) == Min({i \in Buf : b[i] = NUL}) - 1
Loaded(s) == [i \in Buf |-> IF i <= Len(s) THEN s[i] ELSE NUL]      \* strncpy pads with zeros

\* The line as Enter ends it.
Line(t) == SubSeq([i \in Buf |-> t.buf[i]], 1, t.len)

hist_push(t, s) ==
  IF s = <<>> \/ (t.count > 0 /\ t.hist[(t.head - 1 + TERM_HIST_MAX) % TERM_HIST_MAX] = s) THEN t
  ELSE [t EXCEPT !.hist[t.head] = s, !.head = (@ + 1) % TERM_HIST_MAX,
                 !.count = Min({@ + 1, TERM_HIST_MAX})]

\* The history entry that position p of the browsing shows.
Slot_newer(t, p) == (t.head - p + (TERM_HIST_MAX * 2)) % TERM_HIST_MAX

Slot(t, p) == (t.head - 1 - p + (TERM_HIST_MAX * 2)) % TERM_HIST_MAX

\* line_buf replaced, its length taken from its first NUL.
Shown(t, b) == [t EXCEPT !.buf = b, !.len = strlen(b)]

term_char(c) ==
  /\ term.len < LINE_CAP
  /\ term' = [term EXCEPT !.buf[term.len + 1] = c, !.len = @ + 1, !.pos = -1]
  /\ UNCHANGED <<ran, old, oldran, kcwd, tfs>>

term_backspace ==
  /\ term.len > 0
  /\ term' = [term EXCEPT !.len = @ - 1]
  /\ UNCHANGED <<ran, old, oldran, kcwd, tfs>>

\* Ctrl+C.
term_cancel ==
  /\ term' = [term EXCEPT !.len = 0, !.buf = Zeroed, !.pos = -1]
  /\ UNCHANGED <<ran, old, oldran, kcwd, tfs>>

term_up ==
  /\ term.count > 0
  /\ LET pos == IF term.pos = -1 THEN 0 ELSE Min({term.pos + 1, term.count - 1})
         t == [term EXCEPT !.pos = pos, !.save = IF term.pos = -1 THEN term.buf ELSE @]
     IN  term' = Shown(t, Loaded(term.hist[Slot(term, pos)]))
  /\ UNCHANGED <<ran, old, oldran, kcwd, tfs>>

term_down ==
  /\ term.pos # -1
  /\ term' = IF term.pos = 0 THEN Shown([term EXCEPT !.pos = -1], term.save)
             ELSE Shown([term EXCEPT !.pos = @ - 1], Loaded(term.hist[Slot(term, term.pos - 1)]))
  /\ UNCHANGED <<ran, old, oldran, kcwd, tfs>>

LastOf(s, n) == SubSeq(s, Max({1, Len(s) - n + 1}), Len(s))

term_enter ==
  LET s == Line(term)
      r == IF s \in DOMAIN CommandOf THEN shell_exec(tfs, term.cwd, CommandOf[s]) ELSE <<tfs, term.cwd>>
  IN  /\ Len(r[2]) <= MaxDepth
      /\ tfs' = r[1]
      /\ term' = [hist_push(term, s) EXCEPT !.len = 0, !.buf = Zeroed, !.pos = -1, !.cwd = r[2]]
      /\ ran' = IF s = <<>> \/ (ran # <<>> /\ Last(ran) = s) THEN ran
                ELSE LastOf(Append(ran, s), TERM_HIST_MAX)
      /\ UNCHANGED <<old, oldran, kcwd>>

(***************************************************************************)
(* The terminal window                                                     *)
(***************************************************************************)
\* cmd_touch, cmd_mkdir, cmd_rm, cmd_cd: what they leave in <<tree, cwd>>.
term_exec(t, cwd, c) ==
  LET a == IF c.a.at = "abs" THEN c.a.path ELSE cwd \o c.a.path IN
  CASE c.a.at = "none" -> <<t, IF c.op = "cd" THEN <<>> ELSE cwd>>
    [] c.a.at = "up"   -> <<t, IF c.op = "cd" /\ cwd # <<>> THEN Front(cwd) ELSE cwd>>
    [] c.op = "mkdir"  -> <<Made(t, a, NewDir), cwd>>
    [] c.op = "touch"  -> <<Made(t, a, NewFile), cwd>>
    [] c.op = "rm"     -> <<Unlinked(t, a), cwd>>
    [] c.op = "cd"     -> <<t, IF At(t, a).kind = "dir" THEN a ELSE cwd>>
    [] OTHER           -> <<t, cwd>>

old_char(c) ==
  /\ old' = [old EXCEPT !.input = IF Len(@) < LINE_CAP THEN Append(@, c) ELSE @, !.nav = 0]
  /\ UNCHANGED <<term, ran, oldran, kcwd, tfs>>

old_backspace ==
  /\ old' = [old EXCEPT !.input = IF @ = <<>> THEN @ ELSE Front(@), !.nav = 0]
  /\ UNCHANGED <<term, ran, oldran, kcwd, tfs>>

old_up ==
  /\ old.hist # <<>>
  /\ LET nav == CASE old.nav = 0 -> Len(old.hist) [] old.nav = 1 -> 1 [] OTHER -> old.nav - 1
     IN  old' = [old EXCEPT !.nav = nav, !.input = old.hist[nav]]
  /\ UNCHANGED <<term, ran, oldran, kcwd, tfs>>

old_down ==
  /\ old.nav # 0
  /\ old' = IF old.nav = Len(old.hist) THEN [old EXCEPT !.nav = 0, !.input = <<>>]
            ELSE [old EXCEPT !.nav = @ + 1, !.input = old.hist[old.nav + 1]]
  /\ UNCHANGED <<term, ran, oldran, kcwd, tfs>>

old_enter ==
  LET s == old.input
      full == Len(old.hist) = OLD_HIST
      r == IF s \in DOMAIN CommandOf THEN term_exec(tfs, old.cwd, CommandOf[s]) ELSE <<tfs, old.cwd>>
  IN  /\ Len(r[2]) <= MaxDepth
      /\ tfs' = r[1]
      /\ old' = [input |-> <<>>, nav |-> 0, cwd |-> r[2],
                 hist |-> IF s = <<>> THEN old.hist
                          ELSE Append(IF full THEN Tail(old.hist) ELSE old.hist, s)]
      /\ oldran' = IF s = <<>> THEN oldran ELSE LastOf(Append(oldran, s), OLD_HIST)
      /\ UNCHANGED <<term, ran, kcwd>>

(***************************************************************************)
(* The kernel shell                                                        *)
(***************************************************************************)
\* A relative path is put behind cwd, which is kept as text, ".." included.
cmd_path(c) ==
  CASE c.a.at = "abs" -> c.a.path
    [] c.a.at = "up"  -> Append(kcwd, "..")
    [] OTHER          -> kcwd \o c.a.path

cmd_cd(c) ==
  CASE c.op # "cd" -> kcwd
    [] c.a.at = "none" -> <<>>
    [] OTHER -> IF At(tfs, cmd_path(c)).kind = "dir" THEN cmd_path(c) ELSE kcwd

\* cmd_mkdir, cmd_touch and cmd_rm do nothing without an argument.
cmd_files(c) ==
  CASE c.a.at = "none"  -> tfs
    [] c.op = "mkdir"   -> Made(tfs, cmd_path(c), NewDir)
    [] c.op = "touch"   -> Made(tfs, cmd_path(c), NewFile)
    [] c.op = "rm"      -> Unlinked(tfs, cmd_path(c))
    [] OTHER            -> tfs

\* One line: parsed and dispatched.
shell_run(c) ==
  /\ Len(cmd_cd(c)) <= MaxDepth
  /\ kcwd' = cmd_cd(c)
  /\ tfs' = cmd_files(c)
  /\ UNCHANGED <<term, ran, old, oldran>>

(***************************************************************************)
(* Specification                                                           *)
(***************************************************************************)
TermInit ==
  /\ term = [buf |-> Zeroed, len |-> 0, hist |-> [i \in 0 .. TERM_HIST_MAX - 1 |-> <<>>],
             count |-> 0, head |-> 0, pos |-> -1, save |-> Zeroed, cwd |-> <<>>]
  /\ old = [input |-> <<>>, hist |-> <<>>, nav |-> 0, cwd |-> <<>>]
  /\ ran = <<>> /\ oldran = <<>> /\ kcwd = <<>>
  /\ tfs = [p \in TermPaths |-> IF p = <<"motd">> THEN [kind |-> "file", data |-> 1] ELSE Nothing]

EditNext ==
  \/ \E c \in Glyphs : term_char(c)
  \/ term_backspace \/ term_cancel \/ term_up \/ term_down \/ term_enter

OldNext ==
  \/ \E c \in Glyphs : old_char(c)
  \/ old_backspace \/ old_up \/ old_down \/ old_enter
  \/ \E s \in DOMAIN CommandOf : shell_run(CommandOf[s])

TermNext == EditNext \/ OldNext

TermSpec == TermInit /\ [][TermNext]_termvars

(***************************************************************************)
(* Properties                                                              *)
(***************************************************************************)
\* Browsing shows the right command: after Up or Down leaves a terminal at a place
\* in its history, its line is the command run that many commands ago, also once
\* the ring of the one (consecutive repeats merged) has wrapped and the array of the
\* other has shifted (surfaces/terminal.c:753-765, 853-901; apps/terminal.c:579-587,
\* 660-679).
HistoryBrowsed ==
  [][/\ (term_up \/ term_down) /\ term'.pos >= 0 => Line(term') = ran[Len(ran) - term'.pos]
     /\ (old_up \/ old_down) /\ old'.nav > 0 => old'.input = oldran[old'.nav]]_termvars
================================================================================
