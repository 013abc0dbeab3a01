----------------------------- MODULE MCDesktop -----------------------------
(***************************************************************************)
(* The programs of the desktop, checked side by side: a behaviour exercises *)
(* one part and the others stay as they started, so that the states add up. *)
(* The parts are the keyboard and the mouse, the render engine, the window  *)
(* manager alone and under the launcher's taskbar, the packages of both     *)
(* formats, the two command lines, the compositor with the input service,   *)
(* the accounts and the audit log, the two file browsers and the editor.    *)
(***************************************************************************)
EXTENDS Input, Aether, Dock, Packages, Terminal, Display, Accounts, Files, Editor

VARIABLE part

\* The applications that are always registered, in the order of their slots.
MCCore == <<"terminal", "explorer">>

\* A library in two versions, a program that needs the newer one, and an image
\* of the first format with a bad checksum that depends on itself.
Img(f, n, v, d, c) ==
    [magic |-> TRUE, fmt |-> f, name |-> n, ver |-> v, deps |-> d, whole |-> TRUE,
     size |-> 1, crc |-> c, elf |-> TRUE,
     caps |-> IF f = 2 THEN <<[type |-> 0, rights |-> 1], [type |-> 7, rights |-> 2]>>
              ELSE <<>>]
Dep(n, v) == [name |-> n, min |-> v]
MCImages == {Img(2, "lib", <<1, 2, 0>>, {}, TRUE), Img(2, "lib", <<1, 10, 0>>, {}, TRUE),
             Img(2, "app", <<1, 0, 0>>, {Dep("lib", <<1, 9, 0>>)}, TRUE),
             Img(1, "app", <<1, 0, 0>>, {Dep("lib", <<>>), Dep("app", <<>>)}, FALSE)}
MCListing == <<"p1", "p2">>

\* Archives that share a directory, one of them damaged.
ArchiveFile(p, t) == [path |-> p, type |-> t]
MCArchives ==
    {[name |-> "x", good |-> TRUE, files |-> <<ArchiveFile(<<"d">>, "dir"), ArchiveFile(<<"d", "f">>, "file")>>],
     [name |-> "y", good |-> TRUE, files |-> <<ArchiveFile(<<"d", "g">>, "file")>>],
     [name |-> "z", good |-> FALSE, files |-> <<ArchiveFile(<<"d", "f">>, "file")>>]}
MCTree == {<<"d">>, <<"d", "f">>, <<"d", "g">>}

\* What the lines that can be typed mean.
Arg(at, p) == [at |-> at, path |-> p]
Cmd(op, a, b) == [op |-> op, a |-> a, b |-> b]
None == Arg("none", <<>>)
MCCommands ==
    (<<"a">> :> Cmd("mkdir", Arg("abs", <<"d">>), None)) @@
    (<<"b">> :> Cmd("cd", Arg("rel", <<"d">>), None)) @@
    (<<"a", "a">> :> Cmd("cp", Arg("abs", <<"motd">>), Arg("rel", <<"f">>))) @@
    (<<"a", "b">> :> Cmd("mv", Arg("abs", <<"f">>), Arg("abs", <<"d">>))) @@
    (<<"b", "a">> :> Cmd("rm", Arg("abs", <<"d">>), None)) @@
    (<<"b", "b">> :> Cmd("cd", Arg("up", <<>>), None))
MCTermPaths == {<<"motd">>, <<"d">>, <<"f">>}
MCHome == <<"home">>

\* Account names and passwords; different passwords have different hashes.
MCHash(p) == <<"hash", p>>
MCSystem == <<"s">>
MCUser == <<"a">>
MCAetheros == <<"x">>
MCNewNames == {<<"n">>}
MCPasswords == {<<>>, <<"a">>}

\* The names in a directory and the shortcut of the file manager.
MCFileNames == <<"a", "NewFolder">>
MCSide == {<<"a">>}

\* The text the editor opens with.
MCWelcome == <<<<"w">>, <<>>>>

\* A third surface is created only with an empty queue of requests behind it.
FewRequests ==
    /\ comp'.next_id + Len(comp'.port) <= 4
    /\ comp'.next_id = 3 => \A i \in DOMAIN comp'.port : comp'.port[i].op # "create"

DesktopInit ==
    /\ part \in {"keys", "mouse", "are", "wm", "dock", "packages", "archives",
                 "shell", "oldshell", "focus", "windows", "login", "audit", "files", "explorer", "editor"}
    /\ InputInit /\ AeInit /\ DockInit /\ TermInit /\ DispInit /\ AccInit /\ FilesInit
    /\ EdInit
    /\ PkgInit /\ (part # "packages" => \A p \in DOMAIN repo : repo[p] = NoImage)

DesktopNext ==
    /\ UNCHANGED part
    /\ \/ part = "keys" /\ KeyNext
       \/ part = "mouse" /\ MouseNext
       \/ part \notin {"keys", "mouse"} /\ UNCHANGED inputvars
    /\ \/ part = "are" /\ AeNext
       \/ part # "are" /\ UNCHANGED aevars
    /\ \/ part = "wm" /\ WinNext /\ UNCHANGED dock
       \/ part = "dock" /\ DockNext
       \/ part \notin {"wm", "dock"} /\ UNCHANGED <<winvars, dock>>
    /\ \/ part = "packages" /\ ApkgNext
       \/ part = "archives" /\ ArchiveNext
       \/ part \notin {"packages", "archives"} /\ UNCHANGED pkgvars
    /\ \/ part = "shell" /\ EditNext
       \/ part = "oldshell" /\ OldNext
       \/ part \notin {"shell", "oldshell"} /\ UNCHANGED termvars
    /\ \/ part = "focus" /\ FocusNext /\ FewRequests
       \/ part = "windows" /\ WindowNext
       \/ part \notin {"focus", "windows"} /\ UNCHANGED dispvars
    /\ \/ part = "login" /\ AccountNext /\ UNCHANGED auditvars
       \/ part = "audit" /\ AuditNext
       \/ part \notin {"login", "audit"} /\ UNCHANGED <<accvars, auditvars>>
    /\ \/ part = "files" /\ (FmNext \/ OtherNext)
       \/ part = "explorer" /\ (ExNext \/ OtherNext)
       \/ part \notin {"files", "explorer"} /\ UNCHANGED filevars
    /\ \/ part = "editor" /\ EdNext
       \/ part # "editor" /\ UNCHANGED edvars

desktopvars == <<part, inputvars, aevars, winvars, dock, pkgvars, termvars, dispvars,
                 accvars, auditvars, filevars, edvars>>

DesktopSpec == DesktopInit /\ [][DesktopNext]_desktopvars
=============================================================================
