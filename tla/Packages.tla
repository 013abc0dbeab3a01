--------------------------------- MODULE Packages ---------------------------------
(***************************************************************************)
(* The two package managers: apkg (kernel/apkg.c: a catalogue of the files *)
(* in a repository directory, a database of what is installed, saved as    *)
(* text, and the launch of an installed program) and pkg (kernel/pkg.c:    *)
(* archives extracted into the file system and a table of what they put    *)
(* there).                                                                 *)
(*                                                                         *)
(* A package file is a record of what the code reads from it: magic, fmt   *)
(* (format version), name, ver, deps, whole (the payload is all there),    *)
(* size, crc (the checksum agrees), elf (elf_validate and elf_load accept  *)
(* the payload), caps. Versions are triples, <<>> an empty min_ver. Files  *)
(* of the repository may be replaced at any time. apkg_remove and          *)
(* pkg_build have no caller and are left out.                              *)
(***************************************************************************)
EXTENDS Integers, Sequences, SequencesExt

CONSTANTS Listing,           \* the paths of the repository directory, in readdir order
          Images,            \* what a package file can hold
          APKG_CATALOG_MAX, APKG_DB_MAX, APKG_CAP_MAX, PROC_MAX_CAPS,
          LOAD_MAX,          \* characters apkg_load reads (4095)
          Archives,          \* .aur archives: [name, good, files]
          TreePaths,         \* the paths those archives can name
          PKG_MAX_INSTALLED,
          MaxLaunches        \* bound on the programs launched

VARIABLES
  repo,      \* path -> image, or NoImage
  catalog,   \* g_catalog[0 .. g_catalog_count - 1]
  db,        \* g_db[0 .. g_db_count - 1]; needs: the package's dependencies (the model's own)
  saved,     \* the records of /sys/pkg/db
  launched,  \* the processes apkg_exec handed to the scheduler
  pkgdb,     \* g_pkg_db: count, packages
  tree       \* path -> "none", "dir" or "file"

pkgvars == <<repo, catalog, db, saved, launched, pkgdb, tree>>

APKG_FMT_MIN == 1
APKG_FMT_VERSION == 2
NoImage == [magic |-> FALSE, fmt |-> 0, name |-> "", ver |-> <<>>, deps |-> {}, whole |-> FALSE,
            size |-> 0, crc |-> FALSE, elf |-> FALSE, caps |-> <<>>]
NoPkg == [valid |-> FALSE, name |-> "", files |-> <<>>]
PkgSlots == 1 .. PKG_MAX_INSTALLED

(***************************************************************************)
(* apkg                                                                    *)
(***************************************************************************)
\* One turn of the scan: a readable package of the current format whose name is new.
Catalogued(c, p) ==
  LET h == repo[p]
      wanted == /\ Len(c) < APKG_CATALOG_MAX
                /\ h.magic /\ h.fmt = APKG_FMT_VERSION
                /\ \A i \in DOMAIN c : c[i].name # h.name
  IN  IF ~wanted THEN c
      ELSE Append(c, [name |-> h.name, ver |-> h.ver, path |-> p,
                      caps |-> IF Len(h.caps) <= APKG_CAP_MAX THEN h.caps ELSE <<>>])

apkg_repo_scan ==
  /\ catalog' = FoldLeft(Catalogued, catalog, Listing)
  /\ UNCHANGED <<repo, db, saved, launched, pkgdb, tree>>

find_installed(name) == {i \in DOMAIN db : db[i].name = name}

\* The first component that differs decides.
semver_cmp(a, b) ==
  LET d == {i \in 1 .. 3 : a[i] # b[i]}
  IN  IF d = {} THEN 0 ELSE a[Min(d)] - b[Min(d)]


\* One dependency: installed, and at least at min_ver if there is one.
Satisfied(d) ==
  \E i \in find_installed(d.name) : d.min = <<>> \/ semver_cmp(db[i].ver, d.min) >= 0

\* The text apkg_save writes: one line "n,v,a\n" per record. The buffer has room
\* for every line, so the file holds the whole database.
apkg_save(d) == [i \in DOMAIN d |-> [name |-> d[i].name, ver |-> d[i].ver]]

\* What apkg_load makes of the first LOAD_MAX characters of that text, a line being
\* six of them: the whole lines, and a last one cut after its first comma.
apkg_load(text) ==
  LET whole == Min({Len(text), LOAD_MAX \div 6})
      rest == IF whole = Len(text) THEN 0 ELSE LOAD_MAX % 6
  IN  SubSeq(text, 1, whole)
        \o (IF rest < 2 THEN <<>>
            ELSE <<[name |-> text[whole + 1].name,
                    ver |-> IF rest = 2 THEN <<0, 0, 0>> ELSE text[whole + 1].ver]>>)

\* apkg_install on the bytes of a file: every check that refuses it, then the record.
apkg_install(h) ==
  /\ h.magic /\ h.fmt \in APKG_FMT_MIN .. APKG_FMT_VERSION
  /\ find_installed(h.name) = {}
  /\ Len(db) < APKG_DB_MAX
  /\ h.whole
  /\ h.size > 0 => h.crc
  /\ \A d \in h.deps : Satisfied(d)
  /\ db' = Append(db, [name |-> h.name, ver |-> h.ver, needs |-> h.deps])
  /\ saved' = apkg_save(db')
  /\ UNCHANGED <<repo, catalog, launched, pkgdb, tree>>

\* By the name the catalogue knows; what is installed is what the file holds now.
apkg_repo_install_by_name(name) ==
  \E i \in DOMAIN catalog : catalog[i].name = name /\ apkg_install(repo[catalog[i].path])

\* The tokens minted for a manifest: null entries skipped, as many as fit; the
\* table may fill up after n of them.
Granted(h, n) ==
  LET want == IF h.fmt >= 2 /\ Len(h.caps) <= APKG_CAP_MAX
              THEN SelectSeq(h.caps, LAMBDA c : c.type # 0 /\ c.rights # 0) ELSE <<>>
  IN  SubSeq(want, 1, Min({Len(want), PROC_MAX_CAPS, n}))

\* Installed, catalogued, and a payload that loads. Any failure (also of the
\* process, its segments or its stack) leaves nothing behind.
apkg_exec(name, n) ==
  /\ Len(launched) < MaxLaunches
  /\ find_installed(name) # {}
  /\ \E i \in DOMAIN catalog :
       LET h == repo[catalog[i].path] IN
         /\ catalog[i].name = name
         /\ h.magic /\ h.size > 0 /\ h.whole /\ h.elf
         /\ launched' = Append(launched, [name |-> name, caps |-> Granted(h, n)])
  /\ UNCHANGED <<repo, catalog, db, saved, pkgdb, tree>>

\* A file of the repository is written, replaced or removed (any process can).
repo_write(p, h) ==
  /\ repo' = [repo EXCEPT ![p] = h]
  /\ UNCHANGED <<catalog, db, saved, launched, pkgdb, tree>>

(***************************************************************************)
(* pkg                                                                     *)
(***************************************************************************)
pkg_find(name) == {s \in PkgSlots : pkgdb.packages[s].valid /\ pkgdb.packages[s].name = name}

\* Something can be made at a path whose directory is there.
HasParent(t, p) == Len(p) = 1 \/ t[Front(p)] = "dir"

\* One entry of the file table: vfs_mkdir or vfs_open with CREAT; a path that is
\* already there stays what it is, one that cannot be made is skipped.
Extracted(t, f) ==
  IF t[f.path] # "none" \/ ~HasParent(t, f.path) THEN t
  ELSE [t EXCEPT ![f.path] = f.type]

\* The files are extracted first; with no room in the table the package is then
\* not registered and its files stay.
pkg_install(a) ==
  LET slots == {s \in PkgSlots : ~pkgdb.packages[s].valid} IN
  /\ a.good                                 \* magic, pkg_verify, whole file table
  /\ pkg_find(a.name) = {}
  /\ tree' = FoldLeft(Extracted, tree, a.files)
  /\ pkgdb' = IF slots = {} THEN pkgdb
              ELSE [count |-> pkgdb.count + 1,
                    packages |-> [pkgdb.packages EXCEPT ![Min(slots)] =
                                    [valid |-> TRUE, name |-> a.name,
                                     files |-> [i \in DOMAIN a.files |-> a.files[i].path]]]]
  /\ UNCHANGED <<repo, catalog, db, saved, launched>>

\* vfs_unlink of one path: a directory goes with all that is under it.
Removed(t, p) ==
  IF ~HasParent(t, p) THEN t
  ELSE [q \in TreePaths |-> IF IsPrefix(p, q) THEN "none" ELSE t[q]]

pkg_uninstall(name) ==
  \E s \in pkg_find(name) :
    /\ tree' = FoldLeft(Removed, tree, pkgdb.packages[s].files)
    /\ pkgdb' = [count |-> IF pkgdb.count > 0 THEN pkgdb.count - 1 ELSE 0,
                 packages |-> [pkgdb.packages EXCEPT ![s].valid = FALSE]]
    /\ UNCHANGED <<repo, catalog, db, saved, launched>>

(***************************************************************************)
(* Specification                                                           *)
(***************************************************************************)
PkgNames == {h.name : h \in Images}

\* apkg_init and pkg_init on a fresh ramfs: no database file, and the repository
\* files that are there are scanned.
PkgInit ==
  /\ repo \in [ToSet(Listing) -> Images \cup {NoImage}]
  /\ catalog = FoldLeft(Catalogued, <<>>, Listing)
  /\ db = <<>> /\ saved = <<>> /\ launched = <<>>
  /\ pkgdb = [count |-> 0, packages |-> [s \in PkgSlots |-> NoPkg]]
  /\ tree = [p \in TreePaths |-> "none"]

ApkgNext ==
  \/ apkg_repo_scan
  \/ \E name \in PkgNames : \/ apkg_repo_install_by_name(name)
                            \/ \E n \in 0 .. PROC_MAX_CAPS : apkg_exec(name, n)
  \/ \E p \in ToSet(Listing), h \in Images \cup {NoImage} : repo_write(p, h)

ArchiveNext == \E a \in Archives : pkg_install(a) \/ pkg_uninstall(a.name)

PkgNext == ApkgNext \/ ArchiveNext

PkgSpec == PkgInit /\ [][PkgNext]_pkgvars

================================================================================
