-------------------------------- MODULE Accounts --------------------------------
(***************************************************************************)
(* User accounts (kernel/users.c), the login screen in front of them       *)
(* (services/login.c) and the audit log (kernel/secmon.c).                 *)
(*                                                                         *)
(* A text is a sequence of characters. A line of the account database is   *)
(* the sequence of its fields: no field holds a ':' or a line feed, and 16 *)
(* accounts of maximal length fit the 4096-byte buffers of load_db and     *)
(* users_save. The login loop reads one character per turn, or none.       *)
(***************************************************************************)
EXTENDS Integers, Sequences, SequencesExt

CONSTANTS USERS_MAX, FIELD_MAX,
          Letters,       \* printable characters
          Hash(_),       \* the 16 hexadecimal digits of a password
          SYSTEM, USER, AETHEROS,   \* the texts "system", "user" and "aetheros"
          NewNames, NewPasswords,
          SECMON_LOG_SIZE, Tasks, MaxAudits,
          MaxTyped,      \* bound on characters typed
          MaxPending     \* bound on characters waiting for the login screen

VARIABLES
  users,    \* g_users[0 .. g_count - 1]
  file,     \* the lines of /sys/users/db
  form,     \* [user, pass, active, error, prev, prev_enter] of the login screen
  screen,   \* "login" or "session"
  username, \* login_username
  pending,  \* characters in the keyboard buffer
  typed,    \* number of characters typed so far
  entered,  \* characters taken for the password since it was last cleared
  genuine,  \* the last login named an account of the database and gave its password
  audit,    \* [buf, head, count, policy, writing] of the audit log
  overlap   \* an event was recorded while another was being recorded

accvars == <<users, file, form, screen, username, pending, typed, entered, genuine>>
auditvars == <<audit, overlap>>

NOCHAR == "nul"
TAB == "tab"
ENTER == "enter"
BACKSPACE == "backspace"
SYSTEM_UID == 0

(***************************************************************************)
(* The database text                                                       *)
(***************************************************************************)
uint_to_str[n \in Nat] == IF n < 10 THEN <<n>> ELSE Append(uint_to_str[n \div 10], n % 10)
str_to_uint(s) == FoldLeft(LAMBDA v, d : 10 * v + d, 0, s)

Flag(b) == IF b THEN "1" ELSE "0"

Saved(us) == [i \in DOMAIN us |-> <<uint_to_str[us[i].uid], uint_to_str[us[i].gid], us[i].name,
                                     us[i].pw_hash, Flag(us[i].active), Flag(us[i].locked)>>]

\* Lines without a name are passed over; the table takes USERS_MAX of the others.
load_db(lines) ==
  LET named == SelectSeq(lines, LAMBDA l : l[3] # <<>>)
      kept  == SubSeq(named, 1, IF Len(named) < USERS_MAX THEN Len(named) ELSE USERS_MAX)
  IN  [i \in DOMAIN kept |-> [uid |-> str_to_uint(kept[i][1]), gid |-> str_to_uint(kept[i][2]),
                              name |-> kept[i][3], pw_hash |-> kept[i][4],
                              active |-> kept[i][5] = "1", locked |-> kept[i][6] = "1"]]

User(uid, name, pw) ==
  [uid |-> uid, gid |-> uid, name |-> name, pw_hash |-> Hash(pw), active |-> TRUE, locked |-> FALSE]

create_defaults == <<User(SYSTEM_UID, SYSTEM, AETHEROS), User(1, USER, <<>>)>>

(***************************************************************************)
(* Accounts                                                                *)
(***************************************************************************)
\* The first active account of that name that is locked or has that password
\* decides; -1 is no uid.
users_authenticate(us, name, pw) ==
  LET deciding == SelectSeq(us, LAMBDA u : u.active /\ u.name = name /\ (u.locked \/ u.pw_hash = Hash(pw)))
  IN  IF deciding = <<>> \/ Head(deciding).locked THEN -1 ELSE Head(deciding).uid

\* Every change ends with users_save.
Stored(us) ==
  /\ users' = us /\ file' = Saved(us)
  /\ UNCHANGED <<form, screen, username, pending, typed, entered, genuine>>

users_create(name, pw) ==
  /\ Len(users) < USERS_MAX
  /\ \A i \in DOMAIN users : users[i].name # name
  /\ LET max_uid == FoldLeft(LAMBDA m, u : IF u.uid > m THEN u.uid ELSE m, 0, users)
     IN  Stored(Append(users, User(max_uid + 1, name, pw)))

\* The first account with that uid.
Entry(uid) == {i \in DOMAIN users : /\ users[i].uid = uid
                                    /\ \A j \in DOMAIN users : users[j].uid = uid => i <= j}

users_chpasswd(uid, old, new) ==
  \E i \in Entry(uid) :
    /\ uid # SYSTEM_UID => users[i].pw_hash = Hash(old)
    /\ Stored([users EXCEPT ![i].pw_hash = Hash(new)])

users_lock(uid) == \E i \in Entry(uid) : Stored([users EXCEPT ![i].locked = TRUE])

users_unlock(uid) == \E i \in Entry(uid) : Stored([users EXCEPT ![i].locked = FALSE])

(***************************************************************************)
(* The login screen                                                        *)
(***************************************************************************)
Fresh == [user |-> USER, pass |-> <<>>, active |-> "user", error |-> FALSE, prev |-> NOCHAR,
          prev_enter |-> FALSE]

key(c) ==
  /\ typed < MaxTyped /\ Len(pending) < MaxPending
  /\ typed' = typed + 1
  /\ pending' = Append(pending, c)
  /\ UNCHANGED <<users, file, form, screen, username, entered, genuine>>

\* A character typed into a field, a backspace included.
Edited(text, c) ==
  CASE c = BACKSPACE -> IF text = <<>> THEN text ELSE Front(text)
    [] Len(text) < FIELD_MAX -> Append(text, c)
    [] OTHER -> text


Refused(f) == [f EXCEPT !.error = TRUE, !.pass = <<>>]

\* genuine is history: the saved account, and what was typed for this attempt.
try_login(f) ==
  LET ok == f.user # <<>> /\ users_authenticate(users, f.user, f.pass) >= 0
  IN  /\ genuine' = (ok => \E i \in DOMAIN load_db(file) :
                            LET u == load_db(file)[i]
                            IN  u.name = f.user /\ u.active /\ ~u.locked
                                /\ u.pw_hash = Hash(FoldLeft(Edited, <<>>, entered)))
      /\ screen' = IF ok THEN "session" ELSE "login"
      /\ username' = IF ok THEN f.user ELSE username
      /\ form' = IF ok THEN f ELSE Refused(f)
      /\ entered' = <<>>

\* What a turn of the loop does with a character that differs from the last turn's.
login_char(c, f) ==
  CASE c = TAB -> /\ form' = [f EXCEPT !.active = IF @ = "user" THEN "pass" ELSE "user", !.error = FALSE]
                  /\ UNCHANGED <<screen, username, entered, genuine>>
    [] c = ENTER /\ form.prev_enter -> form' = f /\ UNCHANGED <<screen, username, entered, genuine>>
    [] c = ENTER /\ f.active = "user" ->
         /\ form' = [f EXCEPT !.active = "pass", !.prev_enter = TRUE]
         /\ UNCHANGED <<screen, username, entered, genuine>>
    [] c = ENTER /\ f.active = "pass" -> try_login([f EXCEPT !.prev_enter = TRUE])
    [] OTHER -> /\ form' = [f EXCEPT ![f.active] = Edited(@, c), !.prev_enter = FALSE,
                                     !.error = @ /\ Edited(f[f.active], c) = f[f.active]]
                /\ entered' = IF f.active = "pass" THEN Append(entered, c) ELSE entered
                /\ UNCHANGED <<screen, username, genuine>>

\* One turn: a character equal to the last turn's, or none, only clears prev_enter.
login_turn ==
  /\ screen = "login"
  /\ IF pending = <<>> \/ Head(pending) = form.prev
     THEN /\ form' = [form EXCEPT !.prev_enter = FALSE, !.prev = IF pending = <<>> THEN NOCHAR ELSE @]
          /\ UNCHANGED <<screen, username, entered, genuine>>
     ELSE login_char(Head(pending), [form EXCEPT !.prev = Head(pending)])
  /\ pending' = IF pending = <<>> THEN pending ELSE Tail(pending)
  /\ UNCHANGED <<users, file, typed>>

\* Logging out shows the form again (are.c:660-668); what waits in the keyboard
\* buffer is read by it.
login_run ==
  /\ screen = "session"
  /\ screen' = "login" /\ form' = Fresh /\ entered' = <<>>
  /\ UNCHANGED <<users, file, username, pending, typed, genuine>>

(***************************************************************************)
(* The audit log: _record fills the slot, then advances head and count;    *)
(* another task may run in between.                                        *)
(***************************************************************************)
AuditPolicies == {"deny_irqcap", "log_all_ipc"}
NoEvent == [seq |-> -1, type |-> "none"]

\* secmon_audit_ipc drops sends unless the policy asks for them.
Recorded(type) == type = "ipc_send" => "log_all_ipc" \in audit.policy

\* Mutant of _record: the slot after the head is filled.
_record_next(t, type) ==
  /\ audit.count < MaxAudits /\ t \notin audit.writing /\ Recorded(type)
  /\ audit' = [audit EXCEPT !.buf[(audit.head + 1) % SECMON_LOG_SIZE] = [seq |-> audit.count, type |-> type],
                            !.writing = @ \cup {t}]
  /\ overlap' = (overlap \/ audit.writing # {})
  /\ UNCHANGED accvars

_record(t, type) ==
  /\ audit.count < MaxAudits /\ t \notin audit.writing /\ Recorded(type)
  /\ audit' = [audit EXCEPT !.buf[audit.head % SECMON_LOG_SIZE] = [seq |-> audit.count, type |-> type],
                            !.writing = @ \cup {t}]
  /\ overlap' = (overlap \/ audit.writing # {})
  /\ UNCHANGED accvars

_record_end(t) ==
  /\ t \in audit.writing
  /\ audit' = [audit EXCEPT !.head = @ + 1, !.count = @ + 1, !.writing = @ \ {t}]
  /\ UNCHANGED <<overlap, accvars>>

secmon_set_policy(flags) ==
  /\ audit' = [audit EXCEPT !.policy = flags]
  /\ UNCHANGED <<overlap, accvars>>

\* What secmon_dump_log lists: the numbers of the last events.
Listed == (IF audit.count > SECMON_LOG_SIZE THEN audit.count - SECMON_LOG_SIZE ELSE 0) .. audit.count - 1

secmon_init == [buf |-> [i \in 0 .. SECMON_LOG_SIZE - 1 |-> IF i = 0 THEN [seq |-> 0, type |-> "boot"] ELSE NoEvent],
                head |-> 1, count |-> 1, policy |-> {"deny_irqcap"}, writing |-> {}]

(***************************************************************************)
(* Behaviour                                                               *)
(***************************************************************************)
\* users_init finds a database from an earlier boot or none.
users_init(lines) == LET us == load_db(lines) IN IF us = <<>> THEN create_defaults ELSE us

AccInit ==
  /\ users = users_init(<<>>) /\ file = Saved(users)
  /\ form = Fresh /\ screen = "login" /\ username = <<>>
  /\ pending = <<>> /\ typed = 0 /\ entered = <<>> /\ genuine = TRUE
  /\ audit = secmon_init /\ overlap = FALSE

AccountNext ==
  \/ \E n \in NewNames, p \in NewPasswords : users_create(n, p)
  \/ \E uid \in 0 .. USERS_MAX :
       \/ users_lock(uid) \/ users_unlock(uid)
       \/ \E old, new \in NewPasswords : users_chpasswd(uid, old, new)
  \/ \E c \in Letters \cup {TAB, ENTER, BACKSPACE} : key(c)
  \/ login_turn \/ login_run

AuditNext ==
  \/ \E t \in Tasks : \/ \E type \in {"cap", "ipc_send", "deny"} : _record(t, type)
                      \/ _record_end(t)
  \/ \E flags \in SUBSET AuditPolicies : secmon_set_policy(flags)

AccNext == (AccountNext /\ UNCHANGED auditvars) \/ AuditNext

AccSpec == AccInit /\ [][AccNext]_<<accvars, auditvars>>


\* After any number of wraps the audit log lists the last events under their own
\* numbers, as long as no two tasks recorded at the same time (secmon.c:60-76,
\* 153-185); nothing in _record keeps a second task out.
AuditListed ==
  ~overlap /\ audit.writing = {} => \A i \in Listed : audit.buf[i % SECMON_LOG_SIZE].seq = i
================================================================================
