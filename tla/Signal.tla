------------------------------- MODULE Signal -------------------------------
(***************************************************************************)
(* The signals of one process: kernel/signal.c and the end of               *)
(* syscall_handler.  Other processes send at any time; the process itself   *)
(* runs user code, enters the kernel by a system call, and has its pending  *)
(* signals delivered on the way out.  Delivery is one step up to the point  *)
(* where it stops the process and yields; when the process is woken the     *)
(* loop goes on with the set of signals it computed before.                 *)
(***************************************************************************)
EXTENDS Integers, Sequences, FiniteSets, FiniteSetsExt

CONSTANTS
    Sigs,              \* the signals in use, a subset of 1 .. NSIG - 1
    Changeable,        \* the signals this program changes the action or mask of
    MaxFrames          \* bound: nobody sends to a program nested this deep

SIGINT == 2
SIGQUIT == 3
SIGKILL == 9
SIGCHLD == 17
SIGCONT == 18
SIGSTOP == 19
SIGTSTP == 20
SIGTTIN == 21
SIGTTOU == 22
SIGWINCH == 28
NSIG == 32

ASSUME SignalConstants ==
    /\ Sigs \subseteq 1 .. NSIG - 1 /\ Changeable \subseteq Sigs
    /\ MaxFrames \in Nat

VARIABLES
    sig,               \* signal_state_t
    pstate,            \* "user", "stopped", "woken" (ready, still in the kernel) or "dead"
    rest,              \* deliverable signals the suspended loop has yet to look at
    rip,               \* 0 in the main program, s in the handler of s
    frames             \* sig_frame_t records on the user stack

signal_vars == <<sig, pstate, rest, rip, frames>>

\* sa_handler and the flags that matter.
SIG_DFL == "default"
SIG_IGN == "ignore"
Handlers == {"handler", "handler, SA_NODEFER", "handler, SA_RESETHAND"}
Actions == {SIG_DFL, SIG_IGN} \cup Handlers

SignalInit ==
    /\ sig = [pending |-> {}, blocked |-> {},
              actions |-> [s \in Sigs |-> IF s \in {SIGCHLD, SIGCONT, SIGWINCH} THEN SIG_IGN ELSE SIG_DFL]]
    /\ pstate = "user" /\ rest = {} /\ rip = 0 /\ frames = <<>>

\* Who is woken by s: the stopped process, unless it blocks s.
Wakes(s) ==
    /\ pstate = "stopped"
    /\ s \in {SIGKILL, SIGSTOP} \/ s \notin sig.blocked

signal_send_proc(s) ==
    /\ pstate # "dead"
    /\ sig' = [sig EXCEPT !.pending = @ \cup {s}]
    /\ pstate' = IF Wakes(s) THEN "woken" ELSE pstate
    /\ UNCHANGED <<rest, rip, frames>>

\* What the loop of signal_deliver_pending drops without any effect.
Dropped(ss, s) == s # SIGKILL /\ s # SIGSTOP /\ (ss.actions[s] = SIG_IGN \/ s = SIGCONT)

\* Mutant of Taken: the loop clears every deliverable signal up front.
Taken_all(ss, D) == D

\* The first signal of D that is not dropped, as a set of at most one, and the
\* signals the loop has cleared once it acts on it.
First(ss, D) == {s \in D : ~Dropped(ss, s) /\ \A t \in D : t < s => Dropped(ss, t)}
Taken(ss, D) == {s \in D : \A f \in First(ss, D) : s <= f}

\* The mask while the handler of s runs.
Masked(ss, s) == IF ss.actions[s] = "handler, SA_NODEFER" THEN ss.blocked ELSE ss.blocked \cup {s}

\* signal_default_action: the signals that stop the process, and those it ignores;
\* every other one terminates it.
Stopping == {SIGSTOP, SIGTSTP, SIGTTIN, SIGTTOU}
Ignoring == {SIGCHLD, SIGCONT, SIGWINCH}

Leave(left, state, remaining) ==
    /\ sig' = left /\ pstate' = state /\ rest' = remaining
    /\ UNCHANGED <<rip, frames>>

Enter_handler(left, s) ==
    /\ sig' = [left EXCEPT !.blocked = Masked(left, s),
                           !.actions[s] = IF @ = "handler, SA_RESETHAND" THEN SIG_DFL ELSE @]
    /\ pstate' = "user" /\ rest' = {}
    /\ frames' = Append(frames, [signo |-> s, rip |-> rip])
    /\ rip' = s

\* signal_deliver_pending from the state ss with D yet to look at, called with
\* the frame of a ring-3 process.
Deliver(ss, D) ==
    LET left == [ss EXCEPT !.pending = @ \ Taken(ss, D)]
    IN  \/ First(ss, D) = {} /\ Leave(left, "user", {})
        \/ \E s \in First(ss, D) :
            \/ s = SIGKILL /\ Leave(left, "dead", {})
            \/ s = SIGSTOP /\ Leave(left, "stopped", {t \in D : t > s})
            \/ /\ s \notin {SIGKILL, SIGSTOP} /\ ss.actions[s] = SIG_DFL
               /\ Leave(left, CASE s \in Stopping -> "stopped" [] s \in Ignoring -> "user"
                               [] OTHER -> "dead", {})
            \/ ss.actions[s] \in Handlers /\ Enter_handler(left, s)

\* A system call that leaves the signal state at ss, and the way out.
Return(ss) == pstate = "user" /\ Deliver(ss, ss.pending \ ss.blocked)

syscall == Return(sig)

sys_sigaction(s, act) ==
    /\ s \notin {SIGKILL, SIGSTOP}
    /\ Return([sig EXCEPT !.actions[s] = act])

\* "SIGKILL and SIGSTOP can never be blocked".
Maskable(set) == set \ {SIGKILL, SIGSTOP}

sys_sigprocmask(how, set) ==
    LET mask == Maskable(set)
        blocked == CASE how = "block" -> sig.blocked \cup mask
                     [] how = "unblock" -> sig.blocked \ mask
                     [] how = "setmask" -> mask
    IN  Return([sig EXCEPT !.blocked = blocked])

\* The process runs again inside signal_deliver_pending.
resume == pstate = "woken" /\ Deliver(sig, rest)

\* The handler returns into the trampoline, which enters the kernel; the way out
\* of this system call delivers nothing, and the mask stays as it is.
signal_do_sigreturn ==
    /\ pstate = "user" /\ frames # <<>>
    /\ rip' = frames[Len(frames)].rip
    /\ frames' = SubSeq(frames, 1, Len(frames) - 1)
    /\ UNCHANGED <<sig, pstate, rest>>

Runs ==
    \/ syscall \/ resume \/ signal_do_sigreturn
    \/ \E s \in Changeable, act \in Actions : sys_sigaction(s, act)
    \/ \E how \in {"block", "unblock", "setmask"}, s \in Changeable : sys_sigprocmask(how, {s})

sys_kill(s) == Len(frames) < MaxFrames /\ signal_send_proc(s)

SignalNext == Runs \/ \E s \in Sigs : sys_kill(s)

(***************************************************************************)
(* Properties                                                               *)
(***************************************************************************)
\* A signal that stops being pending has had its effect in the same step: it
\* killed or stopped the process, its handler is entered, or it is one the
\* process ignores.  No signal is swallowed by the delivery of another one.
SignalsTakeEffect ==
    [][\A s \in sig.pending \ sig'.pending :
          \/ pstate' = "dead"
          \/ pstate' = "stopped" /\ s \in Stopping
          \/ frames' # frames /\ frames'[Len(frames')].signo = s
          \/ sig'.actions[s] = SIG_IGN
          \/ s \in Ignoring]_signal_vars
=============================================================================
