----------------------------- MODULE Scheduler -----------------------------
(***************************************************************************)
(* The single-CPU scheduler: scheduler/scheduler.c, the sleep queue of      *)
(* drivers/timer.c, process creation, exit and waitpid of                   *)
(* process/process.c, and the end-of-interrupt of interrupts/handlers.c.    *)
(*                                                                          *)
(* current_process is the kernel's idea of who runs; cpu is the thread that *)
(* really executes.  context[p] is the thread that a switch to p resumes:   *)
(* process_create puts p's own, never started thread there, context_switch  *)
(* puts there whichever thread was executing.  BOOT is the thread of        *)
(* kernel_main, which no process_t describes.                               *)
(***************************************************************************)
EXTENDS Naturals, Sequences, FiniteSets

CONSTANTS
    Procs,        \* slots of process_table
    IDLE,         \* idle_proc, one of Procs
    BOOT, NULL,
    MAX_READY,    \* slots of ready_queue (256)
    QUANTUM,      \* SCHED_DEFAULT_QUANTUM (5)
    MaxSleep,     \* bound: longest sleep, in ticks
    Sleeps,       \* threads that call timer_sleep_ticks
    Exits,        \* threads that call process_exit on themselves
    Kernel,       \* threads of processes created with kernel = true
    Kills         \* processes the terminal's kill command may name

ASSUME SchedulerConstants ==
    /\ IDLE \in Procs /\ BOOT \notin Procs /\ NULL \notin Procs \cup {BOOT}
    /\ MAX_READY \in Nat /\ MAX_READY >= Cardinality(Procs)
    /\ QUANTUM \in Nat /\ QUANTUM > 1
    /\ MaxSleep \in Nat \ {0}
    /\ IDLE \notin Sleeps \cup Exits

Threads == Procs \cup {BOOT}
VARIABLES
    state,            \* process -> proc_state_t
    process_list,     \* newest first
    parent,           \* process -> the process that created it
    ready_queue,      \* the ring between ready_head and ready_tail
    current_process,
    time_slice,
    sleep_left,       \* process -> sleep_until - tick_count, not below 0
    context,          \* process -> thread its cpu_context_t resumes
    cpu,              \* the thread executing
    pc,               \* thread -> where it is
    locals,           \* thread -> the two process pointers it holds across a step
    in_irq,           \* threads switched out inside the timer interrupt
    in_service        \* the PIC has not seen the end of the last IRQ 0

procs == <<state, process_list, parent>>
queue == <<ready_queue, current_process, time_slice, sleep_left>>
exec  == <<context, cpu, pc, locals, in_irq, in_service>>
vars  == <<procs, queue, exec>>

Entries(q) == {q[i] : i \in DOMAIN q}
Listed == Entries(process_list)

(***************************************************************************)
(* The ready queue                                                          *)
(***************************************************************************)
\* ready_enqueue: a full queue refuses the process and leaves its state alone.
enqueued(r, p) ==
    IF Len(r.q) >= MAX_READY THEN r
    ELSE [q |-> Append(r.q, p), st |-> [r.st EXCEPT ![p] = "READY"]]

\* ready_dequeue: the head, or the idle process when the queue is empty.
head(q) == IF q = <<>> THEN IDLE ELSE Head(q)
rest(q) == IF q = <<>> THEN q ELSE Tail(q)

Without(q, p) == SelectSeq(q, LAMBDA x : x # p)

\* Mutant of requeued: old goes back to the queue whatever its state.
requeued_always(r, old) == enqueued([r EXCEPT !.st[old] = "READY"], old)

\* "Re-enqueue old process if it's still runnable", as a tick and a yield do.
requeued(r, old) ==
    IF r.st[old] = "RUNNING"
    THEN enqueued([r EXCEPT !.st[old] = "READY"], old)
    ELSE r


\* The next process becomes current, with a full quantum.
select(r) ==
    /\ current_process' = head(r.q)
    /\ ready_queue' = rest(r.q)
    /\ state' = [r.st EXCEPT ![head(r.q)] = "RUNNING"]
    /\ time_slice' = [time_slice EXCEPT ![head(r.q)] = QUANTUM]

\* The processes whose sleep_until has come, in the order of process_list, go
\* through scheduler_unblock.
Due == SelectSeq(process_list, LAMBDA p : state[p] = "SLEEPING" /\ sleep_left[p] <= 1)

woken ==
    LET room == MAX_READY - Len(ready_queue)
        fit  == IF Len(Due) <= room THEN Due ELSE SubSeq(Due, 1, room)
    IN  [q |-> ready_queue \o fit,
         st |-> [p \in Procs |-> IF p \in Entries(fit) THEN "READY" ELSE state[p]]]

(***************************************************************************)
(* context_switch(old, new): the running thread is saved in old's context   *)
(* first, so a switch of a process to itself continues the same thread.     *)
(* A thread that was switched out inside the timer interrupt returns through *)
(* handle_irq, which sends the end-of-interrupt.                            *)
(***************************************************************************)
\* Mutant of context_switch: the new thread is loaded before the old is saved.
context_switch_load_first(old, new, inside_irq) ==
    LET to == context[new]
    IN  /\ context' = [context EXCEPT ![old] = to]
        /\ cpu' = to
        /\ in_irq' = (IF inside_irq THEN in_irq \cup {cpu} ELSE in_irq) \ {to}
        /\ in_service' = (inside_irq \/ in_service)

context_switch(old, new, inside_irq) ==
    LET saved   == [context EXCEPT ![old] = cpu]
        to      == saved[new]
        stopped == IF inside_irq THEN in_irq \cup {cpu} ELSE in_irq
    IN  /\ context' = saved
        /\ cpu' = to
        /\ in_irq' = stopped \ {to}
        /\ in_service' = IF to \in stopped THEN FALSE ELSE in_service \/ inside_irq

(***************************************************************************)
(* timer_irq_handler and scheduler_tick.  The interrupt is delivered where  *)
(* interrupts are enabled, unless the previous IRQ 0 is still in service.   *)
(* Between the cpu_sti of scheduler_yield and its context_switch at most    *)
(* one tick fits: the one that waited for cpu_sti.                          *)
(***************************************************************************)
TickDeliverable ==
    /\ ~in_service
    /\ pc[cpu] # "halted"
    /\ pc[cpu] = "switch" => time_slice[current_process] = QUANTUM

\* No current process: one is selected, and the interrupted thread goes on.
tick_select ==
    /\ current_process = NULL
    /\ select(woken)
    /\ UNCHANGED exec

tick_count_down ==
    /\ current_process # NULL
    /\ time_slice[current_process] > 1
    /\ time_slice' = [time_slice EXCEPT ![current_process] = @ - 1]
    /\ ready_queue' = woken.q
    /\ state' = woken.st
    /\ UNCHANGED <<current_process, exec>>

tick_preempt ==
    /\ current_process # NULL
    /\ time_slice[current_process] <= 1
    /\ LET r == requeued(woken, current_process)
       IN  /\ select(r)
           /\ context_switch(current_process, head(r.q), TRUE)
    /\ UNCHANGED <<pc, locals>>

timer_irq_handler ==
    /\ TickDeliverable
    /\ sleep_left' = [p \in Procs |-> IF sleep_left[p] > 0 THEN sleep_left[p] - 1 ELSE 0]
    /\ tick_select \/ tick_count_down \/ tick_preempt
    /\ UNCHANGED <<process_list, parent>>

(***************************************************************************)
(* What a thread does.  The idle thread only halts until the next interrupt. *)
(***************************************************************************)
At(where) == cpu # IDLE /\ pc[cpu] = where

\* scheduler_yield up to cpu_sti; without a current process it returns at once.
scheduler_yield ==
    /\ At("run") \/ At("sleep")
    /\ current_process # NULL
    /\ LET r == requeued([q |-> ready_queue, st |-> state], current_process)
       IN  /\ select(r)
           /\ locals' = [locals EXCEPT ![cpu] = <<current_process, head(r.q)>>]
    /\ pc' = [pc EXCEPT ![cpu] = "switch"]
    /\ UNCHANGED <<process_list, parent, sleep_left, context, cpu, in_irq, in_service>>

\* ... and its context_switch, after which this thread is back in its caller.
yield_switch ==
    /\ pc[cpu] = "switch"
    /\ context_switch(locals[cpu][1], locals[cpu][2], FALSE)
    /\ pc' = [pc EXCEPT ![cpu] = "run"]
    /\ locals' = [locals EXCEPT ![cpu] = <<NULL, NULL>>]
    /\ UNCHANGED <<procs, queue>>

\* timer_sleep_ticks up to scheduler_block; scheduler_yield follows.
timer_sleep_ticks(ticks) ==
    /\ At("run") /\ cpu \in Sleeps
    /\ current_process # NULL
    /\ sleep_left' = [sleep_left EXCEPT ![current_process] = ticks]
    /\ state' = [state EXCEPT ![current_process] = "SLEEPING"]
    /\ ready_queue' = Without(ready_queue, current_process)
    /\ pc' = [pc EXCEPT ![cpu] = "sleep"]
    /\ UNCHANGED <<process_list, parent, current_process, time_slice,
                   context, cpu, locals, in_irq, in_service>>

\* A slot of process_table is used once (bound).
process_create(p) ==
    /\ At("run")
    /\ state[p] = "UNUSED" /\ context[p] = NULL
    /\ state' = [state EXCEPT ![p] = "CREATED"]
    /\ process_list' = <<p>> \o process_list
    /\ parent' = [parent EXCEPT ![p] = current_process]
    /\ time_slice' = [time_slice EXCEPT ![p] = QUANTUM]
    /\ sleep_left' = [sleep_left EXCEPT ![p] = 0]
    /\ context' = [context EXCEPT ![p] = p]
    /\ UNCHANGED <<ready_queue, current_process, cpu, pc, locals, in_irq, in_service>>

scheduler_add(p) ==
    /\ At("run")
    /\ state[p] = "CREATED" /\ p # IDLE
    /\ LET r == enqueued([q |-> ready_queue, st |-> state], p)
       IN  ready_queue' = r.q /\ state' = r.st
    /\ UNCHANGED <<process_list, parent, current_process, time_slice, sleep_left, exec>>

\* process_exit(current_process) up to the state every waiter looks for ...
process_exit ==
    /\ At("run") /\ cpu \in Exits
    /\ current_process # NULL
    /\ state' = [state EXCEPT ![current_process] = "ZOMBIE"]
    /\ pc' = [pc EXCEPT ![cpu] = "exit"]
    /\ locals' = [locals EXCEPT ![cpu] = <<current_process, NULL>>]
    /\ UNCHANGED <<process_list, parent, queue, context, cpu, in_irq, in_service>>

\* ... and, its resources freed, to the end: with no current process the
\* closing scheduler_yield does nothing and the call returns.
process_exit_end ==
    /\ At("exit")
    /\ LET p == locals[cpu][1]
       IN  /\ state' = [state EXCEPT ![p] = "UNUSED"]
           /\ process_list' = Without(process_list, p)
           /\ current_process' = IF p = current_process THEN NULL ELSE current_process
    /\ pc' = [pc EXCEPT ![cpu] = "exited"]
    /\ locals' = [locals EXCEPT ![cpu] = <<NULL, NULL>>]
    /\ UNCHANGED <<parent, ready_queue, time_slice, sleep_left,
                   context, cpu, in_irq, in_service>>

\* sys_exit then returns 0 to the user program, which goes on.
sys_exit_return ==
    /\ At("exited") /\ cpu \notin Kernel
    /\ pc' = [pc EXCEPT ![cpu] = "run"]
    /\ UNCHANGED <<procs, queue, context, cpu, locals, in_irq, in_service>>

\* The entry function of a kernel thread returns to kernel_thread_entry, whose
\* process_exit(NULL, 0) does nothing: the CPU halts with interrupts disabled.
kernel_thread_return ==
    /\ At("exited") \/ At("run")
    /\ cpu \in Kernel \cap Exits
    /\ pc' = [pc EXCEPT ![cpu] = "halted"]
    /\ UNCHANGED <<procs, queue, context, cpu, locals, in_irq, in_service>>

\* One round of process_waitpid that finds a child to collect.
process_waitpid(p) ==
    /\ At("run")
    /\ current_process # NULL
    /\ p \in Listed /\ parent[p] = current_process /\ state[p] = "ZOMBIE"
    /\ state' = [state EXCEPT ![p] = "DEAD"]
    /\ UNCHANGED <<process_list, parent, queue, exec>>

\* The kill command of apps/terminal.c.
cmd_kill(p) ==
    /\ At("run")
    /\ p \in Listed \cap Kills
    /\ state' = [state EXCEPT ![p] = "ZOMBIE"]
    /\ UNCHANGED <<process_list, parent, queue, exec>>

Init == \* after process_init and scheduler_init, when kernel_main enables interrupts
    /\ state = [p \in Procs |-> IF p = IDLE THEN "CREATED" ELSE "UNUSED"]
    /\ process_list = <<IDLE>>
    /\ parent = [p \in Procs |-> NULL]
    /\ ready_queue = <<>>
    /\ current_process = NULL
    /\ time_slice = [p \in Procs |-> QUANTUM]
    /\ sleep_left = [p \in Procs |-> 0]
    /\ context = [p \in Procs |-> IF p = IDLE THEN IDLE ELSE NULL]
    /\ cpu = BOOT
    /\ pc = [t \in Threads |-> "run"]
    /\ locals = [t \in Threads |-> <<NULL, NULL>>]
    /\ in_irq = {}
    /\ in_service = FALSE

Next ==
    \/ timer_irq_handler
    \/ scheduler_yield
    \/ yield_switch
    \/ \E n \in 1 .. MaxSleep : timer_sleep_ticks(n)
    \/ \E p \in Procs : \/ process_create(p) \/ scheduler_add(p)
                        \/ process_waitpid(p) \/ cmd_kill(p)
    \/ process_exit \/ process_exit_end
    \/ sys_exit_return \/ kernel_thread_return

Spec == Init /\ [][Next]_vars

\* The hardware keeps ticking, the switch of a yield completes, and every loop of
\* the tree calls scheduler_yield or sleeps.
Fairness ==
    /\ WF_vars(timer_irq_handler)
    /\ WF_vars(yield_switch)
    /\ WF_vars(scheduler_yield)

FairSpec == Spec /\ Fairness

(***************************************************************************)
(* Properties                                                               *)
(***************************************************************************)
\* The ready queue holds exactly the processes marked READY, each once, however
\* wake-ups from the timer interrupt fall between the block and the yield of a
\* sleeper, and however exits are preempted; with as many slots as processes it
\* is therefore never full.  Only a process the terminal marked ZOMBIE behind the
\* scheduler's back can be found there in another state.  And only
\* current_process is ever marked RUNNING (scheduler.c:43-62, 152-173, timer.c:37-46).
QueueExact ==
    /\ \A i, j \in DOMAIN ready_queue : ready_queue[i] = ready_queue[j] => i = j
    /\ \A p \in Procs : state[p] = "READY" => p \in Entries(ready_queue)
    /\ \A p \in Entries(ready_queue) : p \notin Kills => state[p] = "READY"
    /\ \A p \in Procs : state[p] = "RUNNING" => p = current_process

\* The process whose context the running thread will be saved in.
Saver == IF pc[cpu] = "switch" THEN locals[cpu][1] ELSE current_process

\* Until a process exits, no thread can be resumed twice: apart from the process
\* the running thread will be saved in, no process holds the running thread, and
\* no two hold the same one.  A tick between cpu_sti and context_switch, and a
\* switch of a process to itself, must not break this.
NoThreadTwice ==
    LET created == {p \in Procs : context[p] # NULL}
    IN  (\A p \in created : state[p] # "UNUSED") =>
            /\ \A p \in created \ {Saver} : context[p] # cpu
            /\ \A p, q \in created \ {Saver} : context[p] = context[q] => p = q

\* Some process has exited, was killed or collected, or a kernel thread has halted.
Ended ==
    \/ \E p \in Procs : state[p] \in {"ZOMBIE", "DEAD"} \/ (state[p] = "UNUSED" /\ context[p] # NULL)
    \/ \E t \in Threads : pc[t] = "halted"


\* "Wake any sleeping processes" (timer.c:37): a sleeper is woken after its time.
SleeperWakes ==
    \A p \in Procs : state[p] = "SLEEPING" ~> state[p] # "SLEEPING"

=============================================================================
