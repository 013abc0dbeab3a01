---------------------------------- MODULE Boot ----------------------------------
(***************************************************************************)
(* The way from kernel_main to the desktop: the phases of kernel/kernel.c, *)
(* the waits in them (net/dhcp.c, services/bootanim.c) and the timer       *)
(* interrupt that ends those waits (drivers/timer.c).                      *)
(*                                                                         *)
(* boot.asm enters with interrupts off and nothing before phase 9 turns    *)
(* them on. A wait is a loop of the boot thread that looks at state only   *)
(* an interrupt changes, so it is modelled by its exits.                   *)
(***************************************************************************)
EXTENDS Integers, Sequences

CONSTANTS Nic,       \* machines to boot: with an e1000 card or without
          Screen,    \*                   with a framebuffer or without
          TIMER_FREQ, STEP_TICKS,
          BOOTANIM_FADE_IN_TICKS, BOOTANIM_LOGO_TICKS, BOOTANIM_TEXT_TICKS,
          BOOTANIM_FADE_OUT_TICKS, BOOTANIM_MAX_STEPS

VARIABLES
  machine,  \* [nic, screen], fixed
  at,       \* where the boot thread is
  left,     \* timer ticks until the deadline it waits for, if it waits for one
  shown,    \* turns of the loop over the five animation steps that are done
  iflag,    \* the interrupt flag
  callback, \* timer_callback is bootanim_timer_cb
  anim,     \* g_bootanim
  reply     \* a DHCP message waits in the poll slot

bootvars == <<machine, at, left, shown, iflag, callback, anim, reply>>

ALPHA == 255
Blank == [phase |-> "fade_in", tick |-> 0, progress |-> 0, step |-> 0, running |-> FALSE,
          alpha |-> 0, steps |-> 0]

\* Every step is registered with weight 1.
bootanim_add_step(a) == IF a.steps >= BOOTANIM_MAX_STEPS THEN a ELSE [a EXCEPT !.steps = @ + 1]

bootanim_start(a) == [Blank EXCEPT !.running = TRUE]

bootanim_step_done(a) ==
  IF a.step < a.steps THEN [a EXCEPT !.progress = ((a.step + 1) * 100) \div a.steps, !.step = @ + 1]
  ELSE a

bootanim_done(a) == a.phase = "done" \/ ~a.running

\* The tick count is only compared with the end of the text phase: it stops there.
Late == BOOTANIM_FADE_IN_TICKS + BOOTANIM_LOGO_TICKS + BOOTANIM_TEXT_TICKS + 1

bootanim_tick(a) ==
  LET b == [a EXCEPT !.tick = IF @ < Late THEN @ + 1 ELSE @]
      up == b.alpha + ALPHA \div BOOTANIM_FADE_IN_TICKS
      down == b.alpha - ALPHA \div BOOTANIM_FADE_OUT_TICKS
  IN  CASE ~a.running -> a
        [] b.phase = "fade_in" ->
             IF up >= ALPHA THEN [b EXCEPT !.alpha = ALPHA, !.phase = "logo"] ELSE [b EXCEPT !.alpha = up]
        [] b.phase = "logo" ->
             IF b.tick > BOOTANIM_FADE_IN_TICKS + BOOTANIM_LOGO_TICKS THEN [b EXCEPT !.phase = "text"] ELSE b
        [] b.phase = "text" -> IF b.tick >= Late THEN [b EXCEPT !.phase = "progress"] ELSE b
        [] b.phase = "progress" -> IF b.progress >= 100 THEN [b EXCEPT !.phase = "fade_out"] ELSE b
        [] b.phase = "fade_out" ->
             IF down <= 0 THEN [b EXCEPT !.alpha = 0, !.phase = "done", !.running = FALSE]
             ELSE [b EXCEPT !.alpha = down]
        [] OTHER -> b

(***************************************************************************)
(* Interrupts                                                              *)
(***************************************************************************)
\* IRQ 0: the callback, then the deadline of the waiting thread comes closer. The
\* boot thread stays the running one: the first tick that finds a ready process
\* only renames it.
timer_irq_handler ==
  /\ iflag
  /\ anim' = IF callback THEN bootanim_tick(anim) ELSE anim
  /\ left' = IF left > 0 THEN left - 1 ELSE left
  /\ UNCHANGED <<machine, at, shown, iflag, callback, reply>>

\* The card's interrupt hands a server's message to the poll slot.
e1000_irq ==
  /\ iflag /\ machine.nic /\ ~reply
  /\ at \in {"offer", "ack"}
  /\ reply' = TRUE
  /\ UNCHANGED <<machine, at, left, shown, iflag, callback, anim>>

(***************************************************************************)
(* The boot thread                                                         *)
(***************************************************************************)
Goes(next) == at' = next

\* Phases 1 to 4b: console, descriptor tables, memory, drivers; with a
\* framebuffer the five animation steps are registered.
start_hardware ==
  /\ at = "hardware" /\ Goes("kernel layer")
  /\ anim' = IF machine.screen
             THEN bootanim_add_step(bootanim_add_step(bootanim_add_step(
                  bootanim_add_step(bootanim_add_step(anim)))))
             ELSE anim
  /\ UNCHANGED <<machine, left, shown, iflag, callback, reply>>

\* Phases 5, 4c and 4d, up to DISCOVER being sent.
start_kernel_layer ==
  /\ at = "kernel layer"
  /\ IF machine.nic THEN Goes("offer") /\ left' = 4 * TIMER_FREQ
     ELSE Goes("services") /\ UNCHANGED left
  /\ UNCHANGED <<machine, shown, iflag, callback, anim, reply>>

\* dhcp_wait takes the message, or finds that the deadline has passed.
dhcp_wait(next) ==
  \/ /\ reply /\ left > 0
     /\ reply' = FALSE
     /\ Goes(next) /\ left' = IF next = "ack" THEN 4 * TIMER_FREQ ELSE 0
  \/ /\ left = 0 /\ Goes("services")
     /\ UNCHANGED <<left, reply>>

dhcp_offer ==
  /\ at = "offer" /\ dhcp_wait("ack")
  /\ UNCHANGED <<machine, shown, iflag, callback, anim>>

dhcp_ack ==
  /\ at = "ack" /\ dhcp_wait("services")
  /\ UNCHANGED <<machine, shown, iflag, callback, anim>>

\* Phases 6 to 9: file systems, processes, accounts, system calls; interrupts on;
\* init created; the animation started.
start_services ==
  /\ at = "services"
  /\ iflag' = TRUE
  /\ IF machine.screen
     THEN Goes("steps") /\ anim' = bootanim_start(anim) /\ callback' = TRUE /\ left' = STEP_TICKS
     ELSE Goes("are_run") /\ UNCHANGED <<anim, callback, left>>
  /\ UNCHANGED <<machine, shown, reply>>

\* One of five turns: after 14 ticks a step is reported done.
animation_step ==
  /\ at = "steps" /\ left = 0 /\ shown < 5
  /\ anim' = bootanim_step_done(anim)
  /\ shown' = shown + 1
  /\ left' = IF shown = 4 THEN 0 ELSE STEP_TICKS
  /\ UNCHANGED <<machine, at, iflag, callback, reply>>

animation_end ==
  /\ at = "steps" /\ shown = 5 /\ bootanim_done(anim)
  /\ callback' = FALSE
  /\ Goes("are_run")
  /\ UNCHANGED <<machine, left, shown, iflag, anim, reply>>

BootInit ==
  /\ machine \in [nic : Nic, screen : Screen]
  /\ at = "hardware" /\ left = 0 /\ shown = 0 /\ iflag = FALSE
  /\ callback = FALSE /\ anim = Blank /\ reply = FALSE

BootThread == start_hardware \/ start_kernel_layer \/ dhcp_offer \/ dhcp_ack \/ start_services
              \/ animation_step \/ animation_end

BootNext == BootThread \/ timer_irq_handler \/ e1000_irq

\* The timer keeps firing and the boot thread, alone on the machine, keeps running.
BootSpec == BootInit /\ [][BootNext]_bootvars /\ WF_bootvars(timer_irq_handler) /\ WF_bootvars(BootThread)

\* Booting ends: the waits of kernel_main for DHCP ("up to 4 seconds") and for the
\* boot animation ("spin-wait for the fade-out to complete before handing off to
\* the render engine") end and are_run is entered (kernel.c:290-399).
RenderEngineEntered == <>(at = "are_run")
================================================================================
