---------------------------------- MODULE E1000 ----------------------------------
(***************************************************************************)
(* The descriptor rings of the network card driver (drivers/e1000.c).      *)
(*                                                                         *)
(* e1000_receive_poll and e1000_send run in a process (the desktop loop    *)
(* polls on every frame, any system call may send) and in the interrupt    *)
(* handler, which takes frames and, through the protocols, answers them.   *)
(* Neither routine keeps interrupts off, so the handler can run, whole,    *)
(* between two steps of a process that is inside either routine. The card  *)
(* is external: it fills receive descriptors from RDH up to RDT and sends  *)
(* transmit descriptors from TDH up to TDT. Nested = FALSE leaves out the  *)
(* interrupts that arrive inside the two routines.                         *)
(***************************************************************************)
EXTENDS Integers, Sequences

CONSTANTS NDesc,      \* E1000_RX_DESC_COUNT and E1000_TX_DESC_COUNT
          MaxFrames,  \* bound on the frames that arrive
          Nested      \* interrupts also arrive inside the driver's own routines

VARIABLES
  rx,    \* tail (rx_tail), rdt, head (RDH), dd: the DD bits, frame: what each buffer holds
  tx,    \* tail (tx_tail), tdt, head (TDH), done: status bits, frame: what each buffer holds
  step,  \* the process inside the driver: [at, d]
  seen,  \* frames handed to net_receive, in order (the model's own)
  next   \* number of the next frame to arrive

nicvars == <<rx, tx, step, seen, next>>

Desc == 0 .. NDesc - 1
Succ(d) == (d + 1) % NDesc
Outside == [at |-> "out", d |-> 0]

(***************************************************************************)
(* Steps of the driver                                                     *)
(***************************************************************************)
\* net_receive on the next descriptor.
Handed(s, r) == Append(s, r.frame[Succ(r.tail)])


Returned(r, d) == [r EXCEPT !.dd[d] = FALSE, !.tail = d, !.rdt = d]

\* The loop of e1000_receive_poll run to its end: every descriptor that is done,
\* from the one after rx_tail on. NDesc turns are enough.
RECURSIVE Drained(_, _, _)
Drained(r, s, n) ==
  IF n = 0 \/ ~r.dd[Succ(r.tail)] THEN <<r, s>>
  ELSE Drained(Returned(r, Succ(r.tail)), Handed(s, r), n - 1)

\* e1000_send with no interruption: dropped if the descriptor is still busy.
Queued(t, f) ==
  IF ~t.done[t.tail] THEN t
  ELSE [t EXCEPT !.done[t.tail] = FALSE, !.frame[t.tail] = f, !.tail = Succ(@), !.tdt = Succ(t.tail)]

(***************************************************************************)
(* Actions                                                                 *)
(***************************************************************************)
\* The interrupt handler drains the ring; answering is its choice.
e1000_irq_handler(reply) ==
  /\ Nested \/ step = Outside
  /\ \E d \in Desc : rx.dd[d]
  /\ LET r == Drained(rx, seen, NDesc) IN rx' = r[1] /\ seen' = r[2]
  /\ tx' = IF reply THEN Queued(tx, 0) ELSE tx
  /\ UNCHANGED <<step, next>>

\* A process polls: one frame handed over (and perhaps answered), then the
\* descriptor given back.
poll_receive(reply) ==
  /\ step = Outside
  /\ rx.dd[Succ(rx.tail)]
  /\ seen' = Handed(seen, rx)
  /\ tx' = IF reply THEN Queued(tx, 0) ELSE tx
  /\ step' = [at |-> "received", d |-> Succ(rx.tail)]
  /\ UNCHANGED <<rx, next>>

poll_return ==
  /\ step.at = "received"
  /\ rx' = Returned(rx, step.d)
  /\ step' = Outside
  /\ UNCHANGED <<tx, seen, next>>

\* A process sends: the index and the status bit are read, then the buffer is
\* filled and the tail moved.
send_check ==
  /\ step = Outside
  /\ tx.done[tx.tail]
  /\ step' = [at |-> "sending", d |-> tx.tail]
  /\ UNCHANGED <<rx, tx, seen, next>>

send_fill ==
  /\ step.at = "sending"
  /\ tx' = [tx EXCEPT !.frame[step.d] = 1, !.done[step.d] = FALSE,
                      !.tail = Succ(@), !.tdt = Succ(tx.tail)]
  /\ step' = Outside
  /\ UNCHANGED <<rx, seen, next>>

\* External: a frame arrives while the card owns a descriptor.
card_receive ==
  /\ rx.head # rx.rdt /\ next <= MaxFrames
  /\ rx' = [rx EXCEPT !.dd[rx.head] = TRUE, !.frame[rx.head] = next, !.head = Succ(@)]
  /\ next' = next + 1
  /\ UNCHANGED <<tx, step, seen>>

\* External: the card sends the descriptor at TDH and marks it done.
card_send ==
  /\ tx.head # tx.tdt
  /\ tx' = [tx EXCEPT !.done[tx.head] = TRUE, !.head = Succ(@)]
  /\ UNCHANGED <<rx, step, seen, next>>

(***************************************************************************)
(* Specification                                                           *)
(***************************************************************************)
\* e1000_init: the card owns all receive descriptors but the last, none to send.
e1000_init ==
  /\ rx = [tail |-> NDesc - 1, rdt |-> NDesc - 1, head |-> 0,
           dd |-> [d \in Desc |-> FALSE], frame |-> [d \in Desc |-> 0]]
  /\ tx = [tail |-> 0, tdt |-> 0, head |-> 0,
           done |-> [d \in Desc |-> TRUE], frame |-> [d \in Desc |-> 0]]
  /\ step = Outside /\ seen = <<>> /\ next = 1

NicNext ==
  \/ \E reply \in BOOLEAN : e1000_irq_handler(reply) \/ poll_receive(reply)
  \/ poll_return \/ send_check \/ send_fill
  \/ card_receive \/ card_send

NicSpec == e1000_init /\ [][NicNext]_nicvars

================================================================================
