-------------------------------- MODULE Uart --------------------------------
(***************************************************************************)
(* drivers/uart/uart.cpp: polled output to a 16550, by the code that runs  *)
(* (kmain and the tasks), by sys_write inside an ecall, and by the timer's *)
(* handler.  putc_raw reads LSR and writes THR with two instructions, so a *)
(* tick may come between them; traps themselves are not interrupted.       *)
(*                                                                         *)
(* UART::init writes nothing: the FIFO stays off, and THR holds a single   *)
(* character until the device has sent it.  A character written while it   *)
(* is full replaces the one that is there.                                 *)
(***************************************************************************)
EXTENDS Integers, Sequences, SequencesExt, FiniteSets

CONSTANTS
  Char,         \* characters, the two of a line end among them
  Texts,        \* strings that code prints with puts, or passes to sys_write
  TickText,     \* what KernelTimer::on_interrupt prints
  NULL,         \* nullptr, and THR when it is empty
  kMaxTicks,    \* bound: ticks until the line is quiet again
  kMaxSaid      \* bound: characters printed until the line is quiet again

LF == "\n"
CR == "\r"

Thread == {"code", "write"}      \* who speaks for the running thread
Speakers == Thread \cup {"tick"}

(* What is in THR: a character, who wrote it, and whether it was its last. *)
Entry == [by : Speakers, ch : Char, last : BOOLEAN]

ASSUME UartAssumption ==
  /\ {LF, CR} \subseteq Char
  /\ kMaxTicks \in Nat /\ kMaxSaid \in Nat
  /\ Texts \subseteq Seq(Char) \cup {NULL}
  /\ TickText \in Seq(Char) \ {<<>>}
  /\ NULL \notin Entry \cup Speakers \cup {TickText}

VARIABLES
  thr,          \* the transmitter holding register
  todo,         \* what each speaker has yet to write, and
  ready,        \* whether it has read an LSR with THRE set since it last wrote
  trap,         \* the trap that is being handled, or NULL
  wire,         \* history: what the device has sent
  said,         \* history: what the running thread has printed
  ticks,        \* history: timer interrupts taken
  lost          \* history: characters that were replaced in THR

vars == <<thr, todo, ready, trap, wire, said, ticks, lost>>

Running == IF trap = NULL THEN "code" ELSE trap
Quiet   == thr = NULL /\ trap = NULL /\ todo["code"] = <<>>

-----------------------------------------------------------------------------
(* Mutant: no carriage return. *)
putc_plain(ch) == <<ch>>

(* The characters putc hands to putc_raw. *)
putc(ch) == IF ch = LF THEN <<CR, LF>> ELSE <<ch>>

puts(s) == IF s = NULL THEN <<>> ELSE FlattenSeq([i \in DOMAIN s |-> putc(s[i])])

(* Mutant: ready when THRE is clear. *)
wait_tx_full(w) == thr # NULL

(* The poll of LSR that ends the loop. *)
wait_tx_ready(w) == thr = NULL

Init ==
  /\ thr = NULL
  /\ todo = [w \in Speakers |-> <<>>]
  /\ ready = [w \in Speakers |-> FALSE]
  /\ trap = NULL
  /\ wire = <<>> /\ said = <<>> /\ ticks = 0 /\ lost = {}

(* Histories start afresh when the line is quiet. *)
Say(s) ==
  /\ said' = (IF Quiet THEN <<>> ELSE said) \o s
  /\ Len(said') <= kMaxSaid
  /\ IF Quiet THEN wire' = <<>> /\ ticks' = 0 /\ lost' = {}
              ELSE UNCHANGED <<wire, ticks, lost>>

(* The running code prints a string; of no string, nothing. *)
Puts(s) ==
  /\ trap = NULL /\ todo["code"] = <<>>
  /\ todo' = [todo EXCEPT !["code"] = puts(s)]
  /\ Say(IF s = NULL THEN <<>> ELSE s)
  /\ UNCHANGED <<thr, ready, trap>>

(* It makes the system call write: a trap that prints. *)
SysWrite(s) ==
  /\ trap = NULL /\ todo["code"] = <<>> /\ s # NULL
  /\ trap' = "write"
  /\ todo' = [todo EXCEPT !["write"] = puts(s)]
  /\ Say(s)
  /\ UNCHANGED <<thr, ready>>

(* A timer interrupt, before any instruction outside traps. *)
Tick ==
  /\ trap = NULL /\ ticks < kMaxTicks
  /\ trap' = "tick" /\ ticks' = ticks + 1
  /\ todo' = [todo EXCEPT !["tick"] = puts(TickText)]
  /\ UNCHANGED <<thr, ready, wire, said, lost>>

TrapReturns ==
  /\ trap # NULL /\ todo[trap] = <<>>
  /\ trap' = NULL
  /\ UNCHANGED <<thr, todo, ready, wire, said, ticks, lost>>

(* putc_raw's two accesses. *)
ReadLsr(w) ==
  /\ w = Running /\ todo[w] # <<>> /\ ~ready[w]
  /\ wait_tx_ready(w)
  /\ ready' = [ready EXCEPT ![w] = TRUE]
  /\ UNCHANGED <<thr, todo, trap, wire, said, ticks, lost>>

(* The loop of wait_tx_ready goes round. *)
PollAgain(w) ==
  w = Running /\ todo[w] # <<>> /\ ~ready[w] /\ ~wait_tx_ready(w) /\ UNCHANGED vars

Written(w) == [by |-> w, ch |-> Head(todo[w]), last |-> Len(todo[w]) = 1]

(* Mutant: THRE is read once for the whole string. *)
StaysReady(w) == Len(todo[w]) > 1

(* Mutant: THRE is read once for good. *)
AlwaysReady(w) == TRUE

(* The next character needs a new look at LSR. *)
ReadyAfter(w) == FALSE

WriteThr(w) ==
  /\ w = Running /\ ready[w]
  /\ thr' = Written(w)
  /\ lost' = lost \cup ({thr} \ {NULL})
  /\ todo' = [todo EXCEPT ![w] = Tail(@)]
  /\ ready' = [ready EXCEPT ![w] = ReadyAfter(w)]
  /\ UNCHANGED <<trap, wire, said, ticks>>

(* The device sends the character in THR. *)
Transmit ==
  /\ thr # NULL
  /\ wire' = Append(wire, thr)
  /\ thr' = NULL
  /\ UNCHANGED <<todo, ready, trap, said, ticks, lost>>

HartStep == TrapReturns \/ \E w \in Speakers : ReadLsr(w) \/ PollAgain(w) \/ WriteThr(w)

Next ==
  \/ \E s \in Texts : Puts(s) \/ SysWrite(s)
  \/ Tick
  \/ HartStep
  \/ Transmit

Spec == Init /\ [][Next]_vars

(* The hart executes its instructions, and the device sends. *)
LiveSpec == Spec /\ WF_vars(HartStep) /\ WF_vars(Transmit)

-----------------------------------------------------------------------------
(* Types of the register, the speakers' state and the histories. *)
TypeOK ==
  /\ thr \in Entry \cup {NULL}
  /\ todo \in [Speakers -> Seq(Char)]
  /\ ready \in [Speakers -> BOOLEAN]
  /\ \A w \in Speakers : ready[w] => todo[w] # <<>>
  /\ trap \in {"write", "tick", NULL}
  /\ wire \in Seq(Entry) /\ said \in Seq(Char) /\ lost \subseteq Entry
  /\ ticks \in 0..kMaxTicks

(* What a terminal is to show for a string: its lines end in CR LF. *)
Lines(s) ==
  FlattenSeq([i \in DOMAIN s |-> IF s[i] = LF THEN <<CR, LF>> ELSE <<s[i]>>])

(* The characters of some speakers among those that went into THR. *)
Sent(W) ==
  LET all == wire \o (IF thr = NULL THEN <<>> ELSE <<thr>>)
  IN FlattenSeq([i \in DOMAIN all |-> IF all[i].by \in W THEN <<all[i].ch>> ELSE <<>>])

(* What the running thread prints, by itself or through sys_write, goes    *)
(* out whole, once and in order, each line ending in CR LF, wherever ticks *)
(* print in between, also between the read of LSR and the write of THR     *)
(* (uart.cpp:36-61, sys_write.cpp:29-33).                                  *)
ThreadOutputWhole == Sent(Thread) \o todo["write"] \o todo["code"] = Lines(said)

(* The one thing that race loses is the last character of what a tick      *)
(* prints: the interrupted code replaces it in THR (uart.cpp:42-45,        *)
(* timer.cpp:20-21).                                                       *)
OnlyTickTailLost == \A e \in lost : e.by = "tick" /\ e.last

(* A call of puts returns and a trap that prints ends: nobody polls LSR    *)
(* for ever (uart.cpp:36-40).                                              *)
PrintingEnds ==
  /\ (todo["code"] # <<>>) ~> (todo["code"] = <<>>)
  /\ (trap # NULL) ~> (trap = NULL)
=============================================================================
