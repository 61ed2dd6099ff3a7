---------------------------- MODULE TimerProofs ----------------------------
(***************************************************************************)
(* The machine timer keeps its promises for any interval and any latency,  *)
(* for a clock that starts anywhere.                                       *)
(***************************************************************************)
EXTENDS Timer, TLAPS

(* Ticks and intervals multiply to naturals, and a tick more is an         *)
(* interval more.                                                          *)
LEMMA Products ==
  ASSUME NEW n \in Nat, NEW k \in Nat
  PROVE  /\ n * k \in Nat /\ (n + 1) * k = n * k + k
         /\ (n + 1) - 1 = n /\ 0 * k = 0
OBVIOUS

LEMMA InitInv == Init => IInv
BY TimerAssumption DEF Init, IInv, Types, Periods, Looks, InTime, Armed

(* init's steps, up to the mret-like end of it. *)
LEMMA InitStepsKeepInv ==
  ASSUME IInv, InitRead \/ InitWrite \/ InitMtie \/ InitMie
  PROVE  IInv'
<1>1. kInterval \in Nat /\ kLatency \in Nat
  BY TimerAssumption
<1>2. CASE InitRead
  BY <1>1, <1>2, Products
     DEF IInv, Types, Periods, Looks, InTime, Armed, Deadline, InitRead, Goto, read_mtime
<1>3. CASE InitWrite
  BY <1>1, <1>3, Products
     DEF IInv, Types, Periods, Looks, InTime, Armed, Deadline, InitWrite, Goto,
         interrupt_after
<1>4. CASE InitMtie
  BY <1>1, <1>4
     DEF IInv, Types, Periods, Looks, InTime, Armed, Deadline, InitMtie, Goto
<1>5. CASE InitMie
  BY <1>1, <1>5
     DEF IInv, Types, Periods, Looks, InTime, Armed, Deadline, InitMie, Goto
<1> QED BY <1>2, <1>3, <1>4, <1>5

(* A trap's steps: the timer's handler, and another trap. *)
LEMMA TrapStepsKeepInv ==
  ASSUME IInv, Interrupt \/ Count \/ ReadAgain \/ WriteAgain \/ OtherTrap \/ Mret
  PROVE  IInv'
<1>1. kInterval \in Nat /\ kLatency \in Nat
  BY TimerAssumption
<1>2. CASE Interrupt
  BY <1>1, <1>2
     DEF IInv, Types, Periods, Looks, InTime, Armed, Deadline, Interrupt, Pending, Goto
<1>3. CASE Count
  BY <1>1, <1>3, Products
     DEF IInv, Types, Periods, Looks, InTime, Armed, Deadline, Count, tick, Goto
<1>4. CASE ReadAgain
  <2> DEFINE period == kInterval + kLatency
  <2>1. s_ticks - 1 \in Nat /\ (s_ticks - 1) + 1 = s_ticks
    BY <1>4 DEF IInv, Types, Periods, ReadAgain, Goto
  <2>2. s_ticks * kInterval = (s_ticks - 1) * kInterval + kInterval
    BY <1>1, <2>1, Products
  <2>3. s_ticks * period = (s_ticks - 1) * period + period
    <3>1. period \in Nat
      BY <1>1
    <3> HIDE DEF period
    <3> QED BY <2>1, <3>1, Products
  <2> QED BY <1>1, <1>4, <2>1, <2>2, <2>3
       DEF IInv, Types, Periods, Looks, InTime, Armed, Deadline, ReadAgain, Goto, read_mtime
<1>5. CASE WriteAgain
  BY <1>1, <1>5
     DEF IInv, Types, Periods, Looks, InTime, Armed, Deadline, WriteAgain, Goto,
         interrupt_after
<1>6. CASE OtherTrap
  BY <1>1, <1>6
     DEF IInv, Types, Periods, Looks, InTime, Armed, Deadline, OtherTrap, Goto
<1>7. CASE Mret
  BY <1>1, <1>7
     DEF IInv, Types, Periods, Looks, InTime, Armed, Deadline, Mret, Goto
<1> QED BY <1>2, <1>3, <1>4, <1>5, <1>6, <1>7

(* The inductive invariant is kept, also by the clock. *)
LEMMA NextKeepsInv == IInv /\ [Next]_vars => IInv'
<1> SUFFICES ASSUME IInv, [Next]_vars PROVE IInv'
  OBVIOUS
<1>1. CASE Hart
  BY <1>1, InitStepsKeepInv, TrapStepsKeepInv DEF Hart
<1>2. CASE Clock
  BY <1>2, TimerAssumption
     DEF IInv, Types, Periods, Looks, InTime, Armed, Deadline, Clock
<1>3. CASE End \/ UNCHANGED vars
  BY <1>3
     DEF IInv, Types, Periods, Looks, InTime, Armed, Deadline, End, vars
<1> QED BY <1>1, <1>2, <1>3 DEF Next

(* For any interval and latency, from any start of the clock, ticks never  *)
(* run ahead of it: n ticks take at least n intervals (timer.cpp:9-24).    *)
THEOREM TicksNeverEarly == Spec => []NeverEarly
<1>1. IInv => NeverEarly
  <2> SUFFICES ASSUME IInv PROVE NeverEarly
    OBVIOUS
  <2>1. kInterval \in Nat /\ s_ticks \in Nat
    BY TimerAssumption DEF IInv, Types
  <2>2. CASE pc = "print"
    <3>1. s_ticks * kInterval = (s_ticks - 1) * kInterval + kInterval
      <4>1. s_ticks - 1 \in Nat /\ (s_ticks - 1) + 1 = s_ticks
        BY <2>2 DEF IInv, Types, Periods
      <4> QED BY <2>1, <4>1, Products
    <3>2. (s_ticks - 1) * kInterval \in Int
      BY <2>1
    <3> QED BY <2>1, <2>2, <3>1, <3>2 DEF IInv, Types, Periods, Looks, NeverEarly, Elapsed
  <2>3. CASE pc # "print"
    BY <2>1, <2>3, Products
       DEF IInv, Types, Periods, Looks, InTime, Armed, Deadline, NeverEarly, Elapsed
  <2> QED BY <2>2, <2>3
<1> QED BY <1>1, InitInv, NextKeepsInv, PTL DEF Spec

(* They do not fall behind by more than a latency each: the handler loses  *)
(* no tick (timer.cpp:18-24).                                              *)
THEOREM DriftIsBounded == Spec => []DriftBounded
<1>1. IInv => DriftBounded
  <2> SUFFICES ASSUME IInv, pc # "init"
               PROVE  Elapsed <= (s_ticks + 1) * (kInterval + kLatency)
    BY DEF DriftBounded
  <2> DEFINE period == kInterval + kLatency
  <2>1. kInterval \in Nat /\ kLatency \in Nat /\ period \in Nat /\ s_ticks \in Nat
    BY TimerAssumption DEF IInv, Types
  <2>2. (s_ticks + 1) * period = s_ticks * period + period /\ s_ticks * period \in Nat
    <3> HIDE DEF period
    <3> QED BY <2>1, Products
  <2>3. CASE pc \in {"print", "write"}
    <3>1. s_ticks - 1 \in Nat /\ (s_ticks - 1) + 1 = s_ticks
      BY <2>3 DEF IInv, Types, Periods
    <3>2. s_ticks * period = (s_ticks - 1) * period + period /\ (s_ticks - 1) * period \in Nat
      <4> HIDE DEF period
      <4> QED BY <2>1, <3>1, Products
    <3> QED BY <2>1, <2>2, <2>3, <3>2
         DEF IInv, Types, Periods, Looks, InTime, Deadline, Elapsed
  <2>4. CASE pc = "init_write"
    BY <2>1, <2>2, <2>4 DEF IInv, Types, Periods, InTime, Deadline, Elapsed
  <2>5. CASE Armed
    BY <2>1, <2>2, <2>5 DEF IInv, Types, Periods, Looks, InTime, Deadline, Armed, Elapsed
  <2> QED BY <2>3, <2>4, <2>5 DEF IInv, Types, Armed
<1> QED BY <1>1, InitInv, NextKeepsInv, PTL DEF Spec

(* A late tick does not make the next one come sooner: a whole interval    *)
(* lies between the last look at the clock and the next interrupt          *)
(* (clint_timer.h:19-21).                                                  *)
THEOREM LateTicksStayLate == Spec => []NoCatchingUp
<1>1. IInv => NoCatchingUp
  BY DEF IInv, Periods, Armed, NoCatchingUp
<1> QED BY <1>1, InitInv, NextKeepsInv, PTL DEF Spec
=============================================================================
