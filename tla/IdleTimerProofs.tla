-------------------------- MODULE IdleTimerProofs ---------------------------
(***************************************************************************)
(* Theorems about IdleTimer, for every set of option values, every delay   *)
(* and every cap.                                                          *)
(***************************************************************************)
EXTENDS IdleTimer, TLAPS

(* The count of a device that is open and has no touch waiting is never    *)
(* ahead of the seconds without a touch, and neither is the value that an  *)
(* increment has read and not yet written back.                            *)
Counted ==
    device = "open" /\ ~pending
        => countIdle <= calm /\ (idle = "store" => Second(loaded) <= calm)

(* Touches are read with the count cleared.                                *)
ReadCleared == idle = "read" => countIdle = 0

IInv == TimerTypeOK /\ Counted /\ ReadCleared

-----------------------------------------------------------------------------
(* Counting stays below the cap and keeps an order.                        *)
LEMMA SecondBounds ==
    ASSUME NEW n \in -UsbmsDelay .. Cap
    PROVE  Second(n) \in -UsbmsDelay .. Cap
BY TimesAssumption DEF Second

LEMMA SecondMonotone ==
    ASSUME NEW m \in -UsbmsDelay .. Cap, NEW n \in -UsbmsDelay .. Cap, m <= n
    PROVE  Second(m) <= Second(n)
BY TimesAssumption DEF Second

LEMMA SecondCalm ==
    ASSUME NEW n \in 0 .. Cap
    PROVE  Second(n) \in 0 .. Cap
BY TimesAssumption DEF Second

LEMMA Delay == -UsbmsDelay \in -UsbmsDelay .. Cap /\ 0 \in -UsbmsDelay .. Cap /\ 0 \in 0 .. Cap
BY TimesAssumption

-----------------------------------------------------------------------------
LEMMA InitInv == Init => IInv
<1> SUFFICES ASSUME Init PROVE IInv
    OBVIOUS
<1>1. TimerTypeOK
    BY Delay DEF Init, TimerTypeOK
<1>2. Counted /\ ReadCleared
    BY DEF Init, Counted, ReadCleared
<1> QED BY <1>1, <1>2 DEF IInv

(* One step of the thread.                                                 *)
LEMMA ThreadStep ==
    ASSUME IInv, IdleSleep
    PROVE  IInv'
<1> USE DEF IInv
<1>1. CASE Start
  <2>1. TimerTypeOK'
      BY <1>1 DEF Start, Goto, world, TimerTypeOK
  <2>2. Counted' /\ ReadCleared'
      BY <1>1 DEF Start, Goto, world, Counted, ReadCleared, Second
  <2> QED BY <2>1, <2>2
<1>2. CASE Open
  <2>1. TimerTypeOK'
      BY <1>2, Delay DEF Open, Goto, TimerTypeOK
  <2>2. Counted' /\ ReadCleared'
      BY <1>2 DEF Open, Goto, Counted, ReadCleared, TimerTypeOK
  <2> QED BY <2>1, <2>2
<1>3. CASE Look
  <2>1. TimerTypeOK'
      BY <1>3, Delay DEF Look, world, TimerTypeOK
  <2>2. Counted' /\ ReadCleared'
      BY <1>3 DEF Look, world, Counted, ReadCleared, TimerTypeOK
  <2> QED BY <2>1, <2>2
<1>4. CASE Ask
  <2>1. TimerTypeOK'
      BY <1>4 DEF Ask, world, TimerTypeOK
  <2>2. Counted' /\ ReadCleared'
      BY <1>4 DEF Ask, world, Counted, ReadCleared
  <2> QED BY <2>1, <2>2
<1>5. CASE Drain
  <2>1. TimerTypeOK'
      BY <1>5, Delay DEF Drain, world, TimerTypeOK
  <2>2. Counted' /\ ReadCleared'
      BY <1>5 DEF Drain, world, Counted, ReadCleared, TimerTypeOK
  <2> QED BY <2>1, <2>2
<1>6. CASE Read
  <2>1. TimerTypeOK'
      BY <1>6 DEF Read, world, TimerTypeOK
  <2>2. Counted' /\ ReadCleared'
      BY <1>6 DEF Read, world, Counted, ReadCleared, TimerTypeOK
  <2> QED BY <2>1, <2>2
<1>7. CASE Sleep
  <2>1. TimerTypeOK'
      BY <1>7, SecondCalm DEF Sleep, Goto, world, TimerTypeOK
  <2>2. device = "open" /\ ~pending => countIdle <= calm
      BY DEF Counted
  <2>3. calm <= Second(calm) /\ calm \in -UsbmsDelay .. Cap
      BY TimesAssumption DEF TimerTypeOK, Second
  <2>4. device = "open" /\ ~pending => Second(countIdle) <= Second(calm)
      BY <2>2, <2>3, SecondMonotone DEF TimerTypeOK
  <2>5. device = "open" /\ ~pending => countIdle <= Second(calm)
      BY <2>2, <2>3, SecondCalm, TimesAssumption DEF TimerTypeOK
  <2>6. Counted' /\ ReadCleared'
      BY <1>7, <2>4, <2>5 DEF Sleep, Goto, world, Counted, ReadCleared, Second
  <2> QED BY <2>1, <2>6
<1>8. CASE Store
  <2>1. TimerTypeOK'
      BY <1>8, SecondBounds, Delay DEF Store, Goto, world, TimerTypeOK
  <2>2. Counted' /\ ReadCleared'
      BY <1>8 DEF Store, Goto, world, Counted, ReadCleared, Second
  <2> QED BY <2>1, <2>2
<1>9. CASE Usbms
  <2>1. TimerTypeOK'
      BY <1>9, Delay DEF Usbms, world, TimerTypeOK
  <2>2. -UsbmsDelay <= calm
      BY TimesAssumption DEF TimerTypeOK
  <2>3. Counted' /\ ReadCleared'
      BY <1>9, <2>2 DEF Usbms, world, Counted, ReadCleared
  <2> QED BY <2>1, <2>3
<1>10. CASE SshTurn
  <2>1. TimerTypeOK'
      BY <1>10 DEF SshTurn, Goto, world, TimerTypeOK
  <2>2. Counted' /\ ReadCleared'
      BY <1>10 DEF SshTurn, Goto, world, Counted, ReadCleared
  <2> QED BY <2>1, <2>2
<1>11. CASE Restart
  <2>1. TimerTypeOK'
      BY <1>11 DEF Restart, Goto, world, TimerTypeOK
  <2>2. Counted' /\ ReadCleared'
      BY <1>11 DEF Restart, Goto, world, Counted, ReadCleared
  <2> QED BY <2>1, <2>2
<1> QED BY <1>1, <1>2, <1>3, <1>4, <1>5, <1>6, <1>7, <1>8, <1>9, <1>10, <1>11 DEF IdleSleep

(* One step of anybody else.                                               *)
LEMMA WorldStep ==
    ASSUME IInv, World
    PROVE  IInv'
<1> USE DEF IInv, thread, world
<1>1. CASE Touch
  <2>1. (pending \/ device = "open") \in BOOLEAN
      OBVIOUS
  <2>2. TimerTypeOK'
      BY <1>1, <2>1, Delay DEF Touch, TimerTypeOK
  <2>3. Counted' /\ ReadCleared'
      BY <1>1 DEF Touch, Counted, ReadCleared
  <2> QED BY <2>2, <2>3
<1>2. CASE UpdateOption
  <2>1. TimerTypeOK'
      BY <1>2 DEF UpdateOption, TimerTypeOK
  <2>2. Counted' /\ ReadCleared'
      BY <1>2 DEF UpdateOption, Counted, ReadCleared, Second
  <2> QED BY <2>1, <2>2
<1>3. CASE UsbMassStorage
  <2>1. TimerTypeOK'
      BY <1>3 DEF UsbMassStorage, TimerTypeOK
  <2>2. Counted' /\ ReadCleared'
      BY <1>3 DEF UsbMassStorage, Counted, ReadCleared, Second
  <2> QED BY <2>1, <2>2
<1>4. CASE SleepBegins
  <2>1. TimerTypeOK'
      BY <1>4 DEF SleepBegins, TimerTypeOK
  <2>2. Counted' /\ ReadCleared'
      BY <1>4 DEF SleepBegins, Counted, ReadCleared, Second
  <2> QED BY <2>1, <2>2
<1>5. CASE RequestVoided
  <2>1. TimerTypeOK'
      BY <1>5 DEF RequestVoided, TimerTypeOK
  <2>2. Counted' /\ ReadCleared'
      BY <1>5 DEF RequestVoided, Counted, ReadCleared, Second
  <2> QED BY <2>1, <2>2
<1>6. CASE SleepEnds
  <2>1. TimerTypeOK'
      BY <1>6 DEF SleepEnds, TimerTypeOK
  <2>2. Counted' /\ ReadCleared'
      BY <1>6 DEF SleepEnds, Counted, ReadCleared, Second
  <2> QED BY <2>1, <2>2
<1>7. CASE AfterSleepResets
  <2>1. TimerTypeOK'
      BY <1>7, Delay DEF AfterSleepResets, TimerTypeOK
  <2>2. Counted' /\ ReadCleared'
      BY <1>7 DEF AfterSleepResets, Counted, ReadCleared, Second, TimerTypeOK
  <2> QED BY <2>1, <2>2
<1>8. CASE TouchscreenGoes
  <2>1. TimerTypeOK'
      BY <1>8 DEF TouchscreenGoes, TimerTypeOK
  <2>2. Counted' /\ ReadCleared'
      BY <1>8 DEF TouchscreenGoes, Counted, ReadCleared
  <2> QED BY <2>1, <2>2
<1>9. CASE TouchscreenReturns
  <2>1. TimerTypeOK'
      BY <1>9 DEF TouchscreenReturns, TimerTypeOK
  <2>2. Counted' /\ ReadCleared'
      BY <1>9 DEF TouchscreenReturns, Counted, ReadCleared
  <2> QED BY <2>1, <2>2
<1> QED BY <1>1, <1>2, <1>3, <1>4, <1>5, <1>6, <1>7, <1>8, <1>9 DEF World

LEMMA StepInv == IInv /\ [Next]_vars => IInv'
<1>1. ASSUME IInv, UNCHANGED vars PROVE IInv'
    BY <1>1 DEF vars, IInv, TimerTypeOK, Counted, ReadCleared, Second
<1> QED BY <1>1, ThreadStep, WorldStep DEF Next

-----------------------------------------------------------------------------
(* The inductive invariant of the idle timer.                              *)
THEOREM Invariance == Spec => []IInv
BY InitInv, StepInv, PTL DEF Spec

(* The count and the value an increment has read stay in their ranges.     *)
THEOREM TypeCorrect == Spec => []TimerTypeOK
BY Invariance, PTL DEF IInv

(* The device does not go to sleep before idleSleepTime turns without a    *)
(* touch, for every set of option values.                                  *)
THEOREM NotEarly == Spec => IdleNotEarly
<1>1. ASSUME IInv, Next, idle = "look", idle' = "ask", device = "open", ~pending
      PROVE  calm >= idleSleepTime
  <2>1. Look
      BY <1>1 DEF Next, IdleSleep, World, Start, Open, Look, Ask, Drain, Read, Sleep, Store, Usbms,
             SshTurn, Restart, Goto, Touch, UpdateOption, UsbMassStorage, SleepBegins,
             RequestVoided, SleepEnds, AfterSleepResets, TouchscreenGoes, TouchscreenReturns,
             thread
  <2>2. idleSleepTime = countIdle
      BY <1>1, <2>1 DEF Look
  <2> QED BY <1>1, <2>2, TimesAssumption DEF IInv, Counted, TimerTypeOK
<1>2. IInv /\ [Next]_vars
        => [idle = "look" /\ idle' = "ask" /\ device = "open" /\ ~pending
              => calm >= idleSleepTime]_vars
    BY <1>1
<1> QED BY Invariance, <1>2, PTL DEF Spec, IdleNotEarly

=============================================================================
