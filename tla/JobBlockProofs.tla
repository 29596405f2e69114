--------------------------- MODULE JobBlockProofs ---------------------------
(***************************************************************************)
(* At which place of its list a job of SleepControl is, and how it goes on *)
(* from there: what the proofs about the device and about progress share.  *)
(***************************************************************************)
EXTENDS SleepControlProofs

-----------------------------------------------------------------------------
(* The blocks of the two jobs, by their places.                            *)

(* The blocks of prepareSleep that matter below.                           *)
LEMMA PrepareSteps ==
    /\ Len(Steps["Prepare"]) = 12
    /\ \A i \in 1 .. 12 :
         /\ Steps["Prepare"][i] \in Unguarded   <=> i \in {1, 3}
         /\ Steps["Prepare"][i] = "pipeStart"   <=> i = 4
         /\ Steps["Prepare"][i] = "freezeApps"  <=> i = 5
         /\ Steps["Prepare"][i] = "sleepMode"   <=> i = 7
         /\ Steps["Prepare"][i] = "wifiOff"     <=> i = 9
         /\ Steps["Prepare"][i] = "usbNetOff"   <=> i = 10
         /\ Steps["Prepare"][i] = "deepSleepGo" <=> i = 12
         /\ Steps["Prepare"][i] \notin {"unfreezeApps", "awakeMode", "returnDeepSleep",
                "forgetDeepSleep", "wifiOn", "usbNetOn", "finish", "lockWait"}
  BY DEF Steps, Unguarded

(* The blocks of afterSleep that matter below.                             *)
LEMMA AfterSteps ==
    /\ Len(Steps["After"]) = 14
    /\ \A i \in 1 .. 14 :
         /\ Steps["After"][i] \in Unguarded       <=> i \in {1, 2, 3}
         /\ Steps["After"][i] = "returnDeepSleep" <=> i = 1
         /\ Steps["After"][i] = "forgetDeepSleep" <=> i = 2
         /\ Steps["After"][i] = "awakeMode"       <=> i = 4
         /\ Steps["After"][i] = "wifiOn"          <=> i = 5
         /\ Steps["After"][i] = "lockWait"        <=> i = 8
         /\ Steps["After"][i] = "unfreezeApps"    <=> i = 10
         /\ Steps["After"][i] = "usbNetOn"        <=> i = 12
         /\ Steps["After"][i] = "finish"          <=> i = 14
         /\ Steps["After"][i] \notin {"pipeStart", "freezeApps", "sleepMode", "wifiOff",
                "usbNetOff", "deepSleepGo"}
  BY DEF Steps, Unguarded

BlockJob == {"Prepare", "After"}

(* The blocks that only afterSleep has.                                    *)
LEMMA BlocksOf ==
    ASSUME NEW k \in BlockJob, NEW i \in 1 .. Len(Steps[k])
    PROVE  /\ (k = "Prepare" /\ i \in 1 .. 12) \/ (k = "After" /\ i \in 1 .. 14)
           /\ Steps[k][i] = "forgetDeepSleep" => k = "After" /\ i = 2
           /\ Steps[k][i] = "lockWait" => k = "After" /\ i = 8
           /\ Steps[k][i] = "finish"   => k = "After" /\ i = 14
<1>1. CASE k = "Prepare"
  <2>1. i \in 1 .. 12
    BY <1>1, PrepareSteps
  <2>2. Steps[k][i] \notin {"forgetDeepSleep", "lockWait", "finish"}
    BY <1>1, <2>1, PrepareSteps
  <2>3. QED
    BY <1>1, <2>1, <2>2
<1>2. CASE k = "After"
  BY <1>2, AfterSteps
<1>3. QED
  BY <1>1, <1>2 DEF BlockJob

(* A job at a block is at one that there is; only guarded ones have a      *)
(* check, and are done only by a job that is not dying.                    *)
Positions ==
    \A t \in Thread :
        /\ job[t].pc \in {"act", "check"} =>
             job[t].kind \in BlockJob /\ job[t].at \in 1 .. Len(Steps[job[t].kind])
        /\ job[t].pc = "check" => StepName(t) \notin Unguarded
        /\ job[t].pc = "act" /\ StepName(t) \notin Unguarded => ~die[job[t].kind]

(* A job that arrives at a block is there to check its order, or to do it  *)
(* if it is one that needs no order.                                       *)
LEMMA ArriveAt ==
    ASSUME NEW k \in BlockJob, NEW i \in Nat, i > 0
    PROVE  /\ Arrive(k, i).kind = k /\ Arrive(k, i).at = i
           /\ Arrive(k, i).pc \in {"act", "check"} => i \in 1 .. Len(Steps[k])
           /\ Arrive(k, i).pc = "act" => Steps[k][i] \in Unguarded
           /\ Arrive(k, i).pc = "check" => Steps[k][i] \notin Unguarded
  BY PrepareSteps, AfterSteps DEF Arrive, BlockJob

(* The ways of a job: goSleep has its own places; the others start, pass a *)
(* check dying or not, do a block, wait for the lock screen, and leave.    *)
Starts(t) ==
    /\ job[t].kind \in BlockJob
    /\ job'[t] = Arrive(job[t].kind, 1)
    /\ UNCHANGED orders
Skips(t) ==
    /\ job[t].kind \in BlockJob /\ job[t].at \in 1 .. Len(Steps[job[t].kind])
    /\ StepName(t) \notin Unguarded /\ die'[job[t].kind]
    /\ job'[t] = Arrive(job[t].kind, job[t].at + 1)
    /\ UNCHANGED orders
Passes(t) ==
    /\ job[t].kind \in BlockJob /\ job[t].at \in 1 .. Len(Steps[job[t].kind])
    /\ StepName(t) \notin Unguarded
    /\ ~die'[job[t].kind] /\ ~die[job[t].kind] /\ sleepJob = job[t].kind
    /\ job'[t] = [job[t] EXCEPT !.pc = "act"]
    /\ UNCHANGED orders
Does(t) ==
    /\ job[t].kind \in BlockJob /\ job[t].at \in 1 .. Len(Steps[job[t].kind])
    /\ job[t].pc = "act"
    /\ \/ job'[t] = Arrive(job[t].kind, job[t].at + 1)
       \/ /\ job[t].kind = "After" /\ job[t].at = 8
          /\ job'[t] = [job[t] EXCEPT !.pc = "check"]
    /\ UNCHANGED die
Leaves(t) ==
    \/ job'[t] = NoJob /\ UNCHANGED orders
    \/ job'[t] = NoJob /\ UNCHANGED sleepJob
    \/ /\ job[t].kind \in BlockJob /\ UNCHANGED <<die, orders>>
       /\ job'[t] = [job[t] EXCEPT !.pc = "report"]
IsGoSleep(t) ==
    /\ job'[t].kind = "GoingSleep" /\ job'[t].pc \notin {"act", "check"}
    /\ UNCHANGED sleepJob

(* While a job runs it is the only one.                                    *)
LEMMA Alone ==
    ASSUME IInv, NEW t \in Thread, Job(t)
    PROVE  \A u \in Thread \ {t} : job[u] = NoJob /\ job'[u] = NoJob
  BY JobEffect DEF IInv, AtMostOneJob, Live

(* These are all the ways a job can go.                                    *)
LEMMA Ways ==
    ASSUME IInv, Positions, NEW t \in Thread, Job(t)
    PROVE  \/ Starts(t) \/ Skips(t) \/ Passes(t) \/ Leaves(t) \/ IsGoSleep(t)
           \/ Act(t) /\ Does(t)
<1>1. /\ job[t] \in JobRecord /\ job \in [Thread -> JobRecord]
      /\ die \in [JobKind -> BOOLEAN]
  BY DEF IInv, TypeOK, JobRecord
<1>2. CASE JobStart(t)
  <2>1. job[t].kind \in JobKind
    BY <1>2 DEF JobStart, JobAt, IInv, JobShape
  <2>2. CASE job[t].kind = "GoingSleep"
    BY <1>1, <1>2, <2>2 DEF JobStart, IsGoSleep, JobRecord, orders
  <2>3. QED
    BY <1>1, <1>2, <2>1, <2>2 DEF JobStart, Starts, BlockJob, JobKind
<1>3. CASE CheckOrder(t)
  <2>1. /\ job[t].kind \in BlockJob /\ job[t].at \in 1 .. Len(Steps[job[t].kind])
        /\ StepName(t) \notin Unguarded
    BY <1>3 DEF CheckOrder, JobAt, Positions
  <2>2. job[t].kind \in JobKind
    BY <2>1 DEF BlockJob, JobKind
  <2>3. die'[job[t].kind] = (die[job[t].kind] \/ sleepJob # job[t].kind)
    BY <1>1, <1>3, <2>2 DEF CheckOrder
  <2>4. CASE die'[job[t].kind]
    BY <1>1, <1>3, <2>1, <2>4 DEF CheckOrder, Skips
  <2>5. CASE ~die'[job[t].kind]
    <3>1. ~die[job[t].kind] /\ sleepJob = job[t].kind
      BY <2>3, <2>5
    <3>2. job'[t] = [job[t] EXCEPT !.pc = "act"] /\ UNCHANGED orders
      BY <1>1, <1>3, <2>5 DEF CheckOrder, Goto
    <3>3. QED
      BY <2>1, <2>5, <3>1, <3>2 DEF Passes
  <2>6. QED
    BY <2>4, <2>5
<1>4. CASE Act(t)
  <2>1. /\ job[t].kind \in BlockJob /\ job[t].at \in 1 .. Len(Steps[job[t].kind])
        /\ job[t].pc = "act" /\ UNCHANGED die
    BY <1>4 DEF Act, JobAt, Positions
  <2>2. CASE StepName(t) = "lockWait" /\ lockscreenUp
    <3>1. Steps[job[t].kind][job[t].at] = "lockWait"
      BY <2>2 DEF StepName
    <3>2. job[t].kind = "After" /\ job[t].at = 8
      BY <2>1, <3>1, BlocksOf
    <3>3. job'[t] = [job[t] EXCEPT !.pc = "check"]
      BY <1>1, <1>4, <2>2 DEF Act, Goto
    <3>4. QED
      BY <1>4, <2>1, <3>2, <3>3 DEF Does
  <2>3. CASE ~(StepName(t) = "lockWait" /\ lockscreenUp)
    <3>1. job'[t] = Arrive(job[t].kind, job[t].at + 1)
      BY <1>1, <1>4, <2>3 DEF Act
    <3>2. QED
      BY <1>4, <2>1, <3>1 DEF Does
  <2>4. QED
    BY <2>2, <2>3
<1>5. CASE Release(t)
  <2>1. job[t].kind \in JobKind
    BY <1>5 DEF Release, JobAt, IInv, JobShape
  <2>2. CASE job[t].kind = "GoingSleep"
    BY <1>1, <1>5, <2>2 DEF Release, Goto, IsGoSleep, JobRecord, orders
  <2>3. CASE job[t].kind # "GoingSleep"
    BY <1>1, <1>5, <2>1, <2>3 DEF Release, Goto, Leaves, BlockJob, JobKind
  <2>4. QED
    BY <2>2, <2>3
<1>6. CASE Report(t)
  BY <1>1, <1>6 DEF Report, Leaves
<1>7. CASE GoSleep(t)
  <2>1. job[t].kind = "GoingSleep"
    BY <1>7 DEF GoSleep, Forget, Mute, CEG, AfterCEG, Extend, SuspendLoop, Retake, Suspend,
                Judge, Unmute, AskForAfter, GoStep, JobAt, IInv, JobShape, GoSleepPc
  <2>2. UNCHANGED sleepJob
    BY <1>7 DEF GoSleep, Forget, Mute, CEG, Extend, SuspendLoop, Retake, Suspend, Judge,
                Unmute, AskForAfter, orders
  <2>3. job'[t].kind = "GoingSleep" /\ job'[t].pc \notin {"act", "check"}
    BY <1>1, <1>7, <2>1
       DEF GoSleep, Forget, Mute, CEG, AfterCEG, Extend, SuspendLoop, Retake, Suspend, Judge,
           Unmute, AskForAfter, GoStep, Goto, JobRecord
  <2>4. QED
    BY <2>2, <2>3 DEF IsGoSleep
<1>8. QED
  BY <1>2, <1>3, <1>4, <1>5, <1>6, <1>7 DEF Job

(* Whoever moves, every job stays at a place of its list.                  *)
LEMMA PositionsStep ==
    ASSUME IInv, Positions, [Next]_vars
    PROVE  Positions'
<1>1. CASE Launch
  <2>1. PICK t \in Thread :
          job' = [job EXCEPT ![t] = [kind |-> watchdog.want, pc |-> "start", at |-> 0]]
    BY <1>1 DEF Launch
  <2>2. job'[t].pc = "start" /\ \A u \in Thread \ {t} : job'[u] = job[u]
    BY <2>1 DEF IInv, TypeOK
  <2>3. UNCHANGED die
    BY <1>1 DEF Launch
  <2>4. QED
    BY <2>2, <2>3 DEF Positions, StepName
<1>2. ASSUME NEW t \in Thread, Job(t)
      PROVE  Positions'
  <2> SUFFICES /\ job'[t].pc \in {"act", "check"} =>
                    job'[t].kind \in BlockJob /\ job'[t].at \in 1 .. Len(Steps[job'[t].kind])
               /\ job'[t].pc = "check" => StepName(t)' \notin Unguarded
               /\ job'[t].pc = "act" /\ StepName(t)' \notin Unguarded => ~die'[job'[t].kind]
    BY <1>2, Alone DEF Positions, NoJob
  <2>1. job[t] \in JobRecord
    BY DEF IInv, TypeOK, JobRecord
  <2>2. CASE Starts(t)
    BY <2>2, ArriveAt DEF Starts, StepName
  <2>3. CASE Skips(t) \/ Does(t)
    <3>1. CASE job'[t] = Arrive(job[t].kind, job[t].at + 1)
      <4>1. job[t].kind \in BlockJob /\ job[t].at + 1 \in Nat /\ job[t].at + 1 > 0
        BY <2>1, <2>3 DEF Skips, Does, JobRecord
      <4>2. QED
        BY <3>1, <4>1, ArriveAt DEF StepName
    <3>2. CASE Does(t) /\ job'[t] = [job[t] EXCEPT !.pc = "check"] /\ job[t].kind = "After"
                /\ job[t].at = 8
      <4>1. job'[t].kind = "After" /\ job'[t].at = 8 /\ job'[t].pc = "check"
        BY <2>1, <3>2 DEF JobRecord
      <4>2. Steps["After"][8] \notin Unguarded /\ 8 \in 1 .. Len(Steps["After"])
        BY AfterSteps
      <4>3. QED
        BY <4>1, <4>2 DEF StepName, BlockJob
    <3>3. QED
      BY <2>3, <3>1, <3>2 DEF Skips, Does
  <2>4. CASE Passes(t)
    BY <2>1, <2>4 DEF Passes, JobRecord, StepName
  <2>5. CASE Leaves(t)
    BY <2>1, <2>5 DEF Leaves, JobRecord, NoJob
  <2>6. CASE IsGoSleep(t)
    BY <2>6 DEF IsGoSleep
  <2>7. QED
    BY <1>2, <2>2, <2>3, <2>4, <2>5, <2>6, Ways
<1>3. CASE UNCHANGED <<job, die>>
  BY <1>3 DEF Positions, StepName
<1>4. QED
  BY <1>1, <1>2, <1>3, WatchdogEffect, OtherEffect DEF Next, vars, jobs

(* A job starts at no place.                                               *)
LEMMA PositionsInit == Init => Positions
<1>1. Init => \A t \in Thread : job[t].pc = "none"
  BY DEF Init, NoJob
<1>2. QED
  BY <1>1 DEF Positions

(* No job is ever past the end of its list, or acts unchecked where the    *)
(* code checks.                                                            *)
THEOREM PlacesKept == Spec => []Positions
<1>1. IInv /\ Positions /\ [Next]_vars => Positions'
  BY PositionsStep
<1>2. QED
  BY <1>1, PositionsInit, Invariance, PTL DEF Spec

=============================================================================
