------------------------------ MODULE JobSlot -------------------------------
(***************************************************************************)
(* What the watchdog promises about the jobs, without its mutexes and its  *)
(* polling: there is one slot.  A job is announced for an empty slot, a    *)
(* thread then takes it up, and the slot is empty again when that thread   *)
(* has gone; the buttons are muted only by a goSleep at work, and never    *)
(* across the end of a job.                                                *)
(***************************************************************************)
CONSTANTS Thread, JobKind

VARIABLES
    slot,     \* the announced job, or "Nothing"
    workers,  \* the threads at work
    muted     \* button presses raise no requests

Init == slot = "Nothing" /\ workers = {} /\ muted = FALSE

Announce ==
    /\ slot = "Nothing" /\ workers = {}
    /\ slot' \in JobKind
    /\ UNCHANGED <<workers, muted>>

Begin ==
    /\ slot # "Nothing" /\ workers = {}
    /\ \E t \in Thread : workers' = {t}
    /\ UNCHANGED <<slot, muted>>

Mute ==
    /\ slot = "GoingSleep" /\ workers # {}
    /\ muted' = TRUE
    /\ UNCHANGED <<slot, workers>>

Unmute == muted' = FALSE /\ UNCHANGED <<slot, workers>>

Finish ==
    /\ ~muted /\ workers # {}
    /\ slot' = "Nothing" /\ workers' = {}
    /\ UNCHANGED muted

Next == Announce \/ Begin \/ Mute \/ Unmute \/ Finish

Spec == Init /\ [][Next]_<<slot, workers, muted>>

=============================================================================
