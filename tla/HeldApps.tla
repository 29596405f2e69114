------------------------------ MODULE HeldApps ------------------------------
(***************************************************************************)
(* What the daemon promises about the programs it holds while the device   *)
(* sleeps, without the jobs, their lists and their searches: it holds      *)
(* programs that are there; it lets all of them go at once, and, if there  *)
(* is to be a lock screen, only in a waking in which the lock screen has   *)
(* come up and has been left.  A waking may be given up at any time, and   *)
(* the next one begins with the lock screen again.                         *)
(***************************************************************************)
VARIABLES
    alive,   \* the programs that run
    held,    \* those the daemon has stopped and not continued
    up,      \* the lock screen runs; it comes and goes with any step
    locked,  \* there is to be a lock screen
    waking   \* "away", or the lock screen is "shown" or has been "left"

Init == held = {} /\ waking = "away"

Hold ==
    /\ waking = "away"
    /\ held \subseteq held' /\ held' \subseteq alive
    /\ UNCHANGED <<alive, waking>>

Show ==
    /\ waking = "away" /\ waking' = "shown"
    /\ up'
    /\ UNCHANGED <<alive, held>>

Leave ==
    /\ waking = "shown" /\ waking' = "left"
    /\ ~up /\ ~up'
    /\ UNCHANGED <<alive, held>>

LetGo ==
    /\ locked => waking = "left"
    /\ held' = {}
    /\ waking' \in {waking, "away"}
    /\ UNCHANGED alive

GiveUp == waking' = "away" /\ UNCHANGED <<alive, held>>

(* Programs start and end.                                                 *)
ComeAndGo == held' = held \cap alive' /\ UNCHANGED waking

Next ==
    /\ Hold \/ Show \/ Leave \/ LetGo \/ GiveUp \/ ComeAndGo
    /\ UNCHANGED locked

Spec == Init /\ [][Next]_<<alive, held, up, locked, waking>>

=============================================================================
