--------------------------- MODULE MCPowerDaemon ---------------------------
(* PowerDaemon for TLC: the threads that detached jobs run on are         *)
(* interchangeable, which the runs without liveness properties exploit.    *)
EXTENDS PowerDaemon, TLC

ThreadSymmetry == Permutations(Thread)

(* No variable of the device decides a step of the daemon, and the         *)
(* governor depends on no other: in the run about the governor, states     *)
(* that differ elsewhere on the device count as one.                       *)
GovernorView == <<vars, governor>>

=============================================================================
