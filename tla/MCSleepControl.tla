--------------------------- MODULE MCSleepControl ---------------------------
(* SleepControl for TLC: the threads that detached jobs run on are         *)
(* interchangeable, which the runs without liveness properties exploit.    *)
EXTENDS SleepControl, TLC

ThreadSymmetry == Permutations(Thread)

=============================================================================
