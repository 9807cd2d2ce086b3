---------------------------- MODULE MCEventLoop ----------------------------
(* TLC instances of EventLoop: descriptor numbers, and the symmetry of the  *)
(* thread and connection identities (safety run only).                      *)
EXTENDS EventLoop, TLC

MCFDs == 1..3
MCSymmetry == Permutations(Threads) \cup Permutations(Conns)
=============================================================================
