---------------------------- MODULE MCSupervisor ----------------------------
(***************************************************************************)
(* Supervisor with two callers, so that commands contend for cmdMu; two    *)
(* goroutine identities, so that a second session can start while the      *)
(* first winds down, were that possible; three exits with a limit of two.  *)
(*                                                                         *)
(* Backoff with small integers, so that products leave their range: caps   *)
(* and factors on either side of what fits, and a factor below 1.          *)
(***************************************************************************)
EXTENDS Supervisor, Backoff, TLC

Symmetric == Permutations(Callers) \cup Permutations(Loops)
SmallBackoffs == [Min: {1, 3, 32}, Max: {4, 20, 32, 33}, Factor: {-1, 2, 4}]
=============================================================================
