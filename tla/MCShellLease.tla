---------------------------- MODULE MCShellLease ----------------------------
(* Constants for TLC: calls are interchangeable in the safety runs.         *)
EXTENDS ShellLease, TLC

CallSymmetry == Permutations(Calls)
=============================================================================
