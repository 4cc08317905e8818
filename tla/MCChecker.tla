------------------------------ MODULE MCChecker ------------------------------
(* A small instance of the checker for TLC. *)
EXTENDS Checker, TLC

Handling == Permutations(Handlers) \cup Permutations(Admins)
=============================================================================
