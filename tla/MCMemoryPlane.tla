----------------------------- MODULE MCMemoryPlane -----------------------------
(* A small instance of the memory service for TLC. *)
EXTENDS MemoryPlane, TLC

Symmetry == Permutations(Handlers) \cup Permutations(Planes) \cup Permutations(Contribs)
            \cup Permutations(Refs)
=============================================================================
