--------------------------- MODULE MCRegistration ---------------------------
(* Registration with a few processes. *)
EXTENDS Registration, TLC

Symmetry == Permutations(Processes)
=============================================================================
