-------------------------- MODULE MCProfilerServer --------------------------
(* ProfilerServer on small sets of threads and modules. *)
EXTENDS ProfilerServer, TLC

Symmetry == Permutations(Threads)
=============================================================================
