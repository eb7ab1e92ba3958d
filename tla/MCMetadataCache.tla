-------------------------- MODULE MCMetadataCache --------------------------
(* MetadataCache on small sets of threads and modules. *)
EXTENDS MetadataCache, TLC

Symmetry == Permutations(Threads) \cup Permutations(Modules)
=============================================================================
