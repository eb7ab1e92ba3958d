---------------------------- MODULE MCComServer ----------------------------
(* ComServer on small sets of threads and objects.  Liveness is checked in *)
(* the same run, so the sets are not symmetric.                            *)
EXTENDS ComServer
=============================================================================
