-------------------------- MODULE MCThreadAffinity --------------------------
(***************************************************************************)
(* ThreadAffinity with two threads of the host, one of a script and as     *)
(* many ids as threads, so that ids of ended threads come back.            *)
(***************************************************************************)
EXTENDS ThreadAffinity

=============================================================================
