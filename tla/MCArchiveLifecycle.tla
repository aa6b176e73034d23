-------------------------- MODULE MCArchiveLifecycle --------------------------
(***************************************************************************)
(* Instances of ArchiveLifecycle; the bounds are numbers in the cfg files. *)
(***************************************************************************)
EXTENDS ArchiveLifecycle
=============================================================================
