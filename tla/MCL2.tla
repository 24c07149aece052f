------------------------------- MODULE MCL2 -------------------------------
(* Small instances of L2 ingestion. *)
EXTENDS L2Ingestion
=============================================================================
