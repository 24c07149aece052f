------------------------------- MODULE MCL1 -------------------------------
(* Small instances of L1 ingestion: values of the constants. *)
EXTENDS L1IngestionProperties, TLC

CONSTANTS ctc, scc, newCtc, newScc

MCDeployed == CTC :> ctc @@ SCC :> scc

OnlyCtc == {CTC}

OneL1 == {<<"l1">>}
OneOfEach == {<<"sequencer">>, <<"l1">>}
Mixed == {<<"sequencer", "l1">>, <<"l1", "l1">>}

=============================================================================
