---------------------------- MODULE MCTransport ----------------------------
(* Small instances of the whole process. *)
EXTENDS MCL1, DataTransport

MixedPair == {<<"sequencer", "l1">>}
OneSequenced == {<<"sequencer">>}
OneOrTwo == {<<"sequencer">>, <<"sequencer", "sequencer">>}
=============================================================================
