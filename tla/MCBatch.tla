------------------------------ MODULE MCBatch ------------------------------
(* A small instance of SequencerBatch. *)
EXTENDS SequencerBatch

\* Nothing, a valid transaction, one whose signature is not valid, and one
\* of an unknown type.
FourTransactions == {<<>>, <<0, 1>>, <<1, 27>>, <<9>>}
=============================================================================
