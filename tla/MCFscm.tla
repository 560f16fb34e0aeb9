------------------------------- MODULE MCFscm -------------------------------
(* Small instances of FscmMatch for TLC. *)
EXTENDS FscmMatch

\* Hashes 1 and 4 share a slot when the table has three cells, and 3 has slot
\* 0; slots recur within a document and across documents.
SmallDocs == {<<>>, <<4, 1>>, <<1, 2, 1>>, <<2, 1, 2, 2>>, <<3, 5>>}
LongUnknowns == {<<>>, <<1, 1, 1>>, <<1, 2, 1, 2>>, <<2, 1, 2, 2, 1>>, <<0, 2, 1>>, <<1, 1, 0, 1, 1>>}
=============================================================================
