---------------------------- MODULE MCBitEntropy ----------------------------
(* Small instances of BitEntropy for TLC. *)
EXTENDS BitEntropy

\* Texts of two and three chars of four bits, with common beginnings, and the
\* empty one; a zero byte and one more lie behind them.
MCTexts == {<<>>, <<0, 1, 1, 0, 0, 1, 1, 0, 0, 1, 1, 0>>, <<0, 1, 1, 0, 1, 0, 0, 1>>, <<0, 1, 1, 1, 1, 1, 0, 0>>}
MCAfterText == <<0, 0, 0, 0, 1, 0, 1, 1>>
MCModes == {{}, {"UNIQUE"}, {"UNIQUE", "CROSSLINK"}}
=============================================================================
