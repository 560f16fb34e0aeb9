---------------------------- MODULE MCHyperspace ----------------------------
(* Small instances of HyperspaceText for TLC. *)
EXTENDS HyperspaceText

CellValues == 0 .. 3

GraphicChars == {"a", "b"}

\* A hash of two bits that tells the words below apart.
Hash(word) == CASE word = <<"a">> -> 1 [] word = <<"b">> -> 3 [] OTHER -> 2

\* A word by itself, and with the one before it.
TwoRows == <<<<1, 0>>, <<1, 2>>>>

\* No word, one that fills its room, two, and a repeated one among blanks.
SmallTexts ==
  {<<>>, <<"a">>, <<"a", "b", " ", "b">>, <<" ", "a", " ", " ", "a", " ">>}

RowsOfTexts == {Row[t][fl] : t \in Texts, fl \in FlagSets}
=============================================================================
