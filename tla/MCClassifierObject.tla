------------------------- MODULE MCClassifierObject -------------------------
(* Small instances of ClassifierObject for TLC: one object, which is let go *)
(* and made anew, as the original and as its clone. Objects share nothing   *)
(* but the dump.                                                            *)
EXTENDS ClassifierObject

CONSTANTS original, alice, hamlet, t1

\* hamlet is the second class of one object and the first of another.
TwoLists == {<<alice, hamlet>>, <<hamlet>>}
=============================================================================
