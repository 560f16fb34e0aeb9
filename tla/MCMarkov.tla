------------------------------ MODULE MCMarkov ------------------------------
(* Small instances of MarkovLearn and MarkovText for TLC. *)
EXTENDS MarkovText

OneEach == {<<f>> : f \in Features}

AffirmOrErase == {{}, {"ERASE"}, {"REFUTE"}}
GroomOrNot == {{}, {"MICROGROOM"}, {"REFUTE"}}
GroomOrRefuted == {{"MICROGROOM"}, {"REFUTE"}}

\* Five features for a table of six, so that one bucket is always free, with
\* homes in the last two buckets and the first. A chain wraps round the end of
\* the table, and its second segment may hold only features that came round.
WrappingFeatures == {4, 10, 16, 5, 6}
\* A document whose second feature can find the groomer helpless.
OneEachOrTwo == OneEach \cup {<<4, 5>>}
\* More features than the four buckets, all of them at home in the third.
OneHomeFeatures == {2, 6, 10, 14, 18}
\* Homes 0, 0, 1, 1 in a table of three.
ThreeBucketFeatures == {3, 6, 1, 4}
\* The one-feature documents and two with two features.
SomePairs == OneEach \cup {<<3, 6>>, <<6, 1>>}
=============================================================================
