---------------------------- MODULE MarkovTable ----------------------------
(***************************************************************************)
(* The hash table in which the OSB/Markov classifier keeps one class.      *)
(*                                                                         *)
(* A class is HtLen buckets, each a feature hash and a value (how often    *)
(* the feature was learned).  A feature lives in the first bucket of its   *)
(* probe path -- its home bucket, then the next ones, round the end of the *)
(* table -- that already carries its hash or has value 0.  learn, classify *)
(* and the microgroomer each walk this path with a loop of their own;      *)
(* these operators say where such a walk stops.                            *)
(*                                                                         *)
(* A table is given by two functions on Slots: h (the hashes) and v (the   *)
(* values).                                                                *)
(*                                                                         *)
(* Definitions named Wrong... are variants with a plausible slip in them.  *)
(***************************************************************************)
EXTENDS Integers

CONSTANTS
  HtLen,      \* buckets in the block of a class
  Features,   \* the feature hashes that texts can produce
  ValueMax    \* MARKOV_FEATUREBUCKET_VALUE_MAX

ASSUME HtLenAssumption    == HtLen \in Nat \ {0}
ASSUME FeaturesAssumption == Features \subseteq Nat
ASSUME ValueMaxAssumption == ValueMax \in Nat \ {0, 1}

Slots  == 0 .. HtLen - 1
Hashes == Features \cup {0}
Values == 0 .. ValueMax - 1

EmptyHash  == [s \in Slots |-> 0]
EmptyValue == [s \in Slots |-> 0]

\* h1 % htlen
Home(f) == f % HtLen

\* hindex++; if (hindex >= htlen) hindex = 0
Succ(s) == IF s + 1 >= HtLen THEN 0 ELSE s + 1

\* How many buckets a walk that starts at a passes before it is at s.
Dist(a, s) == IF s >= a THEN s - a ELSE s - a + HtLen

\* A walk in search of f goes no further than bucket s.
Stops(h, v, f, s) == h[s] = f \/ v[s] = 0

\* Every bucket before s on the probe path of f is in use by another feature.
Reaches(h, v, f, s) ==
  \A t \in Slots : Dist(Home(f), t) < Dist(Home(f), s) => ~Stops(h, v, f, t)

\* The bucket at which the search for f ends, when the table has one.
StopSlot(h, v, f) ==
  CHOOSE s \in Slots : Stops(h, v, f, s) /\ Reaches(h, v, f, s)

(***************************************************************************)
(* What classify sees: the bucket it takes as a hit for f (at most one),   *)
(* and the value it reads there.                                           *)
(***************************************************************************)
HitSlots(h, v, f) == {s \in Slots : h[s] = f /\ Reaches(h, v, f, s)}

LookupValue(h, v, f) ==
  IF HitSlots(h, v, f) = {} THEN 0 ELSE v[CHOOSE s \in HitSlots(h, v, f) : TRUE]

\* Every feature the table stores is in the bucket where a search finds it.
AllReachable(h, v) == \A s \in Slots : v[s] > 0 => Reaches(h, v, h[s], s)

\* The values of all buckets together, and those stored under f.
SumOf(v) ==
  LET sum[n \in 0 .. HtLen] == IF n = 0 THEN 0 ELSE sum[n - 1] + v[n - 1]
  IN  sum[HtLen]

StoredTotal(h, v, f) == SumOf([s \in Slots |-> IF h[s] = f THEN v[s] ELSE 0])

(***************************************************************************)
(* A table written as text and read back: only the buckets with a non-zero *)
(* hash are written, and the reader fills a zeroed table.                  *)
(***************************************************************************)
WrongRestoredValue(h, v) == [s \in Slots |-> IF h[s] # 0 /\ s > 0 THEN v[s] ELSE 0]
RestoredValue(h, v) == [s \in Slots |-> IF h[s] # 0 THEN v[s] ELSE 0]
=============================================================================
