--------------------------- MODULE FeatureCounts ---------------------------
(***************************************************************************)
(* What a class of an OSB/Markov database promises: a count for each       *)
(* feature, without any notion of buckets, probes or chains.               *)
(*                                                                         *)
(* Learning a feature adds one to its count and touches no other, until    *)
(* the count has reached its limit.  A feature that has no count yet needs *)
(* one of the Capacity places.  While microgrooming is allowed, the class  *)
(* may forget some features -- each of them entirely, never in part.       *)
(***************************************************************************)
EXTENDS Integers, FiniteSets

CONSTANTS
  Features,   \* the features that can be learned
  Capacity,   \* how many features have room
  Limit       \* the largest count

VARIABLES
  mayForget,  \* whether the call that runs may forget other features
  count

Known == {f \in Features : count[f] > 0}

Init == count = [f \in Features |-> 0]

Learn(f) ==
  /\ f \in Known \/ Cardinality(Known) < Capacity
  /\ count' = [count EXCEPT ![f] = IF @ = Limit THEN Limit ELSE @ + 1]

Forget(F) ==
  /\ mayForget
  /\ count' = [f \in Features |-> IF f \in F THEN 0 ELSE count[f]]

Next ==
  \/ \E f \in Features : Learn(f)
  \/ \E F \in SUBSET Known : Forget(F)

Spec == Init /\ [][Next]_count
=============================================================================
