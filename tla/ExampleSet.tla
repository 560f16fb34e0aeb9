----------------------------- MODULE ExampleSet -----------------------------
(***************************************************************************)
(* What a database that keeps its examples promises about them: learning   *)
(* adds one, erasing takes out every one that is the same, and no other    *)
(* call changes which there are.  A call that is denied memory loses       *)
(* nothing; grooming only takes away; and when the solver gives up,        *)
(* nothing is left.  last says what a call was to do and how it went.      *)
(***************************************************************************)
EXTENDS Bags, Integers

CONSTANT Examples

VARIABLES
  able,      \* whether the database has a file to keep examples in
  examples,  \* the bag of examples kept
  last       \* [did |-> [op, e], how]

Init == examples = EmptyBag /\ last.did.op = "new"

\* The bag the call asks for.
Asked ==
  LET e == last'.did.e
  IN  CASE last'.did.op = "add"   -> IF able THEN examples (+) SetToBag({e}) ELSE examples
        [] last'.did.op = "erase" -> [x \in DOMAIN examples \ {e} |-> examples[x]]
        [] OTHER -> examples

Done    == last'.how = "ok" /\ examples' = Asked
Denied  == last'.how = "denied" /\ examples' \in {examples, Asked}
Groomed == last'.how = "groomed" /\ examples' \sqsubseteq Asked
GaveUp  == last'.how = "gave up" /\ examples' = EmptyBag

Next == able' = able /\ (Done \/ Denied \/ Groomed \/ GaveUp)

Spec == Init /\ [][Next]_<<able, examples, last>>
=============================================================================
