-------------------------------- MODULE Fscm --------------------------------
(***************************************************************************)
(* The fast substring compression matcher: one class of its database.      *)
(*                                                                         *)
(* A class is two blocks.  The prefix table (index) has, for a feature's   *)
(* slot, the first position of the class's text at which the slot occurs;  *)
(* in the chain block each position holds the next position of its slot,   *)
(* and position 0 the next open one.  Learning walks from the table to the *)
(* end of the chain for every feature: a step of this specification is one *)
(* link of the walk.  A class touches only its own pair of blocks, so one  *)
(* class stands for all.                                                   *)
(*                                                                         *)
(* Definitions named Wrong... are variants with a plausible slip in them.  *)
(***************************************************************************)
EXTENDS Integers, Sequences, FiniteSets

CONSTANTS
  PrefixLen,   \* prefix_table_size, in cells
  ChainLen,    \* length of the chain block, in cells
  Docs         \* the feature rows that can be learned

ASSUME PrefixLenAssumption == PrefixLen \in Nat \ {0}
ASSUME ChainLenAssumption == ChainLen \in Nat \ {0}
ASSUME DocsAssumption == Docs \subseteq Seq(Nat)

Slots == 0 .. PrefixLen - 1
Slot(f) == f % PrefixLen

Positions == 1 .. ChainLen - 1
Blank == -1

VARIABLES
  index,         \* prefix_table[].index
  chains,        \* chains[].next
  documents,     \* cb.class[].documents
  features,      \* cb.class[].features
  pc,            \* where learn is: "idle", "insert" or "chase"
  doc,           \* the features being learned
  i,             \* how many of them are in
  newchainstart, \* where the document starts
  cind,          \* the link the walk has come to
  ret,           \* what the last call returned
  written        \* history: the slot learned at each position, or Blank

datablock == <<index, chains, documents, features>>
local == <<doc, i, newchainstart, cind>>
vars == <<index, chains, documents, features, pc, doc, i, newchainstart, cind, ret, written>>

-----------------------------------------------------------------------------
(* A new class.                                                            *)

NewIndex == [s \in Slots |-> 0]
\* Position 0 is reserved: a link to it is the end of a chain.
NewChains == [k \in 0 .. ChainLen - 1 |-> IF k = 0 THEN 1 ELSE 0]

Init ==
  /\ index = NewIndex /\ chains = NewChains
  /\ documents = 0 /\ features = 0
  /\ pc = "idle" /\ doc = <<>> /\ i = 0 /\ newchainstart = 0 /\ cind = 0
  /\ ret = "OK"
  /\ written = [p \in Positions |-> Blank]

-----------------------------------------------------------------------------
(* Learning.                                                               *)

\* The next open position: three zeroes end a document.
NextOpen(start, length) == start + length + 3

\* The bound of the model.  The code learns whatever it is given.
Fits(d) == chains[0] + Len(d) <= ChainLen

LearnRefused ==
  /\ pc = "idle"
  /\ ret' = "BADARG"
  /\ UNCHANGED <<datablock, local, pc, written>>

BeginLearn(d) ==
  /\ pc = "idle" /\ Fits(d)
  /\ newchainstart' = chains[0]
  /\ chains' = [chains EXCEPT ![0] = NextOpen(@, Len(d))]
  /\ doc' = d /\ i' = 0 /\ cind' = 0
  /\ pc' = "insert"
  /\ UNCHANGED <<index, documents, features, ret, written>>

Here == newchainstart + i
pti == Slot(doc[i + 1])

\* Feature i is in its place.
Placed ==
  /\ i' = i + 1
  /\ written' = [written EXCEPT ![Here] = pti]
  /\ pc' = "insert"

\* The first occurrence of the slot goes into the table.
FirstOfSlot ==
  /\ pc = "insert" /\ i < Len(doc) /\ index[pti] = 0
  /\ index' = [index EXCEPT ![pti] = Here]
  /\ chains' = [chains EXCEPT ![Here] = 0]
  /\ Placed
  /\ UNCHANGED <<documents, features, doc, newchainstart, cind, ret>>

\* Any other goes to the end of the slot's chain.
BeginChase ==
  /\ pc = "insert" /\ i < Len(doc) /\ index[pti] # 0
  /\ cind' = index[pti]
  /\ pc' = "chase"
  /\ UNCHANGED <<datablock, doc, i, newchainstart, ret, written>>

Chase ==
  /\ pc = "chase" /\ chains[cind] # 0
  /\ cind' = chains[cind]
  /\ UNCHANGED <<datablock, doc, i, newchainstart, pc, ret, written>>

\* A variant with a slip: only the table's entry is linked, and what followed
\* it is lost.
WrongLinkedAtHead(last, here) == [chains EXCEPT ![index[pti]] = here, ![here] = 0]
Linked(last, here) == [chains EXCEPT ![last] = here, ![here] = 0]

LinkAtEnd ==
  /\ pc = "chase" /\ chains[cind] = 0
  /\ chains' = Linked(cind, Here)
  /\ Placed
  /\ UNCHANGED <<index, documents, features, doc, newchainstart, cind, ret>>

EndLearn ==
  /\ pc = "insert" /\ i = Len(doc)
  /\ features' = features + Len(doc)
  /\ documents' = documents + 1
  /\ pc' = "idle" /\ ret' = "OK"
  /\ doc' = <<>> /\ i' = 0 /\ newchainstart' = 0 /\ cind' = 0
  /\ UNCHANGED <<index, chains, written>>

-----------------------------------------------------------------------------
(* The text form: a line for each cell that is not zero, read into a new   *)
(* class.                                                                  *)

WrongLines(cells) == [k \in {k \in DOMAIN cells : k > 0 /\ cells[k] # 0} |-> cells[k]]
Lines(cells) == [k \in {k \in DOMAIN cells : cells[k] # 0} |-> cells[k]]

ReadInto(fresh, lines) ==
  [k \in DOMAIN fresh |-> IF k \in DOMAIN lines THEN lines[k] ELSE fresh[k]]

SaveRestore ==
  /\ pc = "idle"
  /\ index' = ReadInto(NewIndex, Lines(index))
  /\ chains' = ReadInto(NewChains, Lines(chains))
  /\ UNCHANGED <<documents, features, local, pc, ret, written>>

Learning == FirstOfSlot \/ BeginChase \/ Chase \/ LinkAtEnd \/ EndLearn

Next == LearnRefused \/ (\E d \in Docs : BeginLearn(d)) \/ Learning \/ SaveRestore

Spec == Init /\ [][Next]_vars

\* A call runs to its end in the one thread that made it.
FairSpec == Spec /\ WF_vars(Learning)

-----------------------------------------------------------------------------
(***************************************************************************)
(* Types of the variables.                                                 *)
(***************************************************************************)
TypeOK ==
  /\ index \in [Slots -> Nat]
  /\ chains \in [0 .. ChainLen - 1 -> Nat] /\ chains[0] # 0
  /\ documents \in Nat /\ features \in Nat
  /\ pc \in {"idle", "insert", "chase"}
  /\ doc \in Docs \cup {<<>>}
  /\ i \in Nat /\ newchainstart \in Nat /\ cind \in Nat
  /\ ret \in {"OK", "BADARG"}
  /\ written \in [Positions -> Slots \cup {Blank}]

\* q is the first position after p at which slot s was learned; 0, none.
FirstAfter(p, s, q) ==
  /\ q = 0 => \A r \in Positions : r > p => written[r] # s
  /\ q # 0 => /\ q \in Positions /\ q > p /\ written[q] = s
              /\ \A r \in Positions : p < r /\ r < q => written[r] # s

(***************************************************************************)
(* The table and the chains are exactly the occurrences of each slot, in   *)
(* the order of the text, also while a document is going in: no walk can   *)
(* miss a position, leave its slot or go round.                            *)
(***************************************************************************)
ChainsAreOccurrences ==
  /\ \A s \in Slots : FirstAfter(0, s, index[s])
  /\ \A p \in Positions : IF written[p] = Blank THEN chains[p] = 0
                                               ELSE FirstAfter(p, written[p], chains[p])

(***************************************************************************)
(* "chains[0] is the index of the next open chaincell": there is one.      *)
(***************************************************************************)
NextOpenIsACell == chains[0] \in Positions

(***************************************************************************)
(* A call to learn comes to its end: no chain is a ring.                   *)
(***************************************************************************)
CallReturns == pc # "idle" ~> pc = "idle"

-----------------------------------------------------------------------------
(* The class as a list of documents, read back from the table and chains.  *)

\* The positions on the chain of slot s.
ChainOf(s) ==
  LET from[k \in 0 .. ChainLen - 1] == IF k = 0 THEN {} ELSE {k} \cup from[chains[k]]
  IN  from[index[s]]

SlotAt(p) == IF \E s \in Slots : p \in ChainOf(s) THEN CHOOSE s \in Slots : p \in ChainOf(s)
                                                  ELSE Blank

\* A document that starts at a goes on to the next blank position, or to the
\* end of the block.
EndFrom == [a \in 1 .. ChainLen |->
  CHOOSE z \in a .. ChainLen :
    /\ z = ChainLen \/ SlotAt(z) = Blank
    /\ \A r \in a .. z - 1 : SlotAt(r) # Blank]
DocFrom == [a \in 1 .. ChainLen |-> [k \in 1 .. EndFrom[a] - a |-> SlotAt(a + k - 1)]]
AfterDoc == [a \in 1 .. ChainLen |-> NextOpen(a, EndFrom[a] - a)]

\* Where each of the first n documents starts, and where the next one will.
Starts(n) ==
  LET at[m \in 0 .. n] == IF m = 0 THEN 1 ELSE AfterDoc[at[m - 1]] IN at

LearnedDocs == [m \in 1 .. documents |-> DocFrom[Starts(documents)[m - 1]]]

Store == INSTANCE DocumentStore WITH
  Classes <- {"class"},
  Documents <- {[k \in 1 .. Len(d) |-> Slot(d[k])] : d \in Docs},
  learned <- [c \in {"class"} |-> LearnedDocs]

(***************************************************************************)
(* Learning appends one document (as slots) to the class and leaves those  *)
(* before it as they were; so does the text form.                          *)
(***************************************************************************)
ImplementsStore == Store!Spec
=============================================================================
