----------------------------- MODULE BitEntropy -----------------------------
(***************************************************************************)
(* The bit-entropy classifier: one class.                                  *)
(*                                                                         *)
(* A class is a graph of nodes that a text walks bit by bit.  Every node   *)
(* in use hangs in the FIR chain, a ring through node 0 that is meant to   *)
(* be sorted by the nodes' FIR priors, and some of them are filed in a     *)
(* lookaside table by prior.  Nodes not in use are on a free list.  To     *)
(* look a prior up is a walk along the chain, and each link of it is a     *)
(* step here.  Classes share nothing, so one stands for all.               *)
(*                                                                         *)
(* Priors and FIRs are doubles in [0, 1]; here they are multiples of       *)
(* 1/FirMax, and a quotient is rounded down to one, as a double is rounded *)
(* to a multiple of a smaller unit.                                        *)
(*                                                                         *)
(* Definitions named Wrong... are variants with a plausible slip in them.  *)
(***************************************************************************)
EXTENDS Integers, Sequences, FiniteSets, Functions

CONSTANTS
  NodesLen,        \* header->nodeslen
  FirlatLen,       \* header->firlatlen
  FirMax,          \* what stands for a FIR of 1.0
  Granule,         \* the toroid's width is a multiple of this (8)
  CharBits,        \* bits in a char
  Modes,           \* the sets of flags a class is made with: "UNIQUE", "CROSSLINK"
  CrosslinkThresh, \* crosslink_thresh, in units of 1/FirMax
  Texts,           \* the texts there are, each a sequence of bits
  AfterText,       \* the bits found in memory behind a text
  MaxDocuments     \* bound on the number of learn calls

Bits == {0, 1}
Nodes == 0 .. NodesLen - 1
FirSlots == 0 .. FirlatLen - 1
Firs == 0 .. FirMax
Unset == -FirMax   \* a fir_prior of -1.0

ASSUME NodesLenAssumption == NodesLen \in Nat /\ NodesLen > 4
ASSUME FirlatLenAssumption == FirlatLen \in Nat \ {0}
ASSUME FirMaxAssumption == FirMax \in Nat \ {0} /\ FirMax % 2 = 0
ASSUME GranuleAssumption == Granule \in Nat \ {0} /\ CharBits \in Nat \ {0}
ASSUME TextsAssumption ==
  /\ Texts \subseteq Seq(Bits) /\ \A t \in Texts : Len(t) % CharBits = 0
  /\ AfterText \in Seq(Bits) /\ Len(AfterText) >= 2 * CharBits
ASSUME ModesAssumption == Modes \subseteq SUBSET {"UNIQUE", "CROSSLINK"}
ASSUME BoundsAssumption == MaxDocuments \in Nat /\ CrosslinkThresh \in Nat

VARIABLES
  count,     \* nodes[].abet[].count
  next,      \* nodes[].abet[].nextcell; next[0][0] heads the free list, next[0][1] is the start
  prior,     \* nodes[].fir_prior
  larger,    \* nodes[].fir_larger
  smaller,   \* nodes[].fir_smaller
  slot,      \* nodes[].firlat_slot
  firlat,    \* the lookaside table: a node for some slots, 0 for the others
  totalbits, \* header->totalbits
  documents, \* cb.class[].documents
  features,  \* cb.class[].features
  mode,      \* the flags of cb.classifier_flags that never change
  pc,        \* "idle", "bit", "find"
  call,      \* "learn", "erase" or "classify"
  text,      \* the text at hand
  pos,       \* how many of its bits have been taken
  cur,       \* curnode
  localfir,  \* the FIR of the way here
  want,      \* my_fir, the prior that is looked up
  hit,       \* hit_node
  part,      \* which of the three loops of the look-up runs
  for,       \* what the look-up is for: "visit", "grow", "link" or "jump"
  firjumps,  \* jumps of the classify call
  ret,       \* what the last call returned
  tally      \* history: how often each text was learned and not erased again

graph == <<count, next, prior>>
chain == <<larger, smaller>>
lookaside == <<slot, firlat>>
counters == <<totalbits, documents, features>>
walk == <<text, pos, cur, localfir>>
lookup == <<want, hit, part, for>>
vars == <<graph, chain, lookaside, counters, mode, pc, call, walk, lookup, firjumps, ret, tally>>

-----------------------------------------------------------------------------
(* FIRs and their slots.                                                   *)

Abs(n) == IF n < 0 THEN -n ELSE n

\* fir_2_slot and slot_2_fir; of the latter only the distance is needed.
Slot(fir) == (fir * (FirlatLen - 1)) \div FirMax
SlotError(fir, s) == Abs(2 * FirlatLen * fir - FirMax * (2 * s + 1))

\* The FIR after one more bit.  (The weight of a bit is a half.)
FirAfter(fir, b) == (b * FirMax + fir) \div 2

\* A text and the memory behind it.
BitAt(t, p) == (t \o AfterText)[p + 1]

\* How many bits are learned.  (The loop starts before the first bit, so that
\* of an empty text it takes a whole char.)
BitsOf(t) == IF t = <<>> THEN CharBits ELSE Len(t)

-----------------------------------------------------------------------------
(* A new class.                                                            *)

ISqrt == CHOOSE r \in 0 .. NodesLen : r * r <= NodesLen /\ (r + 1) * (r + 1) > NodesLen
Width == (ISqrt \div Granule) * Granule
Height == NodesLen \div Width
Toroid == 1 .. Width * Height

\* Nothing in the code sees to this: with a class size for which it is false
\* the toroid or the free list would reach past the nodes.
ASSUME ToroidFits ==
  (\E m \in Modes : "UNIQUE" \notin m) =>
    Width \in Nat \ {0} /\ Width * Height \in 3 .. NodesLen - 2

\* Node f + h + w * Height leads to column w + 1, rows 2h and 2h + 1.
ShuffleNext(n) ==
  LET w == (n - 1) \div Height
      h == (n - 1) % Height
  IN [b \in Bits |-> 1 + ((w + 1) % Width) * Height + ((2 * h + b) % Height)]

FirstFree(m) == IF "UNIQUE" \in m THEN 4 ELSE Width * Height + 1

FreeNext(n) == IF n = NodesLen - 1 THEN 0 ELSE n + 1

NewNext(m) == [n \in Nodes |->
  IF n = 0 THEN [b \in Bits |-> IF b = 0 THEN FirstFree(m) ELSE 1]
  ELSE IF n >= FirstFree(m) THEN [b \in Bits |-> IF b = 0 THEN FreeNext(n) ELSE 0]
  ELSE IF "UNIQUE" \notin m THEN ShuffleNext(n)
  ELSE IF n = 1 THEN [b \in Bits |-> 2 + b]
  ELSE [b \in Bits |-> 0]]

NewPrior == [n \in Nodes |->
  IF n \in {0, 2} THEN 0 ELSE IF n = 1 THEN FirMax \div 2 ELSE IF n = 3 THEN FirMax ELSE Unset]

\* The chain is 0, 2, 1, 3.  The links of the toroid's other nodes say that
\* they are not in it, those of a free node are as the memory came: zero.
NewLinks(m, two, one, three, zero) == [n \in Nodes |->
  IF n = 0 THEN zero ELSE IF n = 1 THEN one ELSE IF n = 2 THEN two ELSE IF n = 3 THEN three
  ELSE IF n < FirstFree(m) THEN -1 ELSE 0]

Init ==
  /\ mode \in Modes
  /\ count = [n \in Nodes |-> [b \in Bits |-> 0]]
  /\ next = NewNext(mode) /\ prior = NewPrior
  /\ larger = NewLinks(mode, 1, 3, 0, 2) /\ smaller = NewLinks(mode, 0, 2, 1, 3)
  /\ slot = [n \in Nodes |-> 0] /\ firlat = [s \in FirSlots |-> 0]
  /\ totalbits = 0 /\ documents = 0 /\ features = 0
  /\ pc = "idle" /\ call = "learn" /\ text = <<>> /\ pos = 0 /\ cur = 1 /\ localfir = 0
  /\ want = 0 /\ hit = 0 /\ part = 1 /\ for = "visit"
  /\ firjumps = 0 /\ ret = "OK"
  /\ tally = [t \in Texts |-> 0]

-----------------------------------------------------------------------------
(* firlat_find_smallest_larger.                                            *)

\* The lookaside table is gone down to an entry.  That of slot 0 is never
\* used: there the search begins with the first node of the chain.
Start(fir, fl, up) ==
  LET filed == {s \in 1 .. Slot(fir) : fl[s] > 0}
  IN IF filed = {} THEN up[0] ELSE fl[CHOOSE s \in filed : \A r \in filed : r <= s]

\* Look fir up in the table and the chain there will be after this step.
Find(fir, why) ==
  /\ pc' = "find" /\ want' = fir /\ for' = why /\ part' = 1
  /\ hit' = Start(fir, firlat', larger')

TooSmall == hit > 0 /\ want > prior[hit]
TooLarge == hit > 0 /\ want < prior[hit]

\* First up, then down, then up again.
GoUp ==
  /\ pc = "find" /\ TooSmall
  /\ hit' = larger[hit]
  /\ part' = IF part = 2 THEN 3 ELSE part
  /\ UNCHANGED <<graph, chain, lookaside, counters, mode, pc, call, walk, want, for, firjumps, ret, tally>>

WrongGoDown ==
  /\ pc = "find" /\ TooLarge
  /\ hit' = smaller[hit]
  /\ part' = 1
  /\ UNCHANGED <<graph, chain, lookaside, counters, mode, pc, call, walk, want, for, firjumps, ret, tally>>

GoDown ==
  /\ pc = "find" /\ TooLarge /\ part # 3
  /\ hit' = smaller[hit]
  /\ part' = 2
  /\ UNCHANGED <<graph, chain, lookaside, counters, mode, pc, call, walk, want, for, firjumps, ret, tally>>

Found(why) == pc = "find" /\ for = why /\ ~TooSmall /\ ~(TooLarge /\ part # 3)

\* firlat_find_closest_node, when the look-up has ended.
Closest ==
  IF want - prior[smaller[hit]] < prior[hit] - want THEN smaller[hit] ELSE hit

-----------------------------------------------------------------------------
(* firlat_remove_node and firlat_insert_node.                              *)

\* Node n leaves the chain and the table.  (The entry of the slot of its prior
\* is looked at too, in case n is filed there as well; LookasideIsTrue says
\* that it cannot be, so that what the code would do then is left out.)
WrongUnfiled(n) == firlat
Unfiled(n) == IF slot[n] > -1 /\ firlat[slot[n]] = n THEN [firlat EXCEPT ![slot[n]] = 0] ELSE firlat

RemoveNode(n) ==
  LET unlinked == smaller[n] < 0 /\ larger[n] < 0
  IN /\ larger' = [(IF unlinked THEN larger ELSE [larger EXCEPT ![smaller[n]] = larger[n]])
                     EXCEPT ![n] = -1]
     /\ smaller' = [(IF unlinked THEN smaller ELSE [smaller EXCEPT ![larger[n]] = smaller[n]])
                      EXCEPT ![n] = -1]
     /\ firlat' = Unfiled(n)
     /\ UNCHANGED slot

\* Node n is linked in front of the node that was found, and filed if its
\* prior is nearer to the middle of its slot than that of the node there.
Refiled(n, s) == IF firlat[s] = 0 THEN [slot EXCEPT ![n] = s]
                                  ELSE [slot EXCEPT ![n] = s, ![firlat[s]] = -1]

WrongInsertedBelow(n) == [smaller EXCEPT ![n] = smaller[hit]]
InsertedBelow(n) == [smaller EXCEPT ![hit] = n, ![n] = smaller[hit]]

InsertNode(n) ==
  LET s == Slot(prior[n])
      better == firlat[s] = 0 \/ SlotError(prior[n], s) < SlotError(prior[firlat[s]], s)
  IN /\ larger' = [larger EXCEPT ![n] = hit, ![smaller[hit]] = n]
     /\ smaller' = InsertedBelow(n)
     /\ firlat' = IF better THEN [firlat EXCEPT ![s] = n] ELSE firlat
     /\ slot' = IF better THEN Refiled(n, s) ELSE slot

-----------------------------------------------------------------------------
(* lattice_lookahead_score.                                                *)

\* The bits that come next.  (The third is the second again, except near the
\* end of a char: both shift by bitnum - 2.)
Ahead == [k \in 1 .. 3 |->
  LET bitnum == CharBits - 1 - (pos % CharBits)
  IN BitAt(text, pos + (IF k = 3 /\ bitnum >= 3 THEN 2 ELSE k))]

\* How many of these seventeen tests, one after the other, a way from n passes.
Score(n, mincount, thresh) ==
  LET fir[k \in 0 .. 3] == IF k = 0 THEN localfir ELSE FirAfter(fir[k - 1], Ahead[k])
      node[k \in 0 .. 3] == IF k = 0 THEN n ELSE next[node[k - 1]][Ahead[k]]
      Passes(i) ==
        LET k == i \div 5
            test == i % 5
        IN \/ test = 0 /\ node[k] > 0
           \/ test = 1 /\ Abs(prior[node[k]] - fir[k]) < thresh
           \/ test = 2 /\ count[node[k]][Ahead[k + 1]] >= mincount
           \/ test = 3 /\ count[node[k]][1 - Ahead[k + 1]] = 0
           \/ test = 4 /\ next[node[k]][Ahead[k + 1]] > 0
  IN Cardinality({i \in 0 .. 16 : \A j \in 0 .. i : Passes(j)})

\* The best of the closest node and its two neighbours, and its score.
BestAhead(mincount, thresh) ==
  LET Try(n) == [node |-> n, score |-> Score(n, mincount, thresh)]
      Better(a, b) == IF b.score > a.score THEN b ELSE a
  IN Better(Better(Try(Closest), Try(larger[Closest])), Try(smaller[Closest]))

-----------------------------------------------------------------------------
(* Learning.                                                               *)

LearnRefused ==
  /\ pc = "idle"
  /\ ret' = "BADARG"
  /\ UNCHANGED <<graph, chain, lookaside, counters, mode, pc, call, walk, lookup, firjumps, tally>>

AtStart(t, what) ==
  /\ pc' = "bit" /\ call' = what
  /\ text' = t /\ pos' = 0
  /\ cur' = next[0][1] /\ localfir' = prior[next[0][1]]
  /\ firjumps' = 0
  /\ UNCHANGED <<graph, chain, lookaside, counters, mode, lookup, ret, tally>>

\* The environment erases only what it has learned: otherwise a count of -1
\* would come to divide by zero.
BeginLearn(t) == pc = "idle" /\ documents < MaxDocuments /\ AtStart(t, "learn")
BeginErase(t) ==
  pc = "idle" /\ documents < MaxDocuments /\ tally[t] > 0 /\ AtStart(t, "erase")

sense == IF call = "erase" THEN -1 ELSE 1
alph == BitAt(text, pos)
MoreBits == pc = "bit" /\ pos < BitsOf(text)
Visits(n) == count[n][0] + count[n][1]

\* The prior of a node is the average of the FIRs it was come to with.
NewNodeFir == (localfir + Visits(cur) * prior[cur]) \div (Visits(cur) + 1)

\* The node is taken out of the chain, counted, and its new place looked up.
Visit ==
  /\ MoreBits /\ call # "classify"
  /\ RemoveNode(cur)
  /\ prior' = [prior EXCEPT ![cur] = NewNodeFir]
  /\ count' = [count EXCEPT ![cur][alph] = @ + sense]
  /\ totalbits' = totalbits + sense
  /\ Find(NewNodeFir, "visit")
  /\ UNCHANGED <<next, documents, features, mode, call, walk, firjumps, ret, tally>>

fir_after == FirAfter(localfir, alph)
Free == next[0][0]

\* Move to node n, where the next bit is taken.
MoveTo(n) == cur' = n /\ pos' = pos + 1

\* The node is back in the chain.  It has a successor for this bit: go there.
WrongHasSuccessor == count[cur][alph] > 1 /\ next[cur][alph] > 0
HasSuccessor == next[cur][alph] > 0

Follow ==
  /\ Found("visit") /\ HasSuccessor
  /\ InsertNode(cur)
  /\ MoveTo(next[cur][alph]) /\ localfir' = fir_after
  /\ pc' = "bit"
  /\ UNCHANGED <<graph, counters, mode, call, text, lookup, firjumps, ret, tally>>

\* It has none, and it may be linked to a node there is, or must.
MayLink == "CROSSLINK" \in mode \/ Free = 0

LookForLink ==
  /\ Found("visit") /\ ~HasSuccessor /\ MayLink
  /\ InsertNode(cur)
  /\ localfir' = fir_after
  /\ Find(fir_after, "link")
  /\ UNCHANGED <<graph, counters, mode, call, text, pos, cur, firjumps, ret, tally>>

\* The first free node becomes the successor.
WrongWiped == [b \in Bits |-> IF b = 0 THEN next[Free][0] ELSE 0]
Wiped == [b \in Bits |-> 0]

Allocate(fir) ==
  /\ next' = [next EXCEPT ![cur][alph] = Free, ![0][0] = next[Free][0], ![Free] = Wiped]
  /\ count' = [count EXCEPT ![Free] = [b \in Bits |-> 0]]
  /\ prior' = [prior EXCEPT ![Free] = fir]
  /\ MoveTo(Free)
  /\ Find(fir, "grow")
  /\ UNCHANGED <<counters, mode, call, text, firjumps, ret, tally>>

Grow ==
  /\ Found("visit") /\ ~HasSuccessor /\ ~MayLink
  /\ InsertNode(cur)
  /\ localfir' = fir_after
  /\ Allocate(fir_after)

\* A link is made if there is no other way, or if the node found has the right
\* prior and passes the tests.
Choice == BestAhead(1, CrosslinkThresh)
GoodLink ==
  \/ Free = 0
  \/ Choice.score > 13 /\ Abs(localfir - prior[Choice.node]) < CrosslinkThresh

Linked == IF Choice.node < 1 THEN 1 ELSE Choice.node

Link ==
  /\ Found("link") /\ GoodLink
  /\ next' = [next EXCEPT ![cur][alph] = Linked]
  /\ MoveTo(Linked)
  /\ pc' = "bit"
  /\ UNCHANGED <<count, prior, chain, lookaside, counters, mode, call, text, localfir, lookup, firjumps, ret, tally>>

GrowAfterAll ==
  /\ Found("link") /\ ~GoodLink
  /\ UNCHANGED <<chain, lookaside, localfir>>
  /\ Allocate(localfir)

\* The new node goes into the chain.
FileNew ==
  /\ Found("grow")
  /\ InsertNode(cur)
  /\ pc' = "bit"
  /\ UNCHANGED <<graph, counters, mode, call, walk, lookup, firjumps, ret, tally>>

\* A call ends, and with it its local variables.
Done ==
  /\ pc = "bit" /\ ~MoreBits
  /\ pc' = "idle" /\ ret' = "OK"
  /\ call' = "learn" /\ text' = <<>> /\ pos' = 0 /\ cur' = 1 /\ localfir' = 0
  /\ want' = 0 /\ hit' = 0 /\ part' = 1 /\ for' = "visit" /\ firjumps' = 0
  /\ UNCHANGED <<graph, chain, lookaside, mode, totalbits>>

\* An erased document is counted too.
EndLearn ==
  /\ call # "classify" /\ Done
  /\ documents' = documents + 1
  /\ features' = totalbits
  /\ tally' = [tally EXCEPT ![text] = @ + sense]

-----------------------------------------------------------------------------
(* Classifying, as far as the number of jumps.                             *)

BeginClassify(t) == pc = "idle" /\ AtStart(t, "classify")

WrongKnown == Visits(cur) > 1 /\ count[cur][alph] > 1 /\ next[cur][alph] >= 1
Known == Visits(cur) >= 1 /\ count[cur][alph] >= 1 /\ next[cur][alph] >= 1

ClassifyBit ==
  /\ MoreBits /\ call = "classify" /\ Known
  /\ MoveTo(next[cur][alph]) /\ localfir' = fir_after
  /\ UNCHANGED <<graph, chain, lookaside, counters, mode, pc, call, text, lookup, firjumps, ret, tally>>

\* Off the paths that were learned: look for a node to go on from.
LookForJump ==
  /\ MoreBits /\ call = "classify" /\ ~Known
  /\ localfir' = fir_after
  /\ UNCHANGED <<chain, lookaside>>
  /\ Find(fir_after, "jump")
  /\ UNCHANGED <<graph, counters, mode, call, text, pos, cur, firjumps, ret, tally>>

\* Here a prior must be within 0.00001.
Jump ==
  /\ Found("jump")
  /\ MoveTo(BestAhead(0, 1).node)
  /\ firjumps' = firjumps + 1
  /\ pc' = "bit"
  /\ UNCHANGED <<graph, chain, lookaside, counters, mode, call, text, localfir, lookup, ret, tally>>

EndClassify == call = "classify" /\ Done /\ UNCHANGED <<documents, features, tally>>

-----------------------------------------------------------------------------
(* The text form.                                                          *)

\* Written and read into a new class.  The reader assigns the header's field
\* to the number it has read, and not the other way about.
SaveRestore ==
  /\ pc = "idle"
  /\ totalbits' = 0
  /\ UNCHANGED <<graph, chain, lookaside, documents, features, mode, pc, call, walk, lookup, firjumps, ret, tally>>

-----------------------------------------------------------------------------

Step ==
  \/ Visit \/ GoUp \/ GoDown \/ Follow \/ LookForLink \/ Grow \/ Link \/ GrowAfterAll \/ FileNew
  \/ ClassifyBit \/ LookForJump \/ Jump \/ EndLearn \/ EndClassify

Next ==
  \/ Step
  \/ LearnRefused \/ SaveRestore
  \/ \E t \in Texts : BeginLearn(t) \/ BeginErase(t) \/ BeginClassify(t)

\* A call, once made, runs until it returns.
Spec == Init /\ [][Next]_vars /\ WF_vars(Step)

-----------------------------------------------------------------------------
(* Properties.                                                             *)

\* The variables keep their types: node numbers stay inside the node array,
\* slots inside the lookaside table, no count becomes negative, and learning
\* never comes to node 0.
TypeOK ==
  /\ count \in [Nodes -> [Bits -> Nat]] /\ next \in [Nodes -> [Bits -> Nodes]]
  /\ prior \in [Nodes -> Firs \cup {Unset}]
  /\ larger \in [Nodes -> Nodes \cup {-1}] /\ smaller \in [Nodes -> Nodes \cup {-1}]
  /\ slot \in [Nodes -> FirSlots \cup {-1}] /\ firlat \in [FirSlots -> Nodes]
  /\ totalbits \in Int /\ documents \in Nat /\ features \in Int
  /\ mode \in Modes /\ pc \in {"idle", "bit", "find"}
  /\ call \in {"learn", "erase", "classify"}
  /\ text \in Texts \cup {<<>>} /\ pos \in Nat /\ cur \in Nodes /\ localfir \in Firs
  /\ (call # "classify" => cur # 0)
  /\ want \in Firs /\ hit \in Nodes /\ part \in 1 .. 3
  /\ for \in {"visit", "grow", "link", "jump"}
  /\ firjumps \in Nat /\ ret \in {"OK", "BADARG"} /\ tally \in [Texts -> Nat]

\* The node in cur is between two places: taken out, or not yet in.
Unplaced == IF pc = "find" /\ for \in {"visit", "grow"} THEN {cur} ELSE {}
Chained == {n \in Nodes : prior[n] # Unset} \ Unplaced

\* The chain (fir_larger, fir_smaller) is one ring, the same in both
\* directions, of node 0 and exactly the nodes that have been given a prior,
\* whatever was moved, linked, learned and erased.  firlat_sanity_scan looks
\* for such faults in a trace and mends nothing.
Ringed(C, up, down) ==
  \A n \in C : up[n] \in C /\ down[n] \in C /\ down[up[n]] = n /\ up[down[n]] = n
RingFrom0 == LET at[k \in 0 .. NodesLen] == IF k = 0 THEN 0 ELSE larger[at[k - 1]] IN at
ChainIsWhole ==
  /\ Ringed(Chained, larger, smaller)
  /\ {RingFrom0[k] : k \in 0 .. Cardinality(Chained) - 1} = Chained

\* A node filed in the lookaside table is in the chain, is filed under the slot
\* of its present prior, and knows that it is there.  What the code does when
\* it finds a node in a slot that the node does not know of
\* (firlat_remove_node) is never needed.
LookasideIsTrue ==
  \A s \in FirSlots : LET n == firlat[s] IN
    n # 0 => n \in Chained /\ slot[n] = s /\ Slot(prior[n]) = s

\* The free list ends, no way through the graph leads into it, and without a
\* toroid every node is on it or has been given a prior: none is lost.
FreeNodes == LET at[k \in 0 .. NodesLen] ==
                   IF k = 0 THEN Free ELSE IF at[k - 1] = 0 THEN 0 ELSE next[at[k - 1]][0]
             IN {at[k] : k \in 0 .. NodesLen} \ {0}
FreeListIsApart ==
  LET free == FreeNodes IN
  /\ \A n \in free : prior[n] = Unset
  /\ \A n \in Nodes \ (free \cup {0}), b \in Bits : next[n][b] \notin free
  /\ "UNIQUE" \in mode => {n \in Nodes : prior[n] = Unset} = free

\* The way of a text through the graph, and how often the documents that were
\* learned and not erased took bit b at node n.
Way(t) == LET at[p \in 0 .. BitsOf(t)] ==
                IF p = 0 THEN next[0][1] ELSE next[at[p - 1]][BitAt(t, p - 1)]
          IN at
Takes(way, t, n, b) == Cardinality({p \in 0 .. BitsOf(t) - 1 : way[p] = n /\ BitAt(t, p) = b})
Traffic(ways, n, b) == SumFunction([t \in DOMAIN ways |-> tally[t] * Takes(ways[t], t, n, b)])

\* Between calls every count is the traffic of the documents that are learned:
\* growing, linking and erasing never sends an old document another way, so
\* that erasing takes back just what learning it gave, and never below zero.
CountsAreTraffic ==
  pc = "idle" =>
    LET ways == [t \in {x \in Texts : tally[x] > 0} |-> Way(t)]
    IN \A n \in Nodes \ {0}, b \in Bits : count[n][b] = Traffic(ways, n, b)

\* A text that is learned and not erased is classified without a jump.
LearnedNeedsNoJump == call = "classify" /\ tally[text] > 0 => firjumps = 0

\* Every call returns: the search along the chain, up, down and up again, ends.
CallReturns == pc # "idle" ~> pc = "idle"

\* What the comment on the look-up says it finds: "the smallest node that's
\* larger than us".
FindsSmallestLarger ==
  pc = "find" /\ Found(for) =>
    \A n \in Chained \ {0} : prior[n] >= want => hit # 0 /\ prior[hit] <= prior[n]
=============================================================================
