----------------------------- MODULE FscmProofs -----------------------------
(***************************************************************************)
(* The fast substring matcher, for every table and chain block and every   *)
(* set of documents and unknown texts: the chains, the class as the list   *)
(* of the documents that were learned, and classifying, where the cache    *)
(* hides nothing and the runs that are counted have been learned.  At the  *)
(* end, the theorems about Classifier objects.                             *)
(***************************************************************************)
EXTENDS FscmMatch, ClassifierObject, WellFoundedInduction, TLAPS

(***************************************************************************)
(* The strengthening: where learn is in the text, and nothing has been     *)
(* written from there on.                                                  *)
(***************************************************************************)
LearnIsInBlock ==
  pc # "idle" =>
    /\ newchainstart # 0
    /\ i <= Len(doc)
    /\ newchainstart + Len(doc) <= ChainLen
    /\ chains[0] = NextOpen(newchainstart, Len(doc))

WalkIsOnChain ==
  pc = "chase" => i < Len(doc) /\ cind \in Positions /\ written[cind] = pti

Frontier == IF pc = "idle" THEN chains[0] ELSE newchainstart + i

BlankAhead == \A p \in Positions : p >= Frontier => written[p] = Blank

ChainInv ==
  TypeOK /\ LearnIsInBlock /\ WalkIsOnChain /\ BlankAhead /\ ChainsAreOccurrences

-----------------------------------------------------------------------------
\* A set of numbers has a smallest one.
LEMMA SmallestOf ==
  ASSUME NEW S, S \subseteq Nat, S # {}
  PROVE  \E n \in S : \A m \in S : n <= m
<1> DEFINE Below == {p \in Nat \X Nat : p[1] < p[2]}
<1>1. IsWellFoundedOn(Below, Nat)
  BY NatLessThanWellFounded DEF OpToRel
<1>2. PICK k \in S : \A l \in S : ~ (<<l, k>> \in Below)
  <2> HIDE DEF Below
  <2> QED
    BY <1>1, WFMin
<1>3. \A l \in S : ~ (l < k)
  BY <1>2
<1> QED
  BY <1>3

\* A feature's slot is in the table, and a blank is no slot.
LEMMA SlotInTable ==
  \A f \in Nat : Slot(f) \in Slots
BY PrefixLenAssumption DEF Slot, Slots

LEMMA BlankIsNoSlot ==
  Blank \notin Slots
BY DEF Blank, Slots

\* While a feature is being placed: its position is in the block and blank,
\* like all after it, and its slot is in the table.
LEMMA PlaceIsFree ==
  ASSUME ChainInv, pc # "idle", i < Len(doc)
  PROVE  /\ Here \in Positions /\ pti \in Slots
         /\ \A p \in Positions : p >= Here => written[p] = Blank
         /\ i + 1 <= Len(doc)
<1>1. doc \in Seq(Nat) /\ Len(doc) \in Nat
  BY DocsAssumption DEF ChainInv, TypeOK
<1>2. doc[i + 1] \in Nat
  BY <1>1 DEF ChainInv, TypeOK
<1>3. pti \in Slots
  BY <1>2, SlotInTable DEF pti
<1>4. Here \in Positions
  BY <1>1, ChainLenAssumption DEF ChainInv, TypeOK, LearnIsInBlock, Here, Positions
<1> QED
  BY <1>1, <1>3, <1>4 DEF ChainInv, TypeOK, BlankAhead, Frontier, Here

\* Text and links of a position other than the one being placed stay.
LEMMA PlacedTypes ==
  ASSUME TypeOK, Here \in Positions, pti \in Slots, Placed
  PROVE  /\ written' \in [Positions -> Slots \cup {Blank}]
         /\ written'[Here] = pti
         /\ \A p \in Positions : p # Here => written'[p] = written[p]
BY DEF TypeOK, Placed

-----------------------------------------------------------------------------
\* The two ways to place a feature keep the chains what they are.
LEMMA FirstOfSlotKeepsChains ==
  ASSUME ChainInv, FirstOfSlot
  PROVE  ChainsAreOccurrences'
<1> DEFINE here == Here
           s == pti
<1>1. /\ here \in Positions /\ s \in Slots
      /\ \A p \in Positions : p >= here => written[p] = Blank
  BY PlaceIsFree DEF FirstOfSlot
<1>2. /\ written'[here] = s
      /\ \A p \in Positions : p # here => written'[p] = written[p]
  BY <1>1, PlacedTypes DEF ChainInv, FirstOfSlot
<1>3. /\ index'[s] = here
      /\ \A t \in Slots : t # s => index'[t] = index[t]
      /\ chains'[here] = 0
      /\ \A p \in Positions : p # here => chains'[p] = chains[p]
  BY <1>1, ChainLenAssumption DEF ChainInv, TypeOK, FirstOfSlot, Positions
<1>4. \A p \in Positions : written[p] # s
  BY <1>1 DEF ChainInv, ChainsAreOccurrences, FirstOfSlot, FirstAfter, Positions
<1>5. written[here] = Blank /\ Blank # s
  BY <1>1, BlankIsNoSlot DEF Positions
<1> HIDE DEF here, s
<1>6. \A t \in Slots : FirstAfter(0, t, index[t])
  BY DEF ChainInv, ChainsAreOccurrences
<1>7. \A t \in Slots : FirstAfter(0, t, index[t])'
  <2> TAKE t \in Slots
  <2>1. CASE t = s
    BY <2>1, <1>1, <1>2, <1>3, <1>4 DEF FirstAfter, Positions
  <2>2. CASE t # s
    BY <2>2, <1>1, <1>2, <1>3, <1>5, <1>6, BlankIsNoSlot DEF FirstAfter
  <2> QED
    BY <2>1, <2>2
<1>8. ASSUME NEW p \in Positions
      PROVE  IF written'[p] = Blank THEN chains'[p] = 0
                                    ELSE FirstAfter(p, written[p], chains[p])'
  <2>1. CASE p = here
    BY <2>1, <1>1, <1>2, <1>3, <1>5, ChainLenAssumption DEF FirstAfter, Positions
  <2>2. CASE p # here
    <3>1. IF written[p] = Blank THEN chains[p] = 0 ELSE FirstAfter(p, written[p], chains[p])
      BY DEF ChainInv, ChainsAreOccurrences
    <3> QED
      BY <2>2, <3>1, <1>1, <1>2, <1>3, <1>4, <1>5 DEF FirstAfter
  <2> QED
    BY <2>1, <2>2
<1> QED
  BY <1>7, <1>8 DEF ChainsAreOccurrences

LEMMA LinkAtEndKeepsChains ==
  ASSUME ChainInv, LinkAtEnd
  PROVE  ChainsAreOccurrences'
<1> DEFINE here == Here
           s == pti
<1>1. /\ here \in Positions /\ s \in Slots
      /\ \A p \in Positions : p >= here => written[p] = Blank
  BY PlaceIsFree DEF LinkAtEnd, ChainInv, WalkIsOnChain
<1>2. /\ written'[here] = s
      /\ \A p \in Positions : p # here => written'[p] = written[p]
  BY <1>1, PlacedTypes DEF ChainInv, LinkAtEnd
<1>3. cind \in Positions /\ written[cind] = s /\ chains[cind] = 0
  BY DEF ChainInv, WalkIsOnChain, LinkAtEnd
<1>4. written[here] = Blank /\ Blank # s
  BY <1>1, BlankIsNoSlot DEF Positions
<1>5. /\ chains'[here] = 0
      /\ chains'[cind] = here
      /\ \A p \in Positions : p # here /\ p # cind => chains'[p] = chains[p]
      /\ index' = index
  BY <1>1, <1>3, <1>4, ChainLenAssumption
     DEF ChainInv, TypeOK, LinkAtEnd, Linked, Positions
<1> HIDE DEF here, s
<1>6. cind < here
  BY <1>1, <1>3, <1>4 DEF Positions
<1>7. \A p \in Positions : p > cind => written[p] # s
  BY <1>3, <1>4 DEF ChainInv, ChainsAreOccurrences, FirstAfter
<1>8. \A t \in Slots : FirstAfter(0, t, index[t])'
  <2> TAKE t \in Slots
  <2>1. FirstAfter(0, t, index[t])
    BY DEF ChainInv, ChainsAreOccurrences
  <2>2. index'[t] = index[t]
    BY <1>5
  <2>3. CASE index[t] = 0
    <3>1. t # s
      BY <2>1, <2>3, <1>3 DEF FirstAfter, Positions
    <3> QED
      BY <2>1, <2>2, <2>3, <3>1, <1>1, <1>2 DEF FirstAfter
  <2>4. CASE index[t] # 0
    <3>1. index[t] \in Positions /\ written[index[t]] = t /\ index[t] # here
      BY <2>1, <2>4, <1>4, BlankIsNoSlot DEF FirstAfter
    <3>2. index[t] < here
      BY <3>1, <1>1, BlankIsNoSlot DEF Positions
    <3> QED
      BY <2>1, <2>2, <2>4, <3>1, <3>2, <1>1, <1>2 DEF FirstAfter, Positions
  <2> QED
    BY <2>3, <2>4
<1>9. ASSUME NEW p \in Positions
      PROVE  IF written'[p] = Blank THEN chains'[p] = 0
                                    ELSE FirstAfter(p, written[p], chains[p])'
  <2>1. CASE p = here
    BY <2>1, <1>1, <1>2, <1>4, <1>5, ChainLenAssumption DEF FirstAfter, Positions
  <2>2. CASE p = cind
    BY <2>2, <1>1, <1>2, <1>3, <1>4, <1>5, <1>6, <1>7 DEF FirstAfter, Positions
  <2>3. CASE p # here /\ p # cind
    <3>1. IF written[p] = Blank THEN chains[p] = 0 ELSE FirstAfter(p, written[p], chains[p])
      BY DEF ChainInv, ChainsAreOccurrences
    <3>2. written'[p] = written[p] /\ chains'[p] = chains[p]
      BY <2>3, <1>2, <1>5
    <3>3. CASE written[p] # Blank /\ chains[p] = 0
      <4>1. written[p] # s
        BY <3>1, <3>3, <2>3, <1>3, <1>7 DEF FirstAfter, Positions
      <4> QED
        BY <4>1, <3>1, <3>2, <3>3, <1>1, <1>2 DEF FirstAfter
    <3>4. CASE written[p] # Blank /\ chains[p] # 0
      <4>1. chains[p] \in Positions /\ written[chains[p]] = written[p]
        BY <3>1, <3>4 DEF FirstAfter
      <4>2. chains[p] < here
        BY <4>1, <3>4, <1>1 DEF Positions
      <4> QED
        BY <4>1, <4>2, <3>1, <3>2, <3>4, <1>1, <1>2 DEF FirstAfter, Positions
    <3> QED
      BY <3>1, <3>2, <3>3, <3>4
  <2> QED
    BY <2>1, <2>2, <2>3
<1> QED
  BY <1>8, <1>9 DEF ChainsAreOccurrences

-----------------------------------------------------------------------------
\* What is written as text is read back as it was.
LEMMA LinesRestore ==
  ASSUME TypeOK
  PROVE  ReadInto(NewIndex, Lines(index)) = index /\ ReadInto(NewChains, Lines(chains)) = chains
<1>1. ReadInto(NewIndex, Lines(index)) = index
  BY DEF TypeOK, Lines, ReadInto, NewIndex
<1>2. ReadInto(NewChains, Lines(chains)) = chains
  BY ChainLenAssumption DEF TypeOK, Lines, ReadInto, NewChains
<1> QED
  BY <1>1, <1>2

LEMMA InitChainInv ==
  Init => ChainInv
<1> SUFFICES ASSUME Init PROVE ChainInv
  OBVIOUS
<1>1. TypeOK
  BY PrefixLenAssumption, ChainLenAssumption DEF Init, TypeOK, NewIndex, NewChains
<1>2. ChainsAreOccurrences
  BY BlankIsNoSlot, ChainLenAssumption
     DEF Init, ChainsAreOccurrences, FirstAfter, NewIndex, NewChains, Positions
<1> QED
  BY <1>1, <1>2 DEF Init, ChainInv, LearnIsInBlock, WalkIsOnChain, BlankAhead

\* The three conjuncts about where learn is, when a feature has been placed.
LEMMA PlacedKeepsPlace ==
  ASSUME ChainInv, pc # "idle", i < Len(doc), Placed,
         UNCHANGED <<doc, newchainstart, documents, features, cind, ret>>,
         chains' \in [0 .. ChainLen - 1 -> Nat], chains'[0] = chains[0],
         index' \in [Slots -> Nat]
  PROVE  TypeOK' /\ LearnIsInBlock' /\ WalkIsOnChain' /\ BlankAhead'
<1>1. /\ Here \in Positions /\ pti \in Slots
      /\ \A p \in Positions : p >= Here => written[p] = Blank
      /\ i + 1 <= Len(doc)
  BY PlaceIsFree
<1>2. /\ written' \in [Positions -> Slots \cup {Blank}]
      /\ \A p \in Positions : p # Here => written'[p] = written[p]
  BY <1>1, PlacedTypes DEF ChainInv
<1>3. TypeOK'
  BY <1>2 DEF ChainInv, TypeOK, Placed
<1>4. LearnIsInBlock' /\ WalkIsOnChain'
  BY <1>1 DEF ChainInv, LearnIsInBlock, WalkIsOnChain, Placed
<1>5. BlankAhead'
  BY <1>1, <1>2 DEF ChainInv, TypeOK, BlankAhead, Frontier, Placed, Here, Positions
<1> QED
  BY <1>3, <1>4, <1>5

LEMMA StepChainInv ==
  ChainInv /\ [Next]_vars => ChainInv'
<1> SUFFICES ASSUME ChainInv, [Next]_vars PROVE ChainInv'
  OBVIOUS
<1> USE ChainLenAssumption
<1>1. CASE UNCHANGED vars
  BY <1>1 DEF ChainInv, vars, TypeOK, LearnIsInBlock, WalkIsOnChain, BlankAhead, Frontier,
              ChainsAreOccurrences, FirstAfter, pti
<1>2. CASE LearnRefused
  BY <1>2 DEF LearnRefused, datablock, local, ChainInv, TypeOK, LearnIsInBlock, WalkIsOnChain,
              BlankAhead, Frontier, ChainsAreOccurrences, FirstAfter
<1>3. ASSUME NEW d \in Docs, BeginLearn(d)
      PROVE  ChainInv'
  <2>1. Len(d) \in Nat /\ chains[0] \in Nat /\ chains[0] # 0 /\ pc = "idle"
    BY <1>3, DocsAssumption DEF BeginLearn, ChainInv, TypeOK
  <2>2. /\ chains'[0] = NextOpen(chains[0], Len(d))
        /\ \A p \in Positions : chains'[p] = chains[p]
        /\ chains' \in [0 .. ChainLen - 1 -> Nat]
        /\ chains'[0] # 0
    BY <1>3, <2>1 DEF BeginLearn, ChainInv, TypeOK, NextOpen, Positions
  <2>3. TypeOK'
    BY <1>3, <2>1, <2>2 DEF BeginLearn, ChainInv, TypeOK
  <2>4. LearnIsInBlock' /\ WalkIsOnChain' /\ BlankAhead'
    BY <1>3, <2>1, <2>2
       DEF BeginLearn, Fits, ChainInv, LearnIsInBlock, WalkIsOnChain, BlankAhead, Frontier
  <2>5. ChainsAreOccurrences'
    BY <1>3, <2>2 DEF BeginLearn, ChainInv, ChainsAreOccurrences, FirstAfter
  <2> QED
    BY <2>3, <2>4, <2>5 DEF ChainInv
<1>4. CASE FirstOfSlot
  <2>1. Here \in Positions /\ pti \in Slots
    BY <1>4, PlaceIsFree DEF FirstOfSlot
  <2>2. /\ chains' \in [0 .. ChainLen - 1 -> Nat] /\ chains'[0] = chains[0]
        /\ index' \in [Slots -> Nat]
    BY <1>4, <2>1 DEF FirstOfSlot, ChainInv, TypeOK, Positions
  <2>3. TypeOK' /\ LearnIsInBlock' /\ WalkIsOnChain' /\ BlankAhead'
    BY <1>4, <2>2, PlacedKeepsPlace DEF FirstOfSlot
  <2> QED
    BY <1>4, <2>3, FirstOfSlotKeepsChains DEF ChainInv
<1>5. CASE BeginChase
  <2>1. Here \in Positions /\ pti \in Slots
    BY <1>5, PlaceIsFree DEF BeginChase
  <2>2. index[pti] \in Positions /\ written[index[pti]] = pti
    BY <1>5, <2>1 DEF BeginChase, ChainInv, ChainsAreOccurrences, FirstAfter
  <2>3. pti' = pti
    BY <1>5 DEF BeginChase, pti
  <2>4. TypeOK' /\ LearnIsInBlock' /\ WalkIsOnChain' /\ BlankAhead'
    BY <1>5, <2>2, <2>3
       DEF BeginChase, datablock, ChainInv, TypeOK, LearnIsInBlock, WalkIsOnChain, BlankAhead,
           Frontier, Positions
  <2>5. ChainsAreOccurrences'
    BY <1>5 DEF BeginChase, datablock, ChainInv, ChainsAreOccurrences, FirstAfter
  <2> QED
    BY <2>4, <2>5 DEF ChainInv
<1>6. CASE Chase
  <2>1. cind \in Positions /\ written[cind] = pti /\ i < Len(doc)
    BY <1>6 DEF Chase, ChainInv, WalkIsOnChain
  <2>2. pti \in Slots /\ pti # Blank
    BY <1>6, <2>1, PlaceIsFree, BlankIsNoSlot DEF Chase
  <2>3. chains[cind] \in Positions /\ written[chains[cind]] = pti
    BY <1>6, <2>1, <2>2 DEF Chase, ChainInv, ChainsAreOccurrences, FirstAfter
  <2>4. pti' = pti
    BY <1>6 DEF Chase, pti
  <2>5. TypeOK' /\ LearnIsInBlock' /\ WalkIsOnChain' /\ BlankAhead'
    BY <1>6, <2>1, <2>3, <2>4
       DEF Chase, datablock, ChainInv, TypeOK, LearnIsInBlock, WalkIsOnChain, BlankAhead,
           Frontier, Positions
  <2>6. ChainsAreOccurrences'
    BY <1>6 DEF Chase, datablock, ChainInv, ChainsAreOccurrences, FirstAfter
  <2> QED
    BY <2>5, <2>6 DEF ChainInv
<1>7. CASE LinkAtEnd
  <2>1. i < Len(doc) /\ cind \in Positions /\ pc # "idle"
    BY <1>7 DEF LinkAtEnd, ChainInv, WalkIsOnChain
  <2>2. Here \in Positions
    BY <2>1, PlaceIsFree
  <2>3. /\ chains' \in [0 .. ChainLen - 1 -> Nat] /\ chains'[0] = chains[0]
        /\ index' \in [Slots -> Nat]
    BY <1>7, <2>1, <2>2 DEF LinkAtEnd, Linked, ChainInv, TypeOK, Positions
  <2>4. TypeOK' /\ LearnIsInBlock' /\ WalkIsOnChain' /\ BlankAhead'
    BY <1>7, <2>1, <2>3, PlacedKeepsPlace DEF LinkAtEnd
  <2> QED
    BY <1>7, <2>4, LinkAtEndKeepsChains DEF ChainInv
<1>8. CASE EndLearn
  <2>1. Len(doc) \in Nat
    BY DocsAssumption DEF ChainInv, TypeOK
  <2>2. TypeOK'
    BY <1>8, <2>1 DEF EndLearn, ChainInv, TypeOK
  <2>3. LearnIsInBlock' /\ WalkIsOnChain' /\ BlankAhead'
    BY <1>8, <2>1
       DEF EndLearn, ChainInv, TypeOK, LearnIsInBlock, WalkIsOnChain, BlankAhead, Frontier,
           NextOpen, Positions
  <2>4. ChainsAreOccurrences'
    BY <1>8 DEF EndLearn, ChainInv, ChainsAreOccurrences, FirstAfter
  <2> QED
    BY <2>2, <2>3, <2>4 DEF ChainInv
<1>9. CASE SaveRestore
  <2>1. index' = index /\ chains' = chains
    BY <1>9, LinesRestore DEF SaveRestore, ChainInv
  <2> QED
    BY <1>9, <2>1
       DEF SaveRestore, local, ChainInv, TypeOK, LearnIsInBlock, WalkIsOnChain,
           BlankAhead, Frontier, ChainsAreOccurrences, FirstAfter
<1> QED
  BY <1>1, <1>2, <1>3, <1>4, <1>5, <1>6, <1>7, <1>8, <1>9 DEF Next, Learning

-----------------------------------------------------------------------------
(***************************************************************************)
(* Whatever is learned, in whatever table and block: the table and the     *)
(* chains are the occurrences of each slot in the order of the text.       *)
(***************************************************************************)
THEOREM ChainsFollowTheText ==
  Spec => []ChainsAreOccurrences
<1>1. ChainInv => ChainsAreOccurrences
  BY DEF ChainInv
<1> QED
  BY <1>1, InitChainInv, StepChainInv, PTL DEF Spec

(***************************************************************************)
(* The variables keep their types, and position 0 stays reserved.          *)
(***************************************************************************)
THEOREM FscmTypeCorrect ==
  Spec => []TypeOK
<1>1. ChainInv => TypeOK
  BY DEF ChainInv
<1> QED
  BY <1>1, InitChainInv, StepChainInv, PTL DEF Spec

-----------------------------------------------------------------------------
(* The class read back as a list of documents.                             *)

\* What can be reached from a position of the chain block: of a written one,
\* the positions of its slot from there on.
Reached(k) ==
  IF k = 0 THEN {} ELSE IF written[k] = Blank THEN {k}
  ELSE {p \in Positions : p >= k /\ written[p] = written[k]}

LEMMA ReachedNext ==
  ASSUME TypeOK, ChainsAreOccurrences, NEW k \in Positions
  PROVE  /\ chains[k] \in {0} \cup Positions /\ (chains[k] = 0 \/ chains[k] > k)
         /\ Reached(k) = {k} \cup Reached(chains[k])
<1>0. ChainLen \in Nat \ {0} /\ Positions = 1 .. ChainLen - 1 /\ k # 0
  BY ChainLenAssumption DEF Positions
<1>1. CASE written[k] = Blank
  <2>1. chains[k] = 0
    BY <1>1 DEF ChainsAreOccurrences
  <2> QED BY <1>0, <1>1, <2>1 DEF Reached
<1>2. CASE written[k] # Blank
  <2>1. FirstAfter(k, written[k], chains[k])
    BY <1>2 DEF ChainsAreOccurrences
  <2>2. CASE chains[k] = 0
    <3>1. \A r \in Positions : r > k => written[r] # written[k]
      BY <2>1, <2>2 DEF FirstAfter
    <3> QED BY <1>0, <1>2, <2>2, <3>1 DEF Reached
  <2>3. CASE chains[k] # 0
    <3>1. /\ chains[k] \in Positions /\ chains[k] > k /\ written[chains[k]] = written[k]
          /\ \A r \in Positions : k < r /\ r < chains[k] => written[r] # written[k]
      BY <2>1, <2>3 DEF FirstAfter
    <3>2. Reached(chains[k]) = {p \in Positions : p >= chains[k] /\ written[p] = written[k]}
      BY <1>2, <2>3, <3>1 DEF Reached
    <3>3. Reached(k) = {p \in Positions : p >= k /\ written[p] = written[k]}
      BY <1>0, <1>2 DEF Reached
    <3>4. ASSUME NEW p \in Positions
          PROVE  (p >= k /\ written[p] = written[k]) <=>
                 (p = k \/ (p >= chains[k] /\ written[p] = written[k]))
      BY <1>0, <3>1
    <3> QED BY <3>1, <3>2, <3>3, <3>4
  <2> QED BY <2>2, <2>3
<1> QED BY <1>1, <1>2

\* Following the links from the table gives the positions of a slot.
LEMMA ChainOfSlot ==
  ASSUME TypeOK, ChainsAreOccurrences, NEW s \in Slots
  PROVE  ChainOf(s) = {p \in Positions : written[p] = s}
<1> DEFINE D == 0 .. ChainLen - 1
           Body(g) == [k \in D |-> IF k = 0 THEN {} ELSE {k} \cup g[chains[k]]]
           f == [k \in D |-> Reached(k)]
           from == CHOOSE g : g = Body(g)
<1>0. ChainLen \in Nat \ {0} /\ Positions = 1 .. ChainLen - 1 /\ D = {0} \cup Positions
  BY ChainLenAssumption DEF Positions
<1>1. \A k \in Positions : /\ chains[k] \in D /\ (chains[k] = 0 \/ chains[k] > k)
                           /\ Reached(k) = {k} \cup Reached(chains[k])
  BY <1>0, ReachedNext
<1>2. f = Body(f)
  <2>1. \A k \in D : f[k] = IF k = 0 THEN {} ELSE {k} \cup f[chains[k]]
    BY <1>0, <1>1 DEF Reached
  <2> QED BY <2>1
<1>3. from = Body(from)
  <2> HIDE DEF Body
  <2> QED BY <1>2
<1>4. ASSUME NEW k0 \in D, from[k0] # f[k0] PROVE FALSE
  <2> DEFINE Bad == {n \in 1 .. ChainLen : from[ChainLen - n] # f[ChainLen - n]}
  <2>1. from[0] = {} /\ f[0] = {}
    <3>1. 0 \in D
      BY <1>0
    <3>2. from[0] = Body(from)[0]
      BY <1>3
    <3> QED BY <3>1, <3>2 DEF Reached
  <2>2. ChainLen - k0 \in Bad
    BY <1>0, <1>4
  <2>3. PICK n \in Bad : \A m \in Bad : n <= m
    <3> HIDE DEF Bad
    <3>1. Bad \subseteq Nat
      BY DEF Bad
    <3> QED BY <2>2, <3>1, SmallestOf
  <2> DEFINE k == ChainLen - n
  <2>4. n \in 1 .. ChainLen /\ n <= ChainLen - k0 /\ from[k] # f[k]
    BY <2>2, <2>3
  <2>4a. k \in D
    BY <1>0, <2>4
  <2>5. k \in Positions
    BY <1>0, <2>1, <2>4, <2>4a
  <2>6. chains[k] \in D /\ (chains[k] = 0 \/ chains[k] > k)
    BY <1>1, <2>5
  <2>7. from[chains[k]] = f[chains[k]]
    <3>1. CASE chains[k] = 0
      BY <3>1, <2>1
    <3>2. CASE chains[k] > k
      <4> DEFINE c == chains[k]
      <4>1. ChainLen - c \in 1 .. ChainLen /\ ChainLen - c < n /\ ChainLen - (ChainLen - c) = c
        BY <1>0, <2>4, <2>6, <3>2
      <4> HIDE DEF c
      <4>2. from[c] # f[c] => ChainLen - c \in Bad
        BY <4>1
      <4>3. ~(n <= ChainLen - c)
        BY <1>0, <2>4, <4>1
      <4>4. from[c] = f[c]
        BY <2>3, <4>2, <4>3
      <4> QED BY <4>4 DEF c
    <3> QED BY <2>6, <3>1, <3>2
  <2>8. from[k] = IF k = 0 THEN {} ELSE {k} \cup from[chains[k]]
    <3> HIDE DEF k, from
    <3>1. from[k] = Body(from)[k]
      BY <1>3
    <3> QED BY <2>4a, <3>1
  <2>9. f[k] = IF k = 0 THEN {} ELSE {k} \cup f[chains[k]]
    <3> HIDE DEF k, f
    <3>1. f[k] = Body(f)[k]
      BY <1>2
    <3> QED BY <2>4a, <3>1
  <2> HIDE DEF k, f, from
  <2> QED BY <2>4, <2>7, <2>8, <2>9
<1>5. index[s] \in D /\ FirstAfter(0, s, index[s])
  BY <1>0 DEF ChainsAreOccurrences, FirstAfter
<1>6. ChainOf(s) = from[index[s]]
  BY DEF ChainOf
<1>7. from[index[s]] = Reached(index[s])
  <2> HIDE DEF from
  <2> QED BY <1>4, <1>5
<1>8. Reached(index[s]) = {p \in Positions : written[p] = s}
  <2>1. CASE index[s] = 0
    BY <1>0, <1>5, <2>1 DEF FirstAfter, Reached
  <2>2. CASE index[s] # 0
    <3>1. /\ index[s] \in Positions /\ written[index[s]] = s
          /\ \A r \in Positions : r < index[s] => written[r] # s
      BY <1>0, <1>5, <2>2 DEF FirstAfter
    <3> QED BY <1>0, <2>2, <3>1, BlankIsNoSlot DEF Reached
  <2> QED BY <2>1, <2>2
<1> QED BY <1>6, <1>7, <1>8

\* The slots read back from the chains are those that were learned.
LEMMA SlotRead ==
  ASSUME TypeOK, ChainsAreOccurrences, NEW p \in Positions
  PROVE  SlotAt(p) = written[p]
<1>1. \A s \in Slots : p \in ChainOf(s) <=> written[p] = s
  BY ChainOfSlot
<1>2. written[p] \in Slots \cup {Blank}
  BY DEF TypeOK
<1>3. CASE written[p] = Blank
  BY <1>1, <1>3, BlankIsNoSlot DEF SlotAt
<1>4. CASE written[p] # Blank
  <2>1. \E s \in Slots : p \in ChainOf(s)
    BY <1>1, <1>2, <1>4
  <2>2. (CHOOSE s \in Slots : p \in ChainOf(s)) = written[p]
    BY <1>1, <2>1
  <2> QED BY <2>1, <2>2 DEF SlotAt
<1> QED BY <1>3, <1>4

-----------------------------------------------------------------------------
\* A document that starts at a ends at z.
EndsAt(a, z) ==
  /\ z \in a .. ChainLen
  /\ z = ChainLen \/ written[z] = Blank
  /\ \A r \in a .. z - 1 : written[r] # Blank

\* The text from a to z is read back as a document.
LEMMA DocRead ==
  ASSUME TypeOK, ChainsAreOccurrences, NEW a \in 1 .. ChainLen, NEW z, EndsAt(a, z)
  PROVE  /\ EndFrom[a] = z /\ AfterDoc[a] = z + 3
         /\ DocFrom[a] = [k \in 1 .. z - a |-> written[a + k - 1]]
<1>0. ChainLen \in Nat \ {0} /\ Positions = 1 .. ChainLen - 1 /\ a \in Nat /\ a > 0
  BY ChainLenAssumption DEF Positions
<1>1. z \in Int /\ a <= z /\ z <= ChainLen
  BY <1>0 DEF EndsAt
<1> DEFINE End(y) == /\ y = ChainLen \/ SlotAt(y) = Blank
                     /\ \A r \in a .. y - 1 : SlotAt(r) # Blank
<1>2. \A y \in a .. ChainLen : End(y) <=> y = z
  <2>1. ASSUME NEW y \in a .. ChainLen PROVE End(y) <=> EndsAt(a, y)
    <3>1. \A r \in a .. y - 1 : SlotAt(r) = written[r]
      BY <1>0, SlotRead
    <3>2. y = ChainLen \/ SlotAt(y) = written[y]
      BY <1>0, SlotRead
    <3> QED BY <3>1, <3>2 DEF EndsAt
  <2>2. ASSUME NEW y \in a .. ChainLen, EndsAt(a, y) PROVE y = z
    <3>1. CASE y < z
      BY <1>0, <1>1, <2>2, <3>1 DEF EndsAt
    <3>2. CASE z < y
      BY <1>0, <1>1, <2>2, <3>2 DEF EndsAt
    <3> QED BY <1>0, <1>1, <3>1, <3>2
  <2> QED BY <2>1, <2>2, <1>1, <1>0
<1>3. EndFrom[a] = z
  <2>1. EndFrom[a] = CHOOSE y \in a .. ChainLen : End(y)
    BY DEF EndFrom
  <2>2. z \in a .. ChainLen
    BY DEF EndsAt
  <2> HIDE DEF End
  <2> QED BY <1>2, <2>1, <2>2
<1>4. AfterDoc[a] = z + 3
  BY <1>0, <1>1, <1>3 DEF AfterDoc, NextOpen
<1>5. \A k \in 1 .. z - a : SlotAt(a + k - 1) = written[a + k - 1]
  BY <1>0, <1>1, SlotRead
<1>6. DocFrom[a] = [k \in 1 .. z - a |-> SlotAt(a + k - 1)]
  BY <1>3 DEF DocFrom
<1> QED BY <1>3, <1>4, <1>5, <1>6

(***************************************************************************)
(* Where the documents lie: each ends before the next one starts, and the  *)
(* one that is learned is in the text as far as it has been placed.        *)
(***************************************************************************)
NextStart == IF pc = "idle" THEN chains[0] ELSE newchainstart

IsLayout(at, n) ==
  /\ at \in [0 .. n -> Nat \ {0}] /\ at[0] = 1
  /\ \A m \in 1 .. n : at[m - 1] <= ChainLen /\ EndsAt(at[m - 1], at[m] - 3)
  /\ \A m \in 0 .. n : at[m] <= at[n]

LayoutInv ==
  /\ \E at : IsLayout(at, documents) /\ at[documents] = NextStart
  /\ pc # "idle" => doc \in Docs /\ \A k \in 1 .. i : written[newchainstart + k - 1] = Slot(doc[k])

\* The starts that are computed are those of the layout.
LEMMA StartsOfLayout ==
  ASSUME TypeOK, ChainsAreOccurrences, NEW n \in Nat, NEW at, IsLayout(at, n)
  PROVE  \A m \in 0 .. n : Starts(n)[m] = at[m]
<1> DEFINE D == 0 .. n
           Body(g) == [m \in D |-> IF m = 0 THEN 1 ELSE AfterDoc[g[m - 1]]]
           g == CHOOSE h : h = Body(h)
<1>1. \A m \in 1 .. n : AfterDoc[at[m - 1]] = at[m]
  <2> TAKE m \in 1 .. n
  <2>1. m - 1 \in D /\ m \in D
    OBVIOUS
  <2>2. at[m - 1] \in 1 .. ChainLen /\ EndsAt(at[m - 1], at[m] - 3) /\ at[m] \in Nat
    BY <2>1, ChainLenAssumption DEF IsLayout
  <2>3. AfterDoc[at[m - 1]] = at[m] - 3 + 3
    BY <2>2, DocRead
  <2> QED BY <2>2, <2>3
<1>2. at = Body(at)
  <2>1. \A m \in D : at[m] = IF m = 0 THEN 1 ELSE AfterDoc[at[m - 1]]
    BY <1>1 DEF IsLayout
  <2>2. at = [m \in D |-> at[m]]
    BY DEF IsLayout
  <2> QED BY <2>1, <2>2
<1>3. g = Body(g)
  <2> HIDE DEF Body
  <2> QED BY <1>2
<1>4. Starts(n) = g
  BY DEF Starts
<1>5. \A m \in D : g[m] = IF m = 0 THEN 1 ELSE AfterDoc[g[m - 1]]
  <2> TAKE m \in D
  <2>1. g[m] = Body(g)[m]
    BY <1>3
  <2> HIDE DEF g
  <2> QED BY <2>1
<1> DEFINE Bad == {m \in D : g[m] # at[m]}
<1>6. ASSUME Bad # {} PROVE FALSE
  <2>1. PICK m \in Bad : \A l \in Bad : m <= l
    <3>1. Bad \subseteq Nat
      OBVIOUS
    <3> HIDE DEF Bad
    <3> QED BY <1>6, <3>1, SmallestOf
  <2>2. m \in D /\ g[m] # at[m]
    OBVIOUS
  <2>3. m # 0
    <3> HIDE DEF g
    <3> QED BY <1>5, <2>2 DEF IsLayout
  <2>4. m - 1 \in D /\ m \in 1 .. n /\ ~(m <= m - 1)
    BY <2>2, <2>3
  <2>5. g[m - 1] = at[m - 1]
    <3> HIDE DEF g
    <3> QED BY <2>1, <2>4
  <2> HIDE DEF g
  <2> QED BY <1>1, <1>5, <2>2, <2>3, <2>4, <2>5
<1> HIDE DEF g
<1> QED BY <1>4, <1>6

\* The text between the starts, as documents.
TextOf(at, n) ==
  [m \in 1 .. n |-> [k \in 1 .. at[m] - 3 - at[m - 1] |-> written[at[m - 1] + k - 1]]]

\* What is read back is the layout, whichever it is.
ReadsLayout == \A at : IsLayout(at, documents) => LearnedDocs = TextOf(at, documents)

\* So the documents read back are the text between the starts.
LEMMA LearnedRead ==
  ChainInv => ReadsLayout
<1> SUFFICES ASSUME ChainInv, NEW at, IsLayout(at, documents)
             PROVE  LearnedDocs = TextOf(at, documents)
  BY DEF ReadsLayout
<1> USE DEF ChainInv
<1>1. ASSUME NEW m \in 1 .. documents
      PROVE  DocFrom[Starts(documents)[m - 1]] =
               [k \in 1 .. at[m] - 3 - at[m - 1] |-> written[at[m - 1] + k - 1]]
  <2>0. documents \in Nat /\ m - 1 \in 0 .. documents
    BY DEF TypeOK
  <2>1. Starts(documents)[m - 1] = at[m - 1]
    BY <2>0, StartsOfLayout
  <2>2. at[m - 1] \in 1 .. ChainLen /\ EndsAt(at[m - 1], at[m] - 3)
    BY <2>0, ChainLenAssumption DEF IsLayout
  <2>3. DocFrom[at[m - 1]] = [k \in 1 .. at[m] - 3 - at[m - 1] |-> written[at[m - 1] + k - 1]]
    BY <2>2, DocRead
  <2> QED BY <2>1, <2>3
<1> QED BY <1>1 DEF LearnedDocs, TextOf

\* As long as the text in front of the next start stays, so does all of it.
LEMMA LayoutStays ==
  ASSUME TypeOK, TypeOK', documents' = documents, NEW at,
         IsLayout(at, documents), at[documents] = NextStart,
         \A p \in Positions : p < NextStart => written'[p] = written[p]
  PROVE  IsLayout(at, documents)' /\ TextOf(at, documents)' = TextOf(at, documents)
<1>0. ChainLen \in Nat \ {0} /\ Positions = 1 .. ChainLen - 1 /\ documents \in Nat
  BY ChainLenAssumption DEF Positions, TypeOK
<1>1. ASSUME NEW m \in 1 .. documents
      PROVE  /\ m - 1 \in 0 .. documents /\ at[m - 1] \in 1 .. ChainLen /\ at[m] \in Nat
             /\ EndsAt(at[m - 1], at[m] - 3)
             /\ at[m] - 3 < NextStart
  <2>1. m - 1 \in 0 .. documents /\ m \in 0 .. documents
    BY <1>0
  <2>2. at[m - 1] \in Nat \ {0} /\ at[m] \in Nat \ {0} /\ NextStart \in Nat /\ at[m] <= NextStart
    BY <1>0, <2>1 DEF IsLayout
  <2>3. at[m - 1] <= ChainLen /\ EndsAt(at[m - 1], at[m] - 3)
    BY DEF IsLayout
  <2> QED BY <1>0, <2>1, <2>2, <2>3
<1>2. ASSUME NEW m \in 1 .. documents
      PROVE  EndsAt(at[m - 1], at[m] - 3)'
  <2> DEFINE a == at[m - 1]
             z == at[m] - 3
  <2>0. NextStart \in Nat
    BY <1>0 DEF IsLayout
  <2>1. a \in 1 .. ChainLen /\ z \in a .. ChainLen /\ z < NextStart /\ EndsAt(a, z) /\ NextStart \in Nat
    BY <1>0, <1>1, <2>0 DEF EndsAt
  <2> HIDE DEF a, z
  <2>2. \A r \in a .. z - 1 : written'[r] # Blank
    <3> TAKE r \in a .. z - 1
    <3>1. r \in Positions /\ r < NextStart
      BY <1>0, <2>1
    <3> QED BY <2>1, <3>1 DEF EndsAt
  <2>3. z = ChainLen \/ written'[z] = Blank
    <3>1. z # ChainLen => z \in Positions
      BY <1>0, <2>1
    <3> QED BY <2>1, <3>1 DEF EndsAt
  <2>4. EndsAt(a, z)'
    BY <2>1, <2>2, <2>3 DEF EndsAt, a, z
  <2> QED BY <2>4 DEF a, z
<1>3. IsLayout(at, documents)'
  <2>1. /\ at \in [0 .. documents -> Nat \ {0}] /\ at[0] = 1
        /\ \A m \in 1 .. documents : at[m - 1] <= ChainLen
        /\ \A m \in 0 .. documents : at[m] <= at[documents]
    BY DEF IsLayout
  <2> QED BY <1>2, <2>1 DEF IsLayout
<1>4. ASSUME NEW m \in 1 .. documents
      PROVE  [k \in 1 .. at[m] - 3 - at[m - 1] |-> written'[at[m - 1] + k - 1]] =
             [k \in 1 .. at[m] - 3 - at[m - 1] |-> written[at[m - 1] + k - 1]]
  <2>1. ASSUME NEW k \in 1 .. at[m] - 3 - at[m - 1]
        PROVE  written'[at[m - 1] + k - 1] = written[at[m - 1] + k - 1]
    <3>1. at[m - 1] \in 1 .. ChainLen /\ at[m] - 3 \in at[m - 1] .. ChainLen /\ at[m] - 3 < NextStart /\ NextStart \in Nat
      BY <1>0, <1>1 DEF EndsAt, IsLayout, NextStart, TypeOK
    <3>2. at[m - 1] + k - 1 \in Positions /\ at[m - 1] + k - 1 < NextStart
      BY <1>0, <3>1
    <3> QED BY <3>2
  <2> QED BY <2>1
<1>5. TextOf(at, documents)' = TextOf(at, documents)
  BY <1>4 DEF TextOf
<1> QED BY <1>3, <1>5

\* A document as slots.
SlotsOf(d) == [k \in 1 .. Len(d) |-> Slot(d[k])]

\* A new class is the empty list.
LEMMA InitLayout ==
  Init => LayoutInv /\ LearnedDocs = <<>>
<1> SUFFICES ASSUME Init PROVE LayoutInv /\ LearnedDocs = <<>>
  OBVIOUS
<1>1. documents = 0 /\ pc = "idle" /\ chains[0] = 1
  BY ChainLenAssumption DEF Init, NewChains
<1> DEFINE at == [m \in 0 .. 0 |-> 1]
<1>2. IsLayout(at, 0) /\ at[0] = 1
  BY DEF IsLayout
<1> HIDE DEF at
<1>3. LayoutInv
  BY <1>1, <1>2 DEF LayoutInv, NextStart
<1>4. LearnedDocs = <<>>
  <2>1. 1 .. 0 = {}
    OBVIOUS
  <2> QED BY <1>1, <2>1 DEF LearnedDocs
<1> QED BY <1>3, <1>4

\* A document whose learning ends is the next of the list.
LEMMA EndLearnAppends ==
  ASSUME ChainInv, ChainInv', LayoutInv, EndLearn
  PROVE  LayoutInv' /\ doc \in Docs /\ LearnedDocs' = Append(LearnedDocs, SlotsOf(doc))
<1>a. PICK n, start, len : n = documents /\ start = newchainstart /\ len = Len(doc)
  OBVIOUS
<1>0. /\ ChainLen \in Nat \ {0} /\ Positions = 1 .. ChainLen - 1 /\ n \in Nat
      /\ start \in Nat \ {0} /\ len \in Nat /\ start + len <= ChainLen
      /\ chains[0] = start + len + 3 /\ doc \in Seq(Nat)
  <2>1. doc \in Seq(Nat) /\ len \in Nat /\ n \in Nat /\ newchainstart \in Nat
    <3>1. doc \in Docs \cup {<<>>} /\ documents \in Nat /\ newchainstart \in Nat
      BY DEF ChainInv, TypeOK
    <3>2. doc \in Seq(Nat)
      <4>1. <<>> \in Seq(Nat)
        OBVIOUS
      <4> QED BY <3>1, <4>1, DocsAssumption
    <3> QED BY <1>a, <3>1, <3>2
  <2> QED BY <1>a, ChainLenAssumption, <2>1 DEF Positions, ChainInv, LearnIsInBlock, EndLearn, NextOpen
<1>1. /\ documents' = n + 1 /\ pc' = "idle" /\ chains' = chains /\ written' = written
      /\ pc = "insert" /\ i = len
  BY <1>a DEF EndLearn
<1>2. PICK at : IsLayout(at, n) /\ at[n] = start
  BY <1>a, <1>1 DEF LayoutInv, NextStart
<1>3. doc \in Docs /\ \A k \in 1 .. len : written[start + k - 1] = Slot(doc[k])
  BY <1>a, <1>1 DEF LayoutInv
<1>4. \A p \in Positions : p >= start + len => written[p] = Blank
  BY <1>a, <1>1 DEF ChainInv, BlankAhead, Frontier
<1> DEFINE new == [m \in 0 .. n + 1 |-> IF m = n + 1 THEN start + len + 3 ELSE at[m]]
<1>5. EndsAt(start, start + len)
  <2>1. \A r \in start .. start + len - 1 : written[r] # Blank
    <3> TAKE r \in start .. start + len - 1
    <3> DEFINE k == r - start + 1
    <3>1. k \in 1 .. len /\ start + k - 1 = r
      BY <1>0
    <3>2. doc[k] \in Nat
      BY <1>0, <1>a, <3>1
    <3>3. Slot(doc[k]) \in Slots
      BY <3>2, SlotInTable
    <3> HIDE DEF k
    <3> QED BY <1>3, <3>1, <3>3, BlankIsNoSlot
  <2>2. start + len = ChainLen \/ written[start + len] = Blank
    BY <1>0, <1>4
  <2> QED BY <1>0, <2>1, <2>2 DEF EndsAt
<1>6. IsLayout(new, n + 1)
  <2>1. /\ new \in [0 .. n + 1 -> Nat \ {0}] /\ new[0] = 1
        /\ new[n + 1] = start + len + 3 /\ \A m \in 0 .. n : new[m] = at[m] /\ new[m] <= start
    BY <1>0, <1>2 DEF IsLayout
  <2> HIDE DEF new
  <2>2. ASSUME NEW m \in 1 .. n + 1
        PROVE  new[m - 1] <= ChainLen /\ EndsAt(new[m - 1], new[m] - 3)
    <3>1. CASE m = n + 1
      <4>1. new[m - 1] = start /\ new[m] - 3 = start + len
        BY <1>0, <1>2, <2>1, <3>1
      <4> QED BY <4>1, <1>0, <1>5
    <3>2. CASE m # n + 1
      <4>1. m \in 1 .. n /\ new[m - 1] = at[m - 1] /\ new[m] = at[m]
        BY <1>0, <2>1, <3>2
      <4> QED BY <4>1, <1>2 DEF IsLayout
    <3> QED BY <3>1, <3>2
  <2>3. \A m \in 0 .. n + 1 : new[m] <= new[n + 1]
    BY <1>0, <2>1, <1>2
  <2> QED BY <2>1, <2>2, <2>3 DEF IsLayout
<1>7. new[n + 1] = chains[0] /\ new[n] = start /\ \A m \in 0 .. n : new[m] = at[m]
  BY <1>0, <1>2
<1> HIDE DEF new
<1>8. IsLayout(new, documents)' /\ new[documents'] = NextStart'
  <2>1. IsLayout(new, documents)'
    BY <1>1, <1>6 DEF IsLayout, EndsAt
  <2>2. NextStart' = chains[0]
    BY <1>1 DEF NextStart
  <2> QED BY <2>1, <2>2, <1>1, <1>7
<1>9. LayoutInv'
  BY <1>1, <1>8 DEF LayoutInv
<1>10. LearnedDocs = TextOf(at, n)
  BY <1>2, <1>a, LearnedRead DEF ReadsLayout
<1>11. LearnedDocs' = TextOf(new, n + 1)
  <2>1. ReadsLayout'
    BY LearnedRead, PTL
  <2>2. LearnedDocs' = TextOf(new, documents)'
    BY <1>8, <2>1 DEF ReadsLayout
  <2>3. TextOf(new, documents)' = TextOf(new, n + 1)
    BY <1>1 DEF TextOf
  <2> QED BY <2>2, <2>3
<1>12. TextOf(new, n + 1) = Append(TextOf(at, n), SlotsOf(doc))
  <2> DEFINE old == TextOf(at, n)
             all == TextOf(new, n + 1)
             last == SlotsOf(doc)
  <2>1. old = [m \in 1 .. n |-> old[m]] /\ all = [m \in 1 .. n + 1 |-> all[m]]
    BY DEF TextOf
  <2>2. \A m \in 1 .. n : all[m] = old[m]
    <3> TAKE m \in 1 .. n
    <3>1. new[m - 1] = at[m - 1] /\ new[m] = at[m] /\ m \in 1 .. n + 1
      BY <1>0, <1>7
    <3> QED BY <3>1 DEF TextOf
  <2>3. all[n + 1] = last
    <3>1. new[n + 1] - 3 - new[n] = len /\ n + 1 \in 1 .. n + 1 /\ n + 1 - 1 = n
      BY <1>0, <1>7
    <3>2. PICK q : q = n + 1
      OBVIOUS
    <3>2a. all[q] = [k \in 1 .. new[q] - 3 - new[q - 1] |-> written[new[q - 1] + k - 1]]
      <4>1. q \in 1 .. n + 1
        BY <3>1, <3>2
      <4> QED BY <4>1 DEF TextOf
    <3>2b. new[q] - 3 - new[q - 1] = len /\ new[q - 1] = start
      <4>1. q - 1 = n
        BY <1>0, <3>2
      <4> QED BY <3>1, <3>2, <4>1, <1>7
    <3>3. all[n + 1] = [k \in 1 .. len |-> written[start + k - 1]]
      BY <3>2, <3>2a, <3>2b
    <3> QED BY <3>3, <1>3, <1>a DEF SlotsOf
  <2>4. Len(old) = n
    BY <1>0, <2>1
  <2> HIDE DEF old, all, last
  <2>5. Append(old, last) = [m \in 1 .. n + 1 |-> IF m = n + 1 THEN last ELSE old[m]]
    BY <1>0, <2>1, <2>4 DEF Append
  <2>6. \A m \in 1 .. n + 1 : all[m] = IF m = n + 1 THEN last ELSE old[m]
    BY <1>0, <2>2, <2>3
  <2>7. all = Append(old, last)
    BY <2>1, <2>5, <2>6
  <2> QED BY <2>7 DEF old, all, last
<1> QED BY <1>3, <1>9, <1>10, <1>11, <1>12

\* What is in front of the next start stays, and the document at hand goes in.
FrontStays ==
  /\ \A p \in Positions : p < NextStart => written'[p] = written[p]
  /\ NextStart' = NextStart
  /\ pc' # "idle" => /\ doc' \in Docs
                     /\ \A k \in 1 .. i' : written'[newchainstart' + k - 1] = Slot(doc'[k])

\* Any other step leaves the list as it was.
LEMMA LayoutStep ==
  ASSUME ChainInv, ChainInv', LayoutInv, [Next]_vars, ~ EndLearn
  PROVE  LayoutInv' /\ LearnedDocs' = LearnedDocs
<1>0. /\ ChainLen \in Nat \ {0} /\ Positions = 1 .. ChainLen - 1 /\ documents' = documents
      /\ TypeOK /\ TypeOK'
  BY ChainLenAssumption
     DEF Positions, ChainInv, Next, vars, LearnRefused, datablock, local, BeginLearn, Learning,
         FirstOfSlot, BeginChase, Chase, LinkAtEnd, SaveRestore
<1>1. FrontStays
  <2>0. pc # "idle" => doc \in Docs /\ \A k \in 1 .. i : written[newchainstart + k - 1] = Slot(doc[k])
    BY DEF LayoutInv
  <2>1. ASSUME UNCHANGED <<written, doc, i, newchainstart>>, chains'[0] = chains[0],
               (pc = "idle") <=> (pc' = "idle")
        PROVE  FrontStays
    BY <2>0, <2>1 DEF NextStart, FrontStays
  <2>2. CASE UNCHANGED vars
    BY <2>1, <2>2 DEF vars
  <2>3. CASE LearnRefused
    BY <2>1, <2>3 DEF LearnRefused, datablock, local
  <2>4. ASSUME NEW d \in Docs, BeginLearn(d)
        PROVE  FrontStays
    <3>1. pc = "idle" /\ pc' # "idle" /\ doc' = d /\ i' = 0 /\ newchainstart' = chains[0] /\ written' = written
      BY <2>4 DEF BeginLearn
    <3> QED BY <3>1 DEF NextStart, FrontStays
  <2>5. ASSUME Placed, pc # "idle", pc' # "idle", i < Len(doc), UNCHANGED <<doc, newchainstart>>
        PROVE  FrontStays
    <3>1. Here \in Positions /\ pti \in Slots
      BY <2>5, PlaceIsFree
    <3>2. /\ written' = [written EXCEPT ![Here] = pti] /\ i' = i + 1 /\ i \in Nat
          /\ Here = newchainstart + i /\ pti = Slot(doc[i + 1]) /\ newchainstart \in Nat
          /\ written \in [Positions -> Slots \cup {Blank}]
      BY <1>0, <2>5 DEF Placed, Here, pti, TypeOK
    <3>3. NextStart = newchainstart /\ NextStart' = NextStart
      BY <2>5 DEF NextStart
    <3>4. \A p \in Positions : p < NextStart => written'[p] = written[p]
      BY <1>0, <3>1, <3>2, <3>3
    <3>5. ASSUME NEW k \in 1 .. i' PROVE written'[newchainstart + k - 1] = Slot(doc[k])
      <4>1. CASE k = i + 1
        <5>1. newchainstart + k - 1 = Here
          BY <3>2, <4>1
        <5> QED BY <3>1, <3>2, <4>1, <5>1
      <4>2. CASE k # i + 1
        <5>1. k \in 1 .. i /\ newchainstart + k - 1 # Here
          BY <3>2, <4>2
        <5>2. written[newchainstart + k - 1] = Slot(doc[k])
          BY <2>0, <2>5, <5>1
        <5>3. written'[newchainstart + k - 1] = written[newchainstart + k - 1]
          BY <3>1, <3>2, <5>1
        <5> QED BY <5>2, <5>3
      <4> QED BY <4>1, <4>2
    <3> QED BY <2>0, <2>5, <3>3, <3>4, <3>5 DEF FrontStays
  <2>6. CASE FirstOfSlot
    BY <2>5, <2>6 DEF FirstOfSlot, Placed
  <2>7. CASE BeginChase
    BY <2>1, <2>7 DEF BeginChase, datablock
  <2>8. CASE Chase
    BY <2>1, <2>8 DEF Chase, datablock
  <2>9. CASE LinkAtEnd
    BY <2>5, <2>9 DEF LinkAtEnd, Placed, ChainInv, WalkIsOnChain
  <2>10. CASE SaveRestore
    <3>1. chains' = chains
      BY <1>0, <2>10, LinesRestore DEF SaveRestore
    <3> QED BY <2>1, <2>10, <3>1 DEF SaveRestore, local
  <2> QED BY <2>2, <2>3, <2>4, <2>6, <2>7, <2>8, <2>9, <2>10 DEF Next, Learning
<1>2. PICK at : IsLayout(at, documents) /\ at[documents] = NextStart
  BY DEF LayoutInv
<1>3. IsLayout(at, documents)' /\ TextOf(at, documents)' = TextOf(at, documents)
  BY <1>0, <1>1, <1>2, LayoutStays DEF FrontStays
<1>4. LayoutInv'
  BY <1>0, <1>1, <1>2, <1>3 DEF LayoutInv, FrontStays
<1>5. LearnedDocs = TextOf(at, documents)
  BY <1>2, LearnedRead DEF ReadsLayout
<1>6. LearnedDocs' = TextOf(at, documents)'
  <2>1. ReadsLayout'
    BY LearnedRead, PTL
  <2> QED BY <1>3, <2>1 DEF ReadsLayout
<1> QED BY <1>3, <1>4, <1>5, <1>6

(***************************************************************************)
(* For every table, block and set of documents the class is a list of      *)
(* documents: learning appends one, as slots, and neither a step on the    *)
(* way there nor the text form disturbs those before it.                   *)
(***************************************************************************)
THEOREM ClassIsListOfDocuments ==
  Spec => ImplementsStore
<1>1. Init => Store!Init
  BY InitLayout DEF Store!Init
<1>2. ChainInv /\ ChainInv' /\ LayoutInv /\ [Next]_vars =>
        LayoutInv' /\ [Store!Next]_([c \in {"class"} |-> LearnedDocs])
  <2> SUFFICES ASSUME ChainInv, ChainInv', LayoutInv, [Next]_vars
               PROVE  LayoutInv' /\ [Store!Next]_([c \in {"class"} |-> LearnedDocs])
    OBVIOUS
  <2>1. CASE EndLearn
    <3>1. LayoutInv' /\ doc \in Docs /\ LearnedDocs' = Append(LearnedDocs, SlotsOf(doc))
      BY <2>1, EndLearnAppends
    <3>2. Store!Learn("class", SlotsOf(doc))
      BY <3>1 DEF Store!Learn
    <3>3. SlotsOf(doc) \in {[k \in 1 .. Len(d) |-> Slot(d[k])] : d \in Docs}
      BY <3>1 DEF SlotsOf
    <3>4. Store!Next
      BY <3>2, <3>3 DEF Store!Next
    <3> QED BY <3>1, <3>4
  <2>2. CASE ~ EndLearn
    BY <2>2, LayoutStep
  <2> QED BY <2>1, <2>2
<1>3. Init => LayoutInv
  BY InitLayout
<1> QED
  BY <1>1, <1>2, <1>3, InitChainInv, StepChainInv, PTL DEF Spec, ImplementsStore, Store!Spec

-----------------------------------------------------------------------------
(* A loop as a recursive function: in a state d it stops with out[d] or    *)
(* goes on from next[d], and the rank, at most N, falls with every round.  *)

IsLoop(D, R, stop, out, next, rank, N) ==
  /\ N \in Nat
  /\ stop \in [D -> BOOLEAN] /\ out \in [D -> R] /\ next \in [D -> D]
  /\ rank \in [D -> 0 .. N]
  /\ \A d \in D : ~ stop[d] => rank[next[d]] < rank[d]

Runs(f, D, stop, out, next) ==
  \A d \in D : f[d] = IF stop[d] THEN out[d] ELSE f[next[d]]

\* What every round keeps (I), and what it gives at the end (Good).
Keeps(I, Good, D, stop, out, next) ==
  /\ I \subseteq D
  /\ \A d \in I : stop[d] => out[d] \in Good
  /\ \A d \in I : ~ stop[d] => next[d] \in I

\* Every loop has a function it computes.
LEMMA LoopComputes ==
  ASSUME NEW D, NEW R, NEW stop, NEW out, NEW next, NEW rank, NEW N,
         IsLoop(D, R, stop, out, next, rank, N)
  PROVE  \E f \in [D -> R] : Runs(f, D, stop, out, next)
<1> DEFINE Upto(n) == \E f \in [D -> R] : \A d \in D :
                        rank[d] < n => f[d] = IF stop[d] THEN out[d] ELSE f[next[d]]
           Bad == {n \in Nat : ~ Upto(n)}
<1>1. Upto(0)
  <2>1. out \in [D -> R] /\ \A d \in D : rank[d] \in Nat
    BY DEF IsLoop
  <2> QED
    BY <2>1
<1>2. ASSUME NEW n \in Nat, Upto(n)
      PROVE  Upto(n + 1)
  <2>1. PICK f \in [D -> R] : \A d \in D :
               rank[d] < n => f[d] = IF stop[d] THEN out[d] ELSE f[next[d]]
    BY <1>2
  <2> DEFINE g == [d \in D |-> IF stop[d] THEN out[d] ELSE f[next[d]]]
  <2>2. g \in [D -> R]
    BY DEF IsLoop
  <2>3. ASSUME NEW d \in D, rank[d] < n + 1
        PROVE  g[d] = IF stop[d] THEN out[d] ELSE g[next[d]]
    <3>1. CASE stop[d]
      BY <3>1
    <3>2. CASE ~ stop[d]
      <4>1. next[d] \in D /\ rank[next[d]] < rank[d] /\ rank[d] \in Nat /\ rank[next[d]] \in Nat
        BY <3>2 DEF IsLoop
      <4>2. rank[next[d]] < n
        BY <2>3, <4>1
      <4>3. f[next[d]] = g[next[d]]
        BY <2>1, <4>1, <4>2
      <4> QED
        BY <3>2, <4>3
    <3> QED
      BY <3>1, <3>2
  <2> HIDE DEF g
  <2> QED
    BY <2>2, <2>3
<1>3. Bad = {}
  <2> SUFFICES ASSUME Bad # {} PROVE FALSE
    OBVIOUS
  <2>1. PICK n \in Bad : \A m \in Bad : n <= m
    <3> HIDE DEF Upto
    <3>1. Bad \subseteq Nat
      OBVIOUS
    <3> HIDE DEF Bad
    <3> QED
      BY <3>1, SmallestOf
  <2> HIDE DEF Upto
  <2>2. n \in Nat /\ ~ Upto(n) /\ n # 0
    BY <1>1
  <2>3. n - 1 \in Nat /\ n - 1 \notin Bad /\ n - 1 + 1 = n
    BY <2>1, <2>2
  <2>4. Upto(n - 1)
    BY <2>3
  <2> QED
    BY <2>2, <2>3, <2>4, <1>2
<1>4. Upto(N + 1)
  <2> HIDE DEF Upto
  <2> QED
    BY <1>3 DEF IsLoop
<1>5. \A d \in D : rank[d] < N + 1
  BY DEF IsLoop
<1> QED
  BY <1>4, <1>5 DEF Runs

\* What every round keeps holds at the end.
LEMMA LoopKeeps ==
  ASSUME NEW D, NEW R, NEW stop, NEW out, NEW next, NEW rank, NEW N,
         IsLoop(D, R, stop, out, next, rank, N),
         NEW f, Runs(f, D, stop, out, next),
         NEW I, NEW Good, Keeps(I, Good, D, stop, out, next)
  PROVE  \A d \in I : f[d] \in Good
<1> DEFINE Bad == {d \in I : f[d] \notin Good}
           Ranks == {rank[d] : d \in Bad}
<1> SUFFICES ASSUME Bad # {} PROVE FALSE
  OBVIOUS
<1> USE DEF Keeps
<1>1. Ranks \subseteq Nat /\ Ranks # {}
  BY DEF IsLoop
<1>2. PICK n \in Ranks : \A m \in Ranks : n <= m
  <2> HIDE DEF Ranks
  <2> QED
    BY <1>1, SmallestOf
<1>3. PICK d \in Bad : rank[d] = n
  OBVIOUS
<1>4. d \in I /\ d \in D /\ f[d] \notin Good
  OBVIOUS
<1>5. ~ stop[d]
  BY <1>4 DEF Runs
<1>6. next[d] \in I /\ next[d] \in D /\ f[next[d]] \notin Good
  BY <1>4, <1>5 DEF Runs
<1>7. rank[next[d]] \in Ranks
  BY <1>6
<1>8. rank[next[d]] < rank[d] /\ rank[d] \in Nat /\ rank[next[d]] \in Nat
  BY <1>4, <1>5, <1>6 DEF IsLoop
<1> QED
  BY <1>2, <1>3, <1>7, <1>8

-----------------------------------------------------------------------------
(* The two loops of the matcher: the walk to a position, which carries the *)
(* cache along, and the way past a run.                                    *)

Links == 0 .. ChainLen - 1
Caches == [chstart : Nat, cval0 : Nat, cval1 : Nat]

WalkStop(must) == [p \in Places |-> ~ (p.at < must /\ p.at > 0)]
WalkOut == [p \in Places |-> p]
WalkNext(must) == [p \in Places |-> IF p.at < must /\ p.at > 0 THEN Onward(p) ELSE p]
WalkRank == [p \in Places |-> IF p.at = 0 THEN 0 ELSE ChainLen - p.at]

SkipStop(past) == [k \in Links |-> ~ (k > 0 /\ k < past)]
SkipOut == [k \in Links |-> k]
SkipNext(past) == [k \in Links |-> IF k > 0 /\ k < past THEN chains[k] ELSE k]
SkipRank == [k \in Links |-> IF k = 0 THEN 0 ELSE ChainLen - k]

\* A position of the text of slot s.
On(p, s) == p \in Positions /\ written[p] = s

\* A link leads to the next position of its slot, or ends the chain.
LEMMA LinkLeadsOn ==
  ASSUME ChainInv, NEW s \in Slots, NEW p, On(p, s)
  PROVE  /\ chains[p] # 0 => On(chains[p], s) /\ chains[p] > p
         /\ \A q : On(q, s) /\ q > p => chains[p] # 0 /\ chains[p] <= q
<1>1. FirstAfter(p, s, chains[p])
  BY BlankIsNoSlot DEF ChainInv, ChainsAreOccurrences, On
<1>2. p \in Nat /\ chains[p] \in Nat
  BY DEF ChainInv, TypeOK, On, Positions
<1>3. \A q : On(q, s) => q \in Nat
  BY DEF On, Positions
<1> QED
  BY <1>1, <1>2, <1>3 DEF FirstAfter, On

\* So does any link, to some cell, if it leads anywhere.
LEMMA LinkIsLater ==
  ASSUME ChainInv, NEW p \in Positions
  PROVE  chains[p] \in Links /\ (chains[p] = 0 \/ chains[p] > p)
<1>1. CASE written[p] = Blank
  BY <1>1, ChainLenAssumption DEF ChainInv, ChainsAreOccurrences, Links
<1>2. CASE written[p] # Blank
  <2>1. written[p] \in Slots
    BY <1>2 DEF ChainInv, TypeOK
  <2>2. chains[p] = 0 \/ (On(chains[p], written[p]) /\ chains[p] > p)
    BY <2>1, LinkLeadsOn DEF On
  <2> QED
    BY <2>2, ChainLenAssumption DEF On, Positions, Links
<1> QED
  BY <1>1, <1>2

LEMMA OnwardIsPlace ==
  ASSUME ChainInv, NEW p \in Places, p.at > 0
  PROVE  /\ Onward(p) \in Places /\ Onward(p).at = chains[p.at]
         /\ chains[p.at] = 0 \/ chains[p.at] > p.at
<1>1. p.at \in Links /\ p.cache \in Caches
  BY DEF Places, Links, Caches
<1>2. p.at \in Positions
  BY <1>1, ChainLenAssumption DEF Links, Positions
<1>3. chains[p.at] \in Links /\ (chains[p.at] = 0 \/ chains[p.at] > p.at)
  BY <1>2, LinkIsLater
<1>4. chains[p.at] \in Nat /\ p.cache.cval0 \in Nat /\ p.cache.chstart \in Nat
  BY <1>1, <1>3, ChainLenAssumption DEF Links, Caches
<1> QED
  BY <1>3, <1>4 DEF Onward, Places, Links

LEMMA WalkIsLoop ==
  ASSUME ChainInv, NEW must \in Nat
  PROVE  IsLoop(Places, Places, WalkStop(must), WalkOut, WalkNext(must), WalkRank, ChainLen)
<1>1. WalkStop(must) \in [Places -> BOOLEAN] /\ WalkOut \in [Places -> Places]
  BY DEF WalkStop, WalkOut
<1>2. \A p \in Places : p.at \in Nat /\ p.at < ChainLen
  BY ChainLenAssumption DEF Places
<1>3. WalkRank \in [Places -> 0 .. ChainLen]
  BY <1>2, ChainLenAssumption DEF WalkRank
<1>4. WalkNext(must) \in [Places -> Places]
  BY OnwardIsPlace DEF WalkNext
<1>5. ASSUME NEW p \in Places, ~ WalkStop(must)[p]
      PROVE  WalkRank[WalkNext(must)[p]] < WalkRank[p]
  <2>1. p.at > 0 /\ p.at < must
    BY <1>5 DEF WalkStop
  <2>2. WalkNext(must)[p] = Onward(p)
    BY <2>1 DEF WalkNext
  <2>3. Onward(p) \in Places /\ (Onward(p).at = 0 \/ Onward(p).at > p.at)
    BY <2>1, OnwardIsPlace
  <2> QED
    BY <1>2, <2>1, <2>2, <2>3, ChainLenAssumption DEF WalkRank
<1> QED
  BY <1>1, <1>3, <1>4, <1>5, ChainLenAssumption DEF IsLoop

LEMMA WalkRuns ==
  ASSUME ChainInv, NEW must \in Nat
  PROVE  Runs(Walk(must), Places, WalkStop(must), WalkOut, WalkNext(must))
<1> DEFINE Body(w) == [p \in Places |-> IF p.at < must /\ p.at > 0 THEN w[Onward(p)] ELSE p]
<1>1. PICK f \in [Places -> Places] : Runs(f, Places, WalkStop(must), WalkOut, WalkNext(must))
  BY WalkIsLoop, LoopComputes
<1>2. f = Body(f)
  <2>1. ASSUME NEW p \in Places
        PROVE  f[p] = IF p.at < must /\ p.at > 0 THEN f[Onward(p)] ELSE p
    BY <1>1 DEF Runs, WalkStop, WalkOut, WalkNext
  <2> QED
    BY <1>1, <2>1
<1>3. Walk(must) = CHOOSE w : w = Body(w)
  BY DEF Walk
<1>4. Walk(must) = Body(Walk(must))
  <2> HIDE DEF Body
  <2> QED
    BY <1>2, <1>3
<1>5. ASSUME NEW p \in Places
      PROVE  Walk(must)[p] = IF WalkStop(must)[p] THEN WalkOut[p] ELSE Walk(must)[WalkNext(must)[p]]
  <2>1. Walk(must)[p] = IF p.at < must /\ p.at > 0 THEN Walk(must)[Onward(p)] ELSE p
    BY <1>4
  <2> QED
    BY <2>1 DEF WalkStop, WalkOut, WalkNext
<1> QED
  BY <1>5 DEF Runs

LEMMA SkipRuns ==
  ASSUME ChainInv, NEW past \in Nat
  PROVE  /\ IsLoop(Links, Links, SkipStop(past), SkipOut, SkipNext(past), SkipRank, ChainLen)
         /\ Runs(Skip(past), Links, SkipStop(past), SkipOut, SkipNext(past))
<1> DEFINE Body(w) == [k \in 0 .. ChainLen - 1 |-> IF k > 0 /\ k < past THEN w[chains[k]] ELSE k]
<1>1. IsLoop(Links, Links, SkipStop(past), SkipOut, SkipNext(past), SkipRank, ChainLen)
  <2>1. \A k \in Links : k > 0 => chains[k] \in Links /\ (chains[k] = 0 \/ chains[k] > k)
    BY LinkIsLater DEF Links, Positions
  <2>2. SkipNext(past) \in [Links -> Links]
    BY <2>1 DEF SkipNext
  <2>3. SkipStop(past) \in [Links -> BOOLEAN] /\ SkipOut \in [Links -> Links]
    BY DEF SkipStop, SkipOut
  <2>4. SkipRank \in [Links -> 0 .. ChainLen]
    BY ChainLenAssumption DEF SkipRank, Links
  <2>5. ASSUME NEW k \in Links, ~ SkipStop(past)[k]
        PROVE  SkipRank[SkipNext(past)[k]] < SkipRank[k]
    <3>1. k > 0 /\ SkipNext(past)[k] = chains[k]
      BY <2>5 DEF SkipStop, SkipNext
    <3>2. chains[k] \in Links /\ (chains[k] = 0 \/ chains[k] > k)
      BY <3>1, <2>1
    <3> QED
      BY <3>1, <3>2, ChainLenAssumption DEF SkipRank, Links
  <2> QED
    BY <2>2, <2>3, <2>4, <2>5, ChainLenAssumption DEF IsLoop
<1>2. PICK f \in [Links -> Links] : Runs(f, Links, SkipStop(past), SkipOut, SkipNext(past))
  BY <1>1, LoopComputes
<1>3. f = Body(f)
  <2>1. ASSUME NEW k \in Links
        PROVE  f[k] = IF k > 0 /\ k < past THEN f[chains[k]] ELSE k
    BY <1>2 DEF Runs, SkipStop, SkipOut, SkipNext
  <2> QED
    BY <1>2, <2>1 DEF Links
<1>4. Skip(past) = CHOOSE w : w = Body(w)
  BY DEF Skip
<1>5. Skip(past) = Body(Skip(past))
  <2> HIDE DEF Body
  <2> QED
    BY <1>3, <1>4
<1>6. ASSUME NEW k \in Links
      PROVE  Skip(past)[k] = IF SkipStop(past)[k] THEN SkipOut[k] ELSE Skip(past)[SkipNext(past)[k]]
  <2>1. Skip(past)[k] = IF k > 0 /\ k < past THEN Skip(past)[chains[k]] ELSE k
    BY <1>5 DEF Links
  <2> QED
    BY <2>1 DEF SkipStop, SkipOut, SkipNext
<1> QED
  BY <1>1, <1>6 DEF Runs

-----------------------------------------------------------------------------
(* One look for a position.                                                *)

OnOrNone(p, s) == p = 0 \/ On(p, s)

\* What the cache holds: nothing, or places of the chain it is of.
CacheIsOfChain(c) ==
  /\ c \in Caches
  /\ c.chstart = 0 => c = NoCache
  /\ c.chstart # 0 => \E s \in Slots : c.chstart = index[s] /\ OnOrNone(c.cval0, s)
                                                            /\ OnOrNone(c.cval1, s)

\* A head of a chain is the first position of its slot.
LEMMA HeadIsFirst ==
  ASSUME ChainInv, NEW s \in Slots, index[s] # 0
  PROVE  /\ On(index[s], s) /\ index[s] \in Nat
         /\ \A q : On(q, s) => index[s] <= q
         /\ \A t \in Slots : index[t] = index[s] => t = s
<1>1. \A t \in Slots : FirstAfter(0, t, index[t])
  BY DEF ChainInv, ChainsAreOccurrences
<1>2. index[s] \in Nat /\ \A q : On(q, s) => q \in Nat /\ q > 0
  BY DEF ChainInv, TypeOK, On, Positions
<1> QED
  BY <1>1, <1>2 DEF FirstAfter, On

\* Without a head the look finds nothing and leaves no cache.
LEMMA SearchOfNoChain ==
  ASSUME ChainInv, CacheIsOfChain(cache), NEW must \in Nat
  PROVE  SearchChain(0, must) = [at |-> 0, cache |-> NoCache]
<1> DEFINE p == [at |-> 0, cache |-> NoCache]
<1>1. NoCache \in Caches /\ NoCache.cval0 = 0 /\ NoCache.cval1 = 0 /\ NoCache.chstart = 0
  BY DEF NoCache, Caches
<1>2. p \in Places
  BY <1>1, ChainLenAssumption DEF Places, Caches
<1>3. Cached(0) = NoCache
  BY DEF Cached, CacheIsOfChain, NoCache
<1>4. cache.chstart = 0 => StartOfWalk(0, must) = 0
  BY <1>1 DEF CacheIsOfChain, StartOfWalk, Tighter
<1>5. SearchChain(0, must) = Walk(must)[p]
  BY <1>3, <1>4 DEF SearchChain
<1>6. Walk(must)[p] = IF WalkStop(must)[p] THEN WalkOut[p] ELSE Walk(must)[WalkNext(must)[p]]
  BY <1>2, WalkRuns DEF Runs
<1>7. WalkStop(must)[p] /\ WalkOut[p] = p
  <2>1. p.at = 0
    OBVIOUS
  <2> HIDE DEF p
  <2>2. WalkOut[p] = p
    BY <1>2 DEF WalkOut
  <2>3. WalkStop(must)[p] <=> ~ (p.at < must /\ p.at > 0)
    BY <1>2 DEF WalkStop
  <2> QED
    BY <2>1, <2>2, <2>3
<1> QED
  BY <1>5, <1>6, <1>7

\* With one it finds what is there, whatever the cache.
LEMMA SearchFinds ==
  ASSUME ChainInv, CacheIsOfChain(cache), NEW s \in Slots, index[s] # 0, NEW must \in Nat \ {0}
  PROVE  /\ SearchChain(index[s], must) \in Places
         /\ SearchChain(index[s], must).at = must <=> On(must, s)
         /\ CacheIsOfChain(SearchChain(index[s], must).cache)
<1> DEFINE head == index[s]
           Good(c) == /\ c \in Caches /\ c.chstart = head
                      /\ OnOrNone(c.cval0, s) /\ OnOrNone(c.cval1, s)
           I == {p \in Places : /\ Good(p.cache) /\ OnOrNone(p.at, s)
                                /\ On(must, s) => p.at # 0 /\ p.at <= must}
           G == {p \in Places : Good(p.cache) /\ (p.at = must <=> On(must, s))}
           start == IF cache.chstart = head THEN StartOfWalk(head, must) ELSE head
<1>1. /\ On(head, s) /\ head \in Nat /\ head # 0
      /\ \A q : On(q, s) => head <= q
      /\ \A t \in Slots : index[t] = head => t = s
  BY HeadIsFirst
<1>2. \A q : On(q, s) => q \in Nat /\ q \in Links /\ q # 0
  BY ChainLenAssumption DEF On, Positions, Links
<1>3. Good(Cached(head))
  <2>1. CASE cache.chstart = head
    <3>1. Cached(head) = cache
      BY <2>1 DEF Cached
    <3>2. PICK t \in Slots : cache.chstart = index[t] /\ OnOrNone(cache.cval0, t)
                                                      /\ OnOrNone(cache.cval1, t)
      BY <1>1, <2>1 DEF CacheIsOfChain
    <3>3. t = s /\ cache \in Caches
      BY <1>1, <2>1, <3>2 DEF CacheIsOfChain
    <3> QED
      BY <2>1, <3>1, <3>2, <3>3
  <2>2. CASE cache.chstart # head
    <3>1. Cached(head) = [chstart |-> head, cval0 |-> head, cval1 |-> head]
      BY <2>2 DEF Cached
    <3> HIDE DEF head
    <3> QED
      BY <1>1, <3>1 DEF Caches, OnOrNone
  <2> QED
    BY <2>1, <2>2
<1>4. On(start, s) /\ (On(must, s) => start <= must)
  <2>1. CASE cache.chstart = head
    <3>1. OnOrNone(cache.cval0, s) /\ OnOrNone(cache.cval1, s)
      <4>1. Cached(head) = cache
        BY <2>1 DEF Cached
      <4> QED
        BY <1>3, <4>1
    <3>2. start = StartOfWalk(head, must)
      BY <2>1
    <3> HIDE DEF head, start
    <3> QED
      BY <1>1, <1>2, <3>1, <3>2 DEF StartOfWalk, Tighter, OnOrNone
  <2>2. CASE cache.chstart # head
    BY <1>1, <2>2
  <2> QED
    BY <2>1, <2>2
<1> DEFINE p0 == [at |-> start, cache |-> Cached(head)]
<1>5. SearchChain(head, must) = Walk(must)[p0]
  BY DEF SearchChain
<1> HIDE DEF start, head
<1>6. p0 \in I
  <2>1. start \in Links /\ start # 0
    BY <1>2, <1>4
  <2>2. p0 \in Places
    BY <1>3, <2>1 DEF Places, Links, Caches
  <2>3. Good(p0.cache) /\ OnOrNone(p0.at, s) /\ (On(must, s) => p0.at # 0 /\ p0.at <= must)
    BY <1>3, <1>4, <2>1 DEF OnOrNone
  <2> HIDE DEF p0, Good
  <2> QED
    BY <2>2, <2>3
<1>7. ASSUME NEW p \in I, WalkStop(must)[p]
      PROVE  WalkOut[p] \in G
  <2>1. /\ p \in Places /\ Good(p.cache) /\ OnOrNone(p.at, s)
        /\ On(must, s) => p.at # 0 /\ p.at <= must
    OBVIOUS
  <2>2. ~ (p.at < must /\ p.at > 0) /\ WalkOut[p] = p
    BY <1>7, <2>1 DEF WalkStop, WalkOut
  <2>3. p.at \in Nat
    BY <2>1, ChainLenAssumption DEF Places
  <2>4. p.at = must <=> On(must, s)
    BY <2>1, <2>2, <2>3 DEF OnOrNone
  <2> HIDE DEF Good
  <2> QED
    BY <2>1, <2>2, <2>4
<1>8. ASSUME NEW p \in I, ~ WalkStop(must)[p]
      PROVE  WalkNext(must)[p] \in I
  <2>1. /\ p \in Places /\ Good(p.cache) /\ OnOrNone(p.at, s)
        /\ On(must, s) => p.at # 0 /\ p.at <= must
    OBVIOUS
  <2>2. p.at < must /\ p.at > 0 /\ WalkNext(must)[p] = Onward(p) /\ On(p.at, s)
    <3> HIDE DEF I, Good
    <3>1. p.at < must /\ p.at > 0
      BY <1>8, <2>1 DEF WalkStop
    <3>2. WalkNext(must)[p] = Onward(p)
      BY <2>1, <3>1 DEF WalkNext
    <3> QED
      BY <2>1, <3>1, <3>2 DEF OnOrNone
  <2>3. Onward(p) \in Places /\ Onward(p).at = chains[p.at]
    BY <2>1, <2>2, OnwardIsPlace
  <2>4. /\ chains[p.at] # 0 => On(chains[p.at], s)
        /\ \A q : On(q, s) /\ q > p.at => chains[p.at] # 0 /\ chains[p.at] <= q
    BY <2>2, LinkLeadsOn
  <2>5. OnOrNone(Onward(p).at, s) /\ (On(must, s) => Onward(p).at # 0 /\ Onward(p).at <= must)
    BY <1>2, <2>2, <2>3, <2>4 DEF OnOrNone
  <2>6. Good(Onward(p).cache)
    <3>1. /\ Onward(p).cache.chstart = p.cache.chstart
          /\ Onward(p).cache.cval0 = chains[p.at]
          /\ Onward(p).cache.cval1 = p.cache.cval0
      BY DEF Onward
    <3>2. Onward(p).cache \in Caches
      BY <2>3 DEF Places, Caches
    <3> QED
      BY <2>1, <2>4, <3>1, <3>2 DEF OnOrNone
  <2> HIDE DEF Good
  <2> QED
    BY <2>2, <2>3, <2>5, <2>6
<1>9. Walk(must)[p0] \in G
  <2>1. I \subseteq Places
    OBVIOUS
  <2> HIDE DEF I, G, p0
  <2>2. IsLoop(Places, Places, WalkStop(must), WalkOut, WalkNext(must), WalkRank, ChainLen)
    BY WalkIsLoop
  <2>3. Runs(Walk(must), Places, WalkStop(must), WalkOut, WalkNext(must))
    BY WalkRuns
  <2>4. \A p \in I : WalkStop(must)[p] => WalkOut[p] \in G
    BY <1>7
  <2>5. \A p \in I : ~ WalkStop(must)[p] => WalkNext(must)[p] \in I
    BY <1>8
  <2>6. Keeps(I, G, Places, WalkStop(must), WalkOut, WalkNext(must))
    BY <2>1, <2>4, <2>5 DEF Keeps
  <2>7. \A p \in I : Walk(must)[p] \in G
    BY <2>2, <2>3, <2>6, LoopKeeps
  <2> QED
    BY <1>6, <2>7
<1> DEFINE r == SearchChain(head, must)
<1>10. r \in Places /\ Good(r.cache) /\ (r.at = must <=> On(must, s))
  BY <1>5, <1>9
<1> HIDE DEF r
<1>11. CacheIsOfChain(r.cache)
  BY <1>1, <1>10 DEF CacheIsOfChain, head
<1> QED
  BY <1>10, <1>11 DEF r, head

\* Past a run: another position of the slot, or none.
LEMMA NextOccurrenceOn ==
  ASSUME ChainInv, NEW s \in Slots, On(occ, s), offset \in Nat
  PROVE  OnOrNone(NextOccurrence, s)
<1> DEFINE past == chains[occ] + offset
           I == {k \in Links : OnOrNone(k, s)}
<1>1. chains[occ] = 0 \/ On(chains[occ], s)
  BY LinkLeadsOn
<1>2. chains[occ] \in Nat /\ chains[occ] \in I
  BY <1>1, ChainLenAssumption DEF On, OnOrNone, Positions, Links
<1>3. past \in Nat
  BY <1>2
<1>4. NextOccurrence = Skip(past)[chains[occ]]
  BY DEF NextOccurrence
<1> HIDE DEF past
<1>5. \A k \in I : SkipStop(past)[k] => SkipOut[k] \in I
  BY DEF SkipOut
<1>6. ASSUME NEW k \in I, ~ SkipStop(past)[k]
      PROVE  SkipNext(past)[k] \in I
  <2>1. k \in Links /\ OnOrNone(k, s)
    OBVIOUS
  <2>2. k > 0 /\ k < past
    <3> HIDE DEF I
    <3> QED
      BY <1>6, <2>1 DEF SkipStop
  <2>3. SkipNext(past)[k] = chains[k] /\ On(k, s)
    BY <2>1, <2>2 DEF SkipNext, OnOrNone
  <2>4. chains[k] = 0 \/ On(chains[k], s)
    BY <2>3, LinkLeadsOn
  <2> QED
    BY <2>3, <2>4, ChainLenAssumption DEF On, OnOrNone, Positions, Links
<1>7. \A k \in I : Skip(past)[k] \in I
  <2>1. I \subseteq Links
    OBVIOUS
  <2> HIDE DEF I
  <2>2. /\ IsLoop(Links, Links, SkipStop(past), SkipOut, SkipNext(past), SkipRank, ChainLen)
        /\ Runs(Skip(past), Links, SkipStop(past), SkipOut, SkipNext(past))
    BY <1>3, SkipRuns
  <2>3. \A k \in I : ~ SkipStop(past)[k] => SkipNext(past)[k] \in I
    BY <1>6
  <2>4. Keeps(I, I, Links, SkipStop(past), SkipOut, SkipNext(past))
    BY <1>5, <2>1, <2>3 DEF Keeps
  <2> QED
    BY <2>2, <2>4, LoopKeeps
<1> QED
  BY <1>2, <1>4, <1>7

-----------------------------------------------------------------------------
(* Classifying.                                                            *)

\* n symbols of u from s on are in step with the class from position p on.
InStep(u, s, p, n) ==
  \A k \in 0 .. n - 1 : s + k <= Len(u) /\ On(p + k, Slot(u[s + k]))

\* The run so far has been learned; so has the longest, and there is one if
\* the symbol has been learned.
RunInv ==
  /\ occ # 0 => symbol \in 1 .. Len(unk) /\ InStep(unk, symbol, occ, offset + 1)
  /\ symbol \in 1 .. Len(unk) =>
       /\ best = 0 => \A p : ~ On(p, Slot(unk[symbol]))
       /\ best > 0 => \E p \in Nat : InStep(unk, symbol, p, best)

MatchTypes ==
  /\ unk \in Seq(Nat) /\ symbol \in Nat
  /\ occ \in Nat /\ offset \in Nat /\ best \in Nat

MatchInv ==
  /\ ChainInv /\ MatchTypes /\ RunInv
  /\ CacheIsOfChain(cache) /\ (symbol = 0 => cache = NoCache)

LEMMA UnknownSlot ==
  ASSUME ChainInv, NEW u \in Seq(Nat), NEW k \in 1 .. Len(u)
  PROVE  /\ Slot(u[k]) \in Slots /\ unk_indexes(u)[k] = index[Slot(u[k])]
         /\ index[Slot(u[k])] \in Nat
<1>1. Len(u) \in Nat /\ u[k] \in Nat
  OBVIOUS
<1>2. Slot(u[k]) \in Slots
  BY <1>1, SlotInTable
<1> QED
  BY <1>1, <1>2 DEF unk_indexes, ChainInv, TypeOK

\* A slot without a head has not been learned.
LEMMA NoHeadNoPlace ==
  ASSUME ChainInv, NEW s \in Slots, index[s] = 0, NEW p
  PROVE  ~ On(p, s)
<1>1. FirstAfter(0, s, index[s])
  BY DEF ChainInv, ChainsAreOccurrences
<1> QED
  BY <1>1 DEF FirstAfter, On, Positions

\* A look finds what is wanted exactly when it is there.
LEMMA LookFinds ==
  ASSUME MatchInv, CanRun
  PROVE  /\ Found <=> On(At, Slot(unk[Wanted]))
         /\ CacheIsOfChain(SearchChain(unk_indexes(unk)[Wanted], At).cache)
<1> DEFINE w == Wanted
           s == Slot(unk[w])
<1>1. /\ occ # 0 /\ occ \in Nat /\ offset \in Nat /\ symbol \in 1 .. Len(unk)
      /\ unk \in Seq(Nat) /\ Len(unk) \in Nat /\ w <= Len(unk) /\ symbol \in Nat
  BY DEF MatchInv, MatchTypes, RunInv, CanRun
<1>2. w \in 1 .. Len(unk) /\ At \in Nat \ {0}
  BY <1>1 DEF Wanted, At
<1>3. s \in Slots /\ unk_indexes(unk)[w] = index[s]
  BY <1>1, <1>2, UnknownSlot DEF MatchInv
<1>4. Found <=> SearchChain(index[s], At).at = At
  BY <1>3 DEF Found
<1> HIDE DEF s
<1>5. CASE index[s] = 0
  <2>1. SearchChain(0, At) = [at |-> 0, cache |-> NoCache]
    BY <1>2, SearchOfNoChain DEF MatchInv
  <2>2. ~ On(At, s)
    BY <1>3, <1>5, NoHeadNoPlace DEF MatchInv
  <2>3. CacheIsOfChain(NoCache)
    BY DEF CacheIsOfChain, NoCache, Caches
  <2> QED
    BY <1>2, <1>3, <1>4, <1>5, <2>1, <2>2, <2>3 DEF s
<1>6. CASE index[s] # 0
  <2>1. /\ SearchChain(index[s], At).at = At <=> On(At, s)
        /\ CacheIsOfChain(SearchChain(index[s], At).cache)
    BY <1>2, <1>3, <1>6, SearchFinds DEF MatchInv
  <2> QED
    BY <1>3, <1>4, <2>1 DEF s
<1> QED
  BY <1>5, <1>6

\* The first look at a symbol.
LEMMA AtSymbolStarts ==
  ASSUME ChainInv, NEW u \in Seq(Nat), unk' = u, NEW s \in 1 .. Len(u) + 1,
         AtSymbol(u, s), UNCHANGED vars
  PROVE  RunInv' /\ symbol' = s /\ offset' = 0 /\ occ' \in Nat /\ best' \in Nat
<1>1. /\ symbol' = s /\ offset' = 0 /\ occ' = unk_indexes(u)[s]
      /\ best' = IF occ' = 0 THEN 0 ELSE 1
  BY DEF AtSymbol
<1>2. Len(u) \in Nat /\ s \in Nat /\ written' = written
  BY DEF vars
<1>3. CASE s <= Len(u)
  <2> DEFINE f == Slot(u[s])
  <2>1. f \in Slots /\ occ' = index[f] /\ occ' \in Nat
    BY <1>1, <1>2, <1>3, UnknownSlot
  <2>2. occ' = 0 => \A p : ~ On(p, f)
    BY <2>1, NoHeadNoPlace
  <2>3. occ' # 0 => On(occ', f)
    BY <2>1, HeadIsFirst
  <2>4. occ' # 0 => InStep(u, s, occ', 1)
    <3> SUFFICES ASSUME occ' # 0, NEW k \in 0 .. 1 - 1
                 PROVE  s + k <= Len(u) /\ On(occ' + k, Slot(u[s + k]))
      BY DEF InStep
    <3>1. k = 0 /\ s + k = s /\ occ' + k = occ'
      BY <1>2, <2>1
    <3> QED
      BY <1>3, <2>3, <3>1
  <2>5. /\ occ' # 0 => InStep(unk', s, occ', offset' + 1)
        /\ best' = 0 => \A p : ~ On(p, f)
        /\ best' > 0 => InStep(unk', s, occ', best')
    BY <1>1, <2>1, <2>2, <2>4
  <2>6. occ' # 0 => InStep(unk, symbol, occ, offset + 1)'
    BY <1>1, <1>2, <2>5 DEF InStep, On
  <2>7. best' = 0 => (\A p : ~ On(p, Slot(unk[symbol])))'
    BY <1>1, <1>2, <2>5 DEF On
  <2>8. best' > 0 => InStep(unk, symbol, occ, best)'
    BY <1>1, <1>2, <2>5 DEF InStep, On
  <2>9. symbol' \in 1 .. Len(unk')
    BY <1>1, <1>2, <1>3
  <2>10. RunInv'
    BY <2>1, <2>6, <2>7, <2>8, <2>9 DEF RunInv
  <2> QED
    BY <1>1, <2>1, <2>10
<1>4. CASE s > Len(u)
  <2>1. occ' = 0
    BY <1>1, <1>2, <1>4 DEF unk_indexes
  <2> QED
    BY <1>1, <1>2, <1>4, <2>1 DEF RunInv
<1> QED
  BY <1>2, <1>3, <1>4

LEMMA InitMatchInv ==
  MatchInit => MatchInv
<1> SUFFICES ASSUME MatchInit PROVE MatchInv
  OBVIOUS
<1>1. ChainInv
  BY InitChainInv DEF MatchInit
<1>2. CacheIsOfChain(NoCache)
  BY DEF CacheIsOfChain, NoCache, Caches
<1> QED
  BY <1>1, <1>2 DEF MatchInit, MatchInv, MatchTypes, RunInv

\* Classifying leaves the class alone.
LEMMA ClassStays ==
  ASSUME ChainInv, UNCHANGED vars, NEW c, CacheIsOfChain(c), cache' = c
  PROVE  ChainInv' /\ CacheIsOfChain(cache)'
<1>1. ChainInv'
  BY StepChainInv
<1>2. UNCHANGED <<index, written>>
  BY DEF vars
<1> QED
  BY <1>1, <1>2 DEF CacheIsOfChain, OnOrNone, On

LEMMA NoCacheIsOfChain ==
  CacheIsOfChain(NoCache)
BY DEF CacheIsOfChain, NoCache, Caches

LEMMA RunGoesOnKeeps ==
  ASSUME MatchInv, RunGoesOn
  PROVE  MatchInv'
<1>1. /\ CanRun /\ Found /\ symbol # 0 /\ UNCHANGED <<vars, unk, symbol, occ, best>>
      /\ cache' = SearchChain(unk_indexes(unk)[Wanted], At).cache /\ offset' = offset + 1
  BY DEF RunGoesOn
<1>2. ChainInv' /\ CacheIsOfChain(cache)'
  BY <1>1, LookFinds, ClassStays DEF MatchInv
<1>3. /\ occ # 0 /\ occ \in Nat /\ offset \in Nat /\ symbol \in 1 .. Len(unk)
      /\ unk \in Seq(Nat) /\ Len(unk) \in Nat /\ Wanted <= Len(unk)
      /\ InStep(unk, symbol, occ, offset + 1)
  BY <1>1 DEF MatchInv, MatchTypes, RunInv, CanRun
<1>4. On(At, Slot(unk[Wanted]))
  BY <1>1, LookFinds
<1>5. InStep(unk, symbol, occ, offset' + 1)
  <2> SUFFICES ASSUME NEW k \in 0 .. (offset' + 1) - 1
               PROVE  symbol + k <= Len(unk) /\ On(occ + k, Slot(unk[symbol + k]))
    BY DEF InStep
  <2>1. CASE k = offset + 1
    <3>1. symbol + k = Wanted /\ occ + k = At
      BY <1>3, <2>1 DEF Wanted, At
    <3> QED
      BY <1>3, <1>4, <3>1
  <2>2. CASE k # offset + 1
    <3>1. k \in 0 .. (offset + 1) - 1
      BY <1>1, <1>3, <2>2
    <3> QED
      BY <1>3, <3>1 DEF InStep
  <2> QED
    BY <2>1, <2>2
<1>6. MatchTypes'
  BY <1>1, <1>3 DEF MatchInv, MatchTypes
<1>7. written' = written
  BY <1>1 DEF vars
<1>8. RunInv'
  BY <1>1, <1>3, <1>5, <1>7 DEF MatchInv, RunInv, InStep, On
<1> QED
  BY <1>1, <1>2, <1>6, <1>8 DEF MatchInv

LEMMA RunEndsKeeps ==
  ASSUME MatchInv, RunEnds
  PROVE  MatchInv'
<1> DEFINE s == Slot(unk[symbol])
<1>1. /\ occ # 0 /\ symbol # 0 /\ UNCHANGED <<vars, unk, symbol>> /\ offset' = 0
      /\ cache' = IF CanRun THEN SearchChain(unk_indexes(unk)[Wanted], At).cache ELSE cache
      /\ best' = BestOf(offset) /\ occ' = NextOccurrence
  BY DEF RunEnds
<1>2. ChainInv' /\ CacheIsOfChain(cache)'
  BY <1>1, LookFinds, ClassStays DEF MatchInv
<1>3. /\ occ \in Nat /\ offset \in Nat /\ best \in Nat /\ symbol \in 1 .. Len(unk)
      /\ unk \in Seq(Nat) /\ Len(unk) \in Nat
      /\ InStep(unk, symbol, occ, offset + 1)
      /\ best = 0 => \A p : ~ On(p, s)
      /\ best > 0 => \E p \in Nat : InStep(unk, symbol, p, best)
  BY <1>1 DEF MatchInv, MatchTypes, RunInv
<1>4. s \in Slots
  BY <1>3, UnknownSlot DEF MatchInv
<1>5. On(occ, s)
  <2>1. 0 \in 0 .. (offset + 1) - 1 /\ symbol + 0 = symbol /\ occ + 0 = occ
    BY <1>3
  <2> QED
    BY <1>3, <2>1 DEF InStep
<1> HIDE DEF s
<1>6. occ' = 0 \/ On(occ', s)
  BY <1>1, <1>3, <1>4, <1>5, NextOccurrenceOn DEF MatchInv, OnOrNone
<1>7. occ' \in Nat
  BY <1>6 DEF On, Positions
<1>8. InStep(unk, symbol, occ, offset)
  BY <1>3 DEF InStep
<1>9. /\ best' \in Nat /\ (best' = 0 => \A p : ~ On(p, s))
      /\ best' > 0 => \E p \in Nat : InStep(unk, symbol, p, best')
  BY <1>1, <1>3, <1>8 DEF BestOf
<1>10. occ' # 0 => InStep(unk, symbol, occ', offset' + 1)
  <2> SUFFICES ASSUME occ' # 0, NEW k \in 0 .. (offset' + 1) - 1
               PROVE  symbol + k <= Len(unk) /\ On(occ' + k, Slot(unk[symbol + k]))
    BY DEF InStep
  <2>1. k = 0 /\ symbol + k = symbol /\ occ' + k = occ'
    BY <1>1, <1>3, <1>7
  <2> QED
    BY <1>3, <1>6, <2>1 DEF s
<1>11. MatchTypes'
  BY <1>1, <1>3, <1>7, <1>9 DEF MatchTypes
<1>12. written' = written
  BY <1>1 DEF vars
<1>13. RunInv'
  BY <1>1, <1>3, <1>9, <1>10, <1>12 DEF RunInv, InStep, On, s
<1> QED
  BY <1>1, <1>2, <1>11, <1>13 DEF MatchInv

\* One step per action.
LEMMA StepMatchInv ==
  MatchInv /\ [MatchNext]_<<vars, match>> => MatchInv'
<1> SUFFICES ASSUME MatchInv, [MatchNext]_<<vars, match>> PROVE MatchInv'
  OBVIOUS
<1>1. CASE UNCHANGED <<vars, match>>
  <2>1. ChainInv' /\ CacheIsOfChain(cache)' /\ written' = written
    BY <1>1, ClassStays DEF MatchInv, match, vars
  <2> QED
    BY <1>1, <2>1 DEF match, MatchInv, MatchTypes, RunInv, InStep, On
<1>2. CASE symbol = 0 /\ Next /\ UNCHANGED match
  <2>1. ChainInv'
    BY <1>2, StepChainInv DEF MatchInv
  <2>2. symbol' = 0 /\ cache' = NoCache /\ occ' = 0 /\ MatchTypes'
    BY <1>2 DEF match, MatchInv, MatchTypes, RunInv
  <2>3. CacheIsOfChain(cache)'
    BY <2>2 DEF CacheIsOfChain, NoCache, Caches
  <2> QED
    BY <2>1, <2>2, <2>3 DEF MatchInv, RunInv
<1>3. ASSUME NEW u \in Unknowns, Classify(u)
      PROVE  MatchInv'
  <2>1. /\ u \in Seq(Nat) /\ unk' = u /\ cache' = NoCache /\ AtSymbol(u, 1)
        /\ UNCHANGED vars
    BY <1>3, UnknownsAssumption DEF Classify
  <2>2. 1 \in 1 .. Len(u) + 1
    BY <2>1
  <2>3. RunInv' /\ symbol' = 1 /\ offset' = 0 /\ occ' \in Nat /\ best' \in Nat
    BY <2>1, <2>2, AtSymbolStarts DEF MatchInv
  <2>4. ChainInv' /\ CacheIsOfChain(cache)'
    BY <2>1, ClassStays, NoCacheIsOfChain DEF MatchInv
  <2> QED
    BY <2>1, <2>3, <2>4 DEF MatchInv, MatchTypes
<1>4. CASE RunGoesOn
  BY <1>4, RunGoesOnKeeps
<1>5. CASE RunEnds
  BY <1>5, RunEndsKeeps
<1>6. CASE NextSymbol
  <2>1. /\ symbol # 0 /\ symbol <= Len(unk) /\ occ = 0 /\ UNCHANGED <<vars, unk, cache>>
        /\ symbol \in Nat /\ unk \in Seq(Nat) /\ Len(unk) \in Nat
    BY <1>6 DEF NextSymbol, MatchInv, MatchTypes
  <2>2. ChainInv' /\ CacheIsOfChain(cache)'
    BY <2>1, ClassStays DEF MatchInv
  <2>3. symbol + Stride \in Nat /\ symbol + Stride >= 1
    BY <2>1, CodePrefixLenAssumption DEF Stride, RunLength, MatchInv, MatchTypes
  <2>4. CASE symbol + Stride <= Len(unk)
    <3>1. AtSymbol(unk, symbol + Stride)
      BY <1>6, <2>4 DEF NextSymbol
    <3>2. symbol + Stride \in 1 .. Len(unk) + 1
      BY <2>1, <2>3, <2>4
    <3>3. RunInv' /\ symbol' = symbol + Stride /\ offset' = 0 /\ occ' \in Nat /\ best' \in Nat
      BY <2>1, <3>1, <3>2, AtSymbolStarts DEF MatchInv
    <3> QED
      BY <2>1, <2>2, <2>3, <3>3 DEF MatchInv, MatchTypes
  <2>5. CASE ~ (symbol + Stride <= Len(unk))
    <3>1. symbol' = symbol + Stride /\ UNCHANGED <<occ, offset, best>>
      BY <1>6, <2>5 DEF NextSymbol
    <3>2. RunInv'
      BY <2>1, <2>3, <2>5, <3>1 DEF RunInv
    <3> QED
      BY <2>1, <2>2, <2>3, <3>1, <3>2 DEF MatchInv, MatchTypes
  <2> QED
    BY <2>4, <2>5
<1>7. CASE Classified
  <2>1. /\ symbol' = 0 /\ occ' = 0 /\ best' = 0 /\ unk' = <<>> /\ cache' = NoCache
        /\ UNCHANGED <<vars, offset>>
    BY <1>7 DEF Classified
  <2>2. ChainInv' /\ CacheIsOfChain(cache)'
    BY <2>1, ClassStays, NoCacheIsOfChain DEF MatchInv
  <2> QED
    BY <2>1, <2>2 DEF MatchInv, MatchTypes, RunInv
<1> QED
  BY <1>1, <1>2, <1>3, <1>4, <1>5, <1>6, <1>7 DEF MatchNext, Matching

-----------------------------------------------------------------------------
(* Agreement and Longest are what their names say.                         *)

LEMMA AgreementBounds ==
  ASSUME MatchTypes, symbol \in 1 .. Len(unk), NEW p, NEW n \in Nat,
         InStep(unk, symbol, p, n)
  PROVE  Agreement(symbol, p) \in 0 .. Len(unk) /\ n <= Agreement(symbol, p)
<1> DEFINE ok(m) == \A k \in 0 .. m - 1 : symbol + k <= Len(unk) /\ Agrees(symbol + k, p + k)
           Bad == {m \in Nat : ~ ok(m)}
<1>1. Len(unk) \in Nat /\ symbol \in Nat /\ symbol >= 1
  BY DEF MatchTypes
<1>2. ok(n)
  BY DEF InStep, On, Agrees
<1>3. Len(unk) + 1 \in Bad
  <2>1. Len(unk) \in 0 .. (Len(unk) + 1) - 1 /\ ~ (symbol + Len(unk) <= Len(unk))
    BY <1>1
  <2> QED
    BY <1>1, <2>1
<1>4. PICK m \in Bad : \A l \in Bad : m <= l
  <2>1. Bad \subseteq Nat /\ Bad # {}
    BY <1>3
  <2> HIDE DEF Bad
  <2> QED
    BY <2>1, SmallestOf
<1>5. ok(0)
  OBVIOUS
<1>6. m \in Nat /\ ~ ok(m)
  OBVIOUS
<1>7. \A a \in Nat, b \in Nat : a <= b /\ ok(b) => ok(a)
  OBVIOUS
<1> HIDE DEF ok
<1>8. m # 0 /\ m - 1 \in 0 .. Len(unk) /\ m - 1 + 1 = m /\ ok(m - 1)
  <2>1. m # 0 /\ m <= Len(unk) + 1
    BY <1>3, <1>4, <1>5, <1>6
  <2>2. m - 1 \in Nat /\ m - 1 < m
    BY <1>6, <2>1
  <2>3. m - 1 \notin Bad
    BY <1>4, <1>6, <2>2
  <2> QED
    BY <1>1, <2>1, <2>2, <2>3
<1>9. Agreement(symbol, p) = CHOOSE a \in 0 .. Len(unk) : ok(a) /\ ~ ok(a + 1)
  BY DEF Agreement, ok
<1>10. /\ Agreement(symbol, p) \in 0 .. Len(unk)
       /\ ~ ok(Agreement(symbol, p) + 1)
  BY <1>6, <1>8, <1>9
<1>11. n <= Agreement(symbol, p)
  <2> SUFFICES ASSUME Agreement(symbol, p) + 1 <= n PROVE FALSE
    BY <1>1, <1>10
  <2> QED
    BY <1>1, <1>2, <1>7, <1>10
<1> QED
  BY <1>10, <1>11

LEMMA LongestIsLongest ==
  ASSUME MatchTypes, symbol \in 1 .. Len(unk), NEW p \in Occurrences(symbol)
  PROVE  Longest(symbol) \in Nat /\ Agreement(symbol, p) <= Longest(symbol)
<1> DEFINE A == {Agreement(symbol, q) : q \in Occurrences(symbol)}
           Short == {Len(unk) - a : a \in A}
<1>1. Len(unk) \in Nat
  BY DEF MatchTypes
<1>2. \A q : Agreement(symbol, q) \in 0 .. Len(unk)
  <2> TAKE q
  <2>1. InStep(unk, symbol, q, 0)
    BY DEF InStep
  <2> QED
    BY <2>1, AgreementBounds
<1>3. Short \subseteq Nat /\ Short # {}
  BY <1>1, <1>2
<1>4. PICK l \in Short : \A m \in Short : l <= m
  <2> HIDE DEF Short
  <2> QED
    BY <1>3, SmallestOf
<1>5. PICK a \in A : l = Len(unk) - a
  OBVIOUS
<1>6. a \in 0 .. Len(unk)
  BY <1>2
<1>7. \A q \in Occurrences(symbol) : Agreement(symbol, q) <= a
  <2> TAKE q \in Occurrences(symbol)
  <2>1. Len(unk) - Agreement(symbol, q) \in Short
    OBVIOUS
  <2>2. Len(unk) - a <= Len(unk) - Agreement(symbol, q)
    BY <1>4, <1>5, <2>1
  <2> QED
    BY <1>1, <1>2, <1>6, <2>2
<1>8. Longest(symbol) = CHOOSE n \in A : \A q \in Occurrences(symbol) : Agreement(symbol, q) <= n
  BY DEF Longest
<1>9. Longest(symbol) \in A /\ \A q \in Occurrences(symbol) : Agreement(symbol, q) <= Longest(symbol)
  <2> HIDE DEF A
  <2> QED
    BY <1>5, <1>7, <1>8
<1>10. A \subseteq Nat
  BY <1>1, <1>2
<1> HIDE DEF A
<1> QED
  BY <1>9, <1>10

-----------------------------------------------------------------------------
(***************************************************************************)
(* Whatever is learned and whatever is classified: a look that starts from *)
(* the cache finds what the walk from the head of the chain would find.    *)
(***************************************************************************)
THEOREM CacheHidesNothing ==
  MatchSpec => []CacheIsTransparent
<1>1. MatchInv => CacheIsTransparent
  <2> SUFFICES ASSUME MatchInv, CanRun
               PROVE  Found <=> Agrees(Wanted, At)
    BY DEF CacheIsTransparent
  <2> QED
    BY LookFinds DEF Agrees, On
<1> QED
  BY <1>1, InitMatchInv, StepMatchInv, PTL DEF MatchSpec

(***************************************************************************)
(* While a run goes on, every position it has passed was learned with the  *)
(* slot that the unknown text has at the same step.  When the occurrences  *)
(* of a symbol have been gone through, a run has been counted exactly when *)
(* the symbol's slot was learned at all, and what has been counted is no   *)
(* longer than the longest run in step there is.                           *)
(***************************************************************************)
THEOREM OnlyLearnedTextIsCounted ==
  MatchSpec => []RunsAreLearned
<1>1. MatchInv => RunsAreLearned
  <2> SUFFICES ASSUME MatchInv, symbol # 0 PROVE RunsAreLearned
    BY DEF RunsAreLearned
  <2>1. MatchTypes /\ RunInv
    BY DEF MatchInv
  <2>2. ASSUME occ # 0, NEW k \in 0 .. offset
        PROVE  Agrees(symbol + k, occ + k)
    <3>1. InStep(unk, symbol, occ, offset + 1) /\ k \in 0 .. (offset + 1) - 1
      BY <2>1, <2>2 DEF RunInv, MatchTypes
    <3> QED
      BY <3>1 DEF InStep, On, Agrees
  <2>3. ASSUME symbol <= Len(unk)
        PROVE  /\ best = 0 <=> Occurrences(symbol) = {}
               /\ best > 0 => best <= Longest(symbol)
    <3>1. symbol \in 1 .. Len(unk) /\ best \in Nat /\ symbol \in Nat
      BY <2>1, <2>3 DEF MatchTypes
    <3>2. best = 0 => Occurrences(symbol) = {}
      BY <2>1, <3>1 DEF RunInv, Occurrences, Agrees, On
    <3>3. ASSUME best > 0
          PROVE  Occurrences(symbol) # {} /\ best <= Longest(symbol)
      <4>1. PICK p \in Nat : InStep(unk, symbol, p, best)
        BY <2>1, <3>1, <3>3 DEF RunInv
      <4>2. 0 \in 0 .. best - 1 /\ symbol + 0 = symbol
        BY <3>1, <3>3
      <4>3. On(p, Slot(unk[symbol])) /\ p + 0 = p
        BY <4>1, <4>2 DEF InStep
      <4>4. p \in Occurrences(symbol)
        BY <4>3 DEF Occurrences, Agrees, On
      <4>5. best <= Agreement(symbol, p) /\ Agreement(symbol, p) \in 0 .. Len(unk)
        BY <2>1, <3>1, <4>1, AgreementBounds
      <4>6. Agreement(symbol, p) <= Longest(symbol)
        BY <2>1, <3>1, <4>4, LongestIsLongest
      <4>7. Longest(symbol) \in Nat
        BY <2>1, <3>1, <4>4, LongestIsLongest
      <4> QED
        BY <3>1, <4>4, <4>5, <4>6, <4>7
    <3> QED
      BY <3>1, <3>2, <3>3
  <2> QED
    BY <2>2, <2>3 DEF RunsAreLearned
<1> QED
  BY <1>1, InitMatchInv, StepMatchInv, PTL DEF MatchSpec

-----------------------------------------------------------------------------
(***************************************************************************)
(* Classifier objects, for any class lists, sizes, texts and learners, in  *)
(* any order of configuring, learning, dumping and loading: as long as no  *)
(* call has renamed or resized a database, its object knows its names and  *)
(* its size.  This part uses nothing of the matcher.                       *)
(***************************************************************************)

\* What the data of a database can be, and the records of the state.
Cell == Items \cup {Free, Junk}
Memories == UNION {[1 .. n -> Cell] : n \in Nat}
Lists == Seq(Names \cup {Unnamed})
ControlBlocks == [classes : Lists, size : Nat]
Databases == [classes : Lists, size : Nat, data : Memories]

Shapes ==
  /\ cb \in [Objects -> ControlBlocks] /\ db \in [Objects -> Databases]
  /\ has_db \in [Objects -> BOOLEAN] /\ since \in [Objects -> SUBSET Happenings]
  /\ block \in [Objects -> {"new", "default", "plain", "done"}]
  /\ dump \in Databases /\ dumped \in Databases

\* An item asked for by name, by an object that had not been renamed, is under
\* that name in the database.
Named(d, item) ==
  (item.asked \in Names /\ ~ item.renamed) => d.classes[item.class + 1] = item.asked

ItemsNamed(d) ==
  \A k \in DOMAIN d.data : d.data[k] \notin {Free, Junk} => Named(d, d.data[k])

\* The memory of a database is as large as the database says.
Whole(d) == d.size <= Len(d.data)

\* Two databases hold the same: names, size, and the cells up to the size.
Alike(d, e) ==
  /\ d.classes = e.classes /\ d.size = e.size
  /\ \A k \in 1 .. d.size : d.data[k] = e.data[k]

\* An object knows the names of its database until one of them is renamed, and
\* its size until one of them is resized; only a cut one is not all there.
ObjectOk(o) ==
  /\ ItemsNamed(db[o])
  /\ has_db[o] /\ "renamed" \notin since[o] => cb[o].classes = db[o].classes
  /\ has_db[o] /\ since[o] \cap Resized = {} => db[o].size <= cb[o].size
  /\ "cut" \notin since[o] => Whole(db[o])

\* A dump of a database that has not been resized is that database.
DumpOk ==
  /\ ItemsNamed(dump)
  /\ dumpedSince \cap Resized = {} => Whole(dump) /\ Whole(dumped) /\ Alike(dump, dumped)

ObjectInv == Shapes /\ DumpOk /\ \A o \in Objects : ObjectOk(o)

-----------------------------------------------------------------------------
LEMMA LeastExists ==
  ASSUME NEW S, S \subseteq Nat, S # {}
  PROVE  First(S) \in S
<1>1. PICK n \in S : \A l \in S : n <= l
  <2> DEFINE Below == {p \in Nat \X Nat : p[1] < p[2]}
  <2>1. IsWellFoundedOn(Below, Nat)
    BY NatLessThanWellFounded DEF OpToRel
  <2>2. PICK k \in S : \A l \in S : ~ (<<l, k>> \in Below)
    <3> HIDE DEF Below
    <3> QED
      BY <2>1, WFMin
  <2>3. \A l \in S : ~ (l < k)
    BY <2>2
  <2> QED
    BY <2>3
<1> QED
  BY <1>1 DEF First

\* A length is a natural number and a memory is what its domain says.
LEMMA MemoryLength ==
  ASSUME NEW m \in Memories
  PROVE  /\ Len(m) \in Nat /\ DOMAIN m = 1 .. Len(m)
         /\ \A k \in 1 .. Len(m) : m[k] \in Cell
BY DEF Memories

LEMMA LengthOfMap ==
  ASSUME NEW n \in Nat, NEW m, DOMAIN m = 1 .. n, m \in Memories
  PROVE  Len(m) = n
<1>1. Len(m) \in Nat /\ 1 .. Len(m) = 1 .. n
  BY MemoryLength
<1> QED
  BY <1>1

\* The index of a name is the index of that name, or -1.
LEMMA IndexIsOfName ==
  ASSUME Shapes, NEW o \in Objects, NEW class \in Names,
         index_of_class(o, class) # -1
  PROVE  /\ cb[o].classes[index_of_class(o, class) + 1] = class
         /\ index_of_class(o, class) \in Nat
<1> DEFINE S == Occurs(cb[o].classes, class)
<1>1. cb[o].classes \in Lists
  BY DEF Shapes, ControlBlocks
<1>2. S \subseteq Nat \ {0}
  BY <1>1 DEF Occurs, Lists
<1>3. S # {} /\ index_of_class(o, class) = First(S) - 1
  BY ClassListsAssumption DEF index_of_class
<1>4. First(S) \in S
  BY <1>2, <1>3, LeastExists
<1>5. index_of_class(o, class) + 1 = First(S) /\ index_of_class(o, class) \in Nat
  BY <1>2, <1>3, <1>4
<1> QED
  BY <1>4, <1>5 DEF Occurs

\* What is learned into a class that the database has.
LEMMA LearnedIsNamed ==
  ASSUME Shapes, NEW o \in Objects, has_db[o], ObjectOk(o),
         NEW class \in Names \cup Numbers, NEW text \in Texts,
         HasClass(db[o], index_of_class(o, class))
  PROVE  Item(o, class, text) \in Items /\ Named(db[o], Item(o, class, text))
<1>1. index_of_class(o, class) \in Nat
  <2>1. CASE class \in Numbers
    BY <2>1, ClassListsAssumption DEF index_of_class, HasClass
  <2>2. CASE class \in Names
    BY <2>2, IndexIsOfName DEF HasClass
  <2> QED
    BY <2>1, <2>2
<1>2. Item(o, class, text) \in Items
  BY <1>1 DEF Item, Items
<1>3. ASSUME class \in Names, "renamed" \notin since[o]
      PROVE  db[o].classes[index_of_class(o, class) + 1] = class
  BY <1>1, <1>3, IndexIsOfName DEF ObjectOk
<1> QED
  BY <1>2, <1>3 DEF Item, Named

\* Where an item is put.
LEMMA FreeCellIsCell ==
  ASSUME NEW d \in Databases, FreeCells(d) # {}
  PROVE  First(FreeCells(d)) \in DOMAIN d.data
<1>1. d.data \in Memories
  BY DEF Databases
<1>2. FreeCells(d) \subseteq DOMAIN d.data /\ FreeCells(d) \subseteq Nat
  BY <1>1, MemoryLength DEF FreeCells
<1> QED
  BY <1>2, LeastExists

LEMMA PutKeepsNames ==
  ASSUME NEW d \in Databases, ItemsNamed(d), FreeCells(d) # {},
         NEW item \in Items, Named(d, item)
  PROVE  /\ Put(d, item) \in Databases /\ ItemsNamed(Put(d, item))
         /\ Put(d, item).classes = d.classes
<1> DEFINE at == First(FreeCells(d))
           e == Put(d, item)
<1>1. at \in DOMAIN d.data /\ d.data \in Memories
  BY FreeCellIsCell DEF Databases
<1>2. e = [d EXCEPT !.data = [d.data EXCEPT ![at] = item]]
  BY DEF Put
<1> HIDE DEF at, e
<1>3. /\ e.classes = d.classes /\ e.size = d.size
      /\ e.data = [d.data EXCEPT ![at] = item]
      /\ e = [classes |-> e.classes, size |-> e.size, data |-> e.data]
  BY <1>2 DEF Databases
<1>4. e.data \in Memories
  <2>1. PICK n \in Nat : d.data \in [1 .. n -> Cell]
    BY <1>1 DEF Memories
  <2>2. e.data \in [1 .. n -> Cell]
    BY <1>3, <2>1 DEF Cell
  <2> QED
    BY <2>2 DEF Memories
<1>5. e \in Databases
  BY <1>3, <1>4 DEF Databases
<1>6. ItemsNamed(e)
  BY <1>1, <1>3 DEF ItemsNamed, Named
<1> QED
  BY <1>3, <1>5, <1>6 DEF e

LEMMA GrownKeepsNames ==
  ASSUME NEW d \in Databases, ItemsNamed(d)
  PROVE  /\ Grown(d) \in Databases /\ ItemsNamed(Grown(d)) /\ Whole(Grown(d))
         /\ Grown(d).classes = d.classes /\ FreeCells(Grown(d)) # {}
<1> DEFINE n == 2 * d.size + 1
           m == [k \in 1 .. n |-> IF k > d.size THEN Free
                                  ELSE IF k <= Len(d.data) THEN d.data[k] ELSE Junk]
<1>1. n \in Nat /\ d.size \in Nat /\ d.data \in Memories /\ Len(d.data) \in Nat
  BY MemoryLength DEF Databases
<1>2. Grown(d) = [d EXCEPT !.size = n, !.data = m]
  BY DEF Grown
<1>3. \A k \in 1 .. n :
        /\ m[k] \in {Free, Junk} \/ (k \in 1 .. Len(d.data) /\ m[k] = d.data[k])
        /\ m[k] \in Cell
  BY <1>1, MemoryLength DEF Cell
<1>4. m \in [1 .. n -> Cell] /\ DOMAIN m = 1 .. n /\ m[d.size + 1] = Free
  <2>1. d.size + 1 \in 1 .. n /\ d.size + 1 > d.size
    <3>1. d.size \in Nat
      BY <1>1
    <3> QED
      BY ONLY <3>1
  <2>2. m[d.size + 1] = Free
    BY <2>1
  <2>3. m \in [1 .. n -> Cell]
    BY <1>3
  <2> QED
    BY <2>2, <2>3
<1> HIDE DEF m
<1>5. m \in Memories
  BY <1>1, <1>4 DEF Memories
<1>6. /\ Grown(d).classes = d.classes /\ Grown(d).data = m /\ Grown(d).size = n
      /\ Grown(d) \in Databases
  BY <1>1, <1>2, <1>5 DEF Databases
<1>7. ItemsNamed(Grown(d))
  BY <1>1, <1>3, <1>4, <1>6, MemoryLength DEF ItemsNamed, Named
<1>8. d.size + 1 \in FreeCells(Grown(d))
  <2>1. d.size + 1 \in 1 .. n /\ 1 .. n = 1 .. Len(m) /\ Len(m) = n
    BY <1>1, <1>4, <1>5, MemoryLength
  <2> QED
    BY <1>1, <1>4, <1>6, <2>1 DEF FreeCells
<1>9. Whole(Grown(d))
  BY <1>1, <1>4, <1>5, <1>6, LengthOfMap DEF Whole
<1> QED
  BY <1>6, <1>7, <1>8, <1>9

\* What is copied out of a memory is from the memory or junk.
LEMMA CopyKeepsNames ==
  ASSUME NEW d \in Databases, ItemsNamed(d), NEW n \in Nat, NEW e,
         e = [d EXCEPT !.data = [k \in 1 .. n |-> IF k <= Len(d.data) THEN d.data[k] ELSE Junk]]
  PROVE  e \in Databases /\ ItemsNamed(e) /\ e.classes = d.classes
<1> DEFINE m == [k \in 1 .. n |-> IF k <= Len(d.data) THEN d.data[k] ELSE Junk]
<1>1. d.data \in Memories /\ Len(d.data) \in Nat
  BY MemoryLength DEF Databases
<1>2. \A k \in 1 .. n : m[k] = (IF k <= Len(d.data) THEN d.data[k] ELSE Junk) /\ m[k] \in Cell
  BY <1>1, MemoryLength DEF Cell
<1>3. m \in [1 .. n -> Cell] /\ DOMAIN m = 1 .. n
  BY <1>2
<1>4. e = [d EXCEPT !.data = m]
  OBVIOUS
<1> HIDE DEF m
<1>5. m \in Memories
  BY <1>3 DEF Memories
<1>6. e.classes = d.classes /\ e.data = m /\ e \in Databases
  BY <1>4, <1>5 DEF Databases
<1>7. ItemsNamed(e)
  BY <1>1, <1>2, <1>3, <1>6, MemoryLength DEF ItemsNamed, Named
<1> QED
  BY <1>6, <1>7

\* A cell written over with junk.
LEMMA JunkKeepsNames ==
  ASSUME NEW d \in Databases, ItemsNamed(d), NEW k \in 1 .. Len(d.data)
  PROVE  LET e == [d EXCEPT !.data[k] = Junk]
         IN  /\ e \in Databases /\ ItemsNamed(e) /\ e.classes = d.classes
             /\ e.size = d.size /\ Len(e.data) = Len(d.data)
<1> DEFINE m == [d.data EXCEPT ![k] = Junk]
           e == [d EXCEPT !.data = m]
<1>1. d.data \in Memories /\ k \in DOMAIN d.data
  BY MemoryLength DEF Databases
<1>2. PICK n \in Nat : d.data \in [1 .. n -> Cell]
  BY <1>1 DEF Memories
<1>3. m \in [1 .. n -> Cell] /\ DOMAIN m = 1 .. n
  BY <1>2 DEF Cell
<1>4. m \in Memories /\ Len(m) = Len(d.data)
  BY <1>2, <1>3, LengthOfMap DEF Memories
<1>5. e = [d EXCEPT !.data[k] = Junk]
  BY DEF Databases
<1>6. \A j \in DOMAIN m : j \in DOMAIN d.data /\ (m[j] # Junk => m[j] = d.data[j])
  BY <1>2, <1>3
<1> HIDE DEF m
<1>7. e \in Databases /\ e.classes = d.classes /\ e.size = d.size /\ e.data = m
  BY <1>4 DEF Databases
<1>8. ItemsNamed(e)
  BY <1>6, <1>7 DEF ItemsNamed, Named
<1> HIDE DEF e
<1> QED
  BY <1>4, <1>5, <1>7, <1>8

LEMMA NewDbNamed ==
  ASSUME NEW c \in ControlBlocks
  PROVE  NewDb(c) \in Databases /\ ItemsNamed(NewDb(c)) /\ NewDb(c).classes = c.classes
<1>1. [k \in 1 .. c.size |-> Free] \in [1 .. c.size -> Cell] /\ c.size \in Nat
  BY DEF Cell, ControlBlocks
<1>2. [k \in 1 .. c.size |-> Free] \in Memories
  BY <1>1 DEF Memories
<1>3. NewDb(c) \in Databases /\ NewDb(c).classes = c.classes
  BY <1>1, <1>2 DEF NewDb, Databases, ControlBlocks
<1>4. ItemsNamed(NewDb(c))
  BY <1>1 DEF ItemsNamed, NewDb
<1> QED
  BY <1>3, <1>4

LEMMA DefaultsAreControlBlocks ==
  ASSUME NEW c \in ControlBlocks, NEW l \in Lists
  PROVE  /\ WithDefaults(c) \in ControlBlocks /\ WithDefaults(c).classes = c.classes
         /\ WithDefaults([c EXCEPT !.classes = l]) \in ControlBlocks
<1>1. ASSUME NEW e \in ControlBlocks
      PROVE  WithDefaults(e) \in ControlBlocks /\ WithDefaults(e).classes = e.classes
  <2>1. Len(e.classes) \in Nat
    BY DEF ControlBlocks, Lists
  <2>2. DefaultSize(e.classes) \in Nat
    BY <2>1, SizesAssumption DEF DefaultSize
  <2> QED
    BY <2>2 DEF WithDefaults, ControlBlocks
<1>2. [c EXCEPT !.classes = l] \in ControlBlocks
  BY DEF ControlBlocks
<1> QED
  BY <1>1, <1>2

-----------------------------------------------------------------------------
LEMMA NoDbIsDatabase ==
  NewCb \in ControlBlocks /\ NoDb \in Databases /\ ItemsNamed(NoDb)
<1>1. <<>> \in Memories /\ NoDb \in Databases /\ ItemsNamed(NoDb)
  <2>1. <<>> \in [1 .. 0 -> Cell]
    OBVIOUS
  <2>2. <<>> \in Memories
    BY <2>1 DEF Memories
  <2> QED
    BY <2>2 DEF NoDb, Databases, Lists, ItemsNamed
<1>2. NewCb \in ControlBlocks
  <2>1. [classes |-> <<Unnamed, Unnamed>>, size |-> 0] \in ControlBlocks
    BY DEF ControlBlocks, Lists
  <2> QED
    BY <2>1, DefaultsAreControlBlocks DEF ControlBlocks, NewCb
<1> QED
  BY <1>1, <1>2

LEMMA InitObjectInv ==
  ObjectInit => ObjectInv
<1> SUFFICES ASSUME ObjectInit PROVE ObjectInv
  OBVIOUS
<1>1. NoDb \in Databases /\ ItemsNamed(NoDb) /\ NewCb \in ControlBlocks
  BY NoDbIsDatabase
<1>3. Shapes
  BY <1>1 DEF ObjectInit, Shapes
<1>4. /\ \A o \in Objects : db[o] = NoDb /\ ~ has_db[o]
      /\ dump = NoDb /\ dumped = NoDb
  BY DEF ObjectInit
<1>5. Whole(NoDb) /\ Alike(NoDb, NoDb)
  BY DEF Whole, Alike, NoDb
<1> QED
  BY <1>1, <1>3, <1>4, <1>5 DEF ObjectInv, ObjectOk, DumpOk

\* A copy of at least the whole of a memory is a copy of the database.
LEMMA CopyIsWhole ==
  ASSUME NEW d \in Databases, Whole(d), NEW n \in Nat, d.size <= n, NEW e,
         e = [d EXCEPT !.data = [k \in 1 .. n |-> IF k <= Len(d.data) THEN d.data[k] ELSE Junk]]
  PROVE  Whole(e) /\ Alike(e, d) /\ Len(e.data) = n
<1> DEFINE m == [k \in 1 .. n |-> IF k <= Len(d.data) THEN d.data[k] ELSE Junk]
<1>1. d.data \in Memories /\ Len(d.data) \in Nat /\ d.size \in Nat
  BY MemoryLength DEF Databases
<1>2. DOMAIN m = 1 .. n /\ \A k \in 1 .. d.size : m[k] = d.data[k]
  BY <1>1 DEF Whole
<1>3. m \in [1 .. n -> Cell]
  <2>1. \A k \in 1 .. n : m[k] \in Cell
    BY <1>1, MemoryLength DEF Cell
  <2> QED
    BY <2>1
<1>4. e = [d EXCEPT !.data = m]
  OBVIOUS
<1> HIDE DEF m
<1>5. m \in Memories
  BY <1>3 DEF Memories
<1>6. Len(m) = n
  BY <1>2, <1>5, LengthOfMap
<1>7. e.classes = d.classes /\ e.size = d.size /\ e.data = m
  BY <1>4 DEF Databases
<1> QED
  BY <1>1, <1>2, <1>6, <1>7 DEF Whole, Alike

LEMMA PutKeepsSizes ==
  ASSUME NEW d \in Databases, FreeCells(d) # {}, NEW item \in Items
  PROVE  Put(d, item).size = d.size /\ Len(Put(d, item).data) = Len(d.data)
<1> DEFINE at == First(FreeCells(d))
<1>1. at \in DOMAIN d.data /\ d.data \in Memories
  BY FreeCellIsCell DEF Databases
<1>2. PICK n \in Nat : d.data \in [1 .. n -> Cell]
  BY <1>1 DEF Memories
<1>3. Put(d, item) = [d EXCEPT !.data = [d.data EXCEPT ![at] = item]]
  BY DEF Put
<1> HIDE DEF at
<1>4. /\ Put(d, item).size = d.size
      /\ Put(d, item).data = [d.data EXCEPT ![at] = item]
  BY <1>3 DEF Databases
<1>5. [d.data EXCEPT ![at] = item] \in [1 .. n -> Cell]
  BY <1>2 DEF Cell
<1>6. [d.data EXCEPT ![at] = item] \in Memories
  BY <1>5 DEF Memories
<1> QED
  BY <1>1, <1>2, <1>4, <1>5, <1>6, LengthOfMap

LEMMA NewDbWhole ==
  ASSUME NEW c \in ControlBlocks
  PROVE  Whole(NewDb(c)) /\ NewDb(c).size = c.size
<1>1. c.size \in Nat /\ NewDb(c).size = c.size /\ NewDb(c).data = [k \in 1 .. c.size |-> Free]
  BY DEF NewDb, ControlBlocks
<1>2. NewDb(c).data \in Memories
  BY NewDbNamed DEF Databases
<1>3. Len(NewDb(c).data) = c.size
  BY <1>1, <1>2, LengthOfMap
<1> QED
  BY <1>1, <1>3 DEF Whole

\* What a dump that is not too long leaves in the object it is loaded into.
LEMMA LoadedIsWhole ==
  ASSUME ObjectInv, NEW o \in Objects, Load(o)
  PROVE  /\ db'[o] \in Databases /\ ItemsNamed(db'[o]) /\ db'[o].classes = dump.classes
         /\ dumpedSince \cap Resized = {} =>
              Whole(db'[o]) /\ Alike(db'[o], dump) /\ db'[o].size <= cb[o].size
<1> DEFINE e == [dump EXCEPT !.data = Copied(o)]
<1>1. dump \in Databases /\ ItemsNamed(dump) /\ cb[o].size \in Nat /\ dump.size \in Nat
  BY DEF ObjectInv, Shapes, ControlBlocks, Databases, DumpOk
<1>2. Len(dump.data) \in Nat
  BY <1>1, MemoryLength DEF Databases
<1>3. e \in Databases /\ ItemsNamed(e) /\ e.classes = dump.classes
  BY <1>1, CopyKeepsNames DEF Copied
<1>4. ASSUME dumpedSince \cap Resized = {}
      PROVE  Whole(e) /\ Alike(e, dump) /\ e.size <= cb[o].size
  <2>1. Whole(dump)
    BY <1>4 DEF ObjectInv, DumpOk
  <2>2. dump.size <= cb[o].size
    BY <1>1, <1>2, <2>1 DEF Load, TooLong, Whole
  <2>3. Whole(e) /\ Alike(e, dump)
    BY <1>1, <2>1, <2>2, CopyIsWhole DEF Copied
  <2> QED
    BY <2>2, <2>3 DEF Alike
<1>5. db'[o] = e
  BY DEF Load, ObjectInv, Shapes
<1> HIDE DEF e
<1> QED
  BY <1>3, <1>4, <1>5

\* A step of one object leaves the others as they are.
LEMMA OthersStay ==
  ASSUME ObjectInv, NEW o \in Objects, Shapes', DumpOk', ObjectOk(o)',
         \A p \in Objects : p # o => /\ cb'[p] = cb[p] /\ has_db'[p] = has_db[p]
                                    /\ db'[p] = db[p] /\ since'[p] = since[p]
  PROVE  ObjectInv'
<1>1. ASSUME NEW p \in Objects, p # o
      PROVE  ObjectOk(p)'
  <2>1. ObjectOk(p)
    BY DEF ObjectInv
  <2> QED
    BY <1>1, <2>1 DEF ObjectOk
<1> QED
  BY <1>1 DEF ObjectInv

\* The control block of an object is set; its database stays.
LEMMA SettingStep ==
  ASSUME ObjectInv, NEW o \in Objects, NEW c \in ControlBlocks,
         cb' = [cb EXCEPT ![o] = c], NoteSetting(o, c),
         UNCHANGED <<has_db, db, block, dump, learner>>
  PROVE  ObjectInv'
<1>1. /\ cb'[o] = c /\ db'[o] = db[o] /\ has_db'[o] = has_db[o]
      /\ \A p \in Objects : p # o => cb'[p] = cb[p]
  BY DEF ObjectInv, Shapes
<1>2. /\ since'[o] = since[o] \cup
           (IF has_db[o] /\ c.classes # db[o].classes THEN {"renamed"} ELSE {}) \cup
           (IF has_db[o] /\ c.size < db[o].size THEN {"shrunk"} ELSE {})
      /\ \A p \in Objects : p # o => since'[p] = since[p]
      /\ since' \in [Objects -> SUBSET Happenings]
  BY DEF NoteSetting, ObjectInv, Shapes, Happenings
<1>3. Shapes'
  BY <1>2 DEF ObjectInv, Shapes, NoteSetting
<1>4. DumpOk'
  BY DEF ObjectInv, DumpOk, NoteSetting, ItemsNamed, Named, Whole, Alike
<1>5. ObjectOk(o)'
  <2>1. ObjectOk(o) /\ c.size \in Nat /\ db[o].size \in Nat
    BY DEF ObjectInv, Shapes, ControlBlocks, Databases
  <2>2. has_db[o] /\ "renamed" \notin since'[o] => c.classes = db[o].classes
    BY <1>2
  <2>3. has_db[o] /\ since'[o] \cap Resized = {} => db[o].size <= c.size
    BY <1>2, <2>1 DEF Resized
  <2>4. "cut" \notin since'[o] => "cut" \notin since[o]
    BY <1>2
  <2> QED
    BY <1>1, <2>1, <2>2, <2>3, <2>4 DEF ObjectOk
<1> QED
  BY <1>1, <1>2, <1>3, <1>4, <1>5, OthersStay

\* One step per action.
LEMMA StepObjectInv ==
  ASSUME ObjectInv, [ObjectNext]_object_vars
  PROVE  ObjectInv'
<1>0. Shapes /\ DumpOk /\ \A o \in Objects : ObjectOk(o)
  BY DEF ObjectInv
<1>1. CASE UNCHANGED object_vars
  BY <1>0, <1>1 DEF object_vars, history, ObjectInv, Shapes, DumpOk, ObjectOk, ItemsNamed, Named, Whole, Alike
<1>2. ASSUME NEW o \in Objects, NEW kind \in {"default", "plain"}, BeginConfig(o, kind)
      PROVE  ObjectInv'
  BY <1>0, <1>2 DEF BeginConfig, history, ObjectInv, Shapes, DumpOk, ObjectOk, ItemsNamed, Named, Whole, Alike
<1>3. ASSUME NEW o \in Objects, NEW names \in ClassLists, SetClasses(o, names)
      PROVE  ObjectInv'
  <2>1. names \in Lists /\ cb[o] \in ControlBlocks
    BY <1>0, ClassListsAssumption DEF Lists, Shapes
  <2>2. PICK c \in ControlBlocks : c = WithDefaults([cb[o] EXCEPT !.classes = names])
    BY <2>1, DefaultsAreControlBlocks
  <2>3. cb' = [cb EXCEPT ![o] = c] /\ NoteSetting(o, c)
    BY <1>3, <2>2 DEF SetClasses
  <2> QED
    BY <1>3, <2>3, SettingStep DEF SetClasses
<1>4. ASSUME NEW o \in Objects, NEW n \in Sizes, SetSize(o, n)
      PROVE  ObjectInv'
  <2>1. PICK c \in ControlBlocks : c = [cb[o] EXCEPT !.size = n]
    BY <1>0, SizesAssumption DEF Shapes, ControlBlocks
  <2>2. cb' = [cb EXCEPT ![o] = c] /\ NoteSetting(o, c)
    BY <1>4, <2>1 DEF SetSize
  <2> QED
    BY <1>4, <2>2, SettingStep DEF SetSize
<1>5. ASSUME NEW o \in Objects, Load(o)
      PROVE  ObjectInv'
  <2>1. /\ db'[o] \in Databases /\ ItemsNamed(db'[o]) /\ db'[o].classes = dump.classes
        /\ dumpedSince \cap Resized = {} => Whole(db'[o]) /\ db'[o].size <= cb[o].size
    BY <1>5, LoadedIsWhole
  <2>2. /\ \A p \in Objects : p # o => db'[p] = db[p] /\ has_db'[p] = has_db[p] /\ since'[p] = since[p]
        /\ has_db' \in [Objects -> BOOLEAN]
        /\ UNCHANGED <<cb, block, dump, dumped, dumpedSince>>
    BY <1>0, <1>5 DEF Load, MarkDb, NoteLoad, Shapes
  <2>3. db' \in [Objects -> Databases]
    BY <1>0, <1>5, <2>1 DEF Load, Shapes
  <2>4. /\ since'[o] = (IF cb[o].classes # dump.classes THEN {"renamed"} ELSE {}) \cup
                       (IF dumpedSince \cap Resized # {} THEN {"cut"} ELSE {})
        /\ since' \in [Objects -> SUBSET Happenings]
    BY <1>0, <1>5 DEF Load, NoteLoad, Shapes, Happenings
  <2>5. Shapes' /\ DumpOk'
    BY <1>0, <2>2, <2>3, <2>4 DEF Shapes, DumpOk, ItemsNamed, Named, Whole, Alike
  <2>6. "cut" \notin since'[o] => dumpedSince \cap Resized = {}
    BY <2>4
  <2>7. "renamed" \notin since'[o] => cb[o].classes = dump.classes
    BY <2>4
  <2>8. since'[o] \cap Resized = {} => "cut" \notin since'[o]
    BY DEF Resized
  <2>9. cb'[o] = cb[o]
    BY <2>2
  <2>10. ObjectOk(o)'
    BY <2>1, <2>6, <2>7, <2>8, <2>9 DEF ObjectOk
  <2> QED
    BY <2>2, <2>5, <2>10, OthersStay
<1>6. ASSUME NEW o \in Objects, LoadRaises(o)
      PROVE  ObjectInv'
  BY <1>0, <1>6 DEF LoadRaises, history, ObjectInv, Shapes, DumpOk, ObjectOk, ItemsNamed, Named, Whole, Alike
<1>7. ASSUME NEW o \in Objects, EndConfig(o)
      PROVE  ObjectInv'
  <2>1. CASE has_db[o]
    BY <1>0, <1>7, <2>1 DEF EndConfig, history, ObjectInv, Shapes, DumpOk, ObjectOk, ItemsNamed, Named, Whole, Alike
  <2>2. CASE ~ has_db[o]
    <3>1. /\ cb' \in [Objects -> ControlBlocks]
          /\ \A p \in Objects : p # o => cb'[p] = cb[p]
      <4>1. cb[o] \in ControlBlocks /\ cb[o].classes \in Lists
        BY <1>0 DEF Shapes, ControlBlocks
      <4>2. WithDefaults(cb[o]) \in ControlBlocks
        BY <4>1, DefaultsAreControlBlocks
      <4>3. cb' = cb \/ cb' = [cb EXCEPT ![o] = WithDefaults(cb[o])]
        BY <1>7, <2>2 DEF EndConfig
      <4> QED
        BY <1>0, <4>2, <4>3 DEF Shapes
    <3>2. /\ db' = [db EXCEPT ![o] = NewDb(cb'[o])]
          /\ has_db' = [has_db EXCEPT ![o] = TRUE]
          /\ block' = [block EXCEPT ![o] = "done"]
          /\ UNCHANGED <<dump, since, dumped, dumpedSince>>
      BY <1>7, <2>2 DEF EndConfig, MarkDb, history
    <3>3. /\ NewDb(cb'[o]) \in Databases /\ ItemsNamed(NewDb(cb'[o]))
          /\ NewDb(cb'[o]).classes = cb'[o].classes
          /\ Whole(NewDb(cb'[o])) /\ NewDb(cb'[o]).size = cb'[o].size /\ cb'[o].size \in Nat
      BY <3>1, NewDbNamed, NewDbWhole DEF ControlBlocks
    <3>4. /\ db'[o] = NewDb(cb'[o])
          /\ \A p \in Objects : p # o => db'[p] = db[p] /\ has_db'[p] = has_db[p]
      BY <1>0, <3>2 DEF Shapes
    <3>5. Shapes' /\ DumpOk'
      BY <1>0, <3>1, <3>2, <3>3 DEF Shapes, DumpOk, ItemsNamed, Named, Whole, Alike
    <3>6. ObjectOk(o)'
      BY <3>3, <3>4 DEF ObjectOk
    <3> QED
      BY <3>1, <3>2, <3>4, <3>5, <3>6, OthersStay
  <2> QED
    BY <2>1, <2>2
<1>8. ASSUME NEW o \in Objects, NEW class \in Names \cup Numbers, NEW text \in Texts, Learn(o, class, text)
      PROVE  ObjectInv'
  <2>1. /\ HasClass(db[o], index_of_class(o, class)) /\ has_db[o]
        /\ UNCHANGED <<cb, has_db, block, dump, dumped, dumpedSince>>
    BY <1>8 DEF Learn
  <2>2. db[o] \in Databases /\ ItemsNamed(db[o]) /\ ObjectOk(o)
    BY <1>0 DEF Shapes, ObjectOk
  <2>3. PICK item \in Items : item = Item(o, class, text) /\ Named(db[o], item)
    BY <1>0, <2>1, <2>2, LearnedIsNamed
  <2>4. CASE db' = [db EXCEPT ![o] = Put(db[o], item)] /\ FreeCells(db[o]) # {} /\ UNCHANGED since
    <3>1. PICK e \in Databases :
            /\ e = Put(db[o], item) /\ ItemsNamed(e) /\ e.classes = db[o].classes
            /\ e.size = db[o].size /\ Len(e.data) = Len(db[o].data)
      BY <2>2, <2>3, <2>4, PutKeepsNames, PutKeepsSizes
    <3>2. db'[o] = e /\ \A p \in Objects : p # o => db'[p] = db[p]
      BY <1>0, <2>4, <3>1 DEF Shapes
    <3>3. Shapes' /\ DumpOk'
      BY <1>0, <2>1, <2>4, <3>1 DEF Shapes, DumpOk, ItemsNamed, Named, Whole, Alike
    <3>4. ObjectOk(o)'
      BY <2>1, <2>2, <2>4, <3>1, <3>2 DEF ObjectOk, Whole
    <3> QED
      BY <2>1, <2>4, <3>2, <3>3, <3>4, OthersStay
  <2>5. CASE /\ db' = [db EXCEPT ![o] = Put(Grown(db[o]), item)]
             /\ since' = [since EXCEPT ![o] = @ \cup {"grown"}]
    <3>1. PICK g \in Databases :
            /\ g = Grown(db[o]) /\ ItemsNamed(g) /\ Whole(g)
            /\ g.classes = db[o].classes /\ FreeCells(g) # {}
      BY <2>2, GrownKeepsNames
    <3>2. Named(g, item)
      BY <2>3, <3>1 DEF Named
    <3>3. PICK e \in Databases :
            /\ e = Put(g, item) /\ ItemsNamed(e) /\ e.classes = g.classes
            /\ e.size = g.size /\ Len(e.data) = Len(g.data)
      BY <3>1, <3>2, PutKeepsNames, PutKeepsSizes
    <3>4. db'[o] = e /\ \A p \in Objects : p # o => db'[p] = db[p] /\ since'[p] = since[p]
      BY <1>0, <2>5, <3>1, <3>3 DEF Shapes
    <3>5. since'[o] = since[o] \cup {"grown"} /\ since' \in [Objects -> SUBSET Happenings]
      BY <1>0, <2>5 DEF Shapes, Happenings
    <3>6. Shapes' /\ DumpOk'
      BY <1>0, <2>1, <2>5, <3>1, <3>3, <3>5 DEF Shapes, DumpOk, ItemsNamed, Named, Whole, Alike
    <3>7. since'[o] \cap Resized # {} /\ ("renamed" \notin since'[o] => "renamed" \notin since[o])
      BY <3>5 DEF Resized
    <3>8. ObjectOk(o)'
      BY <2>1, <2>2, <3>1, <3>3, <3>4, <3>7 DEF ObjectOk, Whole
    <3> QED
      BY <2>1, <3>4, <3>6, <3>8, OthersStay
  <2> QED
    BY <1>0, <1>8, <2>3, <2>4, <2>5 DEF Learn, Shapes
<1>9. ASSUME NEW o \in Objects, NEW class \in Names \cup Numbers, LearnNoClass(o, class)
      PROVE  ObjectInv'
  <2>1. PICK k \in 1 .. Len(db[o].data) : db' = [db EXCEPT ![o].data[k] = Junk]
    BY <1>9 DEF LearnNoClass
  <2>2. db[o] \in Databases /\ ObjectOk(o)
    BY <1>0 DEF Shapes
  <2>3. PICK e \in Databases :
          /\ e = [db[o] EXCEPT !.data[k] = Junk] /\ ItemsNamed(e)
          /\ e.classes = db[o].classes /\ e.size = db[o].size /\ Len(e.data) = Len(db[o].data)
    BY <2>2, JunkKeepsNames DEF ObjectOk
  <2>4. db'[o] = e /\ db' \in [Objects -> Databases] /\ \A p \in Objects : p # o => db'[p] = db[p]
    BY <1>0, <2>1, <2>3 DEF Shapes
  <2>5. UNCHANGED <<cb, has_db, block, dump, since, dumped, dumpedSince>>
    BY <1>9 DEF LearnNoClass, history
  <2>6. Shapes' /\ DumpOk'
    BY <1>0, <2>4, <2>5 DEF Shapes, DumpOk, ItemsNamed, Named, Whole, Alike
  <2>7. ObjectOk(o)'
    BY <2>2, <2>3, <2>4, <2>5 DEF ObjectOk, Whole
  <2> QED
    BY <2>4, <2>5, <2>6, <2>7, OthersStay
<1>10. ASSUME NEW o \in Objects, Dump(o)
      PROVE  ObjectInv'
  <2>1. /\ dump' = [db[o] EXCEPT !.data = DumpData(o)] /\ dumped' = db[o]
        /\ dumpedSince' = since[o] /\ has_db[o]
        /\ UNCHANGED <<cb, has_db, db, block, since>>
    BY <1>10 DEF Dump
  <2>2. /\ cb[o].size \in Nat /\ db[o] \in Databases /\ ObjectOk(o) /\ ItemsNamed(db[o])
    BY <1>0 DEF Shapes, ControlBlocks, ObjectOk
  <2>3. dump' \in Databases /\ ItemsNamed(dump')
    BY <2>1, <2>2, CopyKeepsNames DEF DumpData
  <2>4. ASSUME since[o] \cap Resized = {}
        PROVE  Whole(dump') /\ Whole(db[o]) /\ Alike(dump', db[o])
    <3>1. Whole(db[o]) /\ db[o].size <= cb[o].size
      BY <2>1, <2>2, <2>4 DEF ObjectOk, Resized
    <3> QED
      BY <2>1, <2>2, <3>1, CopyIsWhole DEF DumpData
  <2>5. Shapes'
    BY <1>0, <2>1, <2>2, <2>3 DEF Shapes
  <2>6. DumpOk'
    BY <2>1, <2>3, <2>4 DEF DumpOk
  <2> QED
    BY <1>0, <2>1, <2>5, <2>6 DEF ObjectInv, ObjectOk, ItemsNamed, Named, Whole
<1>11. ASSUME NEW o \in Objects, New(o)
      PROVE  ObjectInv'
  <2>1. NewCb \in ControlBlocks /\ NoDb \in Databases /\ ItemsNamed(NoDb) /\ Whole(NoDb)
    BY NoDbIsDatabase DEF Whole, NoDb
  <2>2. /\ cb'[o] = NewCb /\ has_db'[o] = FALSE /\ db'[o] = NoDb /\ since'[o] = {}
        /\ UNCHANGED <<dump, dumped, dumpedSince>>
        /\ \A p \in Objects : p # o => /\ cb'[p] = cb[p] /\ has_db'[p] = has_db[p]
                                      /\ db'[p] = db[p] /\ since'[p] = since[p]
    BY <1>0, <1>11 DEF New, Shapes
  <2>3. Shapes'
    BY <1>0, <1>11, <2>1 DEF New, Shapes
  <2>4. DumpOk'
    BY <1>0, <2>2 DEF DumpOk, ItemsNamed, Named, Whole, Alike
  <2>5. ObjectOk(o)'
    BY <2>1, <2>2 DEF ObjectOk
  <2> QED
    BY <2>2, <2>3, <2>4, <2>5, OthersStay
<1>12. ASSUME NEW o \in Objects, NEW class \in Names \cup Numbers, RefuseClass(o, class)
      PROVE  ObjectInv'
  BY <1>1, <1>12 DEF RefuseClass
<1> QED
  BY <1>1, <1>2, <1>3, <1>4, <1>5, <1>6, <1>7, <1>8, <1>9, <1>10, <1>11, <1>12 DEF ObjectNext

LEMMA ObjectInvariant == ObjectSpec => []ObjectInv
<1>1. ObjectInv /\ [ObjectNext]_object_vars => ObjectInv'
  BY StepObjectInv
<1> QED
  BY <1>1, InitObjectInv, PTL DEF ObjectSpec

-----------------------------------------------------------------------------
(***************************************************************************)
(* A text asked to be learned under a name is learned by the class that    *)
(* has the name in the database, through any configuring, growing, dumping *)
(* and loading, if the object had not been given other names than its      *)
(* database has.                                                           *)
(***************************************************************************)
THEOREM NamedClassLearns == ObjectSpec => []LearnedUnderName
<1>1. ObjectInv => LearnedUnderName
  <2> SUFFICES ASSUME ObjectInv, NEW o \in Objects, NEW k \in 1 .. Len(db[o].data),
                      db[o].data[k] \notin {Free, Junk}
               PROVE  Named(db[o], db[o].data[k])
    BY DEF LearnedUnderName, Named
  <2>1. db[o].data \in Memories /\ ItemsNamed(db[o])
    BY DEF ObjectInv, Shapes, Databases, ObjectOk
  <2> QED
    BY <2>1, MemoryLength DEF ItemsNamed
<1> QED
  BY <1>1, ObjectInvariant, PTL

(***************************************************************************)
(* The memory of a database is never smaller than the size in its control  *)
(* block, a grown or a clone's too, unless it came from the dump of a      *)
(* database whose object no longer knew its size.                          *)
(***************************************************************************)
THEOREM DatabaseFits == ObjectSpec => []MemoryHoldsDatabase
<1>1. ObjectInv => MemoryHoldsDatabase
  <2> SUFFICES ASSUME ObjectInv, NEW o \in Objects, "cut" \notin since[o]
               PROVE  Len(db[o].data) >= db[o].size
    BY DEF MemoryHoldsDatabase
  <2>1. db[o].size \in Nat /\ Len(db[o].data) \in Nat /\ Whole(db[o])
    BY MemoryLength DEF ObjectInv, Shapes, Databases, ObjectOk
  <2> QED
    BY <2>1 DEF Whole
<1> QED
  BY <1>1, ObjectInvariant, PTL

\* Databases that are alike and whole have the same contents.
LEMMA AlikeContents ==
  ASSUME NEW d \in Databases, NEW e \in Databases, Whole(d), Whole(e), Alike(d, e)
  PROVE  Contents(d) = Contents(e)
<1>1. /\ d.size = e.size /\ d.size \in Nat /\ d.classes = e.classes
      /\ Len(d.data) \in Nat /\ Len(e.data) \in Nat
  BY MemoryLength DEF Databases, Alike
<1>2. \A k \in 1 .. d.size : k <= Len(d.data) /\ k <= Len(e.data) /\ d.data[k] = e.data[k]
  BY <1>1 DEF Whole, Alike
<1>3. [k \in 1 .. d.size |-> IF k <= Len(d.data) THEN d.data[k] ELSE Junk]
        = [k \in 1 .. e.size |-> IF k <= Len(e.data) THEN e.data[k] ELSE Junk]
  BY <1>1, <1>2
<1> QED
  BY <1>1, <1>3 DEF Contents

(***************************************************************************)
(* The database of an object loaded from the dump of a database that had   *)
(* been neither grown nor shrunk, nor come from such a dump, has its       *)
(* names, size and contents.                                               *)
(***************************************************************************)
THEOREM ClonesAreOriginals == ObjectSpec => CloneIsOriginal
<1> DEFINE Cloned(o) == (db'[o] # db[o] /\ has_db[o]' /\ InBlock(o) /\ InBlock(o)') =>
                          (dumpedSince \cap Resized = {} => Contents(db'[o]) = Contents(dumped))
<1>1. ASSUME ObjectInv, [ObjectNext]_object_vars
      PROVE  [\A o \in Objects : Cloned(o)]_object_vars
  <2> SUFFICES ASSUME NEW o \in Objects, db'[o] # db[o], InBlock(o), InBlock(o)',
                      dumpedSince \cap Resized = {}
               PROVE  Contents(db'[o]) = Contents(dumped)
    OBVIOUS
  <2>1. Shapes
    BY <1>1 DEF ObjectInv
  <2>2. Load(o)
    <3>1. db' # db
      OBVIOUS
    <3>2. ~ EndConfig(o)
      BY <2>1 DEF EndConfig, InBlock, Shapes
    <3>3. \A p \in Objects : p # o => ~ Load(p) /\ ~ EndConfig(p) /\ ~ New(p)
      BY <2>1 DEF Load, EndConfig, New, Shapes
    <3>4. ~ New(o)
      BY DEF New, OutOfBlock
    <3>5. \A p \in Objects : \A class \in Names \cup Numbers :
            /\ \A text \in Texts : ~ Learn(p, class, text)
            /\ ~ LearnNoClass(p, class) /\ ~ RefuseClass(p, class)
      BY <2>1, <3>1 DEF Learn, LearnNoClass, RefuseClass, OutOfBlock, object_vars, Shapes
    <3>6. \A p \in Objects :
            /\ \A kind \in {"default", "plain"} : ~ BeginConfig(p, kind)
            /\ \A names \in ClassLists : ~ SetClasses(p, names)
            /\ \A n \in Sizes : ~ SetSize(p, n)
            /\ ~ LoadRaises(p) /\ ~ Dump(p)
      BY <3>1 DEF BeginConfig, SetClasses, SetSize, LoadRaises, Dump
    <3>7. ObjectNext
      BY <1>1, <3>1 DEF object_vars
    <3> QED
      BY <3>2, <3>3, <3>4, <3>5, <3>6, <3>7 DEF ObjectNext
  <2>3. db'[o] \in Databases /\ Whole(db'[o]) /\ Alike(db'[o], dump)
    BY <1>1, <2>2, LoadedIsWhole
  <2>4. /\ dumped \in Databases /\ Whole(dumped) /\ Alike(dump, dumped)
    BY <1>1, <2>1 DEF ObjectInv, Shapes, DumpOk
  <2>5. Alike(db'[o], dumped)
    BY <2>3, <2>4 DEF Alike
  <2> QED
    BY <2>3, <2>4, <2>5, AlikeContents
<1> QED
  BY <1>1, ObjectInvariant, PTL DEF ObjectSpec, CloneIsOriginal
=============================================================================
