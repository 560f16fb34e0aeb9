-------------------------- MODULE BitEntropyProofs --------------------------
(***************************************************************************)
(* Proofs about the bit-entropy class, for every number of nodes and slots *)
(* and every set of texts.                                                 *)
(***************************************************************************)
EXTENDS BitEntropy, FiniteSetTheorems, WellFoundedInduction, TLAPS

-----------------------------------------------------------------------------
(* Arithmetic.                                                             *)

LEMMA DivBound ==
  ASSUME NEW a \in Nat, NEW m \in Nat, NEW b \in Nat \ {0}, a <= m * b
  PROVE  a \div b \in 0 .. m
<1>1. PICK q \in Int, r \in Int : a = q * b + r /\ 0 <= r /\ r < b /\ q = a \div b /\ r = a % b
  OBVIOUS
<1>2. q >= 0
  <2>1. SUFFICES ASSUME q <= -1 PROVE FALSE
    OBVIOUS
  <2>2. q * b <= -1 * b
    BY <2>1
  <2> QED BY <1>1, <2>2
<1>3. q <= m
  <2>1. SUFFICES ASSUME q >= m + 1 PROVE FALSE
    OBVIOUS
  <2>2. q * b >= (m + 1) * b
    BY <2>1
  <2>3. (m + 1) * b = m * b + b
    OBVIOUS
  <2> QED BY <1>1, <2>2, <2>3
<1> QED BY <1>1, <1>2, <1>3

LEMMA SlotType == \A fir \in Firs : Slot(fir) \in FirSlots
<1>1. SUFFICES ASSUME NEW fir \in Firs PROVE (fir * (FirlatLen - 1)) \div FirMax \in 0 .. FirlatLen - 1
  BY DEF Slot, FirSlots
<1>2. fir \in Nat /\ fir <= FirMax /\ FirMax \in Nat \ {0} /\ FirlatLen - 1 \in Nat
  BY FirMaxAssumption, FirlatLenAssumption DEF Firs
<1>3. fir * (FirlatLen - 1) \in Nat /\ fir * (FirlatLen - 1) <= (FirlatLen - 1) * FirMax
  BY <1>2
<1> QED BY <1>2, <1>3, DivBound

LEMMA FirAfterType == \A fir \in Firs, b \in Bits : FirAfter(fir, b) \in Firs
<1>1. SUFFICES ASSUME NEW fir \in Firs, NEW b \in Bits PROVE (b * FirMax + fir) \div 2 \in 0 .. FirMax
  BY DEF FirAfter, Firs
<1>2. fir \in Nat /\ fir <= FirMax /\ FirMax \in Nat
  BY FirMaxAssumption DEF Firs
<1>3. CASE b = 0
  BY <1>2, <1>3
<1>4. CASE b = 1
  BY <1>2, <1>4
<1> QED BY <1>3, <1>4 DEF Bits

LEMMA AverageType ==
  ASSUME NEW fir \in Firs, NEW v \in Nat, NEW p \in Firs \cup {Unset}, p = Unset => v = 0
  PROVE  (fir + v * p) \div (v + 1) \in Firs
<1>1. fir \in Nat /\ fir <= FirMax /\ FirMax \in Nat
  BY FirMaxAssumption DEF Firs
<1>2. CASE v = 0
  <2>1. v * p = 0 /\ v + 1 = 1
    BY <1>2, <1>1 DEF Firs, Unset
  <2> QED BY <1>1, <2>1 DEF Firs
<1>3. CASE v # 0
  <2>1. p \in Nat /\ p <= FirMax
    BY <1>1, <1>3 DEF Firs
  <2>2. v * p \in Nat /\ v * p <= v * FirMax
    BY <1>1, <2>1
  <2>3. fir + v * p \in Nat /\ fir + v * p <= FirMax * (v + 1)
    BY <1>1, <2>2
  <2> QED BY <1>1, <2>3, DivBound DEF Firs
<1> QED BY <1>2, <1>3

LEMMA BitAtType == \A t \in Texts \cup {<<>>}, p \in Nat : p < BitsOf(t) => BitAt(t, p) \in Bits
<1>1. SUFFICES ASSUME NEW t \in Texts \cup {<<>>}, NEW p \in Nat, p < BitsOf(t)
               PROVE  (t \o AfterText)[p + 1] \in Bits
  BY DEF BitAt
<1>2. t \in Seq(Bits) /\ AfterText \in Seq(Bits) /\ Len(AfterText) >= 2 * CharBits /\ CharBits \in Nat
  <2>1. <<>> \in Seq(Bits)
    OBVIOUS
  <2>2. t \in Seq(Bits)
    BY <2>1, TextsAssumption
  <2> QED BY <2>2, TextsAssumption, GranuleAssumption
<1>3. p + 1 \in 1 .. Len(t) + Len(AfterText)
  BY <1>1, <1>2 DEF BitsOf
<1> QED BY <1>2, <1>3

-----------------------------------------------------------------------------
(* The chain and the lookaside table, as nodes leave and enter them.       *)

LEMMA RingWithout ==
  ASSUME NEW C, NEW up, NEW down, NEW n \in C,
         DOMAIN up = Nodes, DOMAIN down = Nodes, C \subseteq Nodes, Ringed(C, up, down)
  PROVE  Ringed(C \ {n}, [[up EXCEPT ![down[n]] = up[n]] EXCEPT ![n] = -1],
                         [[down EXCEPT ![up[n]] = down[n]] EXCEPT ![n] = -1])
BY DEF Ringed

LEMMA RingWith ==
  ASSUME NEW C, NEW up, NEW down, NEW n \in Nodes \ C, NEW h \in C,
         DOMAIN up = Nodes, DOMAIN down = Nodes, C \subseteq Nodes, Ringed(C, up, down)
  PROVE  Ringed(C \cup {n}, [up EXCEPT ![n] = h, ![down[h]] = n],
                            [down EXCEPT ![h] = n, ![n] = down[h]])
BY DEF Ringed

\* What LookasideIsTrue says, of any table, slots and priors.
Filed(C, fl, sl, pr) ==
  \A s \in FirSlots : fl[s] # 0 => fl[s] \in C /\ sl[fl[s]] = s /\ Slot(pr[fl[s]]) = s

LEMMA FiledWithout ==
  ASSUME NEW C, NEW n \in Nodes \ {0}, Filed(C, firlat, slot, prior),
         firlat \in [FirSlots -> Nodes], slot \in [Nodes -> FirSlots \cup {-1}]
  PROVE  /\ Unfiled(n) \in [FirSlots -> Nodes]
         /\ Filed(C \ {n}, Unfiled(n), slot, prior)
         /\ \A s \in FirSlots : Unfiled(n)[s] # n
<1>1. FirSlots \subseteq Int /\ \A s \in FirSlots : s > -1
  BY FirlatLenAssumption DEF FirSlots
<1>2. 0 \in Nodes
  BY NodesLenAssumption DEF Nodes
<1>3. CASE slot[n] > -1 /\ firlat[slot[n]] = n
  <2>1. slot[n] \in FirSlots /\ Unfiled(n) = [firlat EXCEPT ![slot[n]] = 0]
    BY <1>1, <1>3 DEF Unfiled
  <2>2. Unfiled(n) \in [FirSlots -> Nodes]
    BY <2>1, <1>2
  <2>3. \A s \in FirSlots : Unfiled(n)[s] = IF s = slot[n] THEN 0 ELSE firlat[s]
    BY <2>1
  <2> QED BY <1>3, <2>2, <2>3 DEF Filed
<1>4. CASE ~(slot[n] > -1 /\ firlat[slot[n]] = n)
  <2>1. Unfiled(n) = firlat
    BY <1>4 DEF Unfiled
  <2>2. \A s \in FirSlots : firlat[s] # n
    BY <1>1, <1>4 DEF Filed
  <2> QED BY <2>1, <2>2 DEF Filed
<1> QED BY <1>3, <1>4

LEMMA FiledWith ==
  ASSUME NEW C, NEW n \in Nodes \ C, n # 0, C \subseteq Nodes, Filed(C, firlat, slot, prior),
         firlat \in [FirSlots -> Nodes], slot \in [Nodes -> FirSlots \cup {-1}],
         NEW s \in FirSlots, s = Slot(prior[n])
  PROVE  /\ [firlat EXCEPT ![s] = n] \in [FirSlots -> Nodes]
         /\ Refiled(n, s) \in [Nodes -> FirSlots \cup {-1}]
         /\ Filed(C \cup {n}, [firlat EXCEPT ![s] = n], Refiled(n, s), prior)
<1>1. FirSlots \subseteq Nat
  BY FirlatLenAssumption DEF FirSlots
<1>2. Refiled(n, s) \in [Nodes -> FirSlots \cup {-1}]
  BY DEF Refiled
<1>3. ASSUME NEW r \in FirSlots, r # s, firlat[r] # 0
      PROVE  /\ firlat[r] # n /\ firlat[r] # firlat[s]
             /\ Refiled(n, s)[firlat[r]] = slot[firlat[r]]
  BY <1>3 DEF Refiled, Filed
<1>4. Refiled(n, s)[n] = s
  BY DEF Refiled, Filed
<1> QED BY <1>2, <1>3, <1>4 DEF Filed

-----------------------------------------------------------------------------
(* The inductive invariant.                                                *)

\* Every node from the head of the free list on is free, and leads to the one
\* behind it: a node that was taken never comes back.
FreeInOrder ==
  /\ Free = 0 \/ Free \in 4 .. NodesLen - 1
  /\ Free # 0 => \A n \in Free .. NodesLen - 1 :
                    prior[n] = Unset /\ next[n] = [b \in Bits |-> IF b = 0 THEN FreeNext(n) ELSE 0]

InUse(n) == Free = 0 \/ n < Free
WaysStayInUse == /\ next[0][1] \in Nodes \ {0} /\ InUse(next[0][1])
                 /\ \A n \in Nodes \ {0}, b \in Bits : InUse(n) => InUse(next[n][b])

\* A node without a prior was not visited, and if in use (a node of the toroid)
\* its links tell that it is not in the chain.
Untouched == \A n \in Nodes : prior[n] = Unset =>
  /\ count[n] = [b \in Bits |-> 0]
  /\ InUse(n) => larger[n] = -1 /\ smaller[n] = -1

ChainIsLinked ==
  /\ 0 \in Chained /\ prior[next[0][1]] # Unset
  /\ Ringed(Chained, larger, smaller)

\* Where a call is.
CallsOrder ==
  /\ pc = "idle" => call = "learn"
  /\ pc # "idle" => text \in Texts
  /\ call = "erase" => tally[text] > 0
  /\ pc = "find" /\ for = "jump" => call = "classify"
  /\ pc = "find" /\ for # "jump" => call # "classify"
  /\ pc = "find" /\ for # "grow" => pos < BitsOf(text)
  /\ pc = "find" => hit \in Chained
  /\ call # "classify" => InUse(cur)
  /\ pc = "find" /\ for \in {"visit", "grow"} => prior[cur] # Unset

BEInv == TypeOK /\ FreeInOrder /\ WaysStayInUse /\ Untouched /\ ChainIsLinked /\ LookasideIsTrue /\ CallsOrder

\* An erase never takes more away than there is.  (What makes it so is the
\* invariant about the counts, below.)
ErasesWhatIsThere == pc = "bit" /\ pos < BitsOf(text) /\ call = "erase" => count[cur][alph] > 0

LEMMA ChainedInUse ==
  ASSUME FreeInOrder, NEW n \in Nodes, prior[n] # Unset PROVE InUse(n)
<1>1. CASE Free = 0
  BY <1>1 DEF InUse
<1>2. CASE Free # 0
  <2>1. Free \in Nat /\ n \in Nat /\ n <= NodesLen - 1 /\ NodesLen \in Nat
    BY <1>2, NodesLenAssumption DEF FreeInOrder, Nodes
  <2>2. ~ (n \in Free .. NodesLen - 1)
    BY <1>2 DEF FreeInOrder
  <2> QED BY <2>1, <2>2 DEF InUse
<1> QED BY <1>1, <1>2

\* The arithmetic of the toroid.
LEMMA ShuffleType ==
  ASSUME Width \in Nat \ {0}, Width * Height \in 3 .. NodesLen - 2, NEW n \in Toroid, NEW b \in Bits
  PROVE  ShuffleNext(n)[b] \in Toroid
<1>1. Height \in Nat \ {0}
  <2>1. Height \in Int
    BY NodesLenAssumption DEF Height
  <2>2. Height > 0
    <3>1. SUFFICES ASSUME Height <= 0 PROVE FALSE
      BY <2>1
    <3>2. Width * Height <= 0
      BY <2>1, <3>1
    <3> QED BY <3>2
  <2> QED BY <2>1, <2>2
<1> DEFINE w == (n - 1) \div Height
           x == (w + 1) % Width
           y == (2 * ((n - 1) % Height) + b) % Height
<1>2. n - 1 \in Nat /\ b \in Nat
  BY NodesLenAssumption, <1>1 DEF Toroid, Bits
<1>3. w \in Nat
  BY <1>1, <1>2, DivBound
<1>4. x \in 0 .. Width - 1
  <2> HIDE DEF w
  <2> QED BY <1>3
<1>5. y \in 0 .. Height - 1
  <2>1. (n - 1) % Height \in Nat
    BY <1>1, <1>2
  <2> QED BY <1>1, <1>2, <2>1
<1>6. ShuffleNext(n)[b] = 1 + x * Height + y
  BY DEF ShuffleNext
<1> HIDE DEF w, x, y
<1>7. x * Height \in Nat /\ x * Height <= (Width - 1) * Height
  BY <1>1, <1>4
<1>8. (Width - 1) * Height = Width * Height - Height
  BY <1>1
<1> QED BY <1>1, <1>5, <1>6, <1>7, <1>8 DEF Toroid

LEMMA FirstFreeType ==
  ASSUME mode \in Modes PROVE FirstFree(mode) \in 4 .. NodesLen - 1
<1>1. CASE "UNIQUE" \in mode
  BY <1>1, NodesLenAssumption DEF FirstFree
<1>2. CASE "UNIQUE" \notin mode
  BY <1>2, ToroidFits, NodesLenAssumption DEF FirstFree
<1> QED BY <1>1, <1>2

-----------------------------------------------------------------------------
(* The initial state.                                                      *)

LEMMA FirstWays ==
  ASSUME Init
  PROVE  /\ next \in [Nodes -> [Bits -> Nodes]] /\ FreeInOrder /\ WaysStayInUse
         /\ Free = FirstFree(mode) /\ next[0][1] = 1
<1> DEFINE first == FirstFree(mode)
<1>1. first \in 4 .. NodesLen - 1 /\ NodesLen \in Nat
  BY FirstFreeType, NodesLenAssumption DEF Init
<1>2. next[0] = [b \in Bits |-> IF b = 0 THEN first ELSE 1] /\ Free = first /\ next[0][1] = 1
  BY NodesLenAssumption DEF Init, NewNext, Nodes, Free, Bits
<1>3. \A n \in Nodes \ {0} : n >= first => next[n] = [b \in Bits |-> IF b = 0 THEN FreeNext(n) ELSE 0]
  BY DEF Init, NewNext
<1>4. \A n \in Nodes \ {0}, b \in Bits : n < first => next[n][b] \in 0 .. first - 1
  <2>1. SUFFICES ASSUME NEW n \in Nodes \ {0}, NEW b \in Bits, n < first PROVE next[n][b] \in 0 .. first - 1
    OBVIOUS
  <2>2. CASE "UNIQUE" \notin mode
    <3>1. Width \in Nat \ {0} /\ Width * Height \in 3 .. NodesLen - 2 /\ first = Width * Height + 1
      BY <2>2, ToroidFits DEF Init, FirstFree
    <3>2. n \in Toroid
      BY <2>1, <3>1 DEF Toroid, Nodes
    <3>3. ShuffleNext(n)[b] \in Toroid
      BY <3>1, <3>2, ShuffleType
    <3>4. ~ (n >= first)
      BY <2>1, <1>1 DEF Nodes
    <3>5. next[n][b] = ShuffleNext(n)[b]
      BY <2>1, <2>2, <3>4 DEF Init, NewNext
    <3> QED BY <3>1, <3>3, <3>5 DEF Toroid
  <2>3. CASE "UNIQUE" \in mode
    <3>1. first = 4 /\ n \in {1, 2, 3} /\ ~ (n >= first)
      BY <2>1, <2>3, <1>1 DEF Init, FirstFree, Nodes
    <3>2. next[n] = IF n = 1 THEN [c \in Bits |-> 2 + c] ELSE [c \in Bits |-> 0]
      BY <2>3, <3>1 DEF Init, NewNext
    <3> QED BY <3>1, <3>2 DEF Bits
  <2> QED BY <2>2, <2>3
<1>5. \A n \in Nodes : DOMAIN next[n] = Bits
  BY DEF Init, NewNext, ShuffleNext
<1>6. \A n \in Nodes, b \in Bits : next[n][b] \in Nodes
  <2>1. SUFFICES ASSUME NEW n \in Nodes, NEW b \in Bits PROVE next[n][b] \in Nodes
    OBVIOUS
  <2>2. CASE n = 0
    BY <2>2, <1>1, <1>2 DEF Nodes, Bits
  <2>3. CASE n # 0 /\ n >= first
    <3>1. n \in Nat /\ n <= NodesLen - 1 /\ 0 \in Nodes
      BY <1>1 DEF Nodes
    <3>2. FreeNext(n) \in Nodes
      BY <1>1, <3>1 DEF FreeNext, Nodes
    <3>3. next[n][b] = IF b = 0 THEN FreeNext(n) ELSE 0
      <4>1. next[n] = [c \in Bits |-> IF c = 0 THEN FreeNext(n) ELSE 0]
        BY <2>3, <1>3, Zenon
      <4> QED BY <4>1
    <3> QED BY <3>1, <3>2, <3>3
  <2>4. CASE n # 0 /\ n < first
    BY <2>4, <1>1, <1>4 DEF Nodes, Bits
  <2> QED BY <2>2, <2>3, <2>4, <1>1 DEF Nodes
<1>7. next \in [Nodes -> [Bits -> Nodes]]
  <2>1. \A n \in Nodes : next[n] \in [Bits -> Nodes]
    <3>1. SUFFICES ASSUME NEW n \in Nodes PROVE next[n] \in [Bits -> Nodes]
      OBVIOUS
    <3>2. next[n] = [b \in Bits |-> next[n][b]]
      BY <1>5 DEF Init, NewNext, ShuffleNext
    <3> QED BY <3>2, <1>6
  <2> QED BY <2>1 DEF Init, NewNext
<1> HIDE DEF first
<1>8. FreeInOrder
  <2>1. ASSUME NEW n \in first .. NodesLen - 1
        PROVE  prior[n] = Unset /\ next[n] = [b \in Bits |-> IF b = 0 THEN FreeNext(n) ELSE 0]
    <3>1. n \in Nodes \ {0} /\ n >= first /\ n \notin 0 .. 3
      BY <1>1, <2>1 DEF Nodes
    <3> QED BY <3>1, <1>3 DEF Init, NewPrior
  <2> QED BY <1>1, <1>2, <2>1 DEF FreeInOrder
<1>9. WaysStayInUse
  <2>1. InUse(1)
    BY <1>1, <1>2 DEF InUse
  <2>2. ASSUME NEW n \in Nodes \ {0}, NEW b \in Bits, InUse(n) PROVE InUse(next[n][b])
    BY <1>1, <1>2, <1>4, <2>2 DEF InUse
  <2> QED BY <1>1, <1>2, <2>1, <2>2 DEF WaysStayInUse, Nodes
<1> QED BY <1>2, <1>7, <1>8, <1>9 DEF first

LEMMA FirstChain == ASSUME Init PROVE Chained = 0 .. 3 /\ ChainIsLinked
<1>1. NodesLen \in Nat /\ NodesLen > 4 /\ FirMax \in Nat \ {0} /\ FirMax % 2 = 0
  BY NodesLenAssumption, FirMaxAssumption
<1>2. 0 .. 3 = {0, 1, 2, 3} /\ 0 .. 3 \subseteq Nodes
  BY <1>1 DEF Nodes
<1>3. Unset \notin {0, FirMax \div 2, FirMax}
  BY <1>1 DEF Unset
<1>4. Chained = 0 .. 3
  <2>1. Unplaced = {}
    BY DEF Init, Unplaced
  <2> QED BY <2>1, <1>2, <1>3 DEF Chained, Init, NewPrior
<1>5. /\ larger[0] = 2 /\ larger[1] = 3 /\ larger[2] = 1 /\ larger[3] = 0
      /\ smaller[0] = 3 /\ smaller[1] = 2 /\ smaller[2] = 0 /\ smaller[3] = 1
  BY <1>1, <1>2 DEF Init, NewLinks
<1>6. Ringed({0, 1, 2, 3}, larger, smaller)
  BY <1>5 DEF Ringed
<1>7. prior[next[0][1]] # Unset
  BY <1>2, <1>3, <1>4, FirstWays DEF Chained
<1> QED BY <1>2, <1>4, <1>6, <1>7 DEF ChainIsLinked

LEMMA InitBEInv == Init => BEInv
<1> SUFFICES ASSUME Init PROVE BEInv
  OBVIOUS
<1>1. NodesLen \in Nat /\ NodesLen > 4 /\ FirMax \in Nat \ {0} /\ FirMax % 2 = 0 /\ FirlatLen \in Nat \ {0}
  BY NodesLenAssumption, FirMaxAssumption, FirlatLenAssumption
<1>2. TypeOK
  <2>1. count \in [Nodes -> [Bits -> Nat]] /\ next \in [Nodes -> [Bits -> Nodes]]
    BY FirstWays DEF Init
  <2>2. prior \in [Nodes -> Firs \cup {Unset}]
    BY <1>1 DEF Init, NewPrior, Firs
  <2>3. larger \in [Nodes -> Nodes \cup {-1}] /\ smaller \in [Nodes -> Nodes \cup {-1}]
    <3>1. {0, 1, 2, 3} \subseteq Nodes
      BY <1>1 DEF Nodes
    <3>2. \A a, b, c, d \in {0, 1, 2, 3} : NewLinks(mode, a, b, c, d) \in [Nodes -> Nodes \cup {-1}]
      BY <3>1 DEF NewLinks
    <3> QED BY <3>2 DEF Init
  <2>4. slot \in [Nodes -> FirSlots \cup {-1}] /\ firlat \in [FirSlots -> Nodes]
    BY <1>1 DEF Init, FirSlots, Nodes
  <2>5. 0 \in Nodes /\ 1 \in Nodes /\ 0 \in Firs
    BY <1>1 DEF Nodes, Firs
  <2> QED BY <2>1, <2>2, <2>3, <2>4, <2>5 DEF TypeOK, Init
<1>3. Untouched
  <2>1. ASSUME NEW n \in Nodes, prior[n] = Unset, InUse(n) PROVE larger[n] = -1 /\ smaller[n] = -1
    <3>1. n \notin 0 .. 3
      BY <2>1, FirstChain DEF Chained
    <3>2. n \notin {0, 1, 2, 3} /\ n < FirstFree(mode)
      BY <2>1, <3>1, FirstWays, FirstFreeType DEF InUse, Init
    <3> QED BY <3>2 DEF Init, NewLinks
  <2> QED BY <2>1 DEF Untouched, Init
<1>4. LookasideIsTrue
  BY DEF Init, LookasideIsTrue
<1>5. CallsOrder
  BY FirstWays DEF Init, CallsOrder, WaysStayInUse
<1> QED BY <1>2, <1>3, <1>4, <1>5, FirstWays, FirstChain DEF BEInv

-----------------------------------------------------------------------------
(* The look-up: it begins, and stays, in the chain.                        *)

LEMMA SmallestNumber ==
  ASSUME NEW T \in SUBSET Nat, T # {}
  PROVE  \E t \in T : \A r \in T : t <= r
<1>1. PICK t \in T : \A r \in T : ~ (<<r, t>> \in OpToRel(<, Nat))
  BY NatLessThanWellFounded, WFMin
<1>2. \A r \in T : ~ (r < t)
  BY <1>1 DEF OpToRel
<1> QED BY <1>2

LEMMA LargestNumber ==
  ASSUME NEW bound \in Nat, NEW S \in SUBSET (0 .. bound), S # {}
  PROVE  \E s \in S : \A r \in S : r <= s
<1> DEFINE T == {bound - s : s \in S}
<1>1. T \in SUBSET Nat /\ T # {}
  <2>1. \A s \in S : bound - s \in Nat
    OBVIOUS
  <2>2. T \subseteq Nat
    BY <2>1
  <2>3. PICK s \in S : TRUE
    OBVIOUS
  <2>4. bound - s \in T
    BY <2>3
  <2> QED BY <2>2, <2>4
<1>2. PICK t \in T : \A r \in T : t <= r
  <2> HIDE DEF T
  <2> QED BY <1>1, SmallestNumber
<1>3. PICK s \in S : t = bound - s
  BY <1>2
<1>4. \A r \in S : bound - s <= bound - r
  BY <1>2, <1>3
<1> QED BY <1>3, <1>4

LEMMA StartInChain ==
  ASSUME NEW C, NEW fl \in [FirSlots -> Nodes], NEW sl, NEW pr, NEW up, NEW fir \in Firs,
         Filed(C, fl, sl, pr), up[0] \in C
  PROVE  Start(fir, fl, up) \in C
<1> DEFINE filed == {s \in 1 .. Slot(fir) : fl[s] > 0}
<1>1. Slot(fir) \in FirSlots /\ FirSlots = 0 .. FirlatLen - 1 /\ FirlatLen \in Nat \ {0}
  BY SlotType, FirlatLenAssumption DEF FirSlots
<1>2. CASE filed = {}
  BY <1>2 DEF Start
<1>3. CASE filed # {}
  <2>1. filed \in SUBSET (0 .. FirlatLen - 1) /\ FirlatLen - 1 \in Nat
    BY <1>1
  <2>2. \E s \in filed : \A r \in filed : r <= s
    <3> HIDE DEF filed
    <3> QED BY <1>3, <2>1, LargestNumber
  <2> DEFINE s == CHOOSE s \in filed : \A r \in filed : r <= s
  <2>3. s \in filed
    BY <2>2
  <2>4. Start(fir, fl, up) = fl[s]
    BY <1>3 DEF Start
  <2>5. s \in FirSlots /\ fl[s] > 0 /\ fl[s] # 0
    <3> HIDE DEF s
    <3> QED BY <2>3, <1>1
  <2> HIDE DEF s, filed
  <2> QED BY <2>4, <2>5 DEF Filed
<1> QED BY <1>2, <1>3

LEMMA ClosestInChain == ASSUME ChainIsLinked, hit \in Chained
                        PROVE  Closest \in Chained /\ larger[Closest] \in Chained /\ smaller[Closest] \in Chained
BY DEF ChainIsLinked, Ringed, Closest

LEMMA BestInChain ==
  ASSUME ChainIsLinked, hit \in Chained, NEW mincount, NEW thresh
  PROVE  BestAhead(mincount, thresh).node \in Chained
<1> DEFINE Try(n) == [node |-> n, score |-> Score(n, mincount, thresh)]
           Better(a, b) == IF b.score > a.score THEN b ELSE a
<1>1. BestAhead(mincount, thresh) = Better(Better(Try(Closest), Try(larger[Closest])), Try(smaller[Closest]))
  BY DEF BestAhead
<1>2. \A a, b : Better(a, b) = a \/ Better(a, b) = b
  OBVIOUS
<1>3. \A n : Try(n).node = n
  OBVIOUS
<1> HIDE DEF Try, Better
<1> QED BY <1>1, <1>2, <1>3, ClosestInChain

-----------------------------------------------------------------------------
(* Steps that leave the class as it is.                                    *)

\* The parts of the invariant that are about the class alone.
ClassInv == FreeInOrder /\ WaysStayInUse /\ Untouched /\ ChainIsLinked /\ LookasideIsTrue

LEMMA SameClass ==
  ASSUME BEInv, UNCHANGED <<graph, chain, lookaside>>, Unplaced' = Unplaced
  PROVE  ClassInv' /\ Chained' = Chained
<1>1. next' = next /\ prior' = prior /\ count' = count /\ larger' = larger /\ smaller' = smaller
      /\ slot' = slot /\ firlat' = firlat
  BY DEF graph, chain, lookaside
<1>2. Free' = Free /\ \A n : InUse(n)' = InUse(n)
  BY <1>1 DEF Free, InUse
<1>3. Chained' = Chained
  BY <1>1 DEF Chained
<1>4. FreeInOrder'
  BY <1>1, <1>2 DEF BEInv, FreeInOrder
<1>5. WaysStayInUse'
  BY <1>1, <1>2 DEF BEInv, WaysStayInUse
<1>6. Untouched'
  BY <1>1, <1>2 DEF BEInv, Untouched
<1>7. ChainIsLinked'
  BY <1>1, <1>3 DEF BEInv, ChainIsLinked, Ringed
<1>8. LookasideIsTrue'
  BY <1>1, <1>3 DEF BEInv, LookasideIsTrue
<1> QED BY <1>3, <1>4, <1>5, <1>6, <1>7, <1>8 DEF ClassInv

LEMMA FindType ==
  ASSUME NEW fir \in Firs, NEW why, Find(fir, why),
         ChainIsLinked', LookasideIsTrue', firlat' \in [FirSlots -> Nodes]
  PROVE  hit' \in Chained'
<1>1. larger'[0] \in Chained'
  BY DEF ChainIsLinked, Ringed
<1>2. Filed(Chained', firlat', slot', prior')
  BY DEF LookasideIsTrue, Filed
<1>3. Start(fir, firlat', larger') \in Chained'
  BY <1>1, <1>2, StartInChain
<1> QED BY <1>3 DEF Find

LEMMA ChainedAreNodes == Chained \subseteq Nodes
BY DEF Chained

LEMMA MoveAlong ==
  ASSUME BEInv, GoUp \/ GoDown PROVE BEInv'
<1>1. pc = "find" /\ pc' = pc /\ for' = for /\ cur' = cur /\ UNCHANGED <<graph, chain, lookaside>>
  BY DEF GoUp, GoDown, walk
<1>2. Unplaced' = Unplaced
  BY <1>1 DEF Unplaced
<1>3. ClassInv' /\ Chained' = Chained
  BY <1>1, <1>2, SameClass
<1>4. hit' \in Chained /\ hit' \in Nodes
  BY <1>1, ChainedAreNodes DEF BEInv, CallsOrder, ChainIsLinked, Ringed, GoUp, GoDown
<1>5. TypeOK'
  BY <1>4 DEF BEInv, TypeOK, GoUp, GoDown, graph, chain, lookaside, counters, walk
<1>6. CallsOrder'
  BY <1>1, <1>3, <1>4 DEF BEInv, CallsOrder, GoUp, GoDown, graph, walk, InUse, Free
<1> QED BY <1>3, <1>5, <1>6 DEF BEInv, ClassInv

LEMMA StayIdle ==
  ASSUME BEInv, LearnRefused \/ SaveRestore PROVE BEInv'
<1>1. pc = "idle" /\ pc' = pc /\ for' = for /\ cur' = cur /\ UNCHANGED <<graph, chain, lookaside>>
  BY DEF LearnRefused, SaveRestore, walk, lookup
<1>2. Unplaced' = Unplaced
  BY <1>1 DEF Unplaced
<1>3. ClassInv' /\ Chained' = Chained
  BY <1>1, <1>2, SameClass
<1>4. TypeOK'
  BY DEF BEInv, TypeOK, LearnRefused, SaveRestore, graph, chain, lookaside, counters, walk, lookup
<1>5. CallsOrder'
  BY <1>1 DEF BEInv, CallsOrder, LearnRefused, SaveRestore, graph, InUse, Free
<1> QED BY <1>3, <1>4, <1>5 DEF BEInv, ClassInv

LEMMA BeginCall ==
  ASSUME BEInv, pc = "idle", NEW t \in Texts, NEW what \in {"learn", "erase", "classify"}, AtStart(t, what),
         what = "erase" => tally[t] > 0
  PROVE  BEInv'
<1>1. pc' = "bit" /\ UNCHANGED <<graph, chain, lookaside>>
  BY DEF AtStart
<1>2. Unplaced = {} /\ Unplaced' = {}
  BY <1>1 DEF Unplaced
<1>3. ClassInv' /\ Chained' = Chained
  BY <1>1, <1>2, SameClass
<1>4. cur' \in Nodes \ {0} /\ localfir' \in Firs
  <2>1. cur' \in Nodes \ {0} /\ localfir' = prior[cur'] /\ prior[cur'] # Unset
    BY DEF AtStart, BEInv, WaysStayInUse, ChainIsLinked
  <2> QED BY <2>1 DEF BEInv, TypeOK
<1>5. TypeOK'
  BY <1>4 DEF BEInv, TypeOK, AtStart, graph, chain, lookaside, counters, lookup
<1>6. InUse(cur)'
  BY <1>1 DEF AtStart, BEInv, WaysStayInUse, InUse, Free, graph
<1>7. CallsOrder'
  BY <1>1, <1>6 DEF CallsOrder, AtStart
<1> QED BY <1>3, <1>5, <1>7 DEF BEInv, ClassInv

LEMMA EndCall ==
  ASSUME BEInv, EndLearn \/ EndClassify PROVE BEInv'
<1>1. pc = "bit" /\ pc' = "idle" /\ Done /\ UNCHANGED <<graph, chain, lookaside>>
  BY DEF EndLearn, EndClassify, Done
<1>2. Unplaced = {} /\ Unplaced' = {}
  BY <1>1 DEF Unplaced
<1>3. ClassInv' /\ Chained' = Chained
  BY <1>1, <1>2, SameClass
<1>4. 0 \in Nodes /\ 1 \in Nodes /\ 0 \in Firs
  BY NodesLenAssumption, FirMaxAssumption DEF Nodes, Firs
<1>5. totalbits \in Int /\ totalbits' = totalbits /\ documents' \in Nat /\ features' \in Int
  BY <1>1 DEF EndLearn, EndClassify, Done, BEInv, TypeOK
<1>6. tally' \in [Texts -> Nat]
  <2>1. CASE EndClassify
    BY <2>1 DEF EndClassify, BEInv, TypeOK
  <2>2. CASE EndLearn
    <3>1. text \in Texts /\ tally[text] \in Nat /\ tally[text] + sense \in Nat
      BY <1>1 DEF BEInv, TypeOK, CallsOrder, sense
    <3> QED BY <2>2, <3>1 DEF EndLearn, BEInv, TypeOK
  <2> QED BY <2>1, <2>2
<1>7. TypeOK'
  BY <1>1, <1>4, <1>5, <1>6 DEF BEInv, TypeOK, Done, graph, chain, lookaside
<1>8. InUse(1)'
  BY <1>1, NodesLenAssumption DEF BEInv, FreeInOrder, InUse, Free, graph
<1>9. CallsOrder'
  BY <1>1, <1>8 DEF Done, CallsOrder
<1> QED BY <1>3, <1>7, <1>9 DEF BEInv, ClassInv

-----------------------------------------------------------------------------
(* A node leaves the chain.                                                *)

LEMMA UnsetIsNoFir == Unset \notin Firs
BY FirMaxAssumption DEF Unset, Firs

LEMMA LinksWithout ==
  ASSUME BEInv, NEW n \in Nodes \ {0}, InUse(n), RemoveNode(n)
  PROVE  /\ larger' \in [Nodes -> Nodes \cup {-1}] /\ smaller' \in [Nodes -> Nodes \cup {-1}]
         /\ Unplaced = {} => Ringed(Chained \ {n}, larger', smaller')
         /\ Unplaced = {} => \A m \in Nodes \ {n} :
              prior[m] = Unset => larger'[m] = larger[m] /\ smaller'[m] = smaller[m]
<1>1. larger \in [Nodes -> Nodes \cup {-1}] /\ smaller \in [Nodes -> Nodes \cup {-1}] /\ Nodes \subseteq Nat
  BY NodesLenAssumption DEF BEInv, TypeOK, Nodes
<1>2. CASE smaller[n] < 0 /\ larger[n] < 0
  <2>1. larger' = [larger EXCEPT ![n] = -1] /\ smaller' = [smaller EXCEPT ![n] = -1]
    BY <1>2 DEF RemoveNode
  <2>2. n \notin Chained
    <3>1. n \in Chained => larger[n] \in Nodes
      BY ChainedAreNodes DEF BEInv, ChainIsLinked, Ringed
    <3>2. \A m \in Nodes : ~ (m < 0)
      BY <1>1
    <3> QED BY <1>2, <3>1, <3>2
  <2>3. Ringed(Chained, larger, smaller)
    BY DEF BEInv, ChainIsLinked
  <2>4. Unplaced = {} => Ringed(Chained \ {n}, larger', smaller')
    BY <2>1, <2>2, <2>3, <1>1, ChainedAreNodes DEF Ringed
  <2> QED BY <1>1, <2>1, <2>4
<1>3. CASE ~ (smaller[n] < 0 /\ larger[n] < 0)
  <2>1. prior[n] # Unset
    BY <1>3 DEF BEInv, Untouched
  <2>2. larger' = [[larger EXCEPT ![smaller[n]] = larger[n]] EXCEPT ![n] = -1]
        /\ smaller' = [[smaller EXCEPT ![larger[n]] = smaller[n]] EXCEPT ![n] = -1]
    BY <1>3 DEF RemoveNode
  <2>3. larger' \in [Nodes -> Nodes \cup {-1}] /\ smaller' \in [Nodes -> Nodes \cup {-1}]
    BY <1>1, <2>2
  <2>4. ASSUME Unplaced = {}
        PROVE  n \in Chained /\ larger[n] \in Chained /\ smaller[n] \in Chained /\ Ringed(Chained, larger, smaller)
    BY <2>1, <2>4 DEF Chained, BEInv, ChainIsLinked, Ringed
  <2>5. Unplaced = {} => Ringed(Chained \ {n}, larger', smaller')
    BY <1>1, <2>2, <2>4, ChainedAreNodes, RingWithout
  <2>6. ASSUME Unplaced = {}, NEW m \in Nodes \ {n}, prior[m] = Unset
        PROVE  larger'[m] = larger[m] /\ smaller'[m] = smaller[m]
    <3>1. m \notin Chained
      BY <2>6 DEF Chained
    <3> QED BY <1>1, <2>2, <2>4, <2>6, <3>1
  <2> QED BY <2>3, <2>5, <2>6
<1> QED BY <1>2, <1>3

LEMMA NewNodeFirType == BEInv /\ call # "classify" => NewNodeFir \in Firs
<1> SUFFICES ASSUME BEInv PROVE NewNodeFir \in Firs
  OBVIOUS
<1>1. count[cur][0] \in Nat /\ count[cur][1] \in Nat /\ prior[cur] \in Firs \cup {Unset} /\ localfir \in Firs
  BY DEF BEInv, TypeOK, Bits
<1>2. Visits(cur) \in Nat
  BY <1>1 DEF Visits
<1>3. prior[cur] = Unset => Visits(cur) = 0
  <2>1. prior[cur] = Unset => count[cur] = [b \in Bits |-> 0]
    BY DEF BEInv, TypeOK, Untouched
  <2> QED BY <2>1 DEF Visits, Bits
<1>4. (localfir + Visits(cur) * prior[cur]) \div (Visits(cur) + 1) \in Firs
  BY <1>1, <1>2, <1>3, AverageType
<1> QED BY <1>4 DEF NewNodeFir

LEMMA VisitKeeps == ASSUME BEInv, Visit, ErasesWhatIsThere PROVE BEInv'
<1>1. pc = "bit" /\ pc' = "find" /\ for' = "visit" /\ cur' = cur /\ call' = call /\ call # "classify"
      /\ pos < BitsOf(text) /\ pos' = pos /\ text' = text /\ next' = next /\ RemoveNode(cur)
  BY DEF Visit, MoreBits, Find, walk
<1>2. cur \in Nodes \ {0} /\ InUse(cur) /\ alph \in Bits /\ NewNodeFir \in Firs /\ text \in Texts /\ pos \in Nat
  BY <1>1, BitAtType, NewNodeFirType DEF BEInv, TypeOK, CallsOrder, alph
<1>3. Unplaced = {} /\ Unplaced' = {cur}
  BY <1>1 DEF Unplaced
<1>4. prior' = [prior EXCEPT ![cur] = NewNodeFir] /\ prior'[cur] \in Firs
      /\ \A n \in Nodes \ {cur} : prior'[n] = prior[n]
  BY <1>2 DEF Visit, BEInv, TypeOK
<1>5. Chained' = Chained \ {cur}
  BY <1>3, <1>4 DEF Chained
<1>6. /\ larger' \in [Nodes -> Nodes \cup {-1}] /\ smaller' \in [Nodes -> Nodes \cup {-1}]
      /\ Ringed(Chained \ {cur}, larger', smaller')
      /\ \A m \in Nodes \ {cur} : prior[m] = Unset => larger'[m] = larger[m] /\ smaller'[m] = smaller[m]
  BY <1>1, <1>2, <1>3, LinksWithout
<1>7. firlat' \in [FirSlots -> Nodes] /\ Filed(Chained \ {cur}, firlat', slot, prior) /\ slot' = slot
  <2>1. firlat \in [FirSlots -> Nodes] /\ slot \in [Nodes -> FirSlots \cup {-1}]
    BY DEF BEInv, TypeOK
  <2>2. Filed(Chained, firlat, slot, prior)
    BY DEF BEInv, LookasideIsTrue, Filed
  <2>3. firlat' = Unfiled(cur) /\ slot' = slot
    BY <1>1 DEF RemoveNode
  <2> QED BY <1>2, <2>1, <2>2, <2>3, FiledWithout
<1>8. ChainIsLinked'
  <2>1. 0 \in Chained'
    BY <1>2, <1>5 DEF BEInv, ChainIsLinked
  <2>2. prior'[next'[0][1]] # Unset
    BY <1>1, <1>4, UnsetIsNoFir DEF BEInv, ChainIsLinked, WaysStayInUse
  <2>3. Ringed(Chained', larger', smaller')
    BY <1>5, <1>6
  <2> QED BY <2>1, <2>2, <2>3 DEF ChainIsLinked, Ringed
<1>9. LookasideIsTrue'
  BY <1>4, <1>5, <1>7, ChainedAreNodes DEF LookasideIsTrue, Filed
<1>10. FreeInOrder' /\ WaysStayInUse'
  <2>1. Free' = Free /\ (\A n : InUse(n)' = InUse(n))
    BY <1>1 DEF Free, InUse
  <2>2. ASSUME Free # 0, NEW n \in Free .. NodesLen - 1 PROVE prior'[n] = Unset
    <3>1. Free \in Nat /\ NodesLen \in Nat
      BY <2>2, NodesLenAssumption DEF BEInv, FreeInOrder
    <3>2. n \in Nodes /\ n # cur
      BY <1>2, <2>2, <3>1 DEF InUse, Nodes
    <3> QED BY <1>4, <2>2, <3>2 DEF BEInv, FreeInOrder
  <2> QED BY <1>1, <2>1, <2>2 DEF BEInv, FreeInOrder, WaysStayInUse
<1>11. Untouched'
  <2>1. ASSUME NEW n \in Nodes, prior'[n] = Unset
        PROVE  count'[n] = [b \in Bits |-> 0] /\ (InUse(n)' => larger'[n] = -1 /\ smaller'[n] = -1)
    <3>1. n # cur /\ prior[n] = Unset
      BY <1>4, <2>1, UnsetIsNoFir
    <3>2. count'[n] = count[n] /\ InUse(n)' = InUse(n)
      BY <1>1, <3>1 DEF Visit, BEInv, TypeOK, InUse, Free
    <3> QED BY <1>6, <3>1, <3>2 DEF BEInv, Untouched
  <2> QED BY <2>1 DEF Untouched
<1>12. count' \in [Nodes -> [Bits -> Nat]]
  <2>1. count \in [Nodes -> [Bits -> Nat]] /\ count' = [count EXCEPT ![cur][alph] = @ + sense]
    BY DEF Visit, BEInv, TypeOK
  <2>2. count[cur][alph] + sense \in Nat
    <3>1. CASE call = "erase"
      <4>1. count[cur][alph] > 0
        BY <1>1, <3>1 DEF ErasesWhatIsThere
      <4> QED BY <1>2, <2>1, <3>1, <4>1 DEF sense
    <3>2. CASE call # "erase"
      BY <1>2, <2>1, <3>2 DEF sense
    <3> QED BY <3>1, <3>2
  <2> QED BY <1>2, <2>1, <2>2
<1>13. prior' \in [Nodes -> Firs \cup {Unset}]
  BY <1>2, <1>4 DEF BEInv, TypeOK
<1>14. hit' \in Chained'
  <2>1. Find(NewNodeFir, "visit")
    BY DEF Visit
  <2> QED BY <1>2, <1>7, <1>8, <1>9, <2>1, FindType
<1>15. hit' \in Nodes
  BY <1>5, <1>14, ChainedAreNodes
<1>16. totalbits' \in Int
  BY DEF Visit, BEInv, TypeOK, sense
<1>17. TypeOK'
  BY <1>1, <1>2, <1>6, <1>7, <1>12, <1>13, <1>15, <1>16 DEF BEInv, TypeOK, Visit, Find, walk
<1>18. CallsOrder'
  BY <1>1, <1>2, <1>4, <1>14, UnsetIsNoFir DEF BEInv, CallsOrder, Visit, InUse, Free
<1> QED BY <1>8, <1>9, <1>10, <1>11, <1>17, <1>18 DEF BEInv

-----------------------------------------------------------------------------
(* A node enters the chain.                                                *)

LEMMA Inserted ==
  ASSUME BEInv, pc = "find", for \in {"visit", "grow"}, InsertNode(cur)
  PROVE  /\ cur \in Nodes \ {0} /\ InUse(cur) /\ cur \notin Chained /\ prior[cur] \in Firs
         /\ \A n \in Nodes : prior[n] # Unset <=> n \in Chained \cup {cur}
         /\ larger' \in [Nodes -> Nodes \cup {-1}] /\ smaller' \in [Nodes -> Nodes \cup {-1}]
         /\ slot' \in [Nodes -> FirSlots \cup {-1}] /\ firlat' \in [FirSlots -> Nodes]
         /\ Ringed(Chained \cup {cur}, larger', smaller')
         /\ Filed(Chained \cup {cur}, firlat', slot', prior)
         /\ \A n \in Nodes \ (Chained \cup {cur}) : larger'[n] = larger[n] /\ smaller'[n] = smaller[n]
<1>1. cur \in Nodes \ {0} /\ InUse(cur) /\ prior[cur] \in Firs /\ hit \in Chained
  BY DEF BEInv, TypeOK, CallsOrder
<1>2. Unplaced = {cur} /\ cur \notin Chained
  BY DEF Unplaced, Chained
<1>3. \A n \in Nodes : prior[n] # Unset <=> n \in Chained \cup {cur}
  BY <1>1, <1>2, UnsetIsNoFir DEF Chained
<1>4. larger \in [Nodes -> Nodes \cup {-1}] /\ smaller \in [Nodes -> Nodes \cup {-1}]
      /\ Ringed(Chained, larger, smaller) /\ smaller[hit] \in Chained
  BY <1>1 DEF BEInv, TypeOK, ChainIsLinked, Ringed
<1>5. larger' = [larger EXCEPT ![cur] = hit, ![smaller[hit]] = cur]
      /\ smaller' = [smaller EXCEPT ![hit] = cur, ![cur] = smaller[hit]]
  BY DEF InsertNode, InsertedBelow
<1>6. Ringed(Chained \cup {cur}, larger', smaller')
  BY <1>1, <1>2, <1>4, <1>5, ChainedAreNodes, RingWith
<1>7. larger' \in [Nodes -> Nodes \cup {-1}] /\ smaller' \in [Nodes -> Nodes \cup {-1}]
      /\ \A n \in Nodes \ (Chained \cup {cur}) : larger'[n] = larger[n] /\ smaller'[n] = smaller[n]
  BY <1>1, <1>4, <1>5, ChainedAreNodes
<1> DEFINE s == Slot(prior[cur])
<1>8. s \in FirSlots
  BY <1>1, SlotType
<1>9. firlat \in [FirSlots -> Nodes] /\ slot \in [Nodes -> FirSlots \cup {-1}] /\ Filed(Chained, firlat, slot, prior)
  BY DEF BEInv, TypeOK, LookasideIsTrue, Filed
<1>10. \/ firlat' = [firlat EXCEPT ![s] = cur] /\ slot' = Refiled(cur, s)
       \/ firlat' = firlat /\ slot' = slot
  BY DEF InsertNode
<1>11. slot' \in [Nodes -> FirSlots \cup {-1}] /\ firlat' \in [FirSlots -> Nodes]
       /\ Filed(Chained \cup {cur}, firlat', slot', prior)
  <2>1. CASE firlat' = [firlat EXCEPT ![s] = cur] /\ slot' = Refiled(cur, s)
    <3> HIDE DEF s
    <3>1. s = Slot(prior[cur])
      BY DEF s
    <3> QED BY <1>1, <1>2, <1>8, <1>9, <2>1, <3>1, ChainedAreNodes, FiledWith
  <2>2. CASE firlat' = firlat /\ slot' = slot
    BY <1>9, <2>2 DEF Filed
  <2> QED BY <1>10, <2>1, <2>2
<1> QED BY <1>1, <1>2, <1>3, <1>6, <1>7, <1>11

\* Once the node is in its place, and no other is taken, the class is in order.
LEMMA InsertedClass ==
  ASSUME BEInv, pc = "find", for \in {"visit", "grow"}, InsertNode(cur),
         UNCHANGED graph, Unplaced' = {}
  PROVE  ClassInv' /\ Chained' = Chained \cup {cur}
<1>1. next' = next /\ prior' = prior /\ count' = count /\ Free' = Free /\ \A n : InUse(n)' = InUse(n)
  BY DEF graph, Free, InUse
<1>2. Chained' = Chained \cup {cur}
  BY <1>1, Inserted, ChainedAreNodes DEF Chained
<1>3. FreeInOrder' /\ WaysStayInUse'
  BY <1>1 DEF BEInv, FreeInOrder, WaysStayInUse
<1>4. Untouched'
  <2>1. \A n \in Nodes : prior[n] = Unset => larger'[n] = larger[n] /\ smaller'[n] = smaller[n]
    BY Inserted
  <2> QED BY <1>1, <2>1 DEF BEInv, Untouched
<1>5. ChainIsLinked'
  BY <1>1, <1>2, Inserted DEF BEInv, ChainIsLinked, Ringed
<1>6. LookasideIsTrue'
  BY <1>1, <1>2, Inserted DEF LookasideIsTrue, Filed
<1> QED BY <1>2, <1>3, <1>4, <1>5, <1>6 DEF ClassInv

LEMMA FirAfterHere == BEInv /\ pos < BitsOf(text) => alph \in Bits /\ fir_after \in Firs
<1> SUFFICES ASSUME BEInv, pos < BitsOf(text) PROVE alph \in Bits /\ fir_after \in Firs
  OBVIOUS
<1>1. text \in Texts \cup {<<>>} /\ pos \in Nat /\ localfir \in Firs
  BY DEF BEInv, TypeOK
<1>2. alph \in Bits
  BY <1>1, BitAtType DEF alph
<1> QED BY <1>1, <1>2, FirAfterType DEF fir_after

LEMMA FollowKeeps == ASSUME BEInv, Follow PROVE BEInv'
<1>1. pc = "find" /\ for = "visit" /\ pc' = "bit" /\ InsertNode(cur) /\ UNCHANGED graph
  BY DEF Follow, Found
<1>2. ClassInv' /\ Chained' = Chained \cup {cur}
  <2>1. Unplaced' = {}
    BY <1>1 DEF Unplaced
  <2> QED BY <1>1, <2>1, InsertedClass
<1>3. alph \in Bits /\ fir_after \in Firs /\ cur \in Nodes \ {0} /\ InUse(cur) /\ pos \in Nat
  BY <1>1, FirAfterHere DEF BEInv, TypeOK, CallsOrder
<1>4. cur' = next[cur][alph] /\ cur' \in Nodes \ {0} /\ pos' = pos + 1 /\ localfir' = fir_after /\ InUse(cur)'
  <2>1. cur' = next[cur][alph] /\ cur' \in Nodes /\ cur' > 0
    BY <1>3 DEF Follow, MoveTo, HasSuccessor, BEInv, TypeOK
  <2>2. InUse(cur)'
    BY <1>1, <1>3, <2>1 DEF BEInv, WaysStayInUse, InUse, Free, graph
  <2> QED BY <2>1, <2>2 DEF Follow, MoveTo
<1>5. TypeOK'
  BY <1>1, <1>3, <1>4, Inserted DEF BEInv, TypeOK, Follow, graph, counters, lookup
<1>6. CallsOrder'
  BY <1>1, <1>4 DEF BEInv, CallsOrder, Follow
<1> QED BY <1>2, <1>5, <1>6 DEF BEInv, ClassInv

LEMMA FileNewKeeps == ASSUME BEInv, FileNew PROVE BEInv'
<1>1. pc = "find" /\ for = "grow" /\ pc' = "bit" /\ InsertNode(cur) /\ UNCHANGED <<graph, walk>>
  BY DEF FileNew, Found
<1>2. ClassInv' /\ Chained' = Chained \cup {cur}
  <2>1. Unplaced' = {}
    BY <1>1 DEF Unplaced
  <2> QED BY <1>1, <2>1, InsertedClass
<1>3. TypeOK'
  BY <1>1, Inserted DEF BEInv, TypeOK, FileNew, graph, counters, walk, lookup
<1>4. CallsOrder'
  BY <1>1 DEF BEInv, CallsOrder, FileNew, walk, graph, InUse, Free
<1> QED BY <1>2, <1>3, <1>4 DEF BEInv, ClassInv

LEMMA LookForLinkKeeps == ASSUME BEInv, LookForLink PROVE BEInv'
<1>1. pc = "find" /\ for = "visit" /\ pc' = "find" /\ for' = "link" /\ InsertNode(cur) /\ UNCHANGED graph
      /\ localfir' = fir_after /\ Find(fir_after, "link")
  BY DEF LookForLink, Found, Find
<1>2. ClassInv' /\ Chained' = Chained \cup {cur}
  <2>1. Unplaced' = {}
    BY <1>1 DEF Unplaced
  <2> QED BY <1>1, <2>1, InsertedClass
<1>3. fir_after \in Firs
  BY <1>1, FirAfterHere DEF BEInv, CallsOrder
<1>4. hit' \in Chained'
  BY <1>1, <1>2, <1>3, FindType, Inserted DEF ClassInv
<1>5. hit' \in Nodes
  BY <1>1, <1>2, <1>4, ChainedAreNodes, Inserted
<1>6. TypeOK'
  BY <1>1, <1>3, <1>5, Inserted DEF BEInv, TypeOK, LookForLink, Find, graph, counters
<1>7. CallsOrder'
  BY <1>1, <1>4 DEF BEInv, CallsOrder, LookForLink, graph, InUse, Free
<1> QED BY <1>2, <1>6, <1>7 DEF BEInv, ClassInv

-----------------------------------------------------------------------------
(* A node is taken from the free list.                                     *)

Priored == {n \in Nodes : prior[n] # Unset}

LEMMA Taken ==
  ASSUME BEInv, Free # 0, NEW fir \in Firs, cur \in Nodes \ {0}, InUse(cur), alph \in Bits, Allocate(fir)
  PROVE  /\ Free \in 4 .. NodesLen - 1 /\ Free \in Nodes \ {0} /\ cur # Free /\ Free \notin Priored
         /\ next' \in [Nodes -> [Bits -> Nodes]] /\ Free' = FreeNext(Free) /\ next'[0][1] = next[0][1]
         /\ \A b \in Bits : next'[Free][b] = 0
         /\ \A b \in Bits : next'[cur][b] = IF b = alph THEN Free ELSE next[cur][b]
         /\ \A n \in Nodes \ {0, cur, Free} : next'[n] = next[n]
<1>1. Free \in 4 .. NodesLen - 1 /\ NodesLen \in Nat
  BY NodesLenAssumption DEF BEInv, FreeInOrder
<1>2. Free \in Nodes \ {0} /\ 0 \in Nodes
  BY <1>1 DEF Nodes
<1>3. cur # Free
  BY <1>1 DEF InUse
<1>4. prior[Free] = Unset /\ next[Free][0] = FreeNext(Free)
  <2>1. Free \in Free .. NodesLen - 1
    BY <1>1
  <2> QED BY <2>1 DEF BEInv, FreeInOrder, Bits
<1>5. next \in [Nodes -> [Bits -> Nodes]] /\ 0 \in Bits /\ 1 \in Bits
  BY DEF BEInv, TypeOK, Bits
<1>6. next' = [next EXCEPT ![cur][alph] = Free, ![0][0] = next[Free][0], ![Free] = Wiped]
  BY DEF Allocate
<1>7. Wiped \in [Bits -> Nodes] /\ \A b \in Bits : Wiped[b] = 0
  BY <1>2 DEF Wiped
<1>8. next[Free][0] \in Nodes
  BY <1>2, <1>5
<1>9. next' \in [Nodes -> [Bits -> Nodes]]
  BY <1>2, <1>3, <1>5, <1>6, <1>7, <1>8
<1>10. next'[0][0] = next[Free][0] /\ next'[0][1] = next[0][1] /\ next'[Free] = Wiped
  <2> DEFINE taken == [next EXCEPT ![cur][alph] = Free]
  <2>1. taken \in [Nodes -> [Bits -> Nodes]] /\ taken[0] = next[0]
    BY <1>2, <1>5
  <2>2. next' = [[taken EXCEPT ![0][0] = next[Free][0]] EXCEPT ![Free] = Wiped]
    BY <1>6, Zenon
  <2> HIDE DEF taken
  <2>3. next'[Free] = Wiped /\ next'[0] = [next[0] EXCEPT ![0] = next[Free][0]]
    BY <1>2, <2>1, <2>2
  <2>4. next[0] \in [Bits -> Nodes]
    BY <1>2, <1>5
  <2>5. ASSUME NEW z \in [Bits -> Nodes], NEW ahead
        PROVE  [z EXCEPT ![0] = ahead][0] = ahead /\ [z EXCEPT ![0] = ahead][1] = z[1]
    BY <1>5
  <2> QED BY <2>3, <2>4, <2>5
<1>11. \A b \in Bits : next'[cur][b] = IF b = alph THEN Free ELSE next[cur][b]
  BY <1>2, <1>3, <1>5, <1>6
<1>12. \A n \in Nodes \ {0, cur, Free} : next'[n] = next[n]
  BY <1>5, <1>6
<1>13. Free' = FreeNext(Free)
  BY <1>4, <1>10 DEF Free
<1>14. Free \notin Priored
  BY <1>4 DEF Priored
<1> QED BY <1>1, <1>2, <1>3, <1>7, <1>9, <1>10, <1>11, <1>12, <1>13, <1>14

LEMMA TakenInUse ==
  ASSUME BEInv, Free # 0, NEW fir \in Firs, cur \in Nodes \ {0}, InUse(cur), alph \in Bits, Allocate(fir)
  PROVE  /\ FreeInOrder' /\ WaysStayInUse'
         /\ \A n \in Nodes : InUse(n)' <=> InUse(n) \/ n = Free
<1>1. /\ Free \in 4 .. NodesLen - 1 /\ NodesLen \in Nat /\ Free' = FreeNext(Free)
      /\ \A n \in Nodes : n \in Nat /\ n <= NodesLen - 1
  BY Taken, NodesLenAssumption DEF Nodes
<1>2. (Free' = 0 /\ Free = NodesLen - 1) \/ (Free' = Free + 1 /\ Free' \in 4 .. NodesLen - 1)
  BY <1>1 DEF FreeNext
<1>3. \A n \in Nodes : InUse(n)' <=> n <= Free
  <2>1. SUFFICES ASSUME NEW n \in Nodes PROVE (Free' = 0 \/ n < Free') <=> n <= Free
    BY DEF InUse
  <2> QED BY <1>1, <1>2
<1>4. \A n \in Nodes : InUse(n) <=> n < Free
  BY DEF InUse
<1>5. \A n \in Nodes : InUse(n)' <=> InUse(n) \/ n = Free
  BY <1>1, <1>3, <1>4
<1>6. FreeInOrder'
  <2>1. ASSUME Free' # 0, NEW n \in Free' .. NodesLen - 1
        PROVE  prior'[n] = Unset /\ next'[n] = [b \in Bits |-> IF b = 0 THEN FreeNext(n) ELSE 0]
    <3>1. Free' = Free + 1 /\ n \in Free .. NodesLen - 1 /\ n # Free /\ n \in Nodes \ {0}
      BY <1>1, <1>2, <2>1 DEF Nodes
    <3>2. n # cur
      BY <1>1, <1>4, <3>1
    <3>3. prior'[n] = prior[n]
      BY <3>1 DEF Allocate, BEInv, TypeOK
    <3>4. next'[n] = next[n]
      BY <3>1, <3>2, Taken
    <3> QED BY <3>1, <3>3, <3>4 DEF BEInv, FreeInOrder
  <2> QED BY <1>2, <2>1 DEF FreeInOrder
<1>7. WaysStayInUse'
  <2>1. next[0][1] \in Nodes \ {0} /\ InUse(next[0][1]) /\ next'[0][1] = next[0][1]
    BY Taken DEF BEInv, WaysStayInUse
  <2>2. next'[0][1] \in Nodes \ {0} /\ (Free' = 0 \/ next'[0][1] < Free')
    BY <1>5, <2>1 DEF InUse
  <2>3. ASSUME NEW n \in Nodes \ {0}, NEW b \in Bits, InUse(n)'
        PROVE  next'[n][b] \in Nodes /\ next'[n][b] <= Free
    <3>1. next'[n][b] \in Nodes /\ next[n][b] \in Nodes
      <4>1. next' \in [Nodes -> [Bits -> Nodes]] /\ next \in [Nodes -> [Bits -> Nodes]]
        BY Taken DEF BEInv, TypeOK
      <4> QED BY <4>1
    <3>2. CASE n = Free
      <4>1. next'[n][b] = 0
        BY <3>2, Taken
      <4> QED BY <4>1, <3>1, <1>1
    <3>3. CASE n # Free /\ next'[n][b] = Free
      BY <3>1, <3>3, <1>1
    <3>4. CASE n # Free /\ next'[n][b] # Free
      <4>1. next'[n][b] = next[n][b]
        BY <3>4, Taken
      <4>2. InUse(n)
        BY <1>5, <2>3, <3>4
      <4>3. InUse(next[n][b])
        BY <4>2 DEF BEInv, WaysStayInUse
      <4> QED BY <1>1, <1>4, <3>1, <4>1, <4>3
    <3> QED BY <3>2, <3>3, <3>4
  <2>4. \A n \in Nodes : n <= Free => Free' = 0 \/ n < Free'
    BY <1>1, <1>2
  <2> QED BY <2>2, <2>3, <2>4 DEF WaysStayInUse, InUse
<1> QED BY <1>5, <1>6, <1>7

\* The chain holds every node with a prior before the new one is given its own.
LEMMA TakenClass ==
  ASSUME BEInv, Free # 0, NEW fir \in Firs, cur \in Nodes \ {0}, InUse(cur), alph \in Bits, Allocate(fir),
         Ringed(Priored, larger', smaller'), Filed(Priored, firlat', slot', prior),
         firlat' \in [FirSlots -> Nodes],
         \A n \in Nodes \ Priored : larger'[n] = larger[n] /\ smaller'[n] = smaller[n]
  PROVE  /\ ClassInv' /\ Chained' = Priored /\ hit' \in Chained' /\ InUse(cur)'
         /\ cur' = Free /\ pos' = pos + 1 /\ pc' = "find" /\ for' = "grow" /\ prior'[cur'] # Unset
         /\ count' \in [Nodes -> [Bits -> Nat]] /\ prior' \in [Nodes -> Firs \cup {Unset}]
<1>1. Free \in Nodes \ {0} /\ Free \notin Priored /\ 0 \in Nodes
  BY Taken, NodesLenAssumption DEF Nodes
<1>2. cur' = Free /\ pos' = pos + 1 /\ pc' = "find" /\ for' = "grow" /\ Find(fir, "grow")
  BY DEF Allocate, MoveTo, Find
<1>3. prior' = [prior EXCEPT ![Free] = fir] /\ prior \in [Nodes -> Firs \cup {Unset}]
  BY DEF Allocate, BEInv, TypeOK
<1>4. prior' \in [Nodes -> Firs \cup {Unset}] /\ prior'[Free] # Unset
      /\ \A n \in Nodes \ {Free} : prior'[n] = prior[n]
  BY <1>1, <1>3, UnsetIsNoFir
<1>5. Unplaced' = {Free}
  BY <1>2 DEF Unplaced
<1>6. Chained' = Priored
  BY <1>1, <1>4, <1>5 DEF Chained, Priored
<1>7. count' = [count EXCEPT ![Free] = [b \in Bits |-> 0]] /\ count \in [Nodes -> [Bits -> Nat]]
  BY DEF Allocate, BEInv, TypeOK
<1>8. count' \in [Nodes -> [Bits -> Nat]] /\ \A n \in Nodes \ {Free} : count'[n] = count[n]
  BY <1>7
<1>9. FreeInOrder' /\ WaysStayInUse'
  BY TakenInUse
<1>10. Untouched'
  <2>1. ASSUME NEW n \in Nodes, prior'[n] = Unset
        PROVE  count'[n] = [b \in Bits |-> 0] /\ (InUse(n)' => larger'[n] = -1 /\ smaller'[n] = -1)
    <3>1. n # Free /\ prior[n] = Unset /\ n \notin Priored
      BY <1>4, <2>1 DEF Priored
    <3>2. count'[n] = count[n] /\ larger'[n] = larger[n] /\ smaller'[n] = smaller[n]
      BY <1>8, <3>1
    <3>3. InUse(n)' => InUse(n)
      BY <3>1, TakenInUse
    <3> QED BY <3>1, <3>2, <3>3 DEF BEInv, Untouched
  <2> QED BY <2>1 DEF Untouched
<1>11. ChainIsLinked'
  <2>1. 0 \in Priored
    BY DEF BEInv, ChainIsLinked, Chained, Priored
  <2>2. prior'[next'[0][1]] # Unset
    <3>1. next'[0][1] = next[0][1] /\ next[0][1] \in Nodes /\ prior[next[0][1]] # Unset
      BY Taken DEF BEInv, ChainIsLinked, WaysStayInUse
    <3> QED BY <1>4, <3>1
  <2> QED BY <1>6, <2>1, <2>2 DEF ChainIsLinked, Ringed
<1>12. LookasideIsTrue'
  <2>1. \A n \in Priored : prior'[n] = prior[n]
    BY <1>1, <1>4 DEF Priored
  <2> QED BY <1>6, <2>1 DEF LookasideIsTrue, Filed
<1>13. hit' \in Chained'
  BY <1>2, <1>11, <1>12, FindType
<1>14. InUse(cur)'
  <2>1. InUse(Free) \/ Free = Free
    OBVIOUS
  <2>2. Free' = 0 \/ Free < Free'
    BY <1>1, TakenInUse DEF InUse
  <2> QED BY <1>2, <2>2 DEF InUse
<1> QED BY <1>2, <1>4, <1>6, <1>8, <1>9, <1>10, <1>11, <1>12, <1>13, <1>14 DEF ClassInv

LEMMA PrioredNodes == Chained = Priored \ Unplaced /\ Priored \subseteq Nodes
BY DEF Chained, Priored

LEMMA GrowKeeps == ASSUME BEInv, Grow PROVE BEInv'
<1>1. pc = "find" /\ for = "visit" /\ InsertNode(cur) /\ localfir' = fir_after /\ Allocate(fir_after) /\ Free # 0
      /\ call' = call /\ text' = text
  BY DEF Grow, Found, MayLink, Allocate
<1>2. alph \in Bits /\ fir_after \in Firs /\ cur \in Nodes \ {0} /\ InUse(cur) /\ call # "classify"
      /\ pos \in Nat /\ text \in Texts
  BY <1>1, FirAfterHere DEF BEInv, TypeOK, CallsOrder
<1>3. Priored = Chained \cup {cur}
  BY <1>1, <1>2, PrioredNodes, Inserted DEF Unplaced, Priored
<1>4. /\ ClassInv' /\ Chained' = Priored /\ hit' \in Chained' /\ InUse(cur)'
      /\ cur' = Free /\ pos' = pos + 1 /\ pc' = "find" /\ for' = "grow" /\ prior'[cur'] # Unset
      /\ count' \in [Nodes -> [Bits -> Nat]] /\ prior' \in [Nodes -> Firs \cup {Unset}]
  BY <1>1, <1>2, <1>3, Inserted, TakenClass
<1>5. hit' \in Nodes
  BY <1>4, PrioredNodes
<1>6. next' \in [Nodes -> [Bits -> Nodes]] /\ Free \in Nodes \ {0}
  BY <1>1, <1>2, Taken
<1>7. TypeOK'
  <2>1. want' \in Firs /\ part' = 1 /\ UNCHANGED <<totalbits, documents, features, mode, call, text, firjumps, ret, tally>>
    BY <1>1, <1>2 DEF Allocate, Find, counters
  <2>2. totalbits' \in Int /\ documents' \in Nat /\ features' \in Int /\ mode' \in Modes
        /\ firjumps' \in Nat /\ ret' \in {"OK", "BADARG"} /\ tally' \in [Texts -> Nat]
        /\ call' \in {"learn", "erase", "classify"} /\ text' \in Texts \cup {<<>>}
    BY <2>1 DEF BEInv, TypeOK
  <2>3. pos' \in Nat /\ cur' \in Nodes /\ localfir' \in Firs /\ (call' # "classify" => cur' # 0)
        /\ pc' \in {"idle", "bit", "find"} /\ for' \in {"visit", "grow", "link", "jump"} /\ part' \in 1 .. 3
    BY <1>1, <1>2, <1>4, <1>6, <2>1
  <2>4. /\ larger' \in [Nodes -> Nodes \cup {-1}] /\ smaller' \in [Nodes -> Nodes \cup {-1}]
        /\ slot' \in [Nodes -> FirSlots \cup {-1}] /\ firlat' \in [FirSlots -> Nodes]
    BY <1>1, Inserted
  <2> QED BY <1>4, <1>5, <1>6, <2>1, <2>2, <2>3, <2>4 DEF TypeOK
<1>8. CallsOrder'
  BY <1>1, <1>2, <1>4 DEF BEInv, CallsOrder, Allocate
<1> QED BY <1>4, <1>7, <1>8 DEF BEInv, ClassInv

LEMMA GrowAfterAllKeeps == ASSUME BEInv, GrowAfterAll PROVE BEInv'
<1>1. pc = "find" /\ for = "link" /\ UNCHANGED <<chain, lookaside, localfir>> /\ Allocate(localfir) /\ Free # 0
      /\ call' = call /\ text' = text
  BY DEF GrowAfterAll, Found, GoodLink, Allocate
<1>2. alph \in Bits /\ localfir \in Firs /\ cur \in Nodes \ {0} /\ InUse(cur) /\ call # "classify"
      /\ pos \in Nat /\ text \in Texts
  BY <1>1, FirAfterHere DEF BEInv, TypeOK, CallsOrder
<1>3. Priored = Chained
  BY <1>1, PrioredNodes DEF Unplaced
<1>4. Ringed(Priored, larger', smaller') /\ Filed(Priored, firlat', slot', prior)
      /\ firlat' \in [FirSlots -> Nodes] /\ larger' = larger /\ smaller' = smaller
  BY <1>1, <1>3 DEF BEInv, TypeOK, ChainIsLinked, Ringed, LookasideIsTrue, Filed, chain, lookaside
<1>5. /\ ClassInv' /\ Chained' = Priored /\ hit' \in Chained' /\ InUse(cur)'
      /\ cur' = Free /\ pos' = pos + 1 /\ pc' = "find" /\ for' = "grow" /\ prior'[cur'] # Unset
      /\ count' \in [Nodes -> [Bits -> Nat]] /\ prior' \in [Nodes -> Firs \cup {Unset}]
  BY <1>1, <1>2, <1>4, TakenClass
<1>6. hit' \in Nodes
  BY <1>5, PrioredNodes
<1>7. next' \in [Nodes -> [Bits -> Nodes]] /\ Free \in Nodes \ {0}
  BY <1>1, <1>2, Taken
<1>8. TypeOK'
  <2>1. want' \in Firs /\ part' = 1 /\ UNCHANGED <<totalbits, documents, features, mode, call, text, firjumps, ret, tally>>
    BY <1>1, <1>2 DEF Allocate, Find, counters
  <2>2. totalbits' \in Int /\ documents' \in Nat /\ features' \in Int /\ mode' \in Modes
        /\ firjumps' \in Nat /\ ret' \in {"OK", "BADARG"} /\ tally' \in [Texts -> Nat]
        /\ call' \in {"learn", "erase", "classify"} /\ text' \in Texts \cup {<<>>}
    BY <2>1 DEF BEInv, TypeOK
  <2>3. pos' \in Nat /\ cur' \in Nodes /\ localfir' \in Firs /\ (call' # "classify" => cur' # 0)
        /\ pc' \in {"idle", "bit", "find"} /\ for' \in {"visit", "grow", "link", "jump"} /\ part' \in 1 .. 3
    BY <1>1, <1>2, <1>5, <1>7, <2>1
  <2>4. /\ larger' \in [Nodes -> Nodes \cup {-1}] /\ smaller' \in [Nodes -> Nodes \cup {-1}]
        /\ slot' \in [Nodes -> FirSlots \cup {-1}] /\ firlat' \in [FirSlots -> Nodes]
    BY <1>1 DEF BEInv, TypeOK, chain, lookaside
  <2> QED BY <1>5, <1>6, <1>7, <2>1, <2>2, <2>3, <2>4 DEF TypeOK
<1>9. CallsOrder'
  BY <1>1, <1>2, <1>5 DEF BEInv, CallsOrder, Allocate
<1> QED BY <1>5, <1>8, <1>9 DEF BEInv, ClassInv

-----------------------------------------------------------------------------
(* Links, and steps of a classify call.                                    *)

LEMMA LinkKeeps == ASSUME BEInv, Link PROVE BEInv'
<1>1. pc = "find" /\ for = "link" /\ pc' = "bit" /\ UNCHANGED <<count, prior, chain, lookaside, call, text>>
      /\ next' = [next EXCEPT ![cur][alph] = Linked] /\ cur' = Linked /\ pos' = pos + 1 /\ localfir' = localfir
  BY DEF Link, Found, MoveTo
<1>2. alph \in Bits /\ cur \in Nodes \ {0} /\ InUse(cur) /\ call # "classify" /\ pos \in Nat
      /\ NodesLen \in Nat /\ NodesLen > 4
  BY <1>1, FirAfterHere, NodesLenAssumption DEF BEInv, TypeOK, CallsOrder
<1>3. Choice.node \in Chained
  BY <1>1, BestInChain DEF Choice, BEInv, CallsOrder
<1>4. Choice.node \in Nodes /\ InUse(Choice.node)
  BY <1>3, ChainedInUse DEF Chained, BEInv
<1>5. Linked \in Nodes \ {0} /\ InUse(Linked)
  <2>1. 1 \in Nodes /\ InUse(1)
    BY <1>2 DEF BEInv, FreeInOrder, InUse, Nodes
  <2>2. CASE Choice.node < 1
    BY <2>1, <2>2 DEF Linked
  <2>3. CASE ~ (Choice.node < 1)
    BY <1>4, <2>3 DEF Linked
  <2> QED BY <2>2, <2>3
<1>6. next \in [Nodes -> [Bits -> Nodes]] /\ next' \in [Nodes -> [Bits -> Nodes]]
      /\ (\A n \in Nodes \ {cur} : next'[n] = next[n])
      /\ (\A b \in Bits : next'[cur][b] = IF b = alph THEN Linked ELSE next[cur][b])
  BY <1>1, <1>2, <1>5 DEF BEInv, TypeOK
<1>7. 0 \in Nodes /\ next'[0] = next[0] /\ Free' = Free /\ (\A n : InUse(n)' = InUse(n))
  BY <1>2, <1>6 DEF Nodes, Free, InUse
<1>8. Chained' = Chained
  BY <1>1 DEF Chained, Unplaced
<1>9. FreeInOrder'
  <2>1. ASSUME Free # 0, NEW n \in Free .. NodesLen - 1 PROVE n \in Nodes \ {cur}
    BY <1>2, <2>1 DEF BEInv, FreeInOrder, InUse, Nodes
  <2> QED BY <1>1, <1>6, <1>7, <2>1 DEF BEInv, FreeInOrder
<1>10. WaysStayInUse'
  <2>1. ASSUME NEW n \in Nodes \ {0}, NEW b \in Bits, InUse(n) PROVE InUse(next[n][b])'
    <3>1. CASE n = cur /\ b = alph
      BY <1>5, <1>6, <1>7, <3>1 DEF InUse
    <3>2. CASE ~ (n = cur /\ b = alph)
      <4>1. next'[n][b] = next[n][b] /\ InUse(next[n][b])
        BY <1>6, <2>1, <3>2 DEF BEInv, WaysStayInUse
      <4> QED BY <1>7, <4>1 DEF InUse
    <3> QED BY <3>1, <3>2
  <2>2. next'[0][1] = next[0][1] /\ InUse(next[0][1])'
    BY <1>7 DEF BEInv, WaysStayInUse, InUse
  <2> QED BY <1>7, <2>1, <2>2 DEF BEInv, WaysStayInUse
<1>11. Untouched'
  BY <1>1, <1>7 DEF BEInv, Untouched, chain
<1>12. ChainIsLinked'
  BY <1>1, <1>7, <1>8 DEF BEInv, ChainIsLinked, Ringed, chain
<1>13. LookasideIsTrue'
  BY <1>1, <1>8 DEF BEInv, LookasideIsTrue, lookaside
<1>14. TypeOK'
  <2>1. pos' \in Nat /\ UNCHANGED <<totalbits, documents, features, mode, want, hit, part, for, firjumps, ret, tally>>
    BY <1>1, <1>2 DEF Link, counters, lookup
  <2> QED BY <1>1, <1>5, <1>6, <2>1 DEF BEInv, TypeOK, chain, lookaside
<1>15. CallsOrder'
  <2>1. InUse(cur)' /\ tally' = tally
    BY <1>1, <1>5, <1>7 DEF Link, InUse
  <2> QED BY <1>1, <1>2, <2>1 DEF BEInv, CallsOrder
<1> QED BY <1>9, <1>10, <1>11, <1>12, <1>13, <1>14, <1>15 DEF BEInv

LEMMA ClassifyBitKeeps == ASSUME BEInv, ClassifyBit PROVE BEInv'
<1>1. pc = "bit" /\ pc' = "bit" /\ call = "classify" /\ call' = call /\ pos < BitsOf(text)
      /\ text' = text /\ UNCHANGED <<graph, chain, lookaside>> /\ localfir' = fir_after
      /\ cur' = next[cur][alph] /\ pos' = pos + 1
  BY DEF ClassifyBit, MoreBits, MoveTo
<1>2. ClassInv' /\ Chained' = Chained
  <2>1. Unplaced' = Unplaced
    BY <1>1 DEF Unplaced
  <2> QED BY <1>1, <2>1, SameClass
<1>3. alph \in Bits /\ fir_after \in Firs
  BY <1>1, FirAfterHere
<1>4. cur' \in Nodes /\ pos' \in Nat
  BY <1>1, <1>3 DEF BEInv, TypeOK
<1>5. TypeOK'
  BY <1>1, <1>3, <1>4 DEF BEInv, TypeOK, ClassifyBit, graph, chain, lookaside, counters, lookup
<1>6. CallsOrder'
  BY <1>1 DEF BEInv, CallsOrder, ClassifyBit
<1> QED BY <1>2, <1>5, <1>6 DEF BEInv, ClassInv

LEMMA LookForJumpKeeps == ASSUME BEInv, LookForJump PROVE BEInv'
<1>1. pc = "bit" /\ pc' = "find" /\ for' = "jump" /\ call = "classify" /\ call' = call /\ pos < BitsOf(text)
      /\ UNCHANGED <<graph, chain, lookaside, text, pos, cur>> /\ localfir' = fir_after /\ Find(fir_after, "jump")
  BY DEF LookForJump, MoreBits, Find
<1>2. ClassInv' /\ Chained' = Chained
  <2>1. Unplaced' = Unplaced
    BY <1>1 DEF Unplaced
  <2> QED BY <1>1, <2>1, SameClass
<1>3. fir_after \in Firs /\ firlat' \in [FirSlots -> Nodes]
  BY <1>1, FirAfterHere DEF BEInv, TypeOK, lookaside
<1>4. hit' \in Chained /\ hit' \in Nodes
  BY <1>1, <1>2, <1>3, FindType, ChainedAreNodes DEF ClassInv
<1>5. TypeOK'
  <2>1. want' = fir_after /\ part' = 1
    BY <1>1 DEF Find
  <2> QED BY <1>1, <1>3, <1>4, <2>1 DEF BEInv, TypeOK, LookForJump, graph, chain, lookaside, counters
<1>6. CallsOrder'
  BY <1>1, <1>2, <1>4 DEF BEInv, CallsOrder, LookForJump
<1> QED BY <1>2, <1>5, <1>6 DEF BEInv, ClassInv

LEMMA JumpKeeps == ASSUME BEInv, Jump PROVE BEInv'
<1>1. pc = "find" /\ for = "jump" /\ pc' = "bit" /\ call = "classify" /\ call' = call /\ text' = text
      /\ UNCHANGED <<graph, chain, lookaside>> /\ cur' = BestAhead(0, 1).node /\ pos' = pos + 1
  BY DEF Jump, Found, MoveTo, BEInv, CallsOrder
<1>2. ClassInv' /\ Chained' = Chained
  <2>1. Unplaced' = Unplaced
    BY <1>1 DEF Unplaced
  <2> QED BY <1>1, <2>1, SameClass
<1>3. cur' \in Nodes
  BY <1>1, BestInChain, ChainedAreNodes DEF BEInv, CallsOrder
<1>4. TypeOK'
  BY <1>1, <1>3 DEF BEInv, TypeOK, Jump, graph, chain, lookaside, counters, lookup
<1>5. CallsOrder'
  BY <1>1 DEF BEInv, CallsOrder, Jump
<1> QED BY <1>2, <1>4, <1>5 DEF BEInv, ClassInv

-----------------------------------------------------------------------------
(* The parts of the invariant that do not need the counts to be right.      *)

LEMMA NextBEInv == ASSUME BEInv, [Next]_vars, ErasesWhatIsThere PROVE BEInv'
<1>1. CASE Step
  BY <1>1, MoveAlong, EndCall, VisitKeeps, FollowKeeps, FileNewKeeps, LookForLinkKeeps, GrowKeeps, GrowAfterAllKeeps,
     LinkKeeps, ClassifyBitKeeps, LookForJumpKeeps, JumpKeeps DEF Step
<1>2. CASE LearnRefused \/ SaveRestore
  BY <1>2, StayIdle
<1>3. ASSUME NEW t \in Texts, BeginLearn(t) \/ BeginErase(t) \/ BeginClassify(t) PROVE BEInv'
  BY <1>3, BeginCall DEF BeginLearn, BeginErase, BeginClassify
<1>4. CASE UNCHANGED vars
  <2>1. UNCHANGED <<graph, chain, lookaside>> /\ Unplaced' = Unplaced
    BY <1>4 DEF vars, walk, lookup, Unplaced
  <2>2. ClassInv' /\ Chained' = Chained
    BY <2>1, SameClass
  <2>3. TypeOK'
    BY <1>4 DEF vars, BEInv, TypeOK, graph, chain, lookaside, counters, walk, lookup
  <2>4. CallsOrder'
    BY <1>4, <2>2 DEF vars, BEInv, CallsOrder, graph, walk, lookup, InUse, Free
  <2> QED BY <2>2, <2>3, <2>4 DEF BEInv, ClassInv
<1> QED BY <1>1, <1>2, <1>3, <1>4 DEF Next
-----------------------------------------------------------------------------
(* Sums over finite sets.                                                  *)

\* Induction over the subsets of a finite set, by their size.
LEMMA BySize ==
  ASSUME NEW T, IsFiniteSet(T), NEW P \in SUBSET (SUBSET T), {} \in P,
         \A S \in SUBSET T : S # {} /\ (\A x \in S : S \ {x} \in P) => S \in P
  PROVE  P = SUBSET T
<1> DEFINE Bad == (SUBSET T) \ P
           Sizes == {Cardinality(S) : S \in Bad}
<1>1. SUFFICES ASSUME Bad # {} PROVE FALSE
  OBVIOUS
<1>2. \A S \in SUBSET T : IsFiniteSet(S) /\ Cardinality(S) \in Nat
  BY FS_Subset, FS_CardinalityType
<1>3. Sizes \in SUBSET Nat /\ Sizes # {}
  BY <1>1, <1>2
<1>4. PICK n \in Sizes : \A m \in Sizes : n <= m
  <2> HIDE DEF Sizes
  <2> QED BY <1>3, SmallestNumber
<1>5. PICK S \in Bad : n = Cardinality(S)
  OBVIOUS
<1>6. ASSUME NEW x \in S PROVE S \ {x} \in P
  <2>1. S \ {x} \in SUBSET T /\ Cardinality(S \ {x}) = n - 1 /\ n \in Nat
    BY <1>2, <1>5, FS_RemoveElement
  <2>2. ~(n <= n - 1)
    BY <2>1
  <2>3. Cardinality(S \ {x}) \notin Sizes
    <3> HIDE DEF Sizes
    <3> QED BY <1>4, <2>1, <2>2
  <2> QED BY <2>1, <2>3
<1>7. S # {} /\ S \in SUBSET T /\ S \notin P
  BY <1>5
<1> QED BY <1>6, <1>7

One(S) == CHOOSE x \in S : TRUE

\* g is the sums of f over the subsets of T.
IsSums(g, f, T) ==
  /\ g \in [SUBSET T -> Int] /\ g[{}] = 0
  /\ \A S \in SUBSET T : S # {} => g[S] = f[One(S)] + g[S \ {One(S)}]

LEMMA SumsExist ==
  ASSUME NEW T, IsFiniteSet(T), NEW f, \A x \in T : f[x] \in Int
  PROVE  \E g : IsSums(g, f, T)
<1> DEFINE Body(g) == [S \in SUBSET T |-> IF S = {} THEN 0 ELSE f[One(S)] + g[S \ {One(S)}]]
           Upto(g, n) == /\ g \in [SUBSET T -> Int]
                         /\ \A S \in SUBSET T : Cardinality(S) <= n => g[S] = Body(g)[S]
           Missing == {n \in Nat : ~ \E g : Upto(g, n)}
<1>1. \A S \in SUBSET T : /\ IsFiniteSet(S) /\ Cardinality(S) \in Nat
                          /\ S = {} <=> Cardinality(S) = 0
  BY FS_Subset, FS_CardinalityType, FS_EmptySet
<1>2. \A S \in SUBSET T : S # {} => /\ One(S) \in S /\ S \ {One(S)} \in SUBSET T
                                    /\ Cardinality(S \ {One(S)}) = Cardinality(S) - 1
  <2> TAKE S \in SUBSET T
  <2> HAVE S # {}
  <2>1. One(S) \in S
    BY DEF One
  <2> QED BY <1>1, <2>1, FS_RemoveElement
<1>3. ASSUME NEW g \in [SUBSET T -> Int] PROVE Body(g) \in [SUBSET T -> Int]
  <2>1. ASSUME NEW S \in SUBSET T, S # {} PROVE f[One(S)] + g[S \ {One(S)}] \in Int
    <3>1. f[One(S)] \in Int /\ g[S \ {One(S)}] \in Int
      BY <1>2, <2>1
    <3> QED BY <3>1
  <2> QED BY <2>1
<1>4. Missing = {}
  <2>1. SUFFICES ASSUME Missing # {} PROVE FALSE
    OBVIOUS
  <2>2. PICK n \in Missing : \A m \in Missing : n <= m
    <3>1. Missing \in SUBSET Nat
      OBVIOUS
    <3> HIDE DEF Missing
    <3> QED BY <2>1, <3>1, SmallestNumber
  <2>3. n \in Nat /\ ~ \E g : Upto(g, n)
    OBVIOUS
  <2>4. n # 0
    <3> DEFINE z == [S \in SUBSET T |-> 0]
    <3>1. Upto(z, 0)
      <4>1. \A S \in SUBSET T : Cardinality(S) <= 0 => S = {}
        BY <1>1
      <4>2. \A S \in SUBSET T : S = {} => z[S] = Body(z)[S]
        OBVIOUS
      <4> QED BY <4>1, <4>2
    <3> HIDE DEF z, Upto
    <3> QED BY <2>3, <3>1
  <2>5. n - 1 \in Nat /\ n - 1 \notin Missing
    <3> HIDE DEF Missing
    <3> QED BY <2>2, <2>3, <2>4
  <2>6. PICK g : Upto(g, n - 1)
    <3> HIDE DEF Upto
    <3> QED BY <2>5
  <2>7. Upto(Body(g), n)
    <3>1. ASSUME NEW S \in SUBSET T, Cardinality(S) <= n, S # {}
          PROVE  g[S \ {One(S)}] = Body(g)[S \ {One(S)}]
      <4> DEFINE R == S \ {One(S)}
      <4>1. R \in SUBSET T /\ Cardinality(R) <= n - 1
        BY <1>1, <1>2, <2>3, <3>1
      <4> HIDE DEF R, Body
      <4>2. g[R] = Body(g)[R]
        BY <2>6, <4>1
      <4> QED BY <4>2 DEF R
    <3>2. ASSUME NEW S \in SUBSET T, Cardinality(S) <= n
          PROVE  Body(g)[S] = Body(Body(g))[S]
      <4>1. CASE S = {}
        BY <4>1
      <4>2. CASE S # {}
        <5> DEFINE h == Body(g)
        <5>1. h[S] = f[One(S)] + g[S \ {One(S)}]
          BY <4>2
        <5>2. Body(h)[S] = f[One(S)] + h[S \ {One(S)}]
          <6> HIDE DEF h
          <6> QED BY <4>2
        <5> HIDE DEF h
        <5> QED BY <3>1, <3>2, <4>2, <5>1, <5>2 DEF h
      <4> QED BY <4>1, <4>2
    <3>3. Body(g) \in [SUBSET T -> Int]
      BY <1>3, <2>6
    <3> HIDE DEF Body
    <3> QED BY <3>2, <3>3
  <2> HIDE DEF Upto
  <2> QED BY <2>3, <2>7
<1>5. Cardinality(T) \in Nat /\ \A S \in SUBSET T : Cardinality(S) <= Cardinality(T)
  BY <1>1, FS_Subset
<1>6. PICK g : Upto(g, Cardinality(T))
  <2> HIDE DEF Upto
  <2> QED BY <1>4, <1>5
<1>7. \A S \in SUBSET T : g[S] = Body(g)[S]
  <2> HIDE DEF Body
  <2> QED BY <1>5, <1>6
<1>8. \A S \in SUBSET T : g[S] = IF S = {} THEN 0 ELSE f[One(S)] + g[S \ {One(S)}]
  BY <1>7
<1>9. {} \in SUBSET T
  OBVIOUS
<1> QED BY <1>6, <1>8, <1>9 DEF IsSums

\* There is one such function, on the subsets of any set of summands, and
\* SumFunctionOnSet is its value.
LEMMA SumsAgree ==
  ASSUME NEW T, IsFiniteSet(T), NEW f, NEW h, NEW g, NEW k, NEW A, NEW B,
         IsSums(g, f, A), IsSums(k, h, B), T \subseteq A, T \subseteq B,
         \A x \in T : f[x] = h[x]
  PROVE  g[T] = k[T]
<1> DEFINE P == {S \in SUBSET T : g[S] = k[S]}
<1>1. {} \in P
  BY DEF IsSums
<1>2. ASSUME NEW S \in SUBSET T, S # {}, \A x \in S : S \ {x} \in P PROVE S \in P
  <2>1. One(S) \in S
    BY <1>2 DEF One
  <2>2. g[S \ {One(S)}] = k[S \ {One(S)}] /\ f[One(S)] = h[One(S)]
    BY <1>2, <2>1
  <2>3. S \in SUBSET A /\ S \in SUBSET B
    OBVIOUS
  <2> QED BY <1>2, <2>2, <2>3 DEF IsSums
<1>3. P \in SUBSET (SUBSET T)
  OBVIOUS
<1>4. P = SUBSET T
  <2> HIDE DEF P
  <2> QED BY <1>1, <1>2, <1>3, BySize
<1> QED BY <1>4

LEMMA SumOnIs ==
  ASSUME NEW T, IsFiniteSet(T), NEW f, \A x \in T : f[x] \in Int, NEW g, NEW A, IsSums(g, f, A), T \subseteq A
  PROVE  SumFunctionOnSet(f, T) = g[T]
<1> DEFINE Body(k) == [S \in SUBSET T |-> IF S = {} THEN 0 ELSE f[CHOOSE x \in S : TRUE] + k[S \ {CHOOSE x \in S : TRUE}]]
           iter == CHOOSE k : k = Body(k)
<1>1. SumFunctionOnSet(f, T) = iter[T]
  BY DEF SumFunctionOnSet, FoldFunctionOnSet, MapThenFoldSet
<1>2. PICK k : IsSums(k, f, T)
  BY SumsExist
<1>3. k = Body(k)
  <2>1. \A S \in SUBSET T : k[S] = IF S = {} THEN 0 ELSE f[One(S)] + k[S \ {One(S)}]
    BY <1>2 DEF IsSums
  <2>2. k = [S \in SUBSET T |-> k[S]]
    BY <1>2 DEF IsSums
  <2> QED BY <2>1, <2>2 DEF One
<1>4. iter = Body(iter)
  <2> HIDE DEF Body
  <2> QED BY <1>3
<1>5. \A S \in SUBSET T : iter[S] = IF S = {} THEN 0 ELSE f[One(S)] + iter[S \ {One(S)}]
  <2> TAKE S \in SUBSET T
  <2>1. iter[S] = Body(iter)[S]
    BY <1>4
  <2> HIDE DEF iter
  <2> QED BY <2>1 DEF One
<1> HIDE DEF iter
<1> DEFINE P == {S \in SUBSET T : iter[S] = g[S]}
<1>6. {} \in P
  BY <1>5 DEF IsSums
<1>7. ASSUME NEW S \in SUBSET T, S # {}, \A x \in S : S \ {x} \in P PROVE S \in P
  <2>1. One(S) \in S
    BY <1>7 DEF One
  <2>2. iter[S \ {One(S)}] = g[S \ {One(S)}]
    BY <1>7, <2>1
  <2>3. S \in SUBSET A
    OBVIOUS
  <2> QED BY <1>5, <1>7, <2>2, <2>3 DEF IsSums
<1>8. P \in SUBSET (SUBSET T)
  OBVIOUS
<1>9. P = SUBSET T
  <2> HIDE DEF P
  <2> QED BY <1>6, <1>7, <1>8, BySize
<1> QED BY <1>1, <1>9

\* The summands may be taken in any order.
LEMMA SumsAdd ==
  ASSUME NEW T, IsFiniteSet(T), NEW f, \A x \in T : f[x] \in Int, NEW g, IsSums(g, f, T),
         NEW S \in SUBSET T, NEW x \in T, x \notin S
  PROVE  g[S \cup {x}] = g[S] + f[x]
<1> DEFINE P == {R \in SUBSET T : \A y \in T \ R : g[R \cup {y}] = g[R] + f[y]}
<1>0. \A R \in SUBSET T : g[R] \in Int
  BY DEF IsSums
<1>1. {} \in P
  <2>1. ASSUME NEW y \in T PROVE g[{} \cup {y}] = g[{}] + f[y]
    <3>1. One({y}) = y /\ {y} \in SUBSET T /\ {y} # {} /\ {y} \ {y} = {} /\ {} \cup {y} = {y}
      BY DEF One
    <3>2. g[{y}] = f[y] + g[{}]
      BY <3>1 DEF IsSums
    <3> QED BY <3>1, <3>2, <1>0
  <2> QED BY <2>1
<1>2. ASSUME NEW R \in SUBSET T, R # {}, \A z \in R : R \ {z} \in P PROVE R \in P
  <2>1. SUFFICES ASSUME NEW y \in T \ R PROVE g[R \cup {y}] = g[R] + f[y]
    OBVIOUS
  <2> DEFINE Q == R \cup {y}
             c == One(Q)
  <2>2. c \in Q /\ Q \in SUBSET T /\ Q # {} /\ g[Q] = f[c] + g[Q \ {c}]
    <3>1. Q # {} /\ Q \in SUBSET T
      OBVIOUS
    <3> HIDE DEF Q
    <3> QED BY <3>1 DEF IsSums, One
  <2> HIDE DEF c
  <2>3. CASE c = y
    <3>1. Q \ {c} = R
      BY <2>3
    <3>2. f[y] \in Int /\ g[R] \in Int
      BY <1>0
    <3> HIDE DEF Q
    <3>3. g[Q] = f[y] + g[R]
      BY <2>2, <2>3, <3>1
    <3> QED BY <3>2, <3>3 DEF Q
  <2>4. CASE c # y
    <3>1. c \in R /\ Q \ {c} = (R \ {c}) \cup {y} /\ R = (R \ {c}) \cup {c}
      BY <2>2, <2>4
    <3>2. R \ {c} \in P /\ y \in T \ (R \ {c}) /\ c \in T \ (R \ {c})
      BY <1>2, <3>1
    <3>3. g[(R \ {c}) \cup {y}] = g[R \ {c}] + f[y] /\ g[(R \ {c}) \cup {c}] = g[R \ {c}] + f[c]
      BY <3>2
    <3>4. g[R] = g[R \ {c}] + f[c]
      BY <3>1, <3>3
    <3>5. g[Q \ {c}] = g[R \ {c}] + f[y]
      BY <3>1, <3>3
    <3>6. g[R \ {c}] \in Int /\ f[c] \in Int /\ f[y] \in Int
      BY <1>0, <3>1
    <3> QED BY <2>2, <3>4, <3>5, <3>6
  <2> QED BY <2>3, <2>4
<1>3. P \in SUBSET (SUBSET T)
  OBVIOUS
<1>4. P = SUBSET T
  <2> HIDE DEF P
  <2> QED BY <1>1, <1>2, <1>3, BySize
<1> QED BY <1>4

LEMMA SumIsInt ==
  ASSUME NEW R, IsFiniteSet(R), NEW f, \A x \in R : f[x] \in Int
  PROVE  SumFunctionOnSet(f, R) \in Int
<1>1. PICK g : IsSums(g, f, R)
  BY SumsExist
<1>2. SumFunctionOnSet(f, R) = g[R]
  BY <1>1, SumOnIs
<1> QED BY <1>1, <1>2 DEF IsSums

LEMMA SumOfSame ==
  ASSUME NEW R, IsFiniteSet(R), NEW f, NEW h, \A x \in R : f[x] \in Int /\ h[x] = f[x]
  PROVE  SumFunctionOnSet(h, R) = SumFunctionOnSet(f, R)
<1>1. PICK g : IsSums(g, f, R)
  BY SumsExist
<1>2. PICK k : IsSums(k, h, R)
  BY SumsExist
<1>3. g[R] = k[R]
  BY <1>1, <1>2, SumsAgree
<1>4. SumFunctionOnSet(f, R) = g[R]
  BY <1>1, SumOnIs
<1>5. SumFunctionOnSet(h, R) = k[R]
  BY <1>2, SumOnIs
<1> QED BY <1>3, <1>4, <1>5

LEMMA SumSplits ==
  ASSUME NEW f, NEW D, D = DOMAIN f, IsFiniteSet(D), \A y \in D : f[y] \in Int, NEW x, NEW R, R = D \ {x}
  PROVE  /\ SumFunctionOnSet(f, R) \in Int
         /\ SumFunction(f) = SumFunctionOnSet(f, R) + (IF x \in D THEN f[x] ELSE 0)
<1>1. IsFiniteSet(R)
  BY FS_Subset
<1>2. SumFunctionOnSet(f, R) \in Int
  <2>1. \A y \in R : f[y] \in Int
    OBVIOUS
  <2> QED BY ONLY <1>1, <2>1, SumIsInt
<1>3. SumFunction(f) = SumFunctionOnSet(f, D)
  BY DEF SumFunction
<1>4. CASE x \notin D
  <2>1. R = D
    BY <1>4
  <2>2. SumFunctionOnSet(f, R) = SumFunctionOnSet(f, D)
    BY ONLY <2>1
  <2> QED BY ONLY <1>2, <1>3, <1>4, <2>2
<1>5. CASE x \in D
  <2>1. PICK g : IsSums(g, f, D)
    BY SumsExist
  <2>2. R \in SUBSET D /\ x \notin R /\ R \cup {x} = D
    BY <1>5
  <2>3. SumFunctionOnSet(f, D) = g[D]
    BY <2>1, SumOnIs
  <2>4. SumFunctionOnSet(f, R) = g[R]
    <3>1. \A y \in R : f[y] \in Int
      BY <2>2
    <3> QED BY ONLY <1>1, <2>1, <2>2, <3>1, SumOnIs
  <2>5. g[R \cup {x}] = g[R] + f[x]
    BY ONLY <1>5, <2>1, <2>2, IsFiniteSet(D), \A y \in D : f[y] \in Int, SumsAdd
  <2> QED BY <1>2, <1>3, <1>5, <2>2, <2>3, <2>4, <2>5
<1> QED BY <1>2, <1>4, <1>5

LEMMA SumIsNat ==
  ASSUME NEW R, IsFiniteSet(R), NEW f, \A x \in R : f[x] \in Nat
  PROVE  SumFunctionOnSet(f, R) \in Nat
<1>1. PICK g : IsSums(g, f, R)
  BY SumsExist
<1> DEFINE P == {S \in SUBSET R : g[S] \in Nat}
<1>2. {} \in P
  BY <1>1 DEF IsSums
<1>3. ASSUME NEW S \in SUBSET R, S # {}, \A x \in S : S \ {x} \in P PROVE S \in P
  <2>1. One(S) \in S
    BY <1>3 DEF One
  <2>2. g[S \ {One(S)}] \in Nat /\ f[One(S)] \in Nat
    BY <1>3, <2>1
  <2>3. g[S] = f[One(S)] + g[S \ {One(S)}]
    BY <1>1, <1>3 DEF IsSums
  <2> QED BY <2>2, <2>3
<1>4. P \in SUBSET (SUBSET R)
  OBVIOUS
<1>5. P = SUBSET R
  <2> HIDE DEF P
  <2> QED BY <1>2, <1>3, <1>4, BySize
<1>6. SumFunctionOnSet(f, R) = g[R]
  BY <1>1, SumOnIs
<1> QED BY <1>5, <1>6

-----------------------------------------------------------------------------
(* The ways of the texts, and what a way takes.                            *)

TextsAtHand == Texts \cup {<<>>}

\* w is the way of text t when the links are nx.
IsWay(w, nx, t) ==
  /\ w \in [0 .. BitsOf(t) -> Nodes] /\ w[0] = nx[0][1]
  /\ \A p \in 1 .. BitsOf(t) : w[p] = nx[w[p - 1]][BitAt(t, p - 1)]

LEMMA BitsOfType == \A t \in TextsAtHand : BitsOf(t) \in Nat
<1> TAKE t \in TextsAtHand
<1>1. t \in Seq(Bits)
  <2>1. <<>> \in Seq(Bits)
    OBVIOUS
  <2> QED BY <2>1, TextsAssumption DEF TextsAtHand
<1> QED BY <1>1, GranuleAssumption DEF BitsOf

LEMMA BitHere == \A t \in TextsAtHand : \A p \in 0 .. BitsOf(t) - 1 : BitAt(t, p) \in Bits
<1> TAKE t \in TextsAtHand
<1> TAKE p \in 0 .. BitsOf(t) - 1
<1>1. BitsOf(t) \in Nat
  BY BitsOfType
<1>2. p \in Nat /\ p < BitsOf(t)
  BY <1>1
<1> QED BY <1>2, BitAtType DEF TextsAtHand

\* Two ways that are led alike for the first q bits go alike.
LEMMA WaysGoAlike ==
  ASSUME NEW t \in TextsAtHand, NEW w, NEW v, NEW nx, NEW ny, IsWay(w, nx, t), IsWay(v, ny, t),
         NEW q \in Nat, q <= BitsOf(t), nx[0][1] = ny[0][1],
         \A p \in 0 .. q - 1 : ny[w[p]][BitAt(t, p)] = nx[w[p]][BitAt(t, p)]
  PROVE  \A p \in 0 .. q : v[p] = w[p]
<1>0. BitsOf(t) \in Nat
  BY BitsOfType
<1> DEFINE Bad == {p \in 0 .. q : v[p] # w[p]}
<1>1. SUFFICES ASSUME Bad # {} PROVE FALSE
  OBVIOUS
<1>2. PICK p \in Bad : \A r \in Bad : p <= r
  <2>1. Bad \in SUBSET Nat
    OBVIOUS
  <2> HIDE DEF Bad
  <2> QED BY <1>1, <2>1, SmallestNumber
<1>3. p \in 0 .. q /\ v[p] # w[p]
  OBVIOUS
<1>4. p # 0
  BY <1>3 DEF IsWay
<1>5. p - 1 \in 0 .. q - 1 /\ p - 1 \in 0 .. q /\ ~(p <= p - 1) /\ p \in 1 .. BitsOf(t)
  BY <1>0, <1>3, <1>4
<1>6. v[p - 1] = w[p - 1]
  BY <1>2, <1>5
<1>7. w[p] = nx[w[p - 1]][BitAt(t, p - 1)] /\ v[p] = ny[v[p - 1]][BitAt(t, p - 1)]
  BY <1>5 DEF IsWay
<1> HIDE DEF Bad
<1> QED BY <1>3, <1>5, <1>6, <1>7

\* The links lead each text along one way.
LEMMA WayExists ==
  ASSUME NEW nx \in [Nodes -> [Bits -> Nodes]], NEW t \in TextsAtHand
  PROVE  \E w : IsWay(w, nx, t)
<1>0. BitsOf(t) \in Nat /\ 0 \in Nodes /\ 1 \in Bits
  BY BitsOfType, NodesLenAssumption DEF Nodes, Bits
<1> DEFINE L == BitsOf(t)
           Upto(w, n) == /\ w \in [0 .. L -> Nodes] /\ w[0] = nx[0][1]
                         /\ \A p \in 1 .. n : w[p] = nx[w[p - 1]][BitAt(t, p - 1)]
           Missing == {n \in 0 .. L : ~ \E w : Upto(w, n)}
<1> SUFFICES ASSUME ~ \E w : IsWay(w, nx, t) PROVE FALSE
  OBVIOUS
<1>1. Missing # {}
  <2>0. \A w : Upto(w, L) => IsWay(w, nx, t)
    BY DEF IsWay
  <2>1. L \in 0 .. L /\ ~ \E w : Upto(w, L)
    <3> HIDE DEF Upto
    <3> QED BY <1>0, <2>0
  <2> HIDE DEF Upto
  <2> QED BY <2>1
<1>2. PICK n \in Missing : \A r \in Missing : n <= r
  <2>1. Missing \in SUBSET Nat
    OBVIOUS
  <2> HIDE DEF Missing
  <2> QED BY <1>1, <2>1, SmallestNumber
<1>3. n \in 0 .. L /\ ~ \E w : Upto(w, n)
  OBVIOUS
<1>4. n # 0
  <2> DEFINE z == [p \in 0 .. L |-> nx[0][1]]
  <2>1. z \in [0 .. L -> Nodes] /\ z[0] = nx[0][1]
    BY <1>0
  <2>2. Upto(z, 0)
    BY <2>1
  <2> HIDE DEF Upto, z
  <2> QED BY <1>3, <2>2
<1>5. n - 1 \in 0 .. L /\ ~(n <= n - 1)
  BY <1>0, <1>3, <1>4
<1>6. n - 1 \notin Missing
  <2> HIDE DEF Missing
  <2> QED BY <1>2, <1>5
<1>7. PICK w : Upto(w, n - 1)
  <2> HIDE DEF Upto
  <2> QED BY <1>5, <1>6
<1> DEFINE u == [w EXCEPT ![n] = nx[w[n - 1]][BitAt(t, n - 1)]]
<1>8. nx[w[n - 1]][BitAt(t, n - 1)] \in Nodes
  <2>1. BitAt(t, n - 1) \in Bits
    BY <1>0, <1>3, <1>4, BitHere
  <2>2. w[n - 1] \in Nodes
    BY <1>5, <1>7
  <2> QED BY <2>1, <2>2
<1>9. u \in [0 .. L -> Nodes] /\ u[0] = nx[0][1]
  BY <1>3, <1>4, <1>7, <1>8
<1>10. ASSUME NEW p \in 1 .. n PROVE u[p] = nx[u[p - 1]][BitAt(t, p - 1)]
  <2>1. p \in 0 .. L /\ p - 1 \in 0 .. L /\ p - 1 # n
    BY <1>0, <1>3
  <2>2. u[p - 1] = w[p - 1]
    BY <1>7, <2>1
  <2>3. CASE p = n
    BY <1>7, <2>1, <2>2, <2>3
  <2>4. CASE p # n
    <3>1. p \in 1 .. n - 1 /\ u[p] = w[p]
      BY <1>3, <1>7, <2>1, <2>4
    <3> QED BY <1>7, <2>2, <3>1
  <2> QED BY <2>3, <2>4
<1>11. Upto(u, n)
  BY <1>9, <1>10
<1> HIDE DEF Upto, u
<1> QED BY <1>3, <1>11

\* All of them, as one function of the state.
WayOf == [t \in TextsAtHand |-> Way(t)]
WaysLead == \A t \in TextsAtHand : IsWay(WayOf[t], next, t)

LinksTyped == next \in [Nodes -> [Bits -> Nodes]]

LEMMA WaysDoLead == LinksTyped => WaysLead
<1> SUFFICES ASSUME next \in [Nodes -> [Bits -> Nodes]], NEW t \in TextsAtHand PROVE IsWay(Way(t), next, t)
  BY DEF LinksTyped, WaysLead, WayOf
<1>0. BitsOf(t) \in Nat
  BY BitsOfType
<1> DEFINE L == BitsOf(t)
           Body(w) == [p \in 0 .. L |-> IF p = 0 THEN next[0][1] ELSE next[w[p - 1]][BitAt(t, p - 1)]]
           at == CHOOSE w : w = Body(w)
<1>1. PICK w : IsWay(w, next, t)
  BY WayExists
<1>2. w = Body(w)
  <2>1. \A p \in 0 .. L : w[p] = IF p = 0 THEN next[0][1] ELSE next[w[p - 1]][BitAt(t, p - 1)]
    BY <1>0, <1>1 DEF IsWay
  <2>2. w = [p \in 0 .. L |-> w[p]]
    BY <1>1 DEF IsWay
  <2> QED BY <2>1, <2>2
<1>3. at = Body(at)
  <2> HIDE DEF Body
  <2> QED BY <1>2
<1>4. Way(t) = at
  BY DEF Way
<1>5. \A p \in 0 .. L : at[p] = IF p = 0 THEN next[0][1] ELSE next[at[p - 1]][BitAt(t, p - 1)]
  <2> TAKE p \in 0 .. L
  <2>1. at[p] = Body(at)[p]
    <3> HIDE DEF at, Body
    <3> QED BY ONLY <1>3
  <2> HIDE DEF at
  <2> QED BY <2>1
<1> HIDE DEF at
<1>6. \A p \in 0 .. L : at[p] = w[p]
  <2> DEFINE Bad == {p \in 0 .. L : at[p] # w[p]}
  <2>1. SUFFICES ASSUME Bad # {} PROVE FALSE
    OBVIOUS
  <2>2. PICK p \in Bad : \A r \in Bad : p <= r
    <3>1. Bad \in SUBSET Nat
      BY <1>0
    <3> HIDE DEF Bad
    <3> QED BY <2>1, <3>1, SmallestNumber
  <2>3. p \in 0 .. L /\ at[p] # w[p]
    OBVIOUS
  <2>4. p # 0
    BY <1>0, <1>1, <1>5, <2>3 DEF IsWay
  <2>5. p - 1 \in 0 .. L /\ ~(p <= p - 1) /\ p \in 1 .. L
    BY <1>0, <2>3, <2>4
  <2>6. at[p - 1] = w[p - 1]
    BY <2>2, <2>5
  <2> HIDE DEF Bad
  <2> QED BY <1>1, <1>5, <2>3, <2>4, <2>5, <2>6 DEF IsWay
<1>7. at = w
  <2>1. at = [p \in 0 .. L |-> at[p]]
    BY <1>3
  <2>2. w = [p \in 0 .. L |-> w[p]]
    BY <1>1 DEF IsWay
  <2> QED BY <1>6, <2>1, <2>2
<1> QED BY <1>1, <1>4, <1>7

-----------------------------------------------------------------------------
(* How often a way takes a bit at a node, and what documents take together. *)

\* The same of the first q bits of a text.
TakenAt(w, t, q, n, b) == {p \in 0 .. q - 1 : w[p] = n /\ BitAt(t, p) = b}
TakesOf(w, t, q, n, b) == Cardinality(TakenAt(w, t, q, n, b))

LEMMA TakesType ==
  ASSUME NEW w, NEW t, NEW q \in Nat, NEW n, NEW b
  PROVE  /\ IsFiniteSet(TakenAt(w, t, q, n, b))
         /\ TakesOf(w, t, q, n, b) \in Nat
<1>1. IsFiniteSet(0 .. q - 1)
  BY FS_Interval
<1>2. IsFiniteSet(TakenAt(w, t, q, n, b))
  BY <1>1, FS_Subset DEF TakenAt
<1> QED BY <1>2, FS_CardinalityType DEF TakesOf

LEMMA TakesNone == ASSUME NEW w, NEW t, NEW n, NEW b PROVE TakesOf(w, t, 0, n, b) = 0
<1>1. TakenAt(w, t, 0, n, b) = {}
  BY DEF TakenAt
<1> QED BY <1>1, FS_EmptySet DEF TakesOf

LEMMA TakesOneMore ==
  ASSUME NEW w, NEW t, NEW q \in Nat, NEW n, NEW b
  PROVE  TakesOf(w, t, q + 1, n, b) =
           TakesOf(w, t, q, n, b) + (IF w[q] = n /\ BitAt(t, q) = b THEN 1 ELSE 0)
<1> DEFINE S == TakenAt(w, t, q, n, b)
           T == TakenAt(w, t, q + 1, n, b)
<1>1. IsFiniteSet(S) /\ Cardinality(S) \in Nat /\ q \notin S
  <2>1. IsFiniteSet(S) /\ Cardinality(S) \in Nat
    BY TakesType DEF TakesOf
  <2>2. q \notin S
    BY DEF TakenAt
  <2> QED BY <2>1, <2>2
<1>2. T = IF w[q] = n /\ BitAt(t, q) = b THEN S \cup {q} ELSE S
  BY DEF TakenAt
<1>3. Cardinality(S \cup {q}) = Cardinality(S) + 1
  <2> HIDE DEF S
  <2> QED BY <1>1, FS_AddElement
<1>4. TakesOf(w, t, q + 1, n, b) = Cardinality(T) /\ TakesOf(w, t, q, n, b) = Cardinality(S)
  BY DEF TakesOf
<1> HIDE DEF S, T
<1> QED BY <1>1, <1>2, <1>3, <1>4

LEMMA TakesMore ==
  ASSUME NEW w, NEW t, NEW q \in Nat, NEW r \in Nat, q <= r, NEW n, NEW b
  PROVE  TakesOf(w, t, q, n, b) <= TakesOf(w, t, r, n, b)
<1>1. TakenAt(w, t, q, n, b) \subseteq TakenAt(w, t, r, n, b)
  BY DEF TakenAt
<1>2. IsFiniteSet(TakenAt(w, t, r, n, b))
  BY TakesType
<1> QED BY <1>1, <1>2, FS_Subset DEF TakesOf

LEMMA TakesSame ==
  ASSUME NEW w, NEW v, NEW t, NEW q \in Nat, \A p \in 0 .. q - 1 : v[p] = w[p], NEW n, NEW b
  PROVE  TakesOf(v, t, q, n, b) = TakesOf(w, t, q, n, b)
<1>1. TakenAt(v, t, q, n, b) = TakenAt(w, t, q, n, b)
  BY DEF TakenAt
<1> QED BY <1>1 DEF TakesOf

\* The texts that a tally counts, and what they take: each as often as it was
\* learned.
Counted(tl) == {x \in Texts : tl[x] > 0}
Each(W, tl, n, b) == [t \in Counted(tl) |-> tl[t] * TakesOf(W[t], t, BitsOf(t), n, b)]
Load(W, tl, n, b) == SumFunction(Each(W, tl, n, b))

LEMMA EachType ==
  ASSUME NEW W, NEW tl \in [Texts -> Nat], NEW n, NEW b
  PROVE  /\ DOMAIN Each(W, tl, n, b) = Counted(tl)
         /\ \A t \in Counted(tl) : /\ tl[t] \in Nat \ {0} /\ TakesOf(W[t], t, BitsOf(t), n, b) \in Nat
                                   /\ Each(W, tl, n, b)[t] \in Nat
                                   /\ TakesOf(W[t], t, BitsOf(t), n, b) <= Each(W, tl, n, b)[t]
<1>1. DOMAIN Each(W, tl, n, b) = Counted(tl)
  BY DEF Each
<1>2. ASSUME NEW t \in Counted(tl)
      PROVE  /\ tl[t] \in Nat \ {0} /\ TakesOf(W[t], t, BitsOf(t), n, b) \in Nat
             /\ Each(W, tl, n, b)[t] \in Nat
             /\ TakesOf(W[t], t, BitsOf(t), n, b) <= Each(W, tl, n, b)[t]
  <2> DEFINE k == tl[t]
             c == TakesOf(W[t], t, BitsOf(t), n, b)
  <2>1. k \in Nat \ {0}
    BY DEF Counted
  <2>2. c \in Nat
    BY BitsOfType, TakesType DEF Counted, TextsAtHand
  <2>3. Each(W, tl, n, b)[t] = k * c
    BY DEF Each
  <2> HIDE DEF k, c
  <2>4. k * c \in Nat /\ c <= k * c
    <3>1. k * c = (k - 1) * c + c /\ (k - 1) * c \in Nat
      BY <2>1, <2>2
    <3> QED BY <2>2, <3>1
  <2> QED BY <2>1, <2>2, <2>3, <2>4 DEF k, c
<1> QED BY <1>1, <1>2

LEMMA LoadSame ==
  ASSUME NEW W, NEW V, NEW tl, \A t \in Counted(tl) : V[t] = W[t], NEW n, NEW b
  PROVE  Load(V, tl, n, b) = Load(W, tl, n, b)
<1>1. Each(V, tl, n, b) = Each(W, tl, n, b)
  BY DEF Each
<1> QED BY <1>1 DEF Load

LEMMA LoadOfNone ==
  ASSUME NEW W, NEW tl, Counted(tl) = {}, NEW n, NEW b PROVE Load(W, tl, n, b) = 0
<1>1. DOMAIN Each(W, tl, n, b) = {}
  BY DEF Each
<1>2. PICK g : IsSums(g, Each(W, tl, n, b), {})
  BY SumsExist, FS_EmptySet
<1>3. SumFunctionOnSet(Each(W, tl, n, b), {}) = g[{}]
  BY <1>2, SumOnIs, FS_EmptySet
<1> QED BY <1>1, <1>2, <1>3 DEF Load, SumFunction, IsSums

LEMMA LoadAtLeast ==
  ASSUME NEW W, NEW tl \in [Texts -> Nat], IsFiniteSet(Counted(tl)), NEW t \in Counted(tl), NEW n, NEW b
  PROVE  /\ Load(W, tl, n, b) \in Nat
         /\ TakesOf(W[t], t, BitsOf(t), n, b) <= Load(W, tl, n, b)
<1> DEFINE f == Each(W, tl, n, b)
           D == Counted(tl)
           R == D \ {t}
<1>1. /\ D = DOMAIN f /\ \A x \in D : f[x] \in Nat
      /\ TakesOf(W[t], t, BitsOf(t), n, b) <= f[t] /\ TakesOf(W[t], t, BitsOf(t), n, b) \in Nat
  BY EachType
<1>2. IsFiniteSet(R) /\ R \subseteq D
  BY FS_Subset
<1>3. Load(W, tl, n, b) = SumFunction(f)
  BY DEF Load
<1> HIDE DEF f, D
<1>4. SumFunction(f) = SumFunctionOnSet(f, R) + f[t]
  <2>1. D = DOMAIN f /\ IsFiniteSet(D) /\ t \in D /\ \A x \in D : f[x] \in Int
    BY <1>1 DEF D
  <2>2. R = D \ {t}
    OBVIOUS
  <2> HIDE DEF R
  <2>3. SumFunction(f) = SumFunctionOnSet(f, R) + (IF t \in D THEN f[t] ELSE 0)
    BY ONLY <2>1, <2>2, SumSplits
  <2> QED BY <2>1, <2>3
<1> HIDE DEF R
<1>5. SumFunctionOnSet(f, R) \in Nat
  BY <1>1, <1>2, SumIsNat
<1>6. f[t] \in Nat
  BY <1>1 DEF D
<1> QED BY <1>1, <1>3, <1>4, <1>5, <1>6

LEMMA LoadType ==
  ASSUME NEW W, NEW tl \in [Texts -> Nat], IsFiniteSet(Counted(tl)), NEW n, NEW b
  PROVE  Load(W, tl, n, b) \in Nat
<1>1. CASE Counted(tl) = {}
  BY <1>1, LoadOfNone
<1>2. CASE Counted(tl) # {}
  BY <1>2, LoadAtLeast
<1> QED BY <1>1, <1>2

\* One text learned or erased once more adds or takes away what it takes.
LEMMA LoadChanges ==
  ASSUME NEW W, NEW tl \in [Texts -> Nat], IsFiniteSet(Counted(tl)), NEW t \in Texts,
         NEW ul \in [Texts -> Nat], \A x \in Texts : x # t => ul[x] = tl[x], NEW n, NEW b
  PROVE  /\ IsFiniteSet(Counted(ul))
         /\ Load(W, ul, n, b) = Load(W, tl, n, b) + (ul[t] - tl[t]) * TakesOf(W[t], t, BitsOf(t), n, b)
<1> DEFINE f == Each(W, tl, n, b)
           h == Each(W, ul, n, b)
           D == Counted(tl)
           E == Counted(ul)
           R == D \ {t}
           c == TakesOf(W[t], t, BitsOf(t), n, b)
           d == ul[t] - tl[t]
<1>1. ul \in [Texts -> Nat] /\ \A x \in Texts : x # t => ul[x] = tl[x]
  OBVIOUS
<1>2. E \ {t} = R /\ E \subseteq D \cup {t}
  BY <1>1 DEF Counted
<1>3. IsFiniteSet(R) /\ IsFiniteSet(E)
  <2>1. IsFiniteSet(D \cup {t})
    BY FS_AddElement
  <2> QED BY <1>2, <2>1, FS_Subset
<1>4. c \in Nat
  BY BitsOfType, TakesType DEF TextsAtHand
<1>5. /\ D = DOMAIN f /\ E = DOMAIN h
      /\ \A x \in D : f[x] \in Nat
      /\ \A x \in E : h[x] \in Nat
      /\ \A x \in R : h[x] = f[x]
  <2>1. \A x \in R : x \in D /\ x \in E /\ ul[x] = tl[x]
    BY <1>1, <1>2 DEF Counted
  <2>2. ASSUME NEW x \in R PROVE h[x] = f[x]
    <3>1. h[x] = ul[x] * TakesOf(W[x], x, BitsOf(x), n, b)
      BY <2>1 DEF Each
    <3>2. f[x] = tl[x] * TakesOf(W[x], x, BitsOf(x), n, b)
      BY <2>1 DEF Each
    <3> QED BY <2>1, <3>1, <3>2
  <2>3. D = DOMAIN f /\ \A x \in D : f[x] \in Nat
    BY EachType
  <2>4. E = DOMAIN h /\ \A x \in E : h[x] \in Nat
    <3> HIDE DEF h, E
    <3> QED BY <1>1, EachType DEF h, E
  <2> QED BY <2>2, <2>3, <2>4
<1>6. (IF t \in D THEN f[t] ELSE 0) = tl[t] * c
  <2>1. CASE t \in D
    BY <2>1 DEF Each
  <2>2. CASE t \notin D
    <3>1. tl[t] = 0
      BY <2>2 DEF Counted
    <3> QED BY <1>4, <2>2, <3>1
  <2> QED BY <2>1, <2>2
<1>7. (IF t \in E THEN h[t] ELSE 0) = ul[t] * c
  <2>1. CASE t \in E
    BY <2>1 DEF Each
  <2>2. CASE t \notin E
    <3>1. ul[t] = 0
      BY <1>1, <2>2 DEF Counted
    <3> QED BY <1>4, <2>2, <3>1
  <2> QED BY <2>1, <2>2
<1>8. ul[t] * c = tl[t] * c + d * c
  <2>1. tl[t] \in Nat /\ d \in Int /\ ul[t] = tl[t] + d
    OBVIOUS
  <2>2. (tl[t] + d) * c = tl[t] * c + d * c
    <3> HIDE DEF c, d
    <3> QED BY <1>4, <2>1
  <2> HIDE DEF c, d
  <2> QED BY <2>1, <2>2
<1>9. Load(W, tl, n, b) = SumFunction(f) /\ Load(W, ul, n, b) = SumFunction(h)
  BY DEF Load
<1>10. IsFiniteSet(D)
  OBVIOUS
<1>15. tl[t] * c \in Int /\ d * c \in Int
  BY <1>4
<1> HIDE DEF f, h, D, E, R, c, d
<1>11. R = D \ {t} /\ R = E \ {t}
  BY <1>2 DEF R
<1>12. /\ SumFunctionOnSet(f, R) \in Int
       /\ SumFunction(f) = SumFunctionOnSet(f, R) + (IF t \in D THEN f[t] ELSE 0)
  <2>1. D = DOMAIN f /\ IsFiniteSet(D) /\ \A x \in D : f[x] \in Int
    BY <1>5, <1>10 DEF D
  <2>2. R = D \ {t}
    BY <1>11
  <2>3. SumFunctionOnSet(f, R) \in Int
    BY ONLY <2>1, <2>2, SumSplits
  <2>4. SumFunction(f) = SumFunctionOnSet(f, R) + (IF t \in D THEN f[t] ELSE 0)
    BY ONLY <2>2, <2>1, SumSplits
  <2> QED BY <2>3, <2>4
<1>13. SumFunction(h) = SumFunctionOnSet(h, R) + (IF t \in E THEN h[t] ELSE 0)
  <2>1. E = DOMAIN h /\ IsFiniteSet(E) /\ \A x \in E : h[x] \in Int
    BY <1>3, <1>5
  <2>2. R = E \ {t}
    BY <1>11
  <2> QED BY ONLY <2>1, <2>2, SumSplits
<1>14. SumFunctionOnSet(h, R) = SumFunctionOnSet(f, R)
  <2>1. IsFiniteSet(R) /\ \A x \in R : f[x] \in Int /\ h[x] = f[x]
    BY <1>3, <1>5 DEF R
  <2> QED BY ONLY <2>1, SumOfSame
<1>16. Load(W, ul, n, b) = Load(W, tl, n, b) + d * c
  <2>1. SumFunction(f) = SumFunctionOnSet(f, R) + tl[t] * c
    BY <1>6, <1>12
  <2>2. SumFunction(h) = SumFunctionOnSet(f, R) + ul[t] * c
    BY <1>7, <1>13, <1>14
  <2> QED BY <1>8, <1>9, <1>12, <1>15, <2>1, <2>2
<1> QED BY <1>3, <1>16 DEF E, c, d

-----------------------------------------------------------------------------
(* The counts and the ways that were learned.                              *)

\* The first q bits of a text lead along nodes that are in use.
Open(w, q, free) == \A p \in 0 .. q : w[p] \in Nodes \ {0} /\ (free = 0 \/ w[p] < free)

\* The ways of the documents are open to their ends.
OpenWays ==
  /\ IsFiniteSet(Counted(tally))
  /\ \A t \in Counted(tally) : Open(WayOf[t], BitsOf(t), Free)

\* A learn or erase call goes along the way of its text.
Learning == pc # "idle" /\ call # "classify"
OnTheWay == Learning =>
  pos <= BitsOf(text) /\ Open(WayOf[text], pos, Free) /\ WayOf[text][pos] = cur

\* What such a call has counted so far: the bit at hand too, if the node was
\* visited and not yet left.
CountedBits == IF pc = "find" /\ for \in {"visit", "link"} THEN pos + 1 ELSE pos
Meanwhile(n, b) == IF Learning THEN sense * TakesOf(WayOf[text], text, CountedBits, n, b) ELSE 0
CountsAddUp == \A n \in Nodes \ {0}, b \in Bits :
  count[n][b] = Load(WayOf, tally, n, b) + Meanwhile(n, b)

\* A document that is classified is never off its way.
KnownWay == call = "classify" /\ tally[text] > 0 =>
  pc = "bit" /\ firjumps = 0 /\ pos <= BitsOf(text) /\ WayOf[text][pos] = cur

\* A link is looked for only where there is none.
NoSuccessor == pc = "find" /\ for = "link" => ~HasSuccessor

TrafficInv == OpenWays /\ OnTheWay /\ CountsAddUp /\ KnownWay /\ NoSuccessor

\* What an erased document would take away was counted when it was learned.
LEMMA NothingIsOwed == BEInv /\ TrafficInv => ErasesWhatIsThere
<1> SUFFICES ASSUME BEInv, TrafficInv, pc = "bit", pos < BitsOf(text), call = "erase"
             PROVE  count[cur][alph] > 0
  BY DEF ErasesWhatIsThere
<1>1. /\ cur \in Nodes \ {0} /\ text \in Texts /\ text \in TextsAtHand /\ tally[text] > 0 /\ pos \in Nat
      /\ tally \in [Texts -> Nat] /\ alph \in Bits
  BY FirAfterHere DEF BEInv, TypeOK, CallsOrder, TextsAtHand
<1>2. text \in Counted(tally)
  BY <1>1 DEF Counted
<1> DEFINE w == WayOf[text]
           Some(q) == TakesOf(w, text, q, cur, alph)
<1>3. w[pos] = cur /\ IsFiniteSet(Counted(tally))
  BY DEF TrafficInv, OnTheWay, OpenWays, Learning
<1>4. count[cur][alph] = Load(WayOf, tally, cur, alph) - Some(pos)
  <2>1. count[cur][alph] = Load(WayOf, tally, cur, alph) + Meanwhile(cur, alph)
    BY <1>1 DEF TrafficInv, CountsAddUp
  <2>2. Meanwhile(cur, alph) = (-1) * Some(pos)
    <3>1. Learning /\ CountedBits = pos /\ sense = -1
      BY DEF Learning, CountedBits, sense
    <3> QED BY <3>1 DEF Meanwhile
  <2>3. Some(pos) \in Nat /\ Load(WayOf, tally, cur, alph) \in Nat
    BY <1>1, <1>3, TakesType, LoadType
  <2> HIDE DEF Some
  <2> QED BY <2>1, <2>2, <2>3
<1>5. Load(WayOf, tally, cur, alph) \in Nat /\ Some(BitsOf(text)) <= Load(WayOf, tally, cur, alph)
  BY <1>1, <1>2, <1>3, LoadAtLeast
<1>6. Some(pos + 1) = Some(pos) + 1 /\ Some(pos) \in Nat
  <2>1. BitAt(text, pos) = alph
    BY DEF alph
  <2>2. Some(pos + 1) = Some(pos) + (IF w[pos] = cur /\ BitAt(text, pos) = alph THEN 1 ELSE 0)
    BY <1>1, TakesOneMore
  <2>3. Some(pos) \in Nat
    BY <1>1, TakesType
  <2> HIDE DEF Some
  <2> QED BY <1>3, <2>1, <2>2, <2>3
<1>7. BitsOf(text) \in Nat /\ Some(BitsOf(text)) \in Nat
  BY <1>1, BitsOfType, TakesType
<1>8. Some(pos + 1) <= Some(BitsOf(text))
  <2>1. PICK q : q = pos + 1
    OBVIOUS
  <2>2. q \in Nat /\ q <= BitsOf(text)
    BY <1>1, <1>7, <2>1
  <2>3. Some(q) <= Some(BitsOf(text))
    BY <1>7, <2>2, TakesMore
  <2> QED BY <2>1, <2>3
<1> HIDE DEF Some
<1> QED BY <1>4, <1>5, <1>6, <1>7, <1>8

\* The links stay, and with them all ways.
LEMMA WaysStand ==
  ASSUME UNCHANGED next
  PROVE  /\ WayOf' = WayOf
         /\ Free' = Free
<1>1. WayOf' = WayOf
  BY DEF WayOf, Way
<1>2. Free' = Free
  BY DEF Free
<1> QED BY <1>1, <1>2

LEMMA InitTraffic == Init => TrafficInv
<1> SUFFICES ASSUME Init PROVE TrafficInv
  OBVIOUS
<1>1. Counted(tally) = {}
  BY DEF Init, Counted
<1>2. OpenWays
  BY <1>1, FS_EmptySet DEF OpenWays
<1>3. ~Learning /\ OnTheWay
  BY DEF Init, OnTheWay, Learning
<1>4. CountsAddUp
  <2>1. ASSUME NEW n \in Nodes \ {0}, NEW b \in Bits
        PROVE  count[n][b] = Load(WayOf, tally, n, b) + Meanwhile(n, b)
    <3>1. count[n][b] = 0 /\ Meanwhile(n, b) = 0
      BY <1>3 DEF Init, Meanwhile
    <3> QED BY <1>1, <3>1, LoadOfNone
  <2> QED BY <2>1 DEF CountsAddUp
<1>5. KnownWay /\ NoSuccessor
  BY DEF Init, KnownWay, NoSuccessor
<1> QED BY <1>2, <1>3, <1>4, <1>5 DEF TrafficInv

\* Steps that leave links, counts and tally as they are.
LEMMA QuietTraffic ==
  ASSUME TrafficInv, UNCHANGED <<next, count, tally>>,
         OnTheWay', KnownWay', NoSuccessor',
         \A n \in Nodes \ {0}, b \in Bits : Meanwhile(n, b)' = Meanwhile(n, b)
  PROVE  TrafficInv'
<1>1. WayOf' = WayOf /\ Free' = Free
  BY WaysStand
<1>2. OpenWays'
  BY <1>1 DEF TrafficInv, OpenWays
<1>3. CountsAddUp'
  BY <1>1 DEF TrafficInv, CountsAddUp
<1> QED BY <1>2, <1>3 DEF TrafficInv

LEMMA StandingTraffic ==
  ASSUME TrafficInv, UNCHANGED <<next, count, tally, call, text, pos, cur, firjumps>>,
         \/ UNCHANGED <<pc, for>>
         \/ pc = "find" /\ pc' = "find" /\ for \in {"visit", "link"} /\ for' = "link" /\ ~HasSuccessor
         \/ pc = "find" /\ pc' = "bit" /\ for = "grow"
         \/ pc = "bit" /\ pc' = "find" /\ for' = "jump" /\ call = "classify" /\ tally[text] = 0
  PROVE  TrafficInv'
<1>1. WayOf' = WayOf /\ Free' = Free
  BY WaysStand
<1>2. Learning' = Learning /\ (Learning => CountedBits' = CountedBits) /\ sense' = sense
  BY DEF Learning, CountedBits, sense
<1>3. ASSUME NEW n \in Nodes \ {0}, NEW b \in Bits PROVE Meanwhile(n, b)' = Meanwhile(n, b)
  BY <1>1, <1>2 DEF Meanwhile
<1>4. OnTheWay'
  BY <1>1, <1>2 DEF TrafficInv, OnTheWay
<1>5. KnownWay'
  BY <1>1 DEF TrafficInv, KnownWay
<1>6. NoSuccessor'
  <2>1. HasSuccessor' = HasSuccessor
    BY DEF HasSuccessor, alph
  <2> QED BY <2>1 DEF TrafficInv, NoSuccessor
<1> QED BY <1>3, <1>4, <1>5, <1>6, QuietTraffic

LEMMA BeginTraffic ==
  ASSUME BEInv, TrafficInv, pc = "idle", NEW t \in Texts, NEW what \in {"learn", "erase", "classify"},
         AtStart(t, what)
  PROVE  TrafficInv'
<1>1. /\ pc' = "bit" /\ call' = what /\ text' = t /\ pos' = 0 /\ cur' = next[0][1] /\ firjumps' = 0
      /\ UNCHANGED <<next, count, tally>>
  BY DEF AtStart, graph
<1>2. WayOf' = WayOf /\ Free' = Free
  BY <1>1, WaysStand
<1>3. t \in TextsAtHand /\ BitsOf(t) \in Nat
  BY BitsOfType DEF TextsAtHand
<1>4. WayOf[t][0] = next[0][1] /\ next[0][1] \in Nodes \ {0} /\ InUse(next[0][1])
  <2>1. IsWay(WayOf[t], next, t)
    BY <1>3, WaysDoLead DEF BEInv, TypeOK, LinksTyped, WaysLead
  <2> QED BY <2>1 DEF IsWay, BEInv, WaysStayInUse
<1>5. Open(WayOf[t], 0, Free)
  BY <1>4 DEF Open, InUse
<1>6. OnTheWay'
  BY <1>1, <1>2, <1>3, <1>4, <1>5 DEF OnTheWay
<1>7. KnownWay' /\ NoSuccessor'
  BY <1>1, <1>2, <1>3, <1>4 DEF KnownWay, NoSuccessor
<1>8. ASSUME NEW n \in Nodes \ {0}, NEW b \in Bits PROVE Meanwhile(n, b)' = Meanwhile(n, b)
  <2>1. Meanwhile(n, b) = 0
    BY DEF Meanwhile, Learning
  <2>2. CountedBits' = 0 /\ sense' \in {-1, 1}
    BY <1>1 DEF CountedBits, sense
  <2>3. TakesOf(WayOf[t], t, 0, n, b) = 0
    BY TakesNone
  <2>4. Meanwhile(n, b)' = IF Learning' THEN sense' * TakesOf(WayOf[t], t, 0, n, b) ELSE 0
    BY <1>1, <1>2, <2>2 DEF Meanwhile
  <2> QED BY <2>1, <2>2, <2>3, <2>4
<1> QED BY <1>1, <1>6, <1>7, <1>8, QuietTraffic

LEMMA EndClassifyTraffic == ASSUME BEInv, TrafficInv, EndClassify PROVE TrafficInv'
<1>1. pc' = "idle" /\ call = "classify" /\ call' = "learn" /\ UNCHANGED <<next, count, tally>>
  BY DEF EndClassify, Done, graph
<1>2. ~Learning /\ ~Learning'
  BY <1>1 DEF Learning
<1>3. OnTheWay' /\ KnownWay' /\ NoSuccessor'
  BY <1>1, <1>2 DEF OnTheWay, KnownWay, NoSuccessor
<1>4. \A n \in Nodes \ {0}, b \in Bits : Meanwhile(n, b)' = Meanwhile(n, b)
  BY <1>2 DEF Meanwhile
<1> QED BY <1>1, <1>3, <1>4, QuietTraffic

LEMMA EndLearnTraffic == ASSUME BEInv, TrafficInv, EndLearn PROVE TrafficInv'
<1>1. /\ pc = "bit" /\ ~ (pos < BitsOf(text)) /\ call # "classify" /\ pc' = "idle" /\ call' = "learn"
      /\ UNCHANGED <<next, count>> /\ tally' = [tally EXCEPT ![text] = @ + sense]
  BY DEF EndLearn, Done, MoreBits, graph
<1>2. WayOf' = WayOf /\ Free' = Free
  BY <1>1, WaysStand
<1>3. /\ text \in Texts /\ text \in TextsAtHand /\ tally \in [Texts -> Nat] /\ pos \in Nat
      /\ sense \in {-1, 1} /\ tally[text] + sense \in Nat
  BY <1>1 DEF BEInv, TypeOK, CallsOrder, sense, TextsAtHand
<1>4. Learning /\ CountedBits = pos /\ pos = BitsOf(text) /\ Open(WayOf[text], BitsOf(text), Free)
  <2>1. Learning /\ CountedBits = pos
    BY <1>1 DEF Learning, CountedBits
  <2>2. pos <= BitsOf(text) /\ Open(WayOf[text], pos, Free)
    BY <2>1 DEF TrafficInv, OnTheWay
  <2>3. pos = BitsOf(text)
    BY <1>1, <1>3, <2>2, BitsOfType
  <2> QED BY <2>1, <2>2, <2>3
<1>5. IsFiniteSet(Counted(tally))
  BY DEF TrafficInv, OpenWays
<1>6. IsFiniteSet(Counted(tally')) /\ \A n, b :
        Load(WayOf, tally', n, b) = Load(WayOf, tally, n, b) + sense * TakesOf(WayOf[text], text, BitsOf(text), n, b)
  <2>1. /\ tally \in [Texts -> Nat] /\ tally' \in [Texts -> Nat] /\ text \in Texts
        /\ \A x \in Texts : x # text => tally'[x] = tally[x]
    BY <1>1, <1>3
  <2>2. tally'[text] - tally[text] = sense
    BY <1>1, <1>3
  <2>3. ASSUME NEW n, NEW b
        PROVE  /\ IsFiniteSet(Counted(tally'))
               /\ Load(WayOf, tally', n, b) =
                    Load(WayOf, tally, n, b) + (tally'[text] - tally[text]) * TakesOf(WayOf[text], text, BitsOf(text), n, b)
    BY ONLY <1>5, <2>1, LoadChanges
  <2> QED BY <2>2, <2>3
<1>7. OpenWays'
  <2>1. ASSUME NEW t \in Counted(tally') PROVE Open(WayOf[t], BitsOf(t), Free)
    <3>1. CASE t = text
      BY <1>4, <3>1
    <3>2. CASE t # text
      <4>1. t \in Counted(tally)
        BY <1>1, <1>3, <2>1, <3>2 DEF Counted
      <4> QED BY <4>1 DEF TrafficInv, OpenWays
    <3> QED BY <3>1, <3>2
  <2> QED BY <1>2, <1>6, <2>1 DEF OpenWays
<1>8. OnTheWay' /\ KnownWay' /\ NoSuccessor' /\ ~Learning'
  BY <1>1 DEF OnTheWay, KnownWay, NoSuccessor, Learning
<1>9. CountsAddUp'
  <2>1. ASSUME NEW n \in Nodes \ {0}, NEW b \in Bits
        PROVE  count'[n][b] = Load(WayOf', tally', n, b) + Meanwhile(n, b)'
    <3> DEFINE c == sense * TakesOf(WayOf[text], text, BitsOf(text), n, b)
    <3>1. count[n][b] = Load(WayOf, tally, n, b) + Meanwhile(n, b) /\ Meanwhile(n, b) = c
      BY <1>4 DEF TrafficInv, CountsAddUp, Meanwhile
    <3>2. Load(WayOf, tally', n, b) = Load(WayOf, tally, n, b) + c
      BY <1>6
    <3>3. Meanwhile(n, b)' = 0
      BY <1>8 DEF Meanwhile
    <3>4. count[n][b] \in Int
      BY DEF BEInv, TypeOK
    <3> HIDE DEF c
    <3> QED BY <1>1, <1>2, <3>1, <3>2, <3>3, <3>4
  <2> QED BY <2>1 DEF CountsAddUp
<1> QED BY <1>7, <1>8, <1>9 DEF TrafficInv

\* The next node of the way of the text at hand.
LEMMA NextOfWay ==
  ASSUME BEInv, pc # "idle", pos < BitsOf(text), WayOf[text][pos] = cur
  PROVE  /\ text \in TextsAtHand /\ pos \in Nat /\ pos + 1 \in 1 .. BitsOf(text)
         /\ WayOf[text][pos + 1] = next[cur][alph] /\ alph \in Bits
<1>1. text \in TextsAtHand /\ pos \in Nat /\ alph \in Bits
  BY FirAfterHere DEF BEInv, TypeOK, TextsAtHand
<1>2. BitsOf(text) \in Nat
  BY <1>1, BitsOfType
<1>3. IsWay(WayOf[text], next, text)
  BY <1>1, WaysDoLead DEF BEInv, TypeOK, LinksTyped, WaysLead
<1>4. pos + 1 \in 1 .. BitsOf(text) /\ (pos + 1) - 1 = pos
  BY <1>1, <1>2
<1>5. WayOf[text][pos + 1] = next[WayOf[text][pos]][BitAt(text, pos)]
  BY <1>3, <1>4 DEF IsWay
<1> QED BY <1>1, <1>4, <1>5 DEF alph

LEMMA FollowTraffic == ASSUME BEInv, TrafficInv, Follow PROVE TrafficInv'
<1>1. /\ pc = "find" /\ for = "visit" /\ pc' = "bit" /\ call' = call /\ text' = text /\ cur' = next[cur][alph]
      /\ pos' = pos + 1 /\ cur' > 0 /\ UNCHANGED <<next, count, tally>>
  BY DEF Follow, Found, MoveTo, HasSuccessor, graph
<1>2. call # "classify" /\ pos < BitsOf(text) /\ cur \in Nodes \ {0} /\ InUse(cur)
  BY <1>1 DEF BEInv, TypeOK, CallsOrder
<1>3. WayOf' = WayOf /\ Free' = Free
  BY <1>1, WaysStand
<1>4. Learning /\ Learning' /\ CountedBits' = CountedBits /\ sense' = sense
  BY <1>1, <1>2 DEF Learning, CountedBits, sense
<1>5. Open(WayOf[text], pos, Free) /\ WayOf[text][pos] = cur
  BY <1>4 DEF TrafficInv, OnTheWay
<1>6. pos \in Nat /\ pos + 1 \in 1 .. BitsOf(text) /\ WayOf[text][pos + 1] = next[cur][alph] /\ alph \in Bits
  BY <1>1, <1>2, <1>5, NextOfWay
<1>7. next[cur][alph] \in Nodes \ {0} /\ InUse(next[cur][alph])
  <2>1. next[cur][alph] \in Nodes /\ InUse(next[cur][alph])
    BY <1>2, <1>6 DEF BEInv, TypeOK, WaysStayInUse
  <2> QED BY <1>1, <2>1
<1>8. Open(WayOf[text], pos + 1, Free)
  BY <1>5, <1>6, <1>7 DEF Open, InUse
<1>9. OnTheWay'
  BY <1>1, <1>3, <1>6, <1>8 DEF OnTheWay
<1>10. KnownWay' /\ NoSuccessor'
  BY <1>1, <1>2 DEF KnownWay, NoSuccessor
<1>11. \A n \in Nodes \ {0}, b \in Bits : Meanwhile(n, b)' = Meanwhile(n, b)
  BY <1>1, <1>3, <1>4 DEF Meanwhile
<1> QED BY <1>1, <1>9, <1>10, <1>11, QuietTraffic

LEMMA ClassifyBitTraffic == ASSUME BEInv, TrafficInv, ClassifyBit PROVE TrafficInv'
<1>1. /\ pc = "bit" /\ pc' = "bit" /\ call = "classify" /\ call' = call /\ text' = text /\ cur' = next[cur][alph]
      /\ pos' = pos + 1 /\ firjumps' = firjumps /\ pos < BitsOf(text) /\ UNCHANGED <<next, count, tally>>
  BY DEF ClassifyBit, MoreBits, MoveTo, graph
<1>2. WayOf' = WayOf /\ ~Learning /\ ~Learning'
  BY <1>1, WaysStand DEF Learning
<1>3. OnTheWay' /\ NoSuccessor'
  BY <1>1, <1>2 DEF OnTheWay, NoSuccessor
<1>4. KnownWay'
  <2>1. SUFFICES ASSUME tally[text] > 0
                 PROVE  firjumps = 0 /\ pos + 1 <= BitsOf(text) /\ WayOf[text][pos + 1] = next[cur][alph]
    BY <1>1, <1>2 DEF KnownWay
  <2>2. firjumps = 0 /\ WayOf[text][pos] = cur
    BY <1>1, <2>1 DEF TrafficInv, KnownWay
  <2> QED BY <1>1, <2>2, NextOfWay
<1>5. \A n \in Nodes \ {0}, b \in Bits : Meanwhile(n, b)' = Meanwhile(n, b)
  BY <1>2 DEF Meanwhile
<1> QED BY <1>1, <1>3, <1>4, <1>5, QuietTraffic

LEMMA JumpTraffic == ASSUME BEInv, TrafficInv, Jump PROVE TrafficInv'
<1>1. pc = "find" /\ pc' = "bit" /\ call = "classify" /\ call' = call /\ text' = text /\ UNCHANGED <<next, count, tally>>
  BY DEF Jump, Found, graph, BEInv, CallsOrder
<1>2. ~Learning /\ ~Learning'
  BY <1>1 DEF Learning
<1>3. OnTheWay' /\ NoSuccessor'
  BY <1>1, <1>2 DEF OnTheWay, NoSuccessor
<1>4. KnownWay'
  BY <1>1 DEF TrafficInv, KnownWay
<1>5. \A n \in Nodes \ {0}, b \in Bits : Meanwhile(n, b)' = Meanwhile(n, b)
  BY <1>2 DEF Meanwhile
<1> QED BY <1>1, <1>3, <1>4, <1>5, QuietTraffic

\* A classify call that is on the way of a document knows the next bit.
LEMMA LookForJumpTraffic == ASSUME BEInv, TrafficInv, LookForJump PROVE TrafficInv'
<1>1. /\ pc = "bit" /\ pc' = "find" /\ for' = "jump" /\ call = "classify" /\ pos < BitsOf(text) /\ ~Known
      /\ UNCHANGED <<next, count, tally, call, text, pos, cur, firjumps>>
  BY DEF LookForJump, MoreBits, Find, graph
<1>2. text \in Texts /\ tally \in [Texts -> Nat] /\ count \in [Nodes -> [Bits -> Nat]]
      /\ next \in [Nodes -> [Bits -> Nodes]]
  BY <1>1 DEF BEInv, TypeOK, CallsOrder
<1>3. ASSUME tally[text] > 0 PROVE FALSE
  <2>1. text \in Counted(tally) /\ IsFiniteSet(Counted(tally)) /\ Open(WayOf[text], BitsOf(text), Free)
    BY <1>2, <1>3 DEF Counted, TrafficInv, OpenWays
  <2>2. WayOf[text][pos] = cur
    BY <1>1, <1>3 DEF TrafficInv, KnownWay
  <2>3. /\ text \in TextsAtHand /\ pos \in Nat /\ pos + 1 \in 1 .. BitsOf(text) /\ BitsOf(text) \in Nat
        /\ WayOf[text][pos + 1] = next[cur][alph] /\ alph \in Bits
    BY <1>1, <2>2, NextOfWay, BitsOfType
  <2>4. cur \in Nodes \ {0} /\ next[cur][alph] \in Nodes \ {0}
    BY <1>1, <2>1, <2>2, <2>3 DEF Open
  <2>5. count[cur][alph] = Load(WayOf, tally, cur, alph)
    <3>1. count[cur][alph] = Load(WayOf, tally, cur, alph) + Meanwhile(cur, alph)
      BY <2>3, <2>4 DEF TrafficInv, CountsAddUp
    <3>2. Meanwhile(cur, alph) = 0 /\ Load(WayOf, tally, cur, alph) \in Nat
      BY <1>1, <1>2, <2>1, LoadType DEF Meanwhile, Learning
    <3> QED BY <3>1, <3>2
  <2> DEFINE Some(q) == TakesOf(WayOf[text], text, q, cur, alph)
  <2>6. Some(BitsOf(text)) <= Load(WayOf, tally, cur, alph)
    BY <1>2, <2>1, LoadAtLeast
  <2>7. Some(pos + 1) = Some(pos) + 1 /\ Some(pos) \in Nat
    <3>0. pos \in Nat
      BY <2>3
    <3>1. BitAt(text, pos) = alph
      BY DEF alph
    <3>2. Some(pos + 1) = Some(pos) + (IF WayOf[text][pos] = cur /\ BitAt(text, pos) = alph THEN 1 ELSE 0)
      BY ONLY <3>0, TakesOneMore
    <3>3. Some(pos) \in Nat
      BY <2>3, TakesType
    <3> HIDE DEF Some
    <3> QED BY <2>2, <3>1, <3>2, <3>3
  <2>8. Some(pos + 1) <= Some(BitsOf(text)) /\ Some(BitsOf(text)) \in Nat
    <3>1. PICK q : q = pos + 1
      OBVIOUS
    <3>2. q \in Nat /\ q <= BitsOf(text)
      BY <2>3, <3>1
    <3>3. Some(q) <= Some(BitsOf(text)) /\ Some(BitsOf(text)) \in Nat
      BY <2>3, <3>2, TakesMore, TakesType
    <3> QED BY <3>1, <3>3
  <2>9. count[cur][alph] >= 1
    <3>1. count[cur][alph] \in Nat
      BY <1>2, <2>3, <2>4
    <3> HIDE DEF Some
    <3> QED BY <2>5, <2>6, <2>7, <2>8, <3>1
  <2>10. Visits(cur) >= 1
    BY <1>2, <2>3, <2>4, <2>9 DEF Visits, Bits
  <2>11. next[cur][alph] >= 1
    BY <2>4, NodesLenAssumption DEF Nodes
  <2> QED BY <1>1, <2>9, <2>10, <2>11 DEF Known
<1>4. tally[text] = 0
  BY <1>2, <1>3
<1> QED BY <1>1, <1>4, StandingTraffic

LEMMA VisitTraffic == ASSUME BEInv, TrafficInv, Visit PROVE TrafficInv'
<1>1. /\ pc = "bit" /\ pos < BitsOf(text) /\ call # "classify" /\ pc' = "find" /\ for' = "visit"
      /\ UNCHANGED <<next, tally, call, text, pos, cur, firjumps>>
      /\ count' = [count EXCEPT ![cur][alph] = @ + sense]
  BY DEF Visit, MoreBits, Find, walk
<1>2. /\ cur \in Nodes \ {0} /\ text \in Texts /\ pos \in Nat /\ count \in [Nodes -> [Bits -> Nat]]
      /\ alph \in Bits /\ sense \in {-1, 1} /\ tally \in [Texts -> Nat]
  BY <1>1, FirAfterHere DEF BEInv, TypeOK, CallsOrder, sense
<1>3. WayOf' = WayOf /\ Free' = Free
  BY <1>1, WaysStand
<1>4. Learning /\ Learning' /\ CountedBits = pos /\ CountedBits' = pos + 1 /\ sense' = sense
  BY <1>1 DEF Learning, CountedBits, sense
<1>5. OpenWays'
  BY <1>1, <1>3 DEF TrafficInv, OpenWays
<1>6. OnTheWay'
  BY <1>1, <1>3, <1>4 DEF TrafficInv, OnTheWay
<1>7. KnownWay' /\ NoSuccessor'
  BY <1>1 DEF KnownWay, NoSuccessor
<1>8. ASSUME NEW n \in Nodes \ {0}, NEW b \in Bits
      PROVE  count'[n][b] = Load(WayOf', tally', n, b) + Meanwhile(n, b)'
  <2> DEFINE Some(q) == TakesOf(WayOf[text], text, q, n, b)
             one == IF n = cur /\ b = alph THEN 1 ELSE 0
  <2>1. count'[n][b] = count[n][b] + sense * one
    BY <1>1, <1>2
  <2>2. count[n][b] = Load(WayOf, tally, n, b) + sense * Some(pos)
    BY <1>4 DEF TrafficInv, CountsAddUp, Meanwhile
  <2>3. Meanwhile(n, b)' = sense * Some(pos + 1)
    BY <1>1, <1>3, <1>4 DEF Meanwhile
  <2>4. Some(pos + 1) = Some(pos) + one
    <3>1. WayOf[text][pos] = cur /\ BitAt(text, pos) = alph
      BY <1>4 DEF TrafficInv, OnTheWay, alph
    <3>2. pos \in Nat
      BY <1>2
    <3>3. Some(pos + 1) = Some(pos) + (IF WayOf[text][pos] = n /\ BitAt(text, pos) = b THEN 1 ELSE 0)
      BY ONLY <3>2, TakesOneMore
    <3> HIDE DEF Some
    <3> QED BY <3>1, <3>3
  <2>5. Some(pos) \in Nat /\ one \in Nat /\ count[n][b] \in Nat
    BY <1>2, TakesType
  <2>6. Load(WayOf, tally, n, b) \in Nat
    BY <1>2, LoadType DEF TrafficInv, OpenWays
  <2>7. sense * (Some(pos) + one) = sense * Some(pos) + sense * one
    <3> HIDE DEF Some, one
    <3> QED BY <1>2, <2>5
  <2> HIDE DEF Some, one
  <2> QED BY <1>1, <1>2, <1>3, <2>1, <2>2, <2>3, <2>4, <2>5, <2>6, <2>7
<1>9. CountsAddUp'
  BY <1>8 DEF CountsAddUp
<1> QED BY <1>5, <1>6, <1>7, <1>9 DEF TrafficInv

\* New links are made only where there were none.
LinksOnlyGrow ==
  /\ next \in [Nodes -> [Bits -> Nodes]] /\ next' \in [Nodes -> [Bits -> Nodes]]
  /\ next'[0][1] = next[0][1]
  /\ \A n \in Nodes \ {0}, b \in Bits : InUse(n) /\ next[n][b] # 0 => next'[n][b] = next[n][b]
  /\ \A n \in Nodes : InUse(n) => InUse(n)'

LEMMA OldWaysStay ==
  ASSUME LinksOnlyGrow, NEW t \in TextsAtHand, NEW q \in Nat, q <= BitsOf(t), Open(WayOf[t], q, Free)
  PROVE  /\ \A p \in 0 .. q : WayOf'[t][p] = WayOf[t][p]
         /\ Open(WayOf'[t], q, Free')
<1>1. IsWay(WayOf[t], next, t)
  BY WaysDoLead DEF LinksOnlyGrow, LinksTyped, WaysLead
<1>2. IsWay(WayOf'[t], next', t)
  <2>1. LinksTyped' => WaysLead'
    BY WaysDoLead, PTL
  <2> QED BY <2>1 DEF LinksOnlyGrow, LinksTyped, WaysLead
<1>3. BitsOf(t) \in Nat
  BY BitsOfType
<1>4. ASSUME NEW p \in 0 .. q - 1
      PROVE  next'[WayOf[t][p]][BitAt(t, p)] = next[WayOf[t][p]][BitAt(t, p)]
  <2>1. p \in 0 .. q /\ p + 1 \in 0 .. q /\ p \in 0 .. BitsOf(t) - 1 /\ p + 1 \in 1 .. BitsOf(t) /\ (p + 1) - 1 = p
    BY <1>3
  <2>2. WayOf[t][p] \in Nodes \ {0} /\ InUse(WayOf[t][p]) /\ WayOf[t][p + 1] # 0
    BY <2>1 DEF Open, InUse
  <2>3. WayOf[t][p + 1] = next[WayOf[t][p]][BitAt(t, p)]
    BY <1>1, <2>1 DEF IsWay
  <2>4. BitAt(t, p) \in Bits
    BY <2>1, BitHere
  <2> QED BY <2>2, <2>3, <2>4 DEF LinksOnlyGrow
<1>5. \A p \in 0 .. q : WayOf'[t][p] = WayOf[t][p]
  <2>1. next[0][1] = next'[0][1] /\ t \in TextsAtHand /\ q \in Nat /\ q <= BitsOf(t)
    BY DEF LinksOnlyGrow
  <2> QED BY ONLY <1>1, <1>2, <1>4, <2>1, WaysGoAlike
<1>6. Open(WayOf'[t], q, Free')
  BY <1>5 DEF Open, LinksOnlyGrow, InUse
<1> QED BY <1>5, <1>6

\* A way that is open to its end stays as a whole.
LEMMA WholeWaysStay ==
  ASSUME LinksOnlyGrow, OpenWays, NEW t \in Counted(tally)
  PROVE  WayOf'[t] = WayOf[t] /\ Open(WayOf'[t], BitsOf(t), Free')
<1>1. t \in TextsAtHand /\ BitsOf(t) \in Nat
  BY BitsOfType DEF Counted, TextsAtHand
<1>2. /\ \A p \in 0 .. BitsOf(t) : WayOf'[t][p] = WayOf[t][p]
      /\ Open(WayOf'[t], BitsOf(t), Free')
  BY <1>1, OldWaysStay DEF OpenWays
<1>3. IsWay(WayOf[t], next, t)
  BY <1>1, WaysDoLead DEF LinksOnlyGrow, LinksTyped, WaysLead
<1>4. IsWay(WayOf'[t], next', t)
  <2>1. LinksTyped' => WaysLead'
    BY WaysDoLead, PTL
  <2> QED BY <1>1, <2>1 DEF LinksOnlyGrow, LinksTyped, WaysLead
<1>5. WayOf'[t] = WayOf[t]
  <2>1. WayOf[t] = [p \in 0 .. BitsOf(t) |-> WayOf[t][p]]
    BY <1>3 DEF IsWay
  <2>2. WayOf'[t] = [p \in 0 .. BitsOf(t) |-> WayOf'[t][p]]
    BY <1>4 DEF IsWay
  <2> QED BY <1>2, <2>1, <2>2
<1> QED BY <1>2, <1>5

\* A step that makes the link that the text at hand lacks, and goes along it.
LEMMA GrowingTraffic ==
  ASSUME BEInv, TrafficInv, LinksOnlyGrow, pc = "find", for \in {"visit", "link"},
         call' = call, text' = text, tally' = tally, pos' = pos + 1,
         \/ pc' = "bit"
         \/ pc' = "find" /\ for' = "grow",
         cur' = next'[cur][alph], cur' \in Nodes \ {0}, InUse(cur)',
         \A n \in Nodes \ {0}, b \in Bits : count'[n][b] = count[n][b]
  PROVE  TrafficInv'
<1>1. call # "classify" /\ pos < BitsOf(text) /\ text \in TextsAtHand /\ pos \in Nat /\ BitsOf(text) \in Nat
  BY BitsOfType DEF BEInv, TypeOK, CallsOrder, TextsAtHand
<1>2. Learning /\ Learning' /\ CountedBits = pos + 1 /\ CountedBits' = pos + 1 /\ sense' = sense
  BY <1>1 DEF Learning, CountedBits, sense
<1>3. pos <= BitsOf(text) /\ Open(WayOf[text], pos, Free) /\ WayOf[text][pos] = cur
  BY <1>2 DEF TrafficInv, OnTheWay
<1>4. (\A p \in 0 .. pos : WayOf'[text][p] = WayOf[text][p]) /\ Open(WayOf'[text], pos, Free')
  BY <1>1, <1>3, OldWaysStay
<1>5. WayOf'[text][pos + 1] = cur'
  <2>1. IsWay(WayOf'[text], next', text)
    <3>1. LinksTyped' => WaysLead'
      BY WaysDoLead, PTL
    <3> QED BY <1>1, <3>1 DEF LinksOnlyGrow, LinksTyped, WaysLead
  <2>2. pos + 1 \in 1 .. BitsOf(text) /\ (pos + 1) - 1 = pos /\ pos \in 0 .. pos
    BY <1>1
  <2>3. WayOf'[text][pos + 1] = next'[WayOf'[text][pos]][BitAt(text, pos)]
    BY <2>1, <2>2 DEF IsWay
  <2> QED BY <1>3, <1>4, <2>2, <2>3 DEF alph
<1>6. Open(WayOf'[text], pos + 1, Free')
  BY <1>1, <1>4, <1>5 DEF Open, InUse
<1>7. OnTheWay'
  BY <1>1, <1>5, <1>6 DEF OnTheWay
<1>8. KnownWay' /\ NoSuccessor'
  BY <1>1 DEF KnownWay, NoSuccessor
<1>9. \A t \in Counted(tally) : WayOf'[t] = WayOf[t] /\ Open(WayOf'[t], BitsOf(t), Free')
  BY WholeWaysStay DEF TrafficInv
<1>10. OpenWays'
  BY <1>9 DEF TrafficInv, OpenWays
<1>11. ASSUME NEW n \in Nodes \ {0}, NEW b \in Bits
       PROVE  count'[n][b] = Load(WayOf', tally', n, b) + Meanwhile(n, b)'
  <2>1. Load(WayOf', tally, n, b) = Load(WayOf, tally, n, b)
    BY <1>9, LoadSame
  <2>2. TakesOf(WayOf'[text], text, pos + 1, n, b) = TakesOf(WayOf[text], text, pos + 1, n, b)
    <3>1. PICK q : q = pos + 1
      OBVIOUS
    <3>2. q \in Nat /\ \A p \in 0 .. q - 1 : WayOf'[text][p] = WayOf[text][p]
      BY <1>1, <1>4, <3>1
    <3>3. TakesOf(WayOf'[text], text, q, n, b) = TakesOf(WayOf[text], text, q, n, b)
      BY <3>2, TakesSame
    <3> QED BY <3>1, <3>3
  <2>3. Meanwhile(n, b)' = Meanwhile(n, b)
    BY <1>2, <2>2 DEF Meanwhile
  <2> QED BY <2>1, <2>3 DEF TrafficInv, CountsAddUp
<1>12. CountsAddUp'
  BY <1>11 DEF CountsAddUp
<1> QED BY <1>7, <1>8, <1>10, <1>12 DEF TrafficInv

LEMMA AllocateTraffic ==
  ASSUME BEInv, TrafficInv, pc = "find", for \in {"visit", "link"}, Free # 0, ~HasSuccessor,
         NEW fir \in Firs, Allocate(fir)
  PROVE  TrafficInv'
<1>1. call # "classify" /\ pos < BitsOf(text) /\ cur \in Nodes \ {0} /\ InUse(cur) /\ alph \in Bits
      /\ next \in [Nodes -> [Bits -> Nodes]] /\ count \in [Nodes -> [Bits -> Nat]]
  BY FirAfterHere DEF BEInv, TypeOK, CallsOrder
<1>2. /\ Free \in Nodes \ {0} /\ cur # Free /\ Free \notin Priored
      /\ next' \in [Nodes -> [Bits -> Nodes]] /\ next'[0][1] = next[0][1]
      /\ \A b \in Bits : next'[cur][b] = IF b = alph THEN Free ELSE next[cur][b]
      /\ \A n \in Nodes \ {0, cur, Free} : next'[n] = next[n]
  BY <1>1, Taken
<1>3. \A n \in Nodes : InUse(n)' <=> InUse(n) \/ n = Free
  BY <1>1, TakenInUse
<1>4. ~InUse(Free)
  BY <1>2 DEF InUse, Nodes
<1>5. next[cur][alph] = 0
  <2>1. next[cur][alph] \in Nodes /\ ~(next[cur][alph] > 0)
    BY <1>1 DEF HasSuccessor
  <2> QED BY <2>1, NodesLenAssumption DEF Nodes
<1>6. LinksOnlyGrow
  BY <1>1, <1>2, <1>3, <1>4, <1>5 DEF LinksOnlyGrow
<1>7. cur' = Free /\ pos' = pos + 1 /\ pc' = "find" /\ for' = "grow" /\ call' = call /\ text' = text /\ tally' = tally
      /\ count' = [count EXCEPT ![Free] = [b \in Bits |-> 0]]
  BY DEF Allocate, MoveTo, Find
<1>8. count'= count
  <2>1. count[Free] = [b \in Bits |-> 0]
    BY <1>2 DEF BEInv, Untouched, Priored
  <2> QED BY <1>1, <1>7, <2>1
<1>9. InUse(cur)'
  <2>1. Free' = 0 \/ Free < Free'
    BY <1>2, <1>3 DEF InUse
  <2> QED BY <1>7, <2>1 DEF InUse
<1> QED BY <1>1, <1>2, <1>6, <1>7, <1>8, <1>9, GrowingTraffic

LEMMA LinkTraffic == ASSUME BEInv, BEInv', TrafficInv, Link PROVE TrafficInv'
<1>1. pc = "find" /\ for = "link" /\ pc' = "bit" /\ UNCHANGED <<count, call, text, tally>>
      /\ next' = [next EXCEPT ![cur][alph] = Linked] /\ cur' = Linked /\ pos' = pos + 1
  BY DEF Link, Found, MoveTo
<1>2. call # "classify" /\ pos < BitsOf(text) /\ cur \in Nodes \ {0} /\ InUse(cur) /\ alph \in Bits
      /\ next \in [Nodes -> [Bits -> Nodes]]
  BY <1>1, FirAfterHere DEF BEInv, TypeOK, CallsOrder
<1>3. next' \in [Nodes -> [Bits -> Nodes]] /\ cur' \in Nodes \ {0} /\ InUse(cur)'
  BY <1>1, <1>2 DEF BEInv, TypeOK, CallsOrder
<1>4. next[cur][alph] = 0
  <2>1. next[cur][alph] \in Nodes /\ ~(next[cur][alph] > 0)
    BY <1>1, <1>2 DEF TrafficInv, NoSuccessor, HasSuccessor
  <2> QED BY <2>1, NodesLenAssumption DEF Nodes
<1>5. next'[0] = next[0] /\ next'[cur][alph] = Linked
  <2>1. 0 \in Nodes
    BY NodesLenAssumption DEF Nodes
  <2> QED BY <1>1, <1>2, <1>3, <2>1
<1>6. \A n \in Nodes, b \in Bits : ~(n = cur /\ b = alph) => next'[n][b] = next[n][b]
  BY <1>1, <1>2
<1>7. LinksOnlyGrow
  <2>1. \A n \in Nodes : InUse(n)' <=> InUse(n)
    BY <1>5 DEF InUse, Free
  <2> QED BY <1>2, <1>3, <1>4, <1>5, <1>6, <2>1 DEF LinksOnlyGrow
<1> QED BY <1>1, <1>3, <1>5, <1>7, GrowingTraffic

LEMMA NextTraffic == ASSUME BEInv, BEInv', TrafficInv, [Next]_vars PROVE TrafficInv'
<1>1. CASE GoUp \/ GoDown \/ LearnRefused \/ SaveRestore \/ UNCHANGED vars
  <2>1. UNCHANGED <<next, count, tally, call, text, pos, cur, firjumps, pc, for>>
    BY <1>1 DEF GoUp, GoDown, LearnRefused, SaveRestore, vars, graph, walk, lookup
  <2> QED BY <2>1, StandingTraffic
<1>2. CASE LookForLink
  <2>1. /\ pc = "find" /\ pc' = "find" /\ for = "visit" /\ for' = "link" /\ ~HasSuccessor
        /\ UNCHANGED <<next, count, tally, call, text, pos, cur, firjumps>>
    BY <1>2 DEF LookForLink, Found, Find, graph
  <2> QED BY <2>1, StandingTraffic
<1>3. CASE FileNew
  <2>1. /\ pc = "find" /\ pc' = "bit" /\ for = "grow"
        /\ UNCHANGED <<next, count, tally, call, text, pos, cur, firjumps>>
    BY <1>3 DEF FileNew, Found, graph, walk
  <2> QED BY <2>1, StandingTraffic
<1>4. CASE Grow
  <2>1. pc = "find" /\ for = "visit" /\ Free # 0 /\ ~HasSuccessor /\ Allocate(fir_after)
    BY <1>4 DEF Grow, Found, MayLink
  <2>2. fir_after \in Firs
    BY <2>1, FirAfterHere DEF BEInv, CallsOrder
  <2> QED BY <2>1, <2>2, AllocateTraffic
<1>5. CASE GrowAfterAll
  <2>1. pc = "find" /\ for = "link" /\ Free # 0 /\ Allocate(localfir) /\ localfir \in Firs
    BY <1>5 DEF GrowAfterAll, Found, GoodLink, BEInv, TypeOK
  <2>2. ~HasSuccessor
    BY <2>1 DEF TrafficInv, NoSuccessor
  <2> QED BY <2>1, <2>2, AllocateTraffic
<1>6. ASSUME NEW t \in Texts, BeginLearn(t) \/ BeginErase(t) \/ BeginClassify(t) PROVE TrafficInv'
  <2>1. pc = "idle" /\ \E what \in {"learn", "erase", "classify"} : AtStart(t, what)
    BY <1>6 DEF BeginLearn, BeginErase, BeginClassify
  <2> QED BY <2>1, BeginTraffic
<1> QED BY <1>1, <1>2, <1>3, <1>4, <1>5, <1>6, VisitTraffic, FollowTraffic, LinkTraffic, ClassifyBitTraffic,
           LookForJumpTraffic, JumpTraffic, EndLearnTraffic, EndClassifyTraffic DEF Next, Step

\* What holds of every state.
LEMMA InvOfSpec == Spec => [](BEInv /\ TrafficInv)
<1>1. Init => BEInv /\ TrafficInv
  BY InitBEInv, InitTraffic
<1>2. BEInv /\ TrafficInv /\ [Next]_vars => (BEInv /\ TrafficInv)'
  <2> SUFFICES ASSUME BEInv, TrafficInv, [Next]_vars PROVE BEInv' /\ TrafficInv'
    OBVIOUS
  <2>1. ErasesWhatIsThere
    BY NothingIsOwed
  <2>2. BEInv'
    BY <2>1, NextBEInv
  <2> QED BY <2>2, NextTraffic
<1> QED BY <1>1, <1>2, PTL DEF Spec

LEMMA TrafficIsLoad == BEInv /\ TrafficInv => CountsAreTraffic
<1> SUFFICES ASSUME BEInv, TrafficInv, pc = "idle", NEW n \in Nodes \ {0}, NEW b \in Bits
             PROVE  count[n][b] = Traffic([t \in {x \in Texts : tally[x] > 0} |-> Way(t)], n, b)
  BY DEF CountsAreTraffic
<1> DEFINE ways == [t \in {x \in Texts : tally[x] > 0} |-> Way(t)]
<1>1. [t \in DOMAIN ways |-> tally[t] * Takes(ways[t], t, n, b)] = Each(WayOf, tally, n, b)
  <2>1. DOMAIN ways = Counted(tally)
    BY DEF Counted
  <2>2. ASSUME NEW t \in Counted(tally)
        PROVE  tally[t] * Takes(ways[t], t, n, b) = tally[t] * TakesOf(WayOf[t], t, BitsOf(t), n, b)
    <3>1. ways[t] = WayOf[t]
      BY <2>1 DEF WayOf, Counted, TextsAtHand
    <3>2. Takes(WayOf[t], t, n, b) = TakesOf(WayOf[t], t, BitsOf(t), n, b)
      BY DEF Takes, TakesOf, TakenAt
    <3> QED BY <3>1, <3>2
  <2> HIDE DEF ways
  <2> QED BY <2>1, <2>2 DEF Each
<1>2. Traffic(ways, n, b) = Load(WayOf, tally, n, b)
  <2> HIDE DEF ways
  <2> QED BY <1>1 DEF Traffic, Load
<1>3. Meanwhile(n, b) = 0
  BY DEF Meanwhile, Learning
<1>4. count[n][b] = Load(WayOf, tally, n, b) + 0
  BY <1>3 DEF TrafficInv, CountsAddUp
<1>5. Load(WayOf, tally, n, b) \in Nat
  BY LoadType DEF TrafficInv, OpenWays, BEInv, TypeOK
<1> QED BY <1>2, <1>4, <1>5

\* Between calls the counts are what the documents that are learned and not
\* erased come by, each on its own way: nothing that is learned, linked or
\* erased sends an old document another way.
THEOREM CountsStayTraffic == Spec => []CountsAreTraffic
BY InvOfSpec, TrafficIsLoad, PTL

\* A text that is learned and not erased is classified without a jump.
THEOREM LearnedNeverJumps == Spec => []LearnedNeedsNoJump
<1>1. TrafficInv => LearnedNeedsNoJump
  BY DEF TrafficInv, KnownWay, LearnedNeedsNoJump
<1> QED BY InvOfSpec, <1>1, PTL

\* No node number, slot or prior leaves its range and no count becomes negative,
\* in whatever order texts are learned, classified and erased.
THEOREM NumbersStayInRange == Spec => []TypeOK
<1>1. BEInv => TypeOK
  BY DEF BEInv
<1> QED BY InvOfSpec, <1>1, PTL

\* The lookaside table never tells of a node that is not in the chain, or of
\* one whose prior has moved to another slot.
THEOREM LookasideStaysTrue == Spec => []LookasideIsTrue
<1>1. BEInv => LookasideIsTrue
  BY DEF BEInv
<1> QED BY InvOfSpec, <1>1, PTL

-----------------------------------------------------------------------------
(* The free list.                                                          *)

FreeRange == IF Free = 0 THEN {} ELSE Free .. NodesLen - 1

\* The list is followed: every step leads one node on, or ends it.
LEMMA FreeNodesRange == ASSUME TypeOK, FreeInOrder PROVE FreeNodes = FreeRange
<1> DEFINE Body(f) == [k \in 0 .. NodesLen |->
                         IF k = 0 THEN Free ELSE IF f[k - 1] = 0 THEN 0 ELSE next[f[k - 1]][0]]
           at == CHOOSE f : f = Body(f)
           g == [k \in 0 .. NodesLen |-> IF Free # 0 /\ Free + k < NodesLen THEN Free + k ELSE 0]
<1>1. NodesLen \in Nat /\ (Free = 0 \/ Free \in 4 .. NodesLen - 1)
  BY NodesLenAssumption DEF FreeInOrder
<1>2. \A n \in FreeRange : next[n][0] = IF n = NodesLen - 1 THEN 0 ELSE n + 1
  BY DEF FreeRange, FreeInOrder, FreeNext, Bits
<1>3. \A k \in 1 .. NodesLen : g[k] = IF g[k - 1] = 0 THEN 0 ELSE next[g[k - 1]][0]
  <2>1. SUFFICES ASSUME NEW k \in 1 .. NodesLen
                 PROVE  g[k] = IF g[k - 1] = 0 THEN 0 ELSE next[g[k - 1]][0]
    OBVIOUS
  <2>2. g[k - 1] = IF Free # 0 /\ Free + (k - 1) < NodesLen THEN Free + (k - 1) ELSE 0
    BY <1>1
  <2>3. g[k] = IF Free # 0 /\ Free + k < NodesLen THEN Free + k ELSE 0
    BY <1>1
  <2>4. CASE Free # 0 /\ Free + (k - 1) < NodesLen
    <3>1. g[k - 1] = Free + (k - 1) /\ Free + (k - 1) \in FreeRange /\ Free + (k - 1) # 0
      BY <1>1, <2>2, <2>4 DEF FreeRange
    <3>2. next[Free + (k - 1)][0] = IF Free + (k - 1) = NodesLen - 1 THEN 0 ELSE Free + k
      BY <1>1, <1>2, <3>1
    <3> HIDE DEF g
    <3> QED BY <1>1, <2>3, <2>4, <3>1, <3>2
  <2>5. CASE ~ (Free # 0 /\ Free + (k - 1) < NodesLen)
    <3> HIDE DEF g
    <3> QED BY <1>1, <2>2, <2>3, <2>5
  <2> QED BY <2>4, <2>5
<1>4. g[0] = Free
  BY <1>1
<1>5. g = Body(g)
  <2>1. \A k \in 0 .. NodesLen : g[k] = Body(g)[k]
    <3>1. SUFFICES ASSUME NEW k \in 0 .. NodesLen PROVE g[k] = Body(g)[k]
      OBVIOUS
    <3>2. Body(g)[k] = IF k = 0 THEN Free ELSE IF g[k - 1] = 0 THEN 0 ELSE next[g[k - 1]][0]
      OBVIOUS
    <3> HIDE DEF g, Body
    <3> QED BY <1>1, <1>3, <1>4, <3>2
  <2> QED BY <2>1
<1>6. at = Body(at)
  <2> HIDE DEF g, Body
  <2> QED BY <1>5
<1>7. DOMAIN at = 0 .. NodesLen
  <2> HIDE DEF at
  <2> QED BY <1>6
<1>8. at[0] = Free /\ \A k \in 1 .. NodesLen : at[k] = IF at[k - 1] = 0 THEN 0 ELSE next[at[k - 1]][0]
  <2> HIDE DEF at
  <2>1. \A k \in 0 .. NodesLen : at[k] = IF k = 0 THEN Free ELSE IF at[k - 1] = 0 THEN 0 ELSE next[at[k - 1]][0]
    BY <1>6
  <2> HIDE DEF Body
  <2> QED BY <1>1, <2>1
<1>9. \A k \in 0 .. NodesLen : at[k] = g[k]
  <2> HIDE DEF at, g, Body
  <2> DEFINE T == {k \in 0 .. NodesLen : at[k] # g[k]}
  <2>1. SUFFICES ASSUME T # {} PROVE FALSE
    OBVIOUS
  <2>2. PICK k \in T : \A r \in T : k <= r
    <3>1. T \in SUBSET Nat
      BY <1>1
    <3> HIDE DEF T
    <3> QED BY <2>1, <3>1, SmallestNumber
  <2>3. k \in 0 .. NodesLen /\ at[k] # g[k]
    OBVIOUS
  <2>4. k # 0
    BY <1>4, <1>8, <2>3
  <2>5. k - 1 \in 0 .. NodesLen /\ k - 1 \notin T
    BY <1>1, <2>2, <2>3, <2>4
  <2>6. at[k - 1] = g[k - 1]
    BY <2>5
  <2> QED BY <1>1, <1>3, <1>8, <2>3, <2>4, <2>6
<1>10. {at[k] : k \in 0 .. NodesLen} \ {0} = FreeRange
  <2> HIDE DEF at
  <2>1. {g[k] : k \in 0 .. NodesLen} \ {0} \subseteq FreeRange
    BY <1>1 DEF FreeRange
  <2>2. ASSUME NEW n \in FreeRange PROVE n \in {g[k] : k \in 0 .. NodesLen} \ {0}
    <3>1. n - Free \in 0 .. NodesLen /\ n # 0 /\ g[n - Free] = n
      BY <1>1, <2>2 DEF FreeRange
    <3> HIDE DEF g
    <3> QED BY <3>1
  <2> HIDE DEF g
  <2> QED BY <1>9, <2>1, <2>2
<1>11. FreeNodes = {at[k] : k \in 0 .. NodesLen} \ {0}
  BY DEF FreeNodes
<1> QED BY <1>10, <1>11

\* Without a toroid every node in use has a prior.
NoneLost == "UNIQUE" \in mode => \A n \in Nodes : InUse(n) => prior[n] # Unset

LEMMA InitNoneLost == Init => NoneLost
<1> SUFFICES ASSUME Init, "UNIQUE" \in mode, NEW n \in Nodes, InUse(n) PROVE prior[n] # Unset
  BY DEF NoneLost
<1>1. n \in 0 .. 3
  <2>1. Free = 4 /\ n \in Nat
    BY FirstWays, NodesLenAssumption DEF FirstFree, Nodes
  <2> QED BY <2>1 DEF InUse
<1> QED BY <1>1, FirstChain DEF Chained

LEMMA NextNoneLost == ASSUME BEInv, BEInv', NoneLost, [Next]_vars PROVE NoneLost'
<1>1. CASE Visit
  <2>1. cur \in Nodes /\ prior'[cur] # Unset /\ Free' = Free /\ mode' = mode
        /\ \A n \in Nodes \ {cur} : prior'[n] = prior[n]
    <3>1. NewNodeFir \in Firs
      BY <1>1, NewNodeFirType DEF Visit
    <3> QED BY <1>1, <3>1, UnsetIsNoFir DEF Visit, BEInv, TypeOK, Free
  <2> QED BY <2>1 DEF NoneLost, InUse
<1>2. ASSUME NEW fir \in Firs, Free # 0, Allocate(fir), pc = "find", for # "jump", pos < BitsOf(text) PROVE NoneLost'
  <2>1. cur \in Nodes \ {0} /\ InUse(cur) /\ alph \in Bits
    BY <1>2, FirAfterHere DEF BEInv, TypeOK, CallsOrder
  <2>2. prior'[Free] # Unset /\ mode' = mode /\ \A n \in Nodes \ {Free} : prior'[n] = prior[n]
    BY <1>2, <2>1, Taken, UnsetIsNoFir DEF Allocate, BEInv, TypeOK
  <2>3. \A n \in Nodes : InUse(n)' => InUse(n) \/ n = Free
    BY <1>2, <2>1, TakenInUse
  <2> QED BY <2>2, <2>3 DEF NoneLost
<1>3. CASE Grow
  <2>1. pc = "find" /\ for = "visit" /\ Allocate(fir_after) /\ Free # 0
    BY <1>3 DEF Grow, Found, MayLink
  <2>2. pos < BitsOf(text) /\ fir_after \in Firs
    BY <2>1, FirAfterHere DEF BEInv, CallsOrder
  <2> QED BY <1>2, <2>1, <2>2
<1>4. CASE GrowAfterAll
  <2>1. pc = "find" /\ for = "link" /\ Allocate(localfir) /\ Free # 0
    BY <1>4 DEF GrowAfterAll, Found, GoodLink
  <2>2. pos < BitsOf(text) /\ localfir \in Firs
    BY <2>1 DEF BEInv, CallsOrder, TypeOK
  <2> QED BY <1>2, <2>1, <2>2
<1>5. CASE Link
  <2>1. prior' = prior /\ mode' = mode /\ Free' = Free
    <3>1. cur \in Nodes \ {0} /\ 0 \in Nodes
      BY <1>5, NodesLenAssumption DEF Link, Found, BEInv, TypeOK, CallsOrder, Nodes
    <3> QED BY <1>5, <3>1 DEF Link, BEInv, TypeOK, Free
  <2> QED BY <2>1 DEF NoneLost, InUse
<1>6. CASE UNCHANGED <<graph, mode>>
  BY <1>6 DEF graph, NoneLost, InUse, Free
<1>7. [Next]_vars => Visit \/ Grow \/ GrowAfterAll \/ Link \/ UNCHANGED <<graph, mode>>
  BY DEF Next, Step, vars, GoUp, GoDown, Follow, LookForLink, FileNew, ClassifyBit, LookForJump, Jump, EndLearn,
     EndClassify, Done, LearnRefused, SaveRestore, BeginLearn, BeginErase, BeginClassify, AtStart
<1> QED BY <1>1, <1>3, <1>4, <1>5, <1>6, <1>7

LEMMA FreeApart == ASSUME BEInv, NoneLost PROVE FreeListIsApart
<1>1. FreeNodes = FreeRange
  BY FreeNodesRange DEF BEInv
<1>2. NodesLen \in Nat /\ Nodes \subseteq Nat /\ (Free = 0 \/ Free \in 4 .. NodesLen - 1)
  BY NodesLenAssumption DEF BEInv, FreeInOrder, Nodes
<1>3. \A n \in Nodes : n \in FreeRange <=> ~ InUse(n)
  BY <1>2 DEF FreeRange, InUse, Nodes
<1>4. FreeRange \subseteq Nodes \ {0} /\ \A n \in FreeRange : prior[n] = Unset
  <2>1. \A n \in FreeRange : Free # 0 /\ n \in Free .. NodesLen - 1
    BY DEF FreeRange
  <2>2. \A n \in FreeRange : prior[n] = Unset
    BY <2>1 DEF BEInv, FreeInOrder
  <2>3. FreeRange \subseteq Nodes \ {0}
    BY <1>2, <2>1 DEF Nodes
  <2> QED BY <2>2, <2>3
<1>5. ASSUME NEW n \in Nodes \ (FreeRange \cup {0}), NEW b \in Bits PROVE next[n][b] \notin FreeRange
  <2>1. next[n][b] \in Nodes /\ InUse(n)
    BY <1>3 DEF BEInv, TypeOK
  <2>2. InUse(next[n][b])
    BY <2>1 DEF BEInv, WaysStayInUse
  <2> QED BY <1>3, <2>1, <2>2
<1>6. "UNIQUE" \in mode => {n \in Nodes : prior[n] = Unset} = FreeRange
  BY <1>3, <1>4 DEF NoneLost
<1> QED BY <1>1, <1>4, <1>5, <1>6 DEF FreeListIsApart

\* The free list ends, no way through the graph leads into it, and without a
\* toroid no node is lost: however texts are learned, classified and erased.
THEOREM FreeListStaysApart == Spec => []FreeListIsApart
<1>1. BEInv /\ BEInv' /\ NoneLost /\ [Next]_vars => NoneLost'
  BY NextNoneLost
<1>2. BEInv /\ NoneLost => FreeListIsApart
  BY FreeApart
<1> QED BY InvOfSpec, InitNoneLost, <1>1, <1>2, PTL DEF Spec

-----------------------------------------------------------------------------
(* The ring.                                                               *)

\* From node 0 all of C is come to by way of up.
Reached(C, up) == \A S \in SUBSET C : 0 \in S /\ (\A n \in S : up[n] \in S) => S = C

LEMMA ReachedWithout ==
  ASSUME NEW C, NEW up, NEW down, NEW n \in C \ {0}, DOMAIN up = Nodes, C \subseteq Nodes,
         Ringed(C, up, down), Reached(C, up)
  PROVE  Reached(C \ {n}, [[up EXCEPT ![down[n]] = up[n]] EXCEPT ![n] = -1])
<1> DEFINE new == [[up EXCEPT ![down[n]] = up[n]] EXCEPT ![n] = -1]
<1>1. SUFFICES ASSUME NEW S \in SUBSET (C \ {n}), 0 \in S, \A m \in S : new[m] \in S PROVE S = C \ {n}
  BY DEF Reached
<1>2. down[n] \in C /\ up[n] \in C /\ \A m \in C : up[m] = n => m = down[n]
  BY DEF Ringed
<1>3. \A m \in C \ {n} : new[m] = IF m = down[n] THEN up[n] ELSE up[m]
  BY <1>2
<1> HIDE DEF new
<1>4. CASE down[n] \in S
  <2>1. ASSUME NEW m \in S PROVE up[m] \in S \cup {n}
    <3>1. m \in C \ {n} /\ new[m] \in S
      BY <1>1
    <3>2. m = down[n] => up[m] = n
      BY DEF Ringed
    <3> QED BY <1>3, <3>1, <3>2
  <2>2. up[n] \in S \cup {n}
    <3>1. CASE down[n] = n
      BY <3>1 DEF Ringed
    <3>2. CASE down[n] # n
      <4>1. new[down[n]] = up[n]
        BY <1>2, <1>3, <3>2
      <4> QED BY <1>1, <1>4, <4>1
    <3> QED BY <3>1, <3>2
  <2>3. S \cup {n} = C
    <3> DEFINE T == S \cup {n}
    <3>1. T \in SUBSET C /\ 0 \in T /\ \A m \in T : up[m] \in T
      BY <1>1, <2>1, <2>2
    <3> HIDE DEF T
    <3>2. T = C
      BY <3>1 DEF Reached
    <3> QED BY <3>2 DEF T
  <2> QED BY <1>1, <2>3
<1>5. CASE down[n] \notin S
  <2>1. \A m \in S : up[m] \in S
    BY <1>1, <1>3, <1>5
  <2>2. S = C
    BY <1>1, <2>1 DEF Reached
  <2> QED BY <1>1, <2>2
<1> QED BY <1>4, <1>5

LEMMA ReachedWith ==
  ASSUME NEW C, NEW up, NEW down, NEW n \in Nodes \ C, NEW h \in C, n # 0, DOMAIN up = Nodes, C \subseteq Nodes,
         Ringed(C, up, down), Reached(C, up)
  PROVE  Reached(C \cup {n}, [up EXCEPT ![n] = h, ![down[h]] = n])
<1> DEFINE new == [up EXCEPT ![n] = h, ![down[h]] = n]
<1>1. SUFFICES ASSUME NEW S \in SUBSET (C \cup {n}), 0 \in S, \A m \in S : new[m] \in S PROVE S = C \cup {n}
  BY DEF Reached
<1>2. down[h] \in C /\ up[down[h]] = h
  BY DEF Ringed
<1>3. new[n] = h /\ \A m \in C : new[m] = IF m = down[h] THEN n ELSE up[m]
  BY <1>2
<1> HIDE DEF new
<1>4. \A m \in S \ {n} : up[m] \in S \ {n}
  <2>1. SUFFICES ASSUME NEW m \in S \ {n} PROVE up[m] \in S \ {n}
    OBVIOUS
  <2>2. m \in C /\ up[m] \in C /\ up[m] # n
    BY DEF Ringed
  <2>3. CASE m = down[h]
    BY <1>1, <1>2, <1>3, <2>2, <2>3
  <2>4. CASE m # down[h]
    BY <1>1, <1>3, <2>2, <2>4
  <2> QED BY <2>3, <2>4
<1>5. S \ {n} = C
  BY <1>1, <1>4 DEF Reached
<1>6. n \in S
  BY <1>1, <1>2, <1>3, <1>5
<1> QED BY <1>1, <1>5, <1>6

\* The chain is one ring, whatever node is between two places.
OneRing == Reached(Chained, larger)

LEMMA InitOneRing == Init => OneRing
<1> SUFFICES ASSUME Init PROVE OneRing
  OBVIOUS
<1>1. Chained = {0, 1, 2, 3} /\ 0 .. 3 = {0, 1, 2, 3}
  BY FirstChain
<1>2. larger[0] = 2 /\ larger[1] = 3 /\ larger[2] = 1
  BY <1>1, ChainedAreNodes DEF Init, NewLinks
<1> QED BY <1>1, <1>2 DEF OneRing, Reached

LEMMA SameRing == ASSUME OneRing, Chained' = Chained, larger' = larger PROVE OneRing'
BY DEF OneRing, Reached

LEMMA InsertedRing ==
  ASSUME BEInv, OneRing, pc = "find", for \in {"visit", "grow"}, InsertNode(cur), Chained' = Chained \cup {cur}
  PROVE  OneRing'
<1>1. cur \in Nodes \ Chained /\ cur # 0 /\ hit \in Chained
  BY Inserted DEF BEInv, CallsOrder
<1>2. DOMAIN larger = Nodes /\ Ringed(Chained, larger, smaller)
  BY DEF BEInv, TypeOK, ChainIsLinked
<1>3. larger' = [larger EXCEPT ![cur] = hit, ![smaller[hit]] = cur]
  BY DEF InsertNode
<1>4. Reached(Chained \cup {cur}, larger')
  BY <1>1, <1>2, <1>3, ReachedWith, ChainedAreNodes DEF OneRing
<1> QED BY <1>4 DEF OneRing, Reached

LEMMA VisitRing == ASSUME BEInv, OneRing, Visit PROVE OneRing'
<1>1. pc = "bit" /\ pc' = "find" /\ for' = "visit" /\ cur' = cur /\ call # "classify" /\ RemoveNode(cur)
  BY DEF Visit, MoreBits, Find, walk
<1>2. cur \in Nodes \ {0} /\ InUse(cur) /\ Unplaced = {} /\ Unplaced' = {cur}
  BY <1>1 DEF Unplaced, BEInv, TypeOK, CallsOrder
<1>3. prior'[cur] # Unset /\ \A n \in Nodes \ {cur} : prior'[n] = prior[n]
  <2>1. NewNodeFir \in Firs
    BY <1>1, NewNodeFirType
  <2> QED BY <1>2, <2>1, UnsetIsNoFir DEF Visit, BEInv, TypeOK
<1>4. Chained' = Chained \ {cur}
  BY <1>2, <1>3 DEF Chained
<1>5. DOMAIN larger = Nodes /\ Ringed(Chained, larger, smaller)
      /\ \A n \in Nodes \cup {-1} : n < 0 <=> n \notin Nodes
  BY NodesLenAssumption DEF BEInv, TypeOK, ChainIsLinked, Nodes
<1>6. CASE cur \in Chained
  <2>1. larger[cur] \in Nodes
    BY <1>5, <1>6, ChainedAreNodes DEF Ringed
  <2>2. larger' = [[larger EXCEPT ![smaller[cur]] = larger[cur]] EXCEPT ![cur] = -1]
    BY <1>1, <1>5, <2>1 DEF RemoveNode
  <2>3. Reached(Chained \ {cur}, larger')
    BY <1>2, <1>5, <1>6, <2>2, ReachedWithout, ChainedAreNodes DEF OneRing
  <2> QED BY <1>4, <2>3 DEF OneRing, Reached
<1>7. CASE cur \notin Chained
  <2>1. larger[cur] = -1 /\ smaller[cur] = -1
    BY <1>2, <1>7 DEF Chained, BEInv, Untouched
  <2>2. larger' = [larger EXCEPT ![cur] = -1]
    BY <1>1, <2>1 DEF RemoveNode
  <2>3. \A n \in Chained : larger'[n] = larger[n]
    BY <1>5, <1>7, <2>2, ChainedAreNodes
  <2>4. Chained' = Chained
    BY <1>4, <1>7
  <2>5. ASSUME NEW S \in SUBSET Chained, 0 \in S, \A n \in S : larger'[n] \in S PROVE S = Chained
    BY <2>3, <2>5 DEF OneRing, Reached
  <2> QED BY <2>4, <2>5 DEF OneRing, Reached
<1> QED BY <1>6, <1>7

LEMMA NextOneRing == ASSUME BEInv, OneRing, [Next]_vars PROVE OneRing'
<1>1. CASE Visit
  BY <1>1, VisitRing
<1>2. CASE Follow \/ LookForLink \/ FileNew
  <2>1. pc = "find" /\ for \in {"visit", "grow"} /\ InsertNode(cur) /\ UNCHANGED graph /\ Unplaced' = {}
    BY <1>2 DEF Follow, LookForLink, FileNew, Found, Find, Unplaced
  <2> QED BY <2>1, InsertedClass, InsertedRing
<1>3. CASE Grow
  <2>1. pc = "find" /\ for = "visit" /\ InsertNode(cur) /\ Allocate(fir_after) /\ Free # 0
    BY <1>3 DEF Grow, Found, MayLink
  <2>2. alph \in Bits /\ fir_after \in Firs /\ cur \in Nodes \ {0} /\ InUse(cur)
    BY <2>1, FirAfterHere DEF BEInv, TypeOK, CallsOrder
  <2>3. Priored = Chained \cup {cur}
    BY <2>1, <2>2, PrioredNodes, Inserted DEF Unplaced, Priored
  <2>4. Chained' = Chained \cup {cur}
    BY <2>1, <2>2, <2>3, Inserted, TakenClass
  <2> QED BY <2>1, <2>4, InsertedRing
<1>4. CASE GrowAfterAll
  <2>1. pc = "find" /\ for = "link" /\ UNCHANGED <<chain, lookaside>> /\ Allocate(localfir) /\ Free # 0
    BY <1>4 DEF GrowAfterAll, Found, GoodLink
  <2>2. alph \in Bits /\ localfir \in Firs /\ cur \in Nodes \ {0} /\ InUse(cur)
    BY <2>1, FirAfterHere DEF BEInv, TypeOK, CallsOrder
  <2>3. Priored = Chained
    BY <2>1, PrioredNodes DEF Unplaced
  <2>4. Ringed(Priored, larger', smaller') /\ Filed(Priored, firlat', slot', prior)
        /\ firlat' \in [FirSlots -> Nodes] /\ larger' = larger /\ smaller' = smaller
    BY <2>1, <2>3 DEF BEInv, TypeOK, ChainIsLinked, Ringed, LookasideIsTrue, Filed, chain, lookaside
  <2>5. Chained' = Chained
    BY <2>1, <2>2, <2>3, <2>4, TakenClass
  <2> QED BY <2>4, <2>5, SameRing
<1>5. CASE UNCHANGED <<prior, chain>> /\ Unplaced' = Unplaced
  <2>1. Chained' = Chained /\ larger' = larger
    BY <1>5 DEF Chained, chain
  <2> QED BY <2>1, SameRing
<1>6. \/ Visit \/ Follow \/ LookForLink \/ FileNew \/ Grow \/ GrowAfterAll
      \/ UNCHANGED <<prior, chain>> /\ Unplaced' = Unplaced
  <2>1. CASE GoUp \/ GoDown \/ Link \/ ClassifyBit \/ LookForJump \/ Jump
    BY <2>1 DEF GoUp, GoDown, Link, ClassifyBit, LookForJump, Jump, Found, Find, MoreBits, graph, walk, Unplaced
  <2>2. CASE EndLearn \/ EndClassify
    BY <2>2 DEF EndLearn, EndClassify, Done, graph, Unplaced
  <2>3. CASE LearnRefused \/ SaveRestore
    BY <2>3 DEF LearnRefused, SaveRestore, graph, walk, lookup, Unplaced
  <2>4. ASSUME NEW t \in Texts, BeginLearn(t) \/ BeginErase(t) \/ BeginClassify(t)
        PROVE  UNCHANGED <<prior, chain>> /\ Unplaced' = Unplaced
    BY <2>4 DEF BeginLearn, BeginErase, BeginClassify, AtStart, graph, Unplaced
  <2>5. CASE UNCHANGED vars
    BY <2>5 DEF vars, graph, walk, lookup, Unplaced
  <2> QED BY <2>1, <2>2, <2>3, <2>4, <2>5 DEF Next, Step
<1> QED BY <1>1, <1>2, <1>3, <1>4, <1>5, <1>6

\* The way along the chain from node 0.
Along(f, m) == f[0] = 0 /\ \A k \in 1 .. m : f[k] = larger[f[k - 1]]

LEMMA WayAlongExists ==
  ASSUME ChainIsLinked, NEW m \in Nat PROVE \E f \in [0 .. m -> Chained] : Along(f, m)
<1> DEFINE Missing == {n \in Nat : ~ \E f \in [0 .. n -> Chained] : Along(f, n)}
<1>1. SUFFICES ASSUME Missing # {} PROVE FALSE
  OBVIOUS
<1>2. PICK n \in Missing : \A r \in Missing : n <= r
  <2>1. Missing \in SUBSET Nat
    OBVIOUS
  <2> HIDE DEF Missing
  <2> QED BY <1>1, <2>1, SmallestNumber
<1>3. n \in Nat /\ ~ \E f \in [0 .. n -> Chained] : Along(f, n)
  OBVIOUS
<1>4. n # 0
  <2>1. [k \in 0 .. 0 |-> 0] \in [0 .. 0 -> Chained] /\ Along([k \in 0 .. 0 |-> 0], 0)
    BY DEF Along, ChainIsLinked
  <2> QED BY <1>3, <2>1
<1>5. n - 1 \in Nat /\ n - 1 \notin Missing
  BY <1>2, <1>3, <1>4
<1>6. PICK f \in [0 .. n - 1 -> Chained] : Along(f, n - 1)
  BY <1>5
<1> HIDE DEF Missing
<1> DEFINE g == [k \in 0 .. n |-> IF k = n THEN larger[f[n - 1]] ELSE f[k]]
<1>7. f[n - 1] \in Chained /\ larger[f[n - 1]] \in Chained
  BY <1>5, <1>6 DEF ChainIsLinked, Ringed
<1>8. \A k \in 0 .. n : k # n => k \in 0 .. n - 1
  BY <1>3
<1>9. g \in [0 .. n -> Chained]
  BY <1>6, <1>7, <1>8
<1>10. Along(g, n)
  <2>1. g[0] = 0
    BY <1>3, <1>4, <1>6, <1>8 DEF Along
  <2>2. ASSUME NEW k \in 1 .. n PROVE g[k] = larger[g[k - 1]]
    <3>1. k - 1 \in 0 .. n /\ k - 1 # n /\ g[k - 1] = f[k - 1] /\ k \in 0 .. n
      BY <1>3
    <3>2. CASE k = n
      BY <3>1, <3>2
    <3>3. CASE k # n
      <4>1. k \in 1 .. n - 1 /\ g[k] = f[k]
        BY <1>3, <3>3
      <4> HIDE DEF g
      <4> QED BY <1>6, <3>1, <4>1 DEF Along
    <3> QED BY <3>2, <3>3
  <2> QED BY <2>1, <2>2 DEF Along
<1> QED BY <1>3, <1>9, <1>10

LEMMA RingFrom0Along ==
  ASSUME ChainIsLinked
  PROVE  RingFrom0 \in [0 .. NodesLen -> Chained] /\ Along(RingFrom0, NodesLen)
<1> DEFINE Body(f) == [k \in 0 .. NodesLen |-> IF k = 0 THEN 0 ELSE larger[f[k - 1]]]
           at == CHOOSE f : f = Body(f)
<1>1. NodesLen \in Nat
  BY NodesLenAssumption
<1>2. PICK f \in [0 .. NodesLen -> Chained] : Along(f, NodesLen)
  BY <1>1, WayAlongExists
<1>3. f = Body(f)
  <2>1. \A k \in 0 .. NodesLen : f[k] = IF k = 0 THEN 0 ELSE larger[f[k - 1]]
    BY <1>1, <1>2 DEF Along
  <2> QED BY <1>2, <2>1
<1>4. at = Body(at)
  <2> HIDE DEF Body
  <2> QED BY <1>3
<1>5. DOMAIN at = 0 .. NodesLen /\ \A k \in 0 .. NodesLen : at[k] = IF k = 0 THEN 0 ELSE larger[at[k - 1]]
  <2> HIDE DEF at
  <2>1. DOMAIN Body(at) = 0 .. NodesLen /\ \A k \in 0 .. NodesLen : Body(at)[k] = IF k = 0 THEN 0 ELSE larger[at[k - 1]]
    OBVIOUS
  <2> HIDE DEF Body
  <2> QED BY <1>4, <2>1
<1> HIDE DEF at
<1>6. at[0] = 0 /\ \A k \in 1 .. NodesLen : at[k] = larger[at[k - 1]]
  BY <1>1, <1>5
<1>7. \A k \in 0 .. NodesLen : at[k] = f[k]
  <2> DEFINE T == {k \in 0 .. NodesLen : at[k] # f[k]}
  <2>1. SUFFICES ASSUME T # {} PROVE FALSE
    OBVIOUS
  <2>2. PICK k \in T : \A r \in T : k <= r
    <3>1. T \in SUBSET Nat
      BY <1>1
    <3> HIDE DEF T
    <3> QED BY <2>1, <3>1, SmallestNumber
  <2>3. k \in 0 .. NodesLen /\ at[k] # f[k]
    OBVIOUS
  <2>4. k # 0
    BY <1>2, <1>6, <2>3 DEF Along
  <2>5. k - 1 \in 0 .. NodesLen /\ k - 1 \notin T
    BY <1>1, <2>2, <2>3, <2>4
  <2>6. at[k - 1] = f[k - 1] /\ k \in 1 .. NodesLen
    BY <1>1, <2>3, <2>4, <2>5
  <2> QED BY <1>2, <1>6, <2>3, <2>6 DEF Along
<1>8. at = f
  <2>1. at = [k \in 0 .. NodesLen |-> at[k]]
    BY <1>4
  <2>2. f = [k \in 0 .. NodesLen |-> f[k]]
    BY <1>2
  <2> QED BY <1>7, <2>1, <2>2
<1>9. RingFrom0 = at
  BY DEF RingFrom0, at
<1> QED BY <1>2, <1>8, <1>9

\* The way along the chain comes back to where it has been, and first to node
\* 0, since no two links lead to one node.
LEMMA ComesBack ==
  ASSUME ChainIsLinked, NEW c \in Nat, IsFiniteSet(Chained), c = Cardinality(Chained),
         NEW f \in [0 .. c -> Chained], Along(f, c)
  PROVE  \E k \in 1 .. c : f[k] = 0
<1> DEFINE Again == {i \in 0 .. c : \E j \in 0 .. c : i < j /\ f[i] = f[j]}
<1>1. Again # {}
  <2>1. IsFiniteSet(0 .. c) /\ Cardinality(0 .. c) = c + 1
    BY FS_Interval
  <2>2. PICK x \in 0 .. c, y \in 0 .. c : x # y /\ f[x] = f[y]
    BY <2>1, FS_PigeonHole
  <2>3. x \in Int /\ y \in Int /\ (x < y \/ y < x)
    BY <2>2
  <2> QED BY <2>2, <2>3
<1>2. PICK i \in Again : \A r \in Again : i <= r
  <2>1. Again \in SUBSET Nat
    OBVIOUS
  <2> HIDE DEF Again
  <2> QED BY <1>1, <2>1, SmallestNumber
<1>3. PICK j \in 0 .. c : i < j /\ f[i] = f[j]
  OBVIOUS
<1>4. i = 0
  <2>1. SUFFICES ASSUME i # 0 PROVE FALSE
    OBVIOUS
  <2>2. i - 1 \in 0 .. c /\ j - 1 \in 0 .. c /\ i - 1 < j - 1 /\ i \in 1 .. c /\ j \in 1 .. c
    BY <1>3, <2>1
  <2>3. f[i] = larger[f[i - 1]] /\ f[j] = larger[f[j - 1]] /\ f[i - 1] \in Chained /\ f[j - 1] \in Chained
    BY <2>2 DEF Along
  <2>4. f[i - 1] = smaller[f[i]] /\ f[j - 1] = smaller[f[j]]
    BY <2>3 DEF ChainIsLinked, Ringed
  <2>5. i - 1 \in Again
    BY <1>3, <2>2, <2>4
  <2>6. i \in Int
    BY <2>2
  <2> HIDE DEF Again
  <2> QED BY <1>2, <2>5, <2>6
<1>5. j \in 1 .. c
  BY <1>3, <1>4
<1> QED BY <1>3, <1>4, <1>5 DEF Along

LEMMA OneRingIsWhole == ASSUME BEInv, OneRing PROVE ChainIsWhole
<1> DEFINE c == Cardinality(Chained)
<1>1. NodesLen \in Nat /\ Nodes = 0 .. NodesLen - 1 /\ ChainIsLinked
  BY NodesLenAssumption DEF Nodes, BEInv
<1>2. IsFiniteSet(Nodes) /\ Cardinality(Nodes) = NodesLen
  BY <1>1, FS_Interval
<1>3. IsFiniteSet(Chained) /\ c \in Nat /\ c <= NodesLen
  BY <1>2, ChainedAreNodes, FS_Subset, FS_CardinalityType
<1> HIDE DEF c
<1>4. RingFrom0 \in [0 .. NodesLen -> Chained] /\ Along(RingFrom0, NodesLen)
  BY <1>1, RingFrom0Along
<1> DEFINE f == [k \in 0 .. c |-> RingFrom0[k]]
<1>5. f \in [0 .. c -> Chained] /\ \A k \in 0 .. c : f[k] = RingFrom0[k]
  BY <1>1, <1>3, <1>4
<1> HIDE DEF f
<1>6. Along(f, c)
  BY <1>1, <1>3, <1>4, <1>5 DEF Along
<1>7. PICK k \in 1 .. c : f[k] = 0
  BY <1>1, <1>3, <1>5, <1>6, ComesBack DEF c
<1> DEFINE S == {f[n] : n \in 0 .. k - 1}
<1>8. S \in SUBSET Chained /\ 0 \in S
  BY <1>3, <1>5, <1>6, <1>7 DEF Along
<1>9. \A m \in S : larger[m] \in S
  <2>1. SUFFICES ASSUME NEW n \in 0 .. k - 1 PROVE larger[f[n]] \in S
    OBVIOUS
  <2>2. n + 1 \in 1 .. c /\ larger[f[n]] = f[n + 1]
    BY <1>3, <1>6, <1>7 DEF Along
  <2>3. CASE n = k - 1
    BY <1>7, <1>8, <2>2, <2>3
  <2>4. CASE n # k - 1
    BY <1>3, <1>7, <2>2, <2>4
  <2> QED BY <2>3, <2>4
<1>10. S = Chained
  <2> HIDE DEF S
  <2> QED BY <1>8, <1>9 DEF OneRing, Reached
<1>11. S \subseteq {RingFrom0[n] : n \in 0 .. c - 1} /\ {RingFrom0[n] : n \in 0 .. c - 1} \subseteq Chained
  BY <1>3, <1>4, <1>5, <1>7
<1>12. {RingFrom0[n] : n \in 0 .. Cardinality(Chained) - 1} = Chained
  BY <1>10, <1>11 DEF c
<1>13. Ringed(Chained, larger, smaller)
  BY <1>1 DEF ChainIsLinked
<1> QED BY <1>12, <1>13 DEF ChainIsWhole

\* The chain stays one ring of node 0 and exactly the nodes with a prior, linked
\* both ways: no order of learning, classifying and erasing breaks it in two.
THEOREM ChainStaysWhole == Spec => []ChainIsWhole
<1>1. BEInv /\ OneRing /\ [Next]_vars => OneRing'
  BY NextOneRing
<1>2. BEInv /\ OneRing => ChainIsWhole
  BY OneRingIsWhole
<1> QED BY InvOfSpec, InitOneRing, <1>1, <1>2, PTL DEF Spec

=============================================================================
