---------------------------- MODULE MarkovProofs ----------------------------
(***************************************************************************)
(* Facts about the tables of MarkovTable, for every table size: probe      *)
(* paths, what grooming keeps in order, sums and counts.  Then theorems    *)
(* about learning into an OSB/Markov class, for every table size, every    *)
(* set of features and documents and every limit.                          *)
(***************************************************************************)
EXTENDS MarkovText, FiniteSetTheorems, WellFoundedInduction, TLAPS

\* A feature's home bucket is a bucket of the table.
LEMMA HomeInSlots == ASSUME NEW f \in Nat PROVE Home(f) \in Slots
BY HtLenAssumption DEF Home, Slots

\* The next bucket is a bucket of the table.
LEMMA SuccInSlots == ASSUME NEW s \in Slots PROVE Succ(s) \in Slots
BY HtLenAssumption DEF Succ, Slots

\* A walk is at its start after no step and has seen the table after HtLen.
LEMMA DistFacts ==
  ASSUME NEW a \in Slots, NEW s \in Slots
  PROVE  /\ Dist(a, s) \in Slots
         /\ Dist(a, s) = 0 <=> s = a
BY HtLenAssumption DEF Dist, Slots

\* Two buckets are not at the same distance from a third.
LEMMA DistInjective ==
  ASSUME NEW a \in Slots, NEW s \in Slots, NEW t \in Slots, Dist(a, s) = Dist(a, t)
  PROVE  s = t
BY HtLenAssumption DEF Dist, Slots

\* One step of a walk that has not come full circle goes one bucket further.
LEMMA DistSucc ==
  ASSUME NEW a \in Slots, NEW s \in Slots, Dist(a, s) + 1 < HtLen
  PROVE  Dist(a, Succ(s)) = Dist(a, s) + 1
BY HtLenAssumption DEF Dist, Slots, Succ

\* Among some buckets one is the first that a walk meets.
LEMMA FirstOnWalk ==
  ASSUME NEW a \in Slots, NEW B \in SUBSET Slots, B # {}
  PROVE  \E s \in B : \A t \in B : Dist(a, s) <= Dist(a, t)
<1> DEFINE D == {Dist(a, s) : s \in B}
           Below == {ss \in Nat \X Nat : ss[1] < ss[2]}
<1>1. \A s \in B : Dist(a, s) \in Nat
  <2> TAKE s \in B
  <2>1. Dist(a, s) \in Slots
    BY DistFacts
  <2> QED BY <2>1, HtLenAssumption DEF Slots
<1>2. D \subseteq Nat /\ D # {}
  BY <1>1, Zenon
<1>3. IsWellFoundedOn(Below, Nat)
  BY NatLessThanWellFounded, Zenon DEF OpToRel
<1>4. PICK d \in D : \A e \in D : ~(<<e, d>> \in Below)
  <2> HIDE DEF D, Below
  <2> QED BY <1>2, <1>3, WFMin, Zenon
<1>5. \A e \in D : d <= e
  <2> TAKE e \in D
  <2>1. e \in Nat /\ d \in Nat
    BY <1>2
  <2>2. ~(e < d)
    BY <1>4, <2>1
  <2> QED BY <2>1, <2>2
<1> QED BY <1>5

\* A feature that is in the table has a bucket where the search for it ends.
LEMMA StopSlotExists ==
  ASSUME NEW h, NEW v, NEW f \in Nat, NEW u \in Slots, Stops(h, v, f, u)
  PROVE  /\ StopSlot(h, v, f) \in Slots
         /\ Stops(h, v, f, StopSlot(h, v, f))
         /\ Reaches(h, v, f, StopSlot(h, v, f))
<1> DEFINE B == {s \in Slots : Stops(h, v, f, s)}
<1>1. PICK s \in B : \A t \in B : Dist(Home(f), s) <= Dist(Home(f), t)
  BY FirstOnWalk, HomeInSlots
<1>2. \A t \in Slots : Dist(Home(f), t) \in Int
  BY HomeInSlots, DistFacts, HtLenAssumption DEF Slots
<1>3. Stops(h, v, f, s) /\ Reaches(h, v, f, s)
  BY <1>1, <1>2 DEF Reaches
<1> QED BY <1>3 DEF StopSlot

\* No feature is stored twice in a table whose features can all be reached.
LEMMA ReachableIsUnique ==
  ASSUME NEW h \in [Slots -> Nat], NEW v \in [Slots -> Nat], AllReachable(h, v),
         NEW s \in Slots, NEW t \in Slots, v[s] > 0, v[t] > 0, h[s] = h[t]
  PROVE  s = t
<1> DEFINE a == Home(h[s])
<1>1. a \in Slots
  BY HomeInSlots
<1>2. Dist(a, s) \in Slots /\ Dist(a, t) \in Slots
  BY <1>1, DistFacts
<1>3. Reaches(h, v, h[s], s) /\ Reaches(h, v, h[s], t)
  BY DEF AllReachable
<1>4. ~(Dist(a, s) < Dist(a, t)) /\ ~(Dist(a, t) < Dist(a, s))
  BY <1>3 DEF Reaches, Stops
<1>5. Dist(a, s) = Dist(a, t)
  BY <1>2, <1>4, HtLenAssumption DEF Slots
<1> QED BY <1>1, <1>5, DistInjective

\* A search that has only reached the home bucket has passed nothing.
LEMMA HomeReaches ==
  ASSUME NEW h, NEW v, NEW f \in Nat
  PROVE  Dist(Home(f), Home(f)) = 0 /\ Reaches(h, v, f, Home(f))
<1>1. Dist(Home(f), Home(f)) = 0
  BY HomeInSlots, DistFacts
<1>2. \A t \in Slots : Dist(Home(f), t) \in Nat
  BY HomeInSlots, DistFacts, HtLenAssumption DEF Slots
<1> QED BY <1>1, <1>2 DEF Reaches

\* A search that does not end at a bucket reaches the next one.
LEMMA ReachesNext ==
  ASSUME NEW h, NEW v, NEW f \in Nat, NEW s \in Slots,
         Reaches(h, v, f, s), ~Stops(h, v, f, s), Dist(Home(f), s) + 1 < HtLen
  PROVE  Reaches(h, v, f, Succ(s))
<1> DEFINE a == Home(f)
<1>1. a \in Slots /\ Succ(s) \in Slots
  BY HomeInSlots, SuccInSlots
<1>2. Dist(a, Succ(s)) = Dist(a, s) + 1
  BY <1>1, DistSucc
<1>3. ASSUME NEW t \in Slots, Dist(a, t) < Dist(a, Succ(s)) PROVE ~Stops(h, v, f, t)
  <2>1. Dist(a, t) \in Int /\ Dist(a, s) \in Int
    BY <1>1, DistFacts, HtLenAssumption DEF Slots
  <2>2. Dist(a, t) < Dist(a, s) \/ Dist(a, t) = Dist(a, s)
    BY <1>2, <1>3, <2>1
  <2>3. CASE Dist(a, t) < Dist(a, s)
    BY <2>3 DEF Reaches
  <2>4. CASE Dist(a, t) = Dist(a, s)
    BY <1>1, <2>4, DistInjective
  <2> QED BY <2>2, <2>3, <2>4
<1> QED BY <1>3 DEF Reaches

\* A search that has come full circle has seen every bucket in use by others.
LEMMA FullCircle ==
  ASSUME NEW h, NEW v, NEW f \in Nat, NEW s \in Slots,
         Reaches(h, v, f, s), ~Stops(h, v, f, s), Dist(Home(f), s) + 1 >= HtLen
  PROVE  \A t \in Slots : ~Stops(h, v, f, t)
<1> DEFINE a == Home(f)
<1>1. a \in Slots
  BY HomeInSlots
<1> TAKE t \in Slots
<1>2. Dist(a, t) \in Slots /\ Dist(a, s) \in Slots
  BY <1>1, DistFacts
<1>3. Dist(a, t) < Dist(a, s) \/ Dist(a, t) = Dist(a, s)
  BY <1>2, HtLenAssumption DEF Slots
<1>4. CASE Dist(a, t) < Dist(a, s)
  BY <1>4 DEF Reaches
<1>5. CASE Dist(a, t) = Dist(a, s)
  BY <1>1, <1>5, DistInjective
<1> QED BY <1>3, <1>4, <1>5

\* Storing a feature where the search for it ends cuts no other off.
LEMMA StoreKeepsReachable ==
  ASSUME NEW h \in [Slots -> Nat], NEW v \in [Slots -> Nat], AllReachable(h, v),
         NEW f \in Nat, NEW s \in Slots, Stops(h, v, f, s), Reaches(h, v, f, s),
         NEW n \in Nat, n > 0
  PROVE  AllReachable([h EXCEPT ![s] = f], [v EXCEPT ![s] = n])
<1> DEFINE hh == [h EXCEPT ![s] = f]
           vv == [v EXCEPT ![s] = n]
<1> SUFFICES ASSUME NEW u \in Slots, vv[u] > 0,
                    NEW t \in Slots, Dist(Home(hh[u]), t) < Dist(Home(hh[u]), u)
             PROVE  ~Stops(hh, vv, hh[u], t)
  BY DEF AllReachable, Reaches
<1>1. hh[u] \in Nat
  OBVIOUS
<1>2. Dist(Home(hh[u]), u) \in Int
  <2> HIDE DEF hh
  <2>1. Home(hh[u]) \in Slots
    BY <1>1, HomeInSlots
  <2>2. Dist(Home(hh[u]), u) \in Slots
    BY <2>1, DistFacts
  <2> QED BY <2>2, HtLenAssumption DEF Slots
<1>3. t # u
  BY <1>2
<1>4. CASE u = s
  <2>1. hh[u] = f /\ hh[t] = h[t] /\ vv[t] = v[t]
    BY <1>3, <1>4
  <2> QED BY <2>1, <1>4 DEF Reaches, Stops
<1>5. CASE u # s
  <2>1. hh[u] = h[u] /\ v[u] > 0
    BY <1>5
  <2>2. ~Stops(h, v, h[u], t)
    BY <2>1 DEF AllReachable, Reaches
  <2> QED BY <2>1, <2>2 DEF Stops
<1> QED BY <1>4, <1>5

-----------------------------------------------------------------------------
(* What a search finds.                                                    *)

\* A search for f ends at a bucket where it is stored.
Found(h, v, f) == \E s \in Slots : h[s] = f /\ v[s] > 0 /\ Reaches(h, v, f, s)

\* A search has no second bucket to end at.
LEMMA HitIsUnique ==
  ASSUME NEW h, NEW v, NEW f \in Nat, NEW s \in Slots, NEW t \in Slots,
         Stops(h, v, f, s), Reaches(h, v, f, s), Stops(h, v, f, t), Reaches(h, v, f, t)
  PROVE  s = t
<1> DEFINE a == Home(f)
<1>1. a \in Slots
  BY HomeInSlots
<1>2. Dist(a, s) \in Int /\ Dist(a, t) \in Int
  BY <1>1, DistFacts, HtLenAssumption DEF Slots
<1>3. ~(Dist(a, s) < Dist(a, t)) /\ ~(Dist(a, t) < Dist(a, s))
  BY DEF Reaches
<1>4. Dist(a, s) = Dist(a, t)
  BY <1>2, <1>3
<1> QED BY <1>1, <1>4, DistInjective

\* What is found is what classify reads.
LEMMA FoundIsRead ==
  ASSUME NEW h, NEW v, NEW f \in Nat, Found(h, v, f)
  PROVE  LookupValue(h, v, f) > 0
<1>1. PICK s \in Slots : h[s] = f /\ v[s] > 0 /\ Reaches(h, v, f, s)
  BY DEF Found
<1>2. s \in HitSlots(h, v, f)
  BY <1>1 DEF HitSlots
<1>3. \A t \in HitSlots(h, v, f) : t = s
  BY <1>1, HitIsUnique DEF HitSlots, Stops
<1>4. (CHOOSE t \in HitSlots(h, v, f) : TRUE) = s
  BY <1>2, <1>3
<1> QED BY <1>1, <1>2, <1>4 DEF LookupValue

\* Storing a feature where the search for it ends hides no other, and it is found.
LEMMA StoreKeepsFound ==
  ASSUME NEW h \in [Slots -> Nat], NEW v \in [Slots -> Nat],
         NEW f \in Nat, NEW s \in Slots, Stops(h, v, f, s), Reaches(h, v, f, s),
         NEW n \in Nat, n > 0, NEW g \in Nat, g = f \/ Found(h, v, g)
  PROVE  Found([h EXCEPT ![s] = f], [v EXCEPT ![s] = n], g)
<1> DEFINE hh == [h EXCEPT ![s] = f]
           vv == [v EXCEPT ![s] = n]
<1>1. hh[s] = f /\ vv[s] = n /\ \A t \in Slots : t # s => hh[t] = h[t] /\ vv[t] = v[t]
  OBVIOUS
<1>2. Dist(Home(f), s) \in Int
  BY HomeInSlots, DistFacts, HtLenAssumption DEF Slots
<1> HIDE DEF hh, vv
<1>3. CASE g = f
  <2>1. Reaches(hh, vv, f, s)
    BY <1>1, <1>2 DEF Reaches, Stops
  <2> QED BY <1>1, <1>3, <2>1 DEF Found, hh, vv
<1>4. CASE g # f
  <2>1. PICK u \in Slots : h[u] = g /\ v[u] > 0 /\ Reaches(h, v, g, u)
    BY <1>4 DEF Found
  <2>2. u # s
    BY <1>4, <2>1 DEF Stops
  <2>3. Reaches(hh, vv, g, u)
    BY <1>1, <1>4, <2>1 DEF Reaches, Stops
  <2> QED BY <1>1, <2>1, <2>2, <2>3 DEF Found, hh, vv
<1> QED BY <1>3, <1>4

-----------------------------------------------------------------------------
(* A table that is being groomed, seen from an empty bucket b.             *)

\* Distances are below HtLen.
LEMMA PosType ==
  ASSUME NEW b \in Slots, NEW s \in Slots
  PROVE  Dist(b, s) \in 0 .. HtLen - 1
BY DistFacts DEF Slots

\* Seen from a bucket that is not on the way from a to s, the way has no wrap.
LEMMA PathIsInterval ==
  ASSUME NEW b \in Slots, NEW a \in Slots, NEW s \in Slots, Dist(b, a) <= Dist(b, s), NEW t \in Slots
  PROVE  Dist(a, t) < Dist(a, s) <=> (Dist(b, a) <= Dist(b, t) /\ Dist(b, t) < Dist(b, s))
BY HtLenAssumption DEF Dist, Slots

\* A bucket that lies before the first of the way, seen from b, is reached by way of b.
LEMMA PathThrough ==
  ASSUME NEW b \in Slots, NEW a \in Slots, NEW s \in Slots, s # b, a = b \/ Dist(b, s) < Dist(b, a)
  PROVE  Dist(a, b) < Dist(a, s)
BY HtLenAssumption DEF Dist, Slots

\* No feature is stored in two buckets.
UsedOnce(h, v) == \A s, t \in Slots : (v[s] # 0 /\ v[t] # 0 /\ h[s] = h[t]) => s = t

\* Where every feature is reachable, none is stored twice.
LEMMA ReachableUsedOnce ==
  ASSUME NEW h \in [Slots -> Nat], NEW v \in [Slots -> Nat], AllReachable(h, v)
  PROVE  UsedOnce(h, v)
<1>1. \A s \in Slots : v[s] # 0 => v[s] > 0
  OBVIOUS
<1> QED BY <1>1, ReachableIsUnique DEF UsedOnce

\* Seen from b, every bucket from the home of what s keeps up to s is in use by others.
PathFree(b, h, v, s) ==
  \A t \in Slots : (Dist(b, Home(h[s])) <= Dist(b, t) /\ Dist(b, t) < Dist(b, s)) => v[t] # 0 /\ h[t] # h[s]

(***************************************************************************)
(* A table in the groomer's hands, seen from an empty bucket b: the        *)
(* features before the front are where a search finds them, those behind   *)
(* it are not before their homes, and no way from a home leads through b.  *)
(* There are no placeholders before cleared.                               *)
(***************************************************************************)
Groomed(b, h, v, front, cleared) ==
  /\ h[b] = 0
  /\ UsedOnce(h, v)
  /\ \A s \in Slots : h[s] = 0 => v[s] = 0
  /\ \A s \in Slots : v[s] # 0 => 1 <= Dist(b, Home(h[s])) /\ Dist(b, Home(h[s])) <= Dist(b, s)
  /\ \A s \in Slots : (v[s] # 0 /\ Dist(b, s) < front) => PathFree(b, h, v, s)
  /\ \A s \in Slots : (v[s] = 0 /\ Dist(b, s) < cleared) => h[s] = 0

\* There are no placeholders, and no feature with hash 0.
ZeroAlike(h, v) == \A s \in Slots : h[s] = 0 <=> v[s] = 0

\* Types of the homes of what is stored, and of their distances.
LEMMA HomesOf ==
  ASSUME NEW h \in [Slots -> Nat], NEW b \in Slots
  PROVE  /\ \A s \in Slots : Home(h[s]) \in Slots
         /\ \A s \in Slots : Dist(b, s) \in Int /\ Dist(b, Home(h[s])) \in Int /\ Dist(b, s) >= 0 /\ Dist(b, s) < HtLen
         /\ \A s \in Slots : Dist(b, Home(h[s])) >= 0 /\ Dist(b, Home(h[s])) < HtLen
         /\ Dist(b, b) = 0
<1>1. \A s \in Slots : h[s] \in Nat
  OBVIOUS
<1>2. \A s \in Slots : Home(h[s]) \in Slots
  BY <1>1, HomeInSlots
<1>3. \A s \in Slots : Dist(b, s) \in Int /\ Dist(b, s) >= 0 /\ Dist(b, s) < HtLen
  BY PosType, HtLenAssumption
<1>4. Dist(b, b) = 0
  BY DistFacts
<1> QED BY <1>2, <1>3, <1>4

\* A table in which every feature is reachable is in order from any empty bucket.
LEMMA GroomStarts ==
  ASSUME NEW h \in [Slots -> Nat], NEW v \in [Slots -> Nat], AllReachable(h, v), ZeroAlike(h, v),
         NEW b \in Slots, h[b] = 0, NEW front \in Int, NEW cleared \in Int
  PROVE  Groomed(b, h, v, front, cleared)
<1>1. \A s \in Slots : v[s] # 0 => v[s] > 0
  OBVIOUS
<1>2. UsedOnce(h, v)
  BY ReachableUsedOnce
<1>3. v[b] = 0
  BY DEF ZeroAlike
<1>4. ASSUME NEW s \in Slots, v[s] # 0
      PROVE  /\ Reaches(h, v, h[s], s)
             /\ 1 <= Dist(b, Home(h[s])) /\ Dist(b, Home(h[s])) <= Dist(b, s)
  <2>1. Reaches(h, v, h[s], s)
    BY <1>1, <1>4 DEF AllReachable
  <2>2. Home(h[s]) \in Slots
    BY HomesOf
  <2>3. ~(Home(h[s]) = b \/ Dist(b, s) < Dist(b, Home(h[s])))
    BY <1>3, <1>4, <2>1, <2>2, PathThrough DEF Reaches, Stops
  <2>4. Dist(b, Home(h[s])) # 0
    BY <2>2, <2>3, DistFacts
  <2> QED BY <2>1, <2>3, <2>4, HomesOf
<1>5. ASSUME NEW s \in Slots, v[s] # 0 PROVE PathFree(b, h, v, s)
  <2>1. Home(h[s]) \in Slots
    BY HomesOf
  <2>2. \A t \in Slots : Dist(Home(h[s]), t) < Dist(Home(h[s]), s)
                           <=> (Dist(b, Home(h[s])) <= Dist(b, t) /\ Dist(b, t) < Dist(b, s))
    BY <1>4, <1>5, <2>1, PathIsInterval
  <2> QED BY <1>4, <1>5, <2>2 DEF PathFree, Reaches, Stops
<1> QED BY <1>2, <1>4, <1>5 DEF Groomed, ZeroAlike

\* When the front has gone all the way round, every feature is reachable.
LEMMA GroomEnds ==
  ASSUME NEW h \in [Slots -> Nat], NEW v \in [Slots -> Nat], NEW b \in Slots,
         Groomed(b, h, v, HtLen, HtLen)
  PROVE  AllReachable(h, v) /\ ZeroAlike(h, v)
<1>1. ZeroAlike(h, v)
  BY HomesOf DEF ZeroAlike, Groomed
<1>2. ASSUME NEW s \in Slots, v[s] > 0 PROVE Reaches(h, v, h[s], s)
  <2>1. v[s] # 0 /\ Home(h[s]) \in Slots /\ Dist(b, Home(h[s])) <= Dist(b, s) /\ PathFree(b, h, v, s)
    BY <1>2, HomesOf DEF Groomed
  <2>2. \A t \in Slots : Dist(Home(h[s]), t) < Dist(Home(h[s]), s)
                           <=> (Dist(b, Home(h[s])) <= Dist(b, t) /\ Dist(b, t) < Dist(b, s))
    BY <2>1, PathIsInterval
  <2> QED BY <2>1, <2>2 DEF PathFree, Reaches, Stops
<1> QED BY <1>1, <1>2 DEF AllReachable

\* zap clears values behind the front.
LEMMA ZapKeepsGroomed ==
  ASSUME NEW h \in [Slots -> Nat], NEW v \in [Slots -> Nat], NEW b \in Slots,
         NEW front \in Int, Groomed(b, h, v, front, front),
         NEW Z \in SUBSET Slots, \A s \in Z : Dist(b, s) >= front
  PROVE  Groomed(b, h, [s \in Slots |-> IF s \in Z THEN 0 ELSE v[s]], front, front)
<1> DEFINE w == [s \in Slots |-> IF s \in Z THEN 0 ELSE v[s]]
<1>1. \A s \in Slots : w[s] = IF s \in Z THEN 0 ELSE v[s]
  OBVIOUS
<1>2. \A s \in Slots : Dist(b, s) < front => w[s] = v[s]
  BY <1>1, HomesOf
<1>3. \A s \in Slots : w[s] # 0 => w[s] = v[s]
  BY <1>1
<1> HIDE DEF w
<1>4. UsedOnce(h, w)
  BY <1>3 DEF Groomed, UsedOnce
<1>5. \A s \in Slots : h[s] = 0 => w[s] = 0
  BY <1>3 DEF Groomed
<1>6. ASSUME NEW s \in Slots, w[s] # 0, Dist(b, s) < front PROVE PathFree(b, h, w, s)
  <2>1. PathFree(b, h, v, s)
    BY <1>3, <1>6 DEF Groomed
  <2>2. \A t \in Slots : Dist(b, t) < Dist(b, s) => w[t] = v[t]
    BY <1>2, <1>6, HomesOf
  <2> QED BY <2>1, <2>2 DEF PathFree
<1>7. Groomed(b, h, w, front, front)
  BY <1>2, <1>3, <1>4, <1>5, <1>6 DEF Groomed
<1> QED BY <1>7 DEF w

\* packseg's first loop turns the placeholders of a segment into empty buckets.
LEMMA ClearKeepsGroomed ==
  ASSUME NEW h \in [Slots -> Nat], NEW v \in [Slots -> Nat], NEW b \in Slots,
         NEW front \in Int, NEW upto \in Int, Groomed(b, h, v, front, front),
         NEW P \in SUBSET Slots, \A s \in Slots : (front <= Dist(b, s) /\ Dist(b, s) < upto) => s \in P,
         NEW g, \A s \in Slots : g[s] = IF s \in P /\ v[s] = 0 THEN 0 ELSE h[s]
  PROVE  Groomed(b, g, v, front, upto)
<1>1. \A s \in Slots : g[s] = IF s \in P /\ v[s] = 0 THEN 0 ELSE h[s]
  OBVIOUS
<1>2. \A s \in Slots : v[s] # 0 => g[s] = h[s]
  BY <1>1
<1>3. g[b] = 0
  BY <1>1 DEF Groomed
<1>4. UsedOnce(g, v)
  BY <1>2 DEF Groomed, UsedOnce
<1>5. \A s \in Slots : g[s] = 0 => v[s] = 0
  BY <1>1 DEF Groomed
<1>6. \A s \in Slots : v[s] # 0 => 1 <= Dist(b, Home(g[s])) /\ Dist(b, Home(g[s])) <= Dist(b, s)
  BY <1>2 DEF Groomed
<1>7. ASSUME NEW s \in Slots, v[s] # 0, Dist(b, s) < front PROVE PathFree(b, g, v, s)
  BY <1>2, <1>7 DEF Groomed, PathFree
<1>8. ASSUME NEW s \in Slots, v[s] = 0, Dist(b, s) < upto PROVE g[s] = 0
  <2>1. CASE Dist(b, s) < front
    BY <1>1, <1>8, <2>1 DEF Groomed
  <2>2. CASE front <= Dist(b, s)
    BY <1>1, <1>8, <2>2
  <2> QED BY <2>1, <2>2, HomesOf
<1> QED BY <1>3, <1>4, <1>5, <1>6, <1>7, <1>8 DEF Groomed

\* packseg's second loop passes an empty bucket.
LEMMA SkipKeepsGroomed ==
  ASSUME NEW h \in [Slots -> Nat], NEW v \in [Slots -> Nat], NEW b \in Slots, NEW u \in Slots,
         NEW cleared, Groomed(b, h, v, Dist(b, u), cleared), v[u] = 0
  PROVE  Groomed(b, h, v, Dist(b, u) + 1, cleared)
<1>1. ASSUME NEW s \in Slots, v[s] # 0, Dist(b, s) < Dist(b, u) + 1 PROVE PathFree(b, h, v, s)
  <2>1. Dist(b, s) # Dist(b, u)
    BY <1>1, DistInjective
  <2>2. Dist(b, s) < Dist(b, u)
    <3>1. Dist(b, s) \in Int /\ Dist(b, u) \in Int
      BY PosType, HtLenAssumption
    <3> QED BY <1>1, <2>1, <3>1
  <2> QED BY <1>1, <2>2 DEF Groomed
<1> QED BY <1>1 DEF Groomed

\* packseg's second loop puts a feature in use where the search for it ends.
LEMMA MoveKeepsGroomed ==
  ASSUME NEW h \in [Slots -> Nat], NEW v \in [Slots -> Nat], NEW b \in Slots, NEW u \in Slots,
         NEW cleared \in Int, Dist(b, u) < cleared, Groomed(b, h, v, Dist(b, u), cleared), v[u] # 0,
         NEW t \in Slots, Stops(h, v, h[u], t), Reaches(h, v, h[u], t)
  PROVE  /\ Groomed(b, [h EXCEPT ![u] = 0, ![t] = h[u]], [v EXCEPT ![u] = 0, ![t] = v[u]],
                    Dist(b, u) + 1, cleared)
         /\ t = u \/ (h[t] = 0 /\ v[t] = 0)
<1> DEFINE f  == h[u]
           a  == Home(f)
           hh == [h EXCEPT ![u] = 0, ![t] = h[u]]
           vv == [v EXCEPT ![u] = 0, ![t] = v[u]]
<1>1. a \in Slots /\ f # 0 /\ 1 <= Dist(b, a) /\ Dist(b, a) <= Dist(b, u)
  BY HomesOf DEF Groomed
<1>0. /\ \A s \in Slots : Dist(b, s) \in Int /\ Dist(b, s) >= 0
      /\ Dist(b, a) \in Int
  BY <1>1, HomesOf
<1>2. Dist(b, a) <= Dist(b, t) /\ Dist(b, t) <= Dist(b, u)
  <2>1. ~(Dist(a, u) < Dist(a, t))
    BY DEF Reaches, Stops
  <2>2. Dist(a, t) \in Int /\ Dist(a, u) \in Int
    BY <1>1, PosType, HtLenAssumption
  <2>3. Dist(a, t) = Dist(a, u) \/ Dist(a, t) < Dist(a, u)
    BY <2>1, <2>2
  <2>4. CASE Dist(a, t) = Dist(a, u)
    <3>1. t = u
      BY <1>1, <2>4, DistInjective
    <3> QED BY <1>0, <1>1, <3>1
  <2>5. CASE Dist(a, t) < Dist(a, u)
    <3>1. Dist(b, a) <= Dist(b, t) /\ Dist(b, t) < Dist(b, u)
      BY <1>1, <2>5, PathIsInterval
    <3> QED BY <1>0, <3>1
  <2> QED BY <2>3, <2>4, <2>5
<1>3. \A s \in Slots : (Dist(b, a) <= Dist(b, s) /\ Dist(b, s) < Dist(b, t)) => v[s] # 0 /\ h[s] # f
  <2>1. \A s \in Slots : Dist(a, s) < Dist(a, t) <=> (Dist(b, a) <= Dist(b, s) /\ Dist(b, s) < Dist(b, t))
    BY <1>1, <1>2, PathIsInterval
  <2> QED BY <2>1 DEF Reaches, Stops
<1>4. t = u \/ (h[t] = 0 /\ v[t] = 0 /\ Dist(b, t) < Dist(b, u))
  <2> SUFFICES ASSUME t # u PROVE h[t] = 0 /\ v[t] = 0 /\ Dist(b, t) < Dist(b, u)
    OBVIOUS
  <2>1. Dist(b, t) < Dist(b, u)
    <3>1. Dist(b, t) # Dist(b, u)
      BY DistInjective
    <3> QED BY <1>0, <1>2, <3>1
  <2>2. v[t] = 0
    BY DEF Stops, Groomed, UsedOnce
  <2>3. Dist(b, t) < cleared
    BY <1>0, <2>1
  <2> QED BY <2>1, <2>2, <2>3 DEF Groomed
<1>5. CASE t = u
  <2>1. hh = h /\ vv = v
    BY <1>5
  <2>2. PathFree(b, h, v, u)
    BY <1>3, <1>5 DEF PathFree
  <2>3. ASSUME NEW s \in Slots, v[s] # 0, Dist(b, s) < Dist(b, u) + 1 PROVE PathFree(b, h, v, s)
    <3>1. CASE Dist(b, s) = Dist(b, u)
      <4>1. s = u
        BY <3>1, DistInjective
      <4> QED BY <2>2, <4>1
    <3>2. CASE Dist(b, s) < Dist(b, u)
      BY <2>3, <3>2 DEF Groomed
    <3> QED BY <1>0, <2>3, <3>1, <3>2
  <2>4. Groomed(b, h, v, Dist(b, u) + 1, cleared)
    BY <2>3 DEF Groomed
  <2> QED BY <1>5, <2>1, <2>4
<1>6. CASE t # u
  <2>0. h[t] = 0 /\ v[t] = 0 /\ Dist(b, t) < Dist(b, u)
    BY <1>4, <1>6
  <2>1. /\ hh[u] = 0 /\ vv[u] = 0 /\ hh[t] = f /\ vv[t] = v[u]
        /\ \A s \in Slots : s # u /\ s # t => hh[s] = h[s] /\ vv[s] = v[s]
    BY <1>6
  <2> HIDE DEF hh, vv
  <2>2. \A s \in Slots : vv[s] # 0 => s = t \/ (s # u /\ s # t /\ v[s] # 0 /\ hh[s] = h[s] /\ h[s] # f)
    BY <2>1 DEF Groomed, UsedOnce
  <2>3. hh[b] = 0
    <3>1. b # t
      BY <1>0, <1>1, <1>2, HomesOf
    <3> QED BY <2>1, <3>1 DEF Groomed
  <2>4. UsedOnce(hh, vv)
    <3> SUFFICES ASSUME NEW s \in Slots, NEW r \in Slots, vv[s] # 0, vv[r] # 0, hh[s] = hh[r] PROVE s = r
      BY DEF UsedOnce
    <3> QED BY <2>1, <2>2 DEF Groomed, UsedOnce
  <2>5. \A s \in Slots : hh[s] = 0 => vv[s] = 0
    BY <1>1, <2>1 DEF Groomed
  <2>6. \A s \in Slots : vv[s] # 0 => 1 <= Dist(b, Home(hh[s])) /\ Dist(b, Home(hh[s])) <= Dist(b, s)
    BY <1>1, <1>2, <2>1, <2>2 DEF Groomed
  <2>7. ASSUME NEW s \in Slots, vv[s] # 0, Dist(b, s) < Dist(b, u) + 1 PROVE PathFree(b, hh, vv, s)
    <3>1. CASE s = t
      <4> SUFFICES ASSUME NEW r \in Slots, Dist(b, a) <= Dist(b, r), Dist(b, r) < Dist(b, t)
                   PROVE  vv[r] # 0 /\ hh[r] # f
        BY <2>1, <3>1 DEF PathFree
      <4>1. r # t /\ r # u
        BY <1>0, <2>0
      <4> QED BY <1>3, <2>1, <4>1
    <3>2. CASE s # t
      <4>1. s # u /\ v[s] # 0 /\ hh[s] = h[s] /\ h[s] # f
        BY <2>2, <2>7, <3>2
      <4>2. Dist(b, s) < Dist(b, u)
        <5>1. Dist(b, s) # Dist(b, u)
          BY <4>1, DistInjective
        <5> QED BY <1>0, <2>7, <5>1
      <4>3. PathFree(b, h, v, s)
        BY <4>1, <4>2 DEF Groomed
      <4> SUFFICES ASSUME NEW r \in Slots, Dist(b, Home(h[s])) <= Dist(b, r), Dist(b, r) < Dist(b, s)
                   PROVE  vv[r] # 0 /\ hh[r] # h[s]
        BY <4>1 DEF PathFree
      <4>4. v[r] # 0 /\ h[r] # h[s]
        BY <4>3 DEF PathFree
      <4>5. r # t /\ r # u
        BY <1>0, <2>0, <4>2, <4>4
      <4> QED BY <2>1, <4>4, <4>5
    <3> QED BY <3>1, <3>2
  <2>8. \A s \in Slots : (vv[s] = 0 /\ Dist(b, s) < cleared) => hh[s] = 0
    BY <2>1 DEF Groomed
  <2>9. Groomed(b, hh, vv, Dist(b, u) + 1, cleared)
    BY <2>3, <2>4, <2>5, <2>6, <2>7, <2>8 DEF Groomed
  <2> QED BY <2>0, <2>9 DEF hh, vv
<1> QED BY <1>5, <1>6

-----------------------------------------------------------------------------
(* Sums of values.                                                         *)

\* Induction, for a set of numbers instead of a predicate.
LEMMA UpTo ==
  ASSUME NEW N \in Nat, NEW P \in SUBSET (0 .. N), 0 \in P, \A k \in 1 .. N : k - 1 \in P => k \in P
  PROVE  P = 0 .. N
<1> DEFINE Bad == (0 .. N) \ P
           Below == {ss \in Nat \X Nat : ss[1] < ss[2]}
<1> SUFFICES ASSUME Bad # {} PROVE FALSE
  OBVIOUS
<1>1. Bad \subseteq Nat
  OBVIOUS
<1>2. PICK n \in Bad : \A m \in Bad : ~(<<m, n>> \in Below)
  <2>1. IsWellFoundedOn(Below, Nat)
    BY NatLessThanWellFounded DEF OpToRel
  <2> HIDE DEF Bad, Below
  <2> QED BY <1>1, <2>1, WFMin
<1>3. n \in 1 .. N /\ n - 1 \in 0 .. N
  OBVIOUS
<1>4. n - 1 \in P
  <2>1. n - 1 < n /\ n - 1 \in Nat /\ n \in Nat
    BY <1>3
  <2> QED BY <1>2, <1>3, <2>1
<1> QED BY <1>3, <1>4

\* The sums of the first buckets.
IsRunningSum(v, f) ==
  /\ f \in [0 .. HtLen -> Int] /\ f[0] = 0
  /\ \A k \in 1 .. HtLen : f[k] = f[k - 1] + v[k - 1]

\* Every table has them, and SumOf is the last of them.
LEMMA RunningSum ==
  ASSUME NEW v \in [Slots -> Int]
  PROVE  \E f : IsRunningSum(v, f) /\ SumOf(v) = f[HtLen]
<1>0. HtLen \in Nat \ {0} /\ Slots = 0 .. HtLen - 1
  BY HtLenAssumption DEF Slots
<1> DEFINE Upto(n, f) == f \in [0 .. HtLen -> Int] /\ f[0] = 0 /\ \A k \in 1 .. n : f[k] = f[k - 1] + v[k - 1]
           P == {n \in 0 .. HtLen : \E f : Upto(n, f)}
<1>1. 0 \in P
  <2>1. Upto(0, [k \in 0 .. HtLen |-> 0])
    BY <1>0
  <2> HIDE DEF Upto
  <2> QED BY <1>0, <2>1
<1>2. ASSUME NEW n \in 1 .. HtLen, n - 1 \in P PROVE n \in P
  <2>1. PICK f : Upto(n - 1, f)
    BY <1>2
  <2> DEFINE g == [f EXCEPT ![n] = f[n - 1] + v[n - 1]]
  <2>2. n - 1 \in Slots /\ n - 1 \in 0 .. HtLen /\ n \in 0 .. HtLen /\ n # 0
    BY <1>0
  <2>3. g \in [0 .. HtLen -> Int] /\ g[0] = 0
    BY <2>1, <2>2
  <2>4. ASSUME NEW k \in 1 .. n PROVE g[k] = g[k - 1] + v[k - 1]
    <3>1. k \in 0 .. HtLen /\ k - 1 \in 0 .. HtLen /\ k - 1 # n
      BY <1>0
    <3>2. g[k - 1] = f[k - 1]
      BY <2>1, <3>1
    <3>3. CASE k = n
      BY <2>1, <2>2, <3>2, <3>3
    <3>4. CASE k # n
      <4>1. k \in 1 .. (n - 1) /\ g[k] = f[k]
        BY <1>0, <2>1, <3>1, <3>4
      <4> QED BY <2>1, <3>2, <4>1
    <3> QED BY <3>3, <3>4
  <2>5. Upto(n, g)
    BY <2>3, <2>4
  <2> HIDE DEF Upto
  <2> QED BY <2>2, <2>5
<1>3. P = 0 .. HtLen
  <2> HIDE DEF P
  <2>1. P \in SUBSET (0 .. HtLen)
    BY DEF P
  <2> QED BY <1>0, <1>1, <1>2, <2>1, UpTo
<1>4. PICK f : Upto(HtLen, f)
  <2>1. HtLen \in P
    <3> HIDE DEF P
    <3> QED BY <1>0, <1>3
  <2> HIDE DEF Upto
  <2> QED BY <2>1
<1> DEFINE Body(g) == [n \in 0 .. HtLen |-> IF n = 0 THEN 0 ELSE g[n - 1] + v[n - 1]]
           sum == CHOOSE g : g = Body(g)
<1>5. f = Body(f)
  <2>1. \A k \in 0 .. HtLen : f[k] = IF k = 0 THEN 0 ELSE f[k - 1] + v[k - 1]
    BY <1>0, <1>4
  <2> QED BY <1>4, <2>1
<1>6. sum = Body(sum)
  <2> HIDE DEF Body
  <2> QED BY <1>5
<1>7. \A k \in 0 .. HtLen : sum[k] = IF k = 0 THEN 0 ELSE sum[k - 1] + v[k - 1]
  <2> HIDE DEF sum
  <2>1. \A k \in 0 .. HtLen : Body(sum)[k] = IF k = 0 THEN 0 ELSE sum[k - 1] + v[k - 1]
    OBVIOUS
  <2> HIDE DEF Body
  <2> QED BY <1>6, <2>1
<1>8. SumOf(v) = sum[HtLen]
  BY DEF SumOf
<1> HIDE DEF sum
<1> DEFINE Same == {k \in 0 .. HtLen : sum[k] = f[k]}
<1>9. Same = 0 .. HtLen
  <2>1. 0 \in Same
    BY <1>0, <1>4, <1>7
  <2>2. ASSUME NEW k \in 1 .. HtLen, k - 1 \in Same PROVE k \in Same
    <3>1. k \in 0 .. HtLen /\ k # 0 /\ sum[k - 1] = f[k - 1]
      BY <1>0, <2>2
    <3>2. f[k] = f[k - 1] + v[k - 1]
      BY <1>4
    <3> QED BY <1>7, <3>1, <3>2
  <2>3. Same \in SUBSET (0 .. HtLen)
    OBVIOUS
  <2> HIDE DEF Same
  <2> QED BY <1>0, <2>1, <2>2, <2>3, UpTo
<1>10. HtLen \in 0 .. HtLen
  BY <1>0
<1> QED BY <1>4, <1>8, <1>9, <1>10 DEF IsRunningSum

\* A sum is a number.
LEMMA SumIsInt == ASSUME NEW v \in [Slots -> Int] PROVE SumOf(v) \in Int
<1>1. PICK f : IsRunningSum(v, f) /\ SumOf(v) = f[HtLen]
  BY RunningSum
<1> QED BY <1>1, HtLenAssumption DEF IsRunningSum

\* Where every bucket has no more, the sum is no more.
LEMMA SumMonotone ==
  ASSUME NEW v \in [Slots -> Int], NEW w \in [Slots -> Int], \A s \in Slots : v[s] <= w[s]
  PROVE  SumOf(v) <= SumOf(w)
<1>0. HtLen \in Nat \ {0} /\ Slots = 0 .. HtLen - 1
  BY HtLenAssumption DEF Slots
<1>1. PICK f : IsRunningSum(v, f) /\ SumOf(v) = f[HtLen]
  BY RunningSum
<1>2. PICK g : IsRunningSum(w, g) /\ SumOf(w) = g[HtLen]
  BY RunningSum
<1> DEFINE P == {k \in 0 .. HtLen : f[k] <= g[k]}
<1>3. 0 \in P
  BY <1>0, <1>1, <1>2 DEF IsRunningSum
<1>4. ASSUME NEW k \in 1 .. HtLen, k - 1 \in P PROVE k \in P
  <2>1. k \in 0 .. HtLen /\ k - 1 \in 0 .. HtLen /\ k - 1 \in Slots
    BY <1>0
  <2>2. f[k] = f[k - 1] + v[k - 1] /\ g[k] = g[k - 1] + w[k - 1]
    BY <1>1, <1>2 DEF IsRunningSum
  <2>3. f[k - 1] \in Int /\ g[k - 1] \in Int /\ v[k - 1] \in Int /\ w[k - 1] \in Int /\ v[k - 1] <= w[k - 1]
    BY <1>1, <1>2, <2>1 DEF IsRunningSum
  <2>4. f[k - 1] <= g[k - 1]
    BY <1>4
  <2> QED BY <2>1, <2>2, <2>3, <2>4
<1>5. P \in SUBSET (0 .. HtLen)
  OBVIOUS
<1> HIDE DEF P
<1>6. P = 0 .. HtLen
  BY <1>0, <1>3, <1>4, <1>5, UpTo
<1> QED BY <1>0, <1>1, <1>2, <1>6 DEF P

\* The sum of two tables added bucket by bucket.
LEMMA SumAdds ==
  ASSUME NEW v \in [Slots -> Int], NEW w \in [Slots -> Int], NEW u \in [Slots -> Int],
         \A s \in Slots : u[s] = v[s] + w[s]
  PROVE  SumOf(u) = SumOf(v) + SumOf(w)
<1>0. HtLen \in Nat \ {0} /\ Slots = 0 .. HtLen - 1
  BY HtLenAssumption DEF Slots
<1>1. PICK f : IsRunningSum(v, f) /\ SumOf(v) = f[HtLen]
  BY RunningSum
<1>2. PICK g : IsRunningSum(w, g) /\ SumOf(w) = g[HtLen]
  BY RunningSum
<1>3. PICK e : IsRunningSum(u, e) /\ SumOf(u) = e[HtLen]
  BY RunningSum
<1> DEFINE P == {k \in 0 .. HtLen : e[k] = f[k] + g[k]}
<1>4. 0 \in P
  BY <1>0, <1>1, <1>2, <1>3 DEF IsRunningSum
<1>5. ASSUME NEW k \in 1 .. HtLen, k - 1 \in P PROVE k \in P
  <2>1. k \in 0 .. HtLen /\ k - 1 \in 0 .. HtLen /\ k - 1 \in Slots
    BY <1>0
  <2>2. f[k] = f[k - 1] + v[k - 1] /\ g[k] = g[k - 1] + w[k - 1] /\ e[k] = e[k - 1] + u[k - 1]
    BY <1>1, <1>2, <1>3 DEF IsRunningSum
  <2>3. f[k - 1] \in Int /\ g[k - 1] \in Int /\ v[k - 1] \in Int /\ w[k - 1] \in Int /\ u[k - 1] = v[k - 1] + w[k - 1]
    BY <1>1, <1>2, <2>1 DEF IsRunningSum
  <2>4. e[k - 1] = f[k - 1] + g[k - 1]
    BY <1>5
  <2> QED BY <2>1, <2>2, <2>3, <2>4
<1>6. P \in SUBSET (0 .. HtLen)
  OBVIOUS
<1> HIDE DEF P
<1>7. P = 0 .. HtLen
  BY <1>0, <1>4, <1>5, <1>6, UpTo
<1>8. HtLen \in P
  BY <1>0, <1>7
<1> QED BY <1>1, <1>2, <1>3, <1>8 DEF P

\* A table with 1 in the buckets of a set, and 0 elsewhere.
Mark(Z) == [s \in Slots |-> IF s \in Z THEN 1 ELSE 0]

\* It sums up to the size of the set.
LEMMA SumOfMark ==
  ASSUME NEW Z \in SUBSET Slots
  PROVE  SumOf(Mark(Z)) = Cardinality(Z)
<1>0. HtLen \in Nat \ {0} /\ Slots = 0 .. HtLen - 1
  BY HtLenAssumption DEF Slots
<1>1. Mark(Z) \in [Slots -> Int]
  BY DEF Mark
<1>2. PICK f : IsRunningSum(Mark(Z), f) /\ SumOf(Mark(Z)) = f[HtLen]
  BY <1>1, RunningSum
<1> DEFINE Part(k) == Z \cap 0 .. k - 1
           P == {k \in 0 .. HtLen : f[k] = Cardinality(Part(k))}
<1>3. 0 \in P
  <2>1. Part(0) = {}
    OBVIOUS
  <2> QED BY <1>0, <1>2, <2>1, FS_EmptySet DEF IsRunningSum
<1>4. ASSUME NEW k \in 1 .. HtLen, k - 1 \in P PROVE k \in P
  <2>1. k \in 0 .. HtLen /\ k - 1 \in 0 .. HtLen /\ k - 1 \in Slots
    BY <1>0
  <2>2. f[k] = f[k - 1] + Mark(Z)[k - 1] /\ f[k - 1] = Cardinality(Part(k - 1)) /\ f[k - 1] \in Int
    BY <1>2, <1>4, <2>1 DEF IsRunningSum
  <2>3. Part(k - 1) \subseteq 0 .. (k - 1) - 1 /\ IsFiniteSet(0 .. (k - 1) - 1) /\ k - 1 \notin Part(k - 1)
    BY <2>1, FS_Interval
  <2>4. IsFiniteSet(Part(k - 1))
    BY <2>3, FS_Subset
  <2>5. CASE k - 1 \in Z
    <3>1. Part(k) = Part(k - 1) \cup {k - 1}
      BY <1>0, <2>1, <2>5
    <3>2. Cardinality(Part(k)) = Cardinality(Part(k - 1)) + 1
      <4> HIDE DEF Part
      <4> QED BY <2>3, <2>4, <3>1, FS_AddElement
    <3>3. Mark(Z)[k - 1] = 1
      BY <2>1, <2>5 DEF Mark
    <3> QED BY <2>1, <2>2, <3>2, <3>3
  <2>6. CASE k - 1 \notin Z
    <3>1. Part(k) = Part(k - 1)
      BY <1>0, <2>1, <2>6
    <3>2. Mark(Z)[k - 1] = 0
      BY <2>1, <2>6 DEF Mark
    <3> QED BY <2>1, <2>2, <3>1, <3>2
  <2> QED BY <2>5, <2>6
<1>5. P \in SUBSET (0 .. HtLen)
  OBVIOUS
<1>6. P = 0 .. HtLen
  <2> HIDE DEF P
  <2> QED BY <1>0, <1>3, <1>4, <1>5, UpTo
<1>7. HtLen \in P
  <2> HIDE DEF P
  <2> QED BY <1>0, <1>6
<1>8. Part(HtLen) = Z
  BY <1>0
<1> QED BY <1>2, <1>7, <1>8

\* Writing one bucket changes the sum by what it changes there.
LEMMA SumUpdate ==
  ASSUME NEW v \in [Slots -> Int], NEW t \in Slots, NEW c \in Int
  PROVE  SumOf([v EXCEPT ![t] = c]) = SumOf(v) - v[t] + c
<1>0. HtLen \in Nat \ {0} /\ Slots = 0 .. HtLen - 1
  BY HtLenAssumption DEF Slots
<1> DEFINE w == [v EXCEPT ![t] = c]
<1>1. w \in [Slots -> Int] /\ w[t] = c /\ \A s \in Slots : s # t => w[s] = v[s]
  OBVIOUS
<1> HIDE DEF w
<1>2. PICK f : IsRunningSum(v, f) /\ SumOf(v) = f[HtLen]
  BY RunningSum
<1>3. PICK g : IsRunningSum(w, g) /\ SumOf(w) = g[HtLen]
  BY <1>1, RunningSum
<1> DEFINE P == {k \in 0 .. HtLen : g[k] = f[k] + (IF k > t THEN c - v[t] ELSE 0)}
<1>4. 0 \in P
  BY <1>0, <1>2, <1>3 DEF IsRunningSum
<1>5. ASSUME NEW k \in 1 .. HtLen, k - 1 \in P PROVE k \in P
  <2>1. k \in 0 .. HtLen /\ k - 1 \in 0 .. HtLen /\ k - 1 \in Slots
    BY <1>0
  <2>2. g[k] = g[k - 1] + w[k - 1] /\ f[k] = f[k - 1] + v[k - 1]
    BY <1>2, <1>3 DEF IsRunningSum
  <2>3. f[k - 1] \in Int /\ g[k - 1] \in Int /\ v[k - 1] \in Int /\ w[k - 1] \in Int /\ v[t] \in Int /\ t \in Int
    BY <1>0, <1>1, <1>2, <1>3, <2>1 DEF IsRunningSum
  <2>4. g[k - 1] = f[k - 1] + (IF k - 1 > t THEN c - v[t] ELSE 0)
    BY <1>5
  <2>5. CASE k - 1 = t
    BY <1>1, <2>1, <2>2, <2>3, <2>4, <2>5
  <2>6. CASE k - 1 # t
    <3>1. w[k - 1] = v[k - 1] /\ (k > t <=> k - 1 > t)
      BY <1>1, <2>1, <2>3, <2>6
    <3> QED BY <2>1, <2>2, <2>3, <2>4, <3>1
  <2> QED BY <2>5, <2>6
<1>6. P \in SUBSET (0 .. HtLen)
  OBVIOUS
<1> HIDE DEF P
<1>7. P = 0 .. HtLen
  BY <1>0, <1>4, <1>5, <1>6, UpTo
<1>8. HtLen \in P
  BY <1>0, <1>7
<1>9. g[HtLen] = f[HtLen] + (c - v[t])
  BY <1>0, <1>8 DEF P
<1>10. f[HtLen] \in Int /\ v[t] \in Int
  BY <1>0, <1>2 DEF IsRunningSum
<1> QED BY <1>2, <1>3, <1>9, <1>10 DEF w

\* Clearing some buckets in use takes at least their number off the sum.
LEMMA SumCleared ==
  ASSUME NEW v \in [Slots -> Nat], NEW Z \in SUBSET Slots, \A s \in Z : v[s] > 0
  PROVE  SumOf([s \in Slots |-> IF s \in Z THEN 0 ELSE v[s]]) + Cardinality(Z) <= SumOf(v)
<1> DEFINE w == [s \in Slots |-> IF s \in Z THEN 0 ELSE v[s]]
           u == [s \in Slots |-> w[s] + Mark(Z)[s]]
<1>1. w \in [Slots -> Int] /\ Mark(Z) \in [Slots -> Int] /\ u \in [Slots -> Int] /\ v \in [Slots -> Int]
  BY DEF Mark
<1>2. \A s \in Slots : u[s] <= v[s]
  BY DEF Mark
<1>3. \A s \in Slots : u[s] = w[s] + Mark(Z)[s]
  OBVIOUS
<1> HIDE DEF w, u
<1>4. SumOf(u) = SumOf(w) + Cardinality(Z)
  BY <1>1, <1>3, SumAdds, SumOfMark
<1>5. SumOf(u) <= SumOf(v)
  BY <1>1, <1>2, SumMonotone
<1> QED BY <1>4, <1>5 DEF w

(* Erasing never adds, learning never takes away.                          *)

OfFeature(h, v, f) == [s \in Slots |-> IF h[s] = f THEN v[s] ELSE 0]

\* It is a table of numbers.
LEMMA OfFeatureType ==
  ASSUME NEW h, NEW v \in [Slots -> Nat], NEW f
  PROVE  OfFeature(h, v, f) \in [Slots -> Int]
BY DEF OfFeature

\* What packseg moves is counted as before.
LEMMA MovedTotal ==
  ASSUME NEW h \in [Slots -> Nat], NEW v \in [Slots -> Nat], NEW u \in Slots, NEW t \in Slots,
         t # u, v[t] = 0, NEW f \in Features, NEW hh \in [Slots -> Nat], NEW vv \in [Slots -> Nat],
         hh[t] = h[u], vv[t] = v[u], vv[u] = 0,
         \A s \in Slots \ {u, t} : hh[s] = h[s] /\ vv[s] = v[s]
  PROVE  StoredTotal(hh, vv, f) = StoredTotal(h, v, f)
<1> DEFINE before == OfFeature(h, v, f)
           after == OfFeature(hh, vv, f)
           c == before[u]
           w == [before EXCEPT ![u] = 0]
<1>1. before \in [Slots -> Int] /\ before[t] = 0 /\ c \in Int
  BY DEF OfFeature
<1>2. after = [w EXCEPT ![t] = c]
  BY DEF OfFeature
<1>3. StoredTotal(h, v, f) = SumOf(before) /\ StoredTotal(hh, vv, f) = SumOf(after)
  BY DEF StoredTotal, OfFeature
<1> HIDE DEF before, after
<1>4. w \in [Slots -> Int] /\ w[t] = 0
  BY <1>1
<1>5. SumOf(w) = SumOf(before) - before[u] + 0
  <2>1. 0 \in Int
    OBVIOUS
  <2> QED BY <1>1, <2>1, SumUpdate
<1> HIDE DEF w
<1>6. SumOf([w EXCEPT ![t] = c]) = SumOf(w) - w[t] + c
  BY <1>1, <1>4, SumUpdate
<1>7. SumOf(before) \in Int /\ SumOf(w) \in Int
  BY <1>1, <1>4, SumIsInt
<1> QED BY <1>1, <1>2, <1>3, <1>4, <1>5, <1>6, <1>7

-----------------------------------------------------------------------------
(* Counts per feature.                                                     *)

\* StoredCount, of any table.
CountOf(h, v, f) ==
  LET At == {s \in Slots : h[s] = f /\ v[s] > 0}
  IN  IF At = {} THEN 0 ELSE v[CHOOSE s \in At : TRUE]

\* Where no feature is stored twice, the count is the value in its bucket.
LEMMA CountOfStored ==
  ASSUME NEW h \in [Slots -> Nat], NEW v \in [Slots -> Nat], UsedOnce(h, v), NEW f
  PROVE  /\ \A s \in Slots : h[s] = f /\ v[s] # 0 => CountOf(h, v, f) = v[s]
         /\ (\A s \in Slots : h[s] = f => v[s] = 0) => CountOf(h, v, f) = 0
         /\ CountOf(h, v, f) \in Nat
<1> DEFINE At == {s \in Slots : h[s] = f /\ v[s] > 0}
<1>1. \A s \in Slots : v[s] > 0 <=> v[s] # 0
  OBVIOUS
<1>2. \A s \in Slots : s \in At <=> h[s] = f /\ v[s] # 0
  BY <1>1
<1>3. \A s, t \in At : s = t
  BY <1>2 DEF UsedOnce
<1>4. At \subseteq Slots
  OBVIOUS
<1>5. CountOf(h, v, f) = IF At = {} THEN 0 ELSE v[CHOOSE s \in At : TRUE]
  BY DEF CountOf
<1> HIDE DEF At
<1>6. \A s \in At : (CHOOSE t \in At : TRUE) = s
  BY <1>3
<1>7. CASE At = {}
  <2>1. CountOf(h, v, f) = 0
    BY <1>5, <1>7
  <2> QED BY <1>2, <1>7, <2>1
<1>8. CASE At # {}
  <2>1. PICK s \in At : TRUE
    BY <1>8
  <2>2. s \in Slots /\ CountOf(h, v, f) = v[s] /\ h[s] = f /\ v[s] # 0
    BY <1>2, <1>4, <1>5, <1>6, <1>8, <2>1
  <2> QED BY <2>2 DEF UsedOnce
<1> QED BY <1>7, <1>8

\* A table with every bucket but one in use has no room for as many features as buckets.
LEMMA KnownFit ==
  ASSUME NEW h \in [Slots -> Nat], NEW v \in [Slots -> Nat], UsedOnce(h, v), NEW u \in Slots, v[u] = 0,
         NEW K, \A f \in K : CountOf(h, v, f) > 0
  PROVE  Cardinality(K) < HtLen
<1> DEFINE Others == Slots \ {u}
           place == [f \in K |-> CHOOSE s \in Others : h[s] = f]
<1>1. ASSUME NEW f \in K PROVE \E s \in Others : h[s] = f
  <2>1. PICK s \in Slots : h[s] = f /\ v[s] # 0
    BY CountOfStored
  <2> QED BY <2>1
<1>2. \A f \in K : place[f] \in Others /\ h[place[f]] = f
  BY <1>1
<1>3. place \in Injection(K, Others)
  <2>1. place \in [K -> Others]
    BY <1>2
  <2>2. DOMAIN place = K
    OBVIOUS
  <2> HIDE DEF place
  <2> QED BY <1>2, <2>1, <2>2 DEF Injection, IsInjective
<1>4. IsFiniteSet(Slots) /\ Cardinality(Slots) = HtLen
  BY FS_Interval, HtLenAssumption DEF Slots
<1>5. IsFiniteSet(Others) /\ Cardinality(Others) = HtLen - 1
  BY <1>4, FS_RemoveElement
<1> HIDE DEF place, Others
<1>6. Cardinality(K) <= HtLen - 1 /\ IsFiniteSet(K)
  BY <1>3, <1>5, FS_Injection
<1> QED BY <1>6, FS_CardinalityType, HtLenAssumption

\* Storing where the search ends changes one count, and takes its place.
LEMMA StoreCounts ==
  ASSUME NEW h \in [Slots -> Nat], NEW v \in [Slots -> Nat], UsedOnce(h, v),
         NEW hh \in [Slots -> Nat], NEW vv \in [Slots -> Nat], UsedOnce(hh, vv),
         NEW s \in Slots, NEW f \in Nat, h[s] = f \/ v[s] = 0,
         hh[s] = f, vv[s] # 0, \A t \in Slots \ {s} : hh[t] = h[t] /\ vv[t] = v[t]
  PROVE  /\ CountOf(h, v, f) = v[s] /\ CountOf(hh, vv, f) = vv[s]
         /\ \A g \in Nat \ {f} : CountOf(hh, vv, g) = CountOf(h, v, g)
<1>1. CountOf(hh, vv, f) = vv[s]
  BY CountOfStored
<1>2. CountOf(h, v, f) = v[s]
  <2>1. CASE v[s] # 0
    BY <2>1, CountOfStored
  <2>2. CASE v[s] = 0
    <3>1. \A t \in Slots : h[t] = f => v[t] = 0
      BY <2>2 DEF UsedOnce
    <3> QED BY <2>2, <3>1, CountOfStored
  <2> QED BY <2>1, <2>2
<1>3. ASSUME NEW g \in Nat \ {f} PROVE CountOf(hh, vv, g) = CountOf(h, v, g)
  <2>1. CASE \E t \in Slots : hh[t] = g /\ vv[t] # 0
    <3>1. PICK t \in Slots : hh[t] = g /\ vv[t] # 0
      BY <2>1
    <3>2. t # s /\ h[t] = g /\ v[t] = vv[t]
      BY <1>3, <3>1
    <3> QED BY <3>1, <3>2, CountOfStored
  <2>2. CASE \A t \in Slots : hh[t] = g => vv[t] = 0
    <3>1. \A t \in Slots : h[t] = g => v[t] = 0
      BY <1>3, <2>2
    <3> QED BY <2>2, <3>1, CountOfStored
  <2> QED BY <2>1, <2>2
<1> QED BY <1>1, <1>2, <1>3

\* What clearing buckets forgets, it forgets entirely.
LEMMA ClearedCounts ==
  ASSUME NEW h \in [Slots -> Nat], NEW v \in [Slots -> Nat], UsedOnce(h, v),
         NEW Z \in SUBSET Slots, NEW vv \in [Slots -> Nat],
         \A s \in Slots : vv[s] = IF s \in Z THEN 0 ELSE v[s], NEW f
  PROVE  CountOf(h, vv, f) = IF \E s \in Z : h[s] = f /\ v[s] # 0 THEN 0 ELSE CountOf(h, v, f)
<1>0. UsedOnce(h, vv)
  BY DEF UsedOnce
<1>1. CASE \E s \in Z : h[s] = f /\ v[s] # 0
  <2>1. \A s \in Slots : h[s] = f => vv[s] = 0
    BY <1>1 DEF UsedOnce
  <2> QED BY <1>0, <1>1, <2>1, CountOfStored
<1>2. CASE ~ \E s \in Z : h[s] = f /\ v[s] # 0
  <2>1. CASE \E s \in Slots : h[s] = f /\ v[s] # 0
    <3>1. PICK s \in Slots : h[s] = f /\ v[s] # 0
      BY <2>1
    <3>2. vv[s] = v[s]
      BY <1>2, <3>1
    <3>3. CountOf(h, vv, f) = vv[s] /\ CountOf(h, v, f) = v[s]
      BY <1>0, <3>1, <3>2, CountOfStored
    <3> QED BY <1>2, <3>2, <3>3
  <2>2. CASE \A s \in Slots : h[s] = f => v[s] = 0
    <3>1. \A s \in Slots : h[s] = f => vv[s] = 0
      BY <2>2
    <3>2. CountOf(h, vv, f) = 0 /\ CountOf(h, v, f) = 0
      BY <1>0, <2>2, <3>1, CountOfStored
    <3> QED BY <1>2, <3>2
  <2> QED BY <2>1, <2>2
<1> QED BY <1>1, <1>2

\* A feature counts the same wherever it is.
LEMMA SameUseSameCounts ==
  ASSUME NEW h \in [Slots -> Nat], NEW v \in [Slots -> Nat], UsedOnce(h, v),
         NEW hh \in [Slots -> Nat], NEW vv \in [Slots -> Nat], UsedOnce(hh, vv), NEW f,
         \A s \in Slots : v[s] # 0 => \E t \in Slots : hh[t] = h[s] /\ vv[t] = v[s],
         \A t \in Slots : vv[t] # 0 => \E s \in Slots : h[s] = hh[t] /\ v[s] = vv[t]
  PROVE  CountOf(hh, vv, f) = CountOf(h, v, f)
<1>1. CASE \E s \in Slots : h[s] = f /\ v[s] # 0
  <2>1. PICK s \in Slots : h[s] = f /\ v[s] # 0
    BY <1>1
  <2>2. PICK t \in Slots : hh[t] = h[s] /\ vv[t] = v[s]
    BY <2>1
  <2>3. CountOf(h, v, f) = v[s] /\ CountOf(hh, vv, f) = vv[t]
    BY <2>1, <2>2, CountOfStored
  <2> QED BY <2>2, <2>3
<1>2. CASE \A s \in Slots : h[s] = f => v[s] = 0
  <2>1. \A t \in Slots : hh[t] = f => vv[t] = 0
    BY <1>2
  <2>2. CountOf(hh, vv, f) = 0 /\ CountOf(h, v, f) = 0
    BY <1>2, <2>1, CountOfStored
  <2> QED BY <2>2
<1> QED BY <1>1, <1>2

-----------------------------------------------------------------------------
(* Type correctness.                                                       *)

\* The row being learned is a feature.
LEMMA RowIsFeature ==
  ASSUME TypeOK, pc # "idle"
  PROVE  h1 \in Features /\ h1 \in Nat /\ Home(h1) \in Slots
<1>1. doc \in Seq(Features) /\ i \in 1 .. Len(doc)
  BY DEF TypeOK
<1>2. h1 \in Features
  BY <1>1 DEF h1
<1> QED BY <1>2, FeaturesAssumption, HomeInSlots

\* A chain is one or two runs of buckets of the table.
LEMMA SegmentsType ==
  ASSUME NEW a \in Slots, NEW e \in Slots
  PROVE  /\ Len(Segments(a, e)) = 1 \/ Len(Segments(a, e)) = 2
         /\ \A n \in 1 .. Len(Segments(a, e)) :
              /\ Segments(a, e)[n].lo \in Slots
              /\ Segments(a, e)[n].hi \in Slots
<1>1. CASE a < e
  BY <1>1 DEF Segments
<1>2. CASE ~(a < e)
  <2>1. Segments(a, e) = <<[lo |-> a, hi |-> HtLen - 1], [lo |-> 0, hi |-> e]>>
    BY <1>2 DEF Segments
  <2>2. HtLen - 1 \in Slots /\ 0 \in Slots
    BY HtLenAssumption DEF Slots
  <2> QED BY <2>1, <2>2
<1> QED BY <1>1, <1>2

\* The segment being worked on has its ends in the table.
LEMMA SegType ==
  ASSUME TypeOK, pc # "idle"
  PROVE  /\ Len(Segs) = 1 \/ Len(Segs) = 2
         /\ seg = 1 \/ (seg = 2 /\ Len(Segs) = 2)
         /\ Segs[seg].lo \in Slots /\ Segs[seg].hi \in Slots
<1>1. Home(h1) \in Slots /\ packend \in Slots
  BY RowIsFeature DEF TypeOK
<1>2. Len(Segs) = 1 \/ Len(Segs) = 2
  BY <1>1, SegmentsType DEF Segs
<1>3. seg = 1 \/ (seg = 2 /\ Len(Segs) = 2)
  BY DEF TypeOK
<1>4. seg \in 1 .. Len(Segs)
  BY <1>2, <1>3
<1> QED BY <1>1, <1>2, <1>3, <1>4, SegmentsType DEF Segs

\* Before the last segment there is one that is not the last.
LEMMA NextSegment ==
  ASSUME TypeOK, pc # "idle", seg < Len(Segs)
  PROVE  /\ seg + 1 = 2 /\ Len(Segs) = 2
         /\ Segs[seg + 1].lo \in Slots /\ Segs[seg + 1].hi \in Slots
<1> DEFINE len == Len(Segs)
<1>1. /\ len = 1 \/ len = 2
      /\ seg = 1 \/ (seg = 2 /\ len = 2)
      /\ seg < len
  BY SegType
<1>2. seg = 1 /\ len = 2
  <2> HIDE DEF len
  <2> QED BY <1>1
<1>3. Home(h1) \in Slots /\ packend \in Slots
  BY RowIsFeature DEF TypeOK
<1>4. 2 \in 1 .. Len(Segs)
  BY <1>2
<1>5. Segs[2].lo \in Slots /\ Segs[2].hi \in Slots
  BY <1>3, <1>4, SegmentsType DEF Segs
<1> QED BY <1>2, <1>5

\* A segment's share of buckets to clear is a number.
LEMMA QuotaType ==
  ASSUME NEW sg, sg.lo \in Slots, sg.hi \in Slots
  PROVE  Quota(sg) \in Int
<1>1. sg.hi - sg.lo + 1 \in Int
  BY HtLenAssumption DEF Slots
<1>2. \A n \in Int : n \div GroomDivisor \in Int
  BY LimitsAssumption
<1> QED BY <1>1, <1>2 DEF Quota

\* The end of a chain is a bucket.
LEMMA PackEndType ==
  ASSUME NEW a \in Slots
  PROVE  PackEnd(a) \in Slots
<1>1. \A s \in Slots : Pred(s) \in Slots
  BY HtLenAssumption DEF Pred, Slots
<1> DEFINE Ends == {s \in Slots : hash[s] = 0}
           First == CHOOSE s \in Ends : \A t \in Ends : Dist(a, s) <= Dist(a, t)
<1>2. ASSUME Ends # {} PROVE First \in Slots
  <2>1. \E s \in Ends : \A t \in Ends : Dist(a, s) <= Dist(a, t)
    BY <1>2, FirstOnWalk
  <2>2. First \in Ends
    BY <2>1
  <2> QED BY <2>2
<1>3. PackEnd(a) = IF Ends = {} THEN Pred(a) ELSE Pred(First)
  BY DEF PackEnd
<1> HIDE DEF Ends, First
<1> QED BY <1>1, <1>2, <1>3

\* A pass of zap clears a number of buckets.
LEMMA ZapSetType == Cardinality(ZapSet) \in Nat
<1>1. IsFiniteSet(Slots)
  BY FS_Interval, HtLenAssumption DEF Slots
<1>2. ZapSet \in SUBSET Slots
  BY DEF ZapSet
<1> QED BY <1>1, <1>2, FS_Subset, FS_CardinalityType

\* The value that learning or erasing leaves is a value.
LEMMA NewValueType ==
  ASSUME NEW v \in Values
  PROVE  NewValue(v) \in Values
BY ValueMaxAssumption DEF NewValue, Values

LEMMA InitType == Init => TypeOK
BY HtLenAssumption, ValueMaxAssumption
DEF Init, GroomIdle, TypeOK, EmptyHash, EmptyValue, Hashes, Values, Slots, Flags

LEMMA NextType == TypeOK /\ [Next]_vars => TypeOK'
<1> SUFFICES ASSUME TypeOK, [Next]_vars PROVE TypeOK'
  OBVIOUS
<1> USE DEF TypeOK
<1>1. ASSUME NEW d \in Docs, NEW fl \in FlagSets, LearnCall(d, fl) PROVE TypeOK'
  <2>1. d \in Seq(Features) /\ fl \in SUBSET Flags
    BY DocsAssumption, FlagSetsAssumption
  <2>2. documents' \in Nat
    BY <1>1 DEF LearnCall, DocumentsAfter, AtLeast0
  <2>3. CASE d = <<>>
    BY <1>1, <2>2, <2>3 DEF LearnCall, table, groom, Segs, h1
  <2>4. CASE d # <<>>
    <3>1. d[1] \in Features /\ Len(d) >= 1
      BY <2>1, <2>4
    <3>2. Home(d[1]) \in Slots
      BY <3>1, FeaturesAssumption, HomeInSlots
    <3> QED BY <1>1, <2>1, <2>2, <2>4, <3>1, <3>2 DEF LearnCall, StartOf, table, groom
  <2> QED BY <2>3, <2>4
<1>2. ASSUME NEW d \in Docs, NEW fl \in FlagSets, LearnRefused(d, fl) PROVE TypeOK'
  BY <1>2 DEF LearnRefused, table, counters, groom, Segs, h1
<1>3. ASSUME ProbeNext PROVE TypeOK'
  BY <1>3, SuccInSlots DEF ProbeNext, table, counters, groom
<1>4. ASSUME ProbeFull PROVE TypeOK'
  <2>1. 0 \in Slots
    BY HtLenAssumption DEF Slots
  <2> QED BY <1>4, <2>1 DEF ProbeFull, Return, table, counters, groom
<1>5. ASSUME Store PROVE TypeOK'
  <2>1. h1 \in Features
    BY <1>5, RowIsFeature DEF Store
  <2>2. hash' \in [Slots -> Hashes]
    BY <1>5, <2>1 DEF Store, Hashes
  <2>3. value' \in [Slots -> Values]
    BY <1>5, NewValueType DEF Store
  <2>4. features' \in Int
    BY <1>5 DEF Store, FeaturesAfterStore, sense
  <2>5. CASE i = Len(doc)
    <3>1. 0 \in Slots
      BY HtLenAssumption DEF Slots
    <3> QED BY <1>5, <2>2, <2>3, <2>4, <2>5, <3>1 DEF Store, Return, groom
  <2>6. CASE i # Len(doc)
    <3>1. i + 1 \in 1 .. Len(doc)
      BY <1>5, <2>6 DEF Store
    <3>2. doc[i + 1] \in Nat
      <4>1. doc \in Seq(Features)
        OBVIOUS
      <4>2. doc[i + 1] \in Features
        BY <3>1, <4>1
      <4> QED BY <4>2, FeaturesAssumption
    <3>3. Home(doc[i + 1]) \in Slots
      BY <3>2, HomeInSlots
    <3> QED BY <1>5, <2>2, <2>3, <2>4, <2>6, <3>1, <3>3 DEF Store, StartOf, groom
  <2> QED BY <2>5, <2>6
<1>6. ASSUME GroomCall PROVE TypeOK'
  <2>1. Home(h1) \in Slots
    BY <1>6, RowIsFeature DEF GroomCall
  <2>2. PackEnd(Home(h1)) \in Slots
    BY <2>1, PackEndType
  <2>3. zcountdown' \in Int
    <3> DEFINE segs == Segments(Home(h1), PackEnd(Home(h1)))
    <3>0. Len(segs) = 1 \/ Len(segs) = 2
      BY <2>1, <2>2, SegmentsType
    <3>1. 1 \in 1 .. Len(segs)
      <4> HIDE DEF segs
      <4> QED BY <3>0
    <3>2. segs[1].lo \in Slots /\ segs[1].hi \in Slots
      BY <2>1, <2>2, <3>1, SegmentsType
    <3>3. Quota(segs[1]) \in Int
      BY <3>2, QuotaType
    <3> QED BY <1>6, <3>3 DEF GroomCall
  <2> QED BY <1>6, <2>2, <2>3, HtLenAssumption DEF GroomCall, table, counters
<1>7. ASSUME ZapSweep PROVE TypeOK'
  <2>1. value' \in [Slots -> Values]
    BY <1>7, ValueMaxAssumption DEF ZapSweep, Values
  <2>2. vcut' \in Int /\ zcountdown' \in Int /\ zeroed' \in Nat
    BY <1>7, ZapSetType, LimitsAssumption DEF ZapSweep
  <2> QED BY <1>7, <2>1, <2>2 DEF ZapSweep, counters, call, Segs, h1
<1>8. ASSUME ZapDone PROVE TypeOK'
  <2>2. CASE seg < Len(Segs)
    <3>1. /\ seg + 1 = 2 /\ Len(Segs) = 2
          /\ Segs[seg + 1].lo \in Slots /\ Segs[seg + 1].hi \in Slots
      BY <1>8, <2>2, NextSegment DEF ZapDone
    <3>2. Quota(Segs[seg + 1]) \in Int
      BY <3>1, QuotaType
    <3> QED BY <1>8, <2>2, <3>1, <3>2 DEF ZapDone, table, counters, Segs, h1
  <2>3. CASE ~(seg < Len(Segs))
    BY <1>8, <2>3 DEF ZapDone, table, counters
  <2> QED BY <2>2, <2>3
<1>9. ASSUME PackClear PROVE TypeOK'
  <2>1. hash' \in [Slots -> Hashes]
    BY <1>9 DEF PackClear, Hashes
  <2>2. ifrom' \in 0 .. HtLen
    BY <1>9, SegType, HtLenAssumption DEF PackClear, Slots
  <2> QED BY <1>9, <2>1, <2>2 DEF PackClear, counters, Segs, h1
<1>10. ASSUME PackMove PROVE TypeOK'
  <2>1. ifrom' \in 0 .. HtLen
    BY <1>10, SegType, HtLenAssumption DEF PackMove, Slots
  <2>2. hash' \in [Slots -> Hashes] /\ value' \in [Slots -> Values]
    <3>1. CASE value[ifrom] = 0
      BY <1>10, <3>1 DEF PackMove, table
    <3>2. CASE value[ifrom] # 0
      <4>1. ifrom \in Slots
        BY <1>10, SegType, HtLenAssumption DEF PackMove, Slots
      <4>2. hash[ifrom] \in Hashes /\ value[ifrom] \in Values /\ 0 \in Hashes /\ 0 \in Values
        BY <4>1, ValueMaxAssumption DEF Hashes, Values
      <4> QED BY <1>10, <3>2, <4>1, <4>2 DEF PackMove
    <3> QED BY <3>1, <3>2
  <2> QED BY <1>10, <2>1, <2>2 DEF PackMove, counters, call, Segs, h1
<1>11. ASSUME PackNextSegment PROVE TypeOK'
  <2>1. Len(Segs) = 2 /\ seg + 1 = 2
    BY <1>11, NextSegment DEF PackNextSegment
  <2> QED BY <1>11, <2>1 DEF PackNextSegment, table, counters, Segs, h1
<1>12. ASSUME GroomReturn PROVE TypeOK'
  <2>1. 0 \in Slots /\ 0 \in 0 .. HtLen
    BY HtLenAssumption DEF Slots
  <2>2. Home(h1) \in Slots
    BY <1>12, RowIsFeature DEF GroomReturn
  <2>3. CASE zeroed = 0
    BY <1>12, <2>1, <2>3 DEF GroomReturn, Helpless, Return, table
  <2>4. CASE zeroed # 0
    BY <1>12, <2>1, <2>2, <2>4 DEF GroomReturn, FeaturesAfterGroom, Helpless, StartOf, table
  <2> QED BY <2>3, <2>4
<1>13. ASSUME UNCHANGED vars PROVE TypeOK'
  BY <1>13 DEF vars, table, counters, call, groom, Segs, h1
<1> QED
  BY <1>1, <1>2, <1>3, <1>4, <1>5, <1>6, <1>7, <1>8, <1>9, <1>10, <1>11, <1>12, <1>13
  DEF Next, Learn

(***************************************************************************)
(* Every variable keeps its type, with all flags and with grooming: no     *)
(* index of learn, zap or pack leaves the table.                           *)
(***************************************************************************)
THEOREM TypeCorrect == Spec => []TypeOK
BY InitType, NextType, PTL DEF Spec

-----------------------------------------------------------------------------
(* What a probe has established.                                           *)

(***************************************************************************)
(* While learn probes, incrs is how far it has gone from the home bucket,  *)
(* and every bucket it has passed is in use by another feature.  Nothing   *)
(* moves in the table under the probe: after a groom it starts again.      *)
(***************************************************************************)
ProbeInv ==
  pc = "probe" => /\ incrs = Dist(Home(h1), hindex)
                  /\ Reaches(hash, value, h1, hindex)

LEMMA ProbeInvStep == TypeOK /\ TypeOK' /\ ProbeInv /\ [Next]_vars => ProbeInv'
<1> SUFFICES ASSUME TypeOK, TypeOK', ProbeInv, [Next]_vars, pc' = "probe"
             PROVE  /\ incrs' = Dist(Home(h1'), hindex')
                    /\ Reaches(hash', value', h1', hindex')
  BY DEF ProbeInv
<1>0. h1' \in Nat
  <2>1. doc' \in Seq(Features) /\ i' \in 1 .. Len(doc')
    BY DEF TypeOK
  <2>2. doc'[i'] \in Features
    BY <2>1
  <2> QED BY <2>2, FeaturesAssumption DEF h1
<1> DEFINE Fresh == hindex' = Home(h1') /\ incrs' = 0
<1>1. CASE Fresh
  BY <1>0, <1>1, HomeReaches
<1>2. ASSUME NEW d \in Docs, NEW fl \in FlagSets, LearnCall(d, fl) PROVE Fresh
  BY <1>2 DEF LearnCall, StartOf, h1
<1>3. ASSUME Store PROVE Fresh
  BY <1>3 DEF Store, StartOf, Return, h1
<1>4. ASSUME GroomReturn PROVE Fresh
  BY <1>4 DEF GroomReturn, StartOf, Return, h1
<1>5. CASE ProbeNext
  <2>1. h1 \in Nat /\ h1' = h1 /\ hash' = hash /\ value' = value
    BY <1>5, RowIsFeature DEF ProbeNext, table, h1
  <2>2. /\ hindex \in Slots /\ hindex' = Succ(hindex) /\ incrs' = incrs + 1
        /\ ~Stops(hash, value, h1, hindex) /\ Reaches(hash, value, h1, hindex)
        /\ incrs = Dist(Home(h1), hindex) /\ Dist(Home(h1), hindex) + 1 < HtLen
    BY <1>5 DEF ProbeNext, AtStop, ProbeInv, TypeOK
  <2>3. Dist(Home(h1), Succ(hindex)) = Dist(Home(h1), hindex) + 1
    BY <2>1, <2>2, HomeInSlots, DistSucc
  <2>4. Reaches(hash, value, h1, Succ(hindex))
    BY <2>1, <2>2, ReachesNext
  <2> QED BY <2>1, <2>2, <2>3, <2>4
<1>6. CASE ProbeFull \/ GroomCall \/ ZapSweep \/ ZapDone \/ PackClear \/ PackMove \/ PackNextSegment
  BY <1>6
  DEF ProbeFull, GroomCall, ZapSweep, ZapDone, PackClear, PackMove, PackNextSegment, Return, call
<1>7. ASSUME NEW d \in Docs, NEW fl \in FlagSets, LearnRefused(d, fl)
      PROVE  incrs' = Dist(Home(h1'), hindex') /\ Reaches(hash', value', h1', hindex')
  BY <1>7 DEF LearnRefused
<1>8. CASE UNCHANGED vars
  BY <1>8 DEF vars, table, call, h1, ProbeInv
<1> QED
  BY <1>1, <1>2, <1>3, <1>4, <1>5, <1>6, <1>7, <1>8 DEF Next, Learn

LEMMA ProbeInvariant == Spec => [](TypeOK /\ ProbeInv)
<1>1. Init => ProbeInv
  BY DEF Init, ProbeInv
<1> QED BY <1>1, InitType, NextType, ProbeInvStep, PTL DEF Spec

(***************************************************************************)
(* learn's own "full" answer is never early: with all flags, erasing and   *)
(* grooming included, it has by then seen every bucket in use by another   *)
(* feature.                                                                *)
(***************************************************************************)
THEOREM FullIsFull == Spec => FullMeansFull
<1>1. ASSUME TypeOK, ProbeInv, [Next]_vars, pc = "probe", ret' = "CLASS_FULL"
      PROVE  \A s \in Slots : value[s] > 0 /\ hash[s] # h1
  <2>1. ProbeFull
    BY <1>1
    DEF Next, Learn, LearnCall, LearnRefused, ProbeNext, Store, GroomCall, ZapSweep, ZapDone,
        PackClear, PackMove, PackNextSegment, GroomReturn, Return, vars, call, TypeOK
  <2>2. h1 \in Nat /\ hindex \in Slots /\ hash \in [Slots -> Hashes] /\ value \in [Slots -> Values]
    BY <1>1, RowIsFeature DEF TypeOK
  <2>3. \A s \in Slots : ~Stops(hash, value, h1, s)
    BY <1>1, <2>1, <2>2, FullCircle DEF ProbeInv, ProbeFull, AtStop
  <2> QED BY <2>2, <2>3 DEF Stops, Values
<1> QED BY <1>1, ProbeInvariant, PTL DEF Spec, FullMeansFull

-----------------------------------------------------------------------------
(* Nothing is lost by plain learning.                                      *)

(***************************************************************************)
(* The flags with which learn neither erases nor grooms.                   *)
(***************************************************************************)
OnlyAffirms(fl) == "ERASE" \notin fl /\ "MICROGROOM" \notin fl

(***************************************************************************)
(* NoOrphans is not inductive: that the bucket a feature goes into is the  *)
(* one where the search for it ends rests on what the probe has seen.      *)
(***************************************************************************)
ReachInv ==
  /\ pc \in {"idle", "probe"}
  /\ OnlyAffirms(flags)
  /\ AllReachable(hash, value)

LEMMA ReachInvStep ==
  ASSUME \A fl \in FlagSets : OnlyAffirms(fl)
  PROVE  TypeOK /\ ProbeInv /\ ReachInv /\ [Next]_vars => ReachInv'
<1> SUFFICES ASSUME TypeOK, ProbeInv, ReachInv, [Next]_vars PROVE ReachInv'
  OBVIOUS
<1>1. ASSUME NEW d \in Docs, NEW fl \in FlagSets, LearnCall(d, fl) PROVE ReachInv'
  BY <1>1 DEF LearnCall, ReachInv, table
<1>2. ASSUME NEW d \in Docs, NEW fl \in FlagSets, LearnRefused(d, fl) PROVE ReachInv'
  BY <1>2 DEF LearnRefused, ReachInv, table
<1>3. CASE ProbeNext
  BY <1>3 DEF ProbeNext, ReachInv, table
<1>4. CASE ProbeFull
  BY <1>4 DEF ProbeFull, Return, ReachInv, OnlyAffirms, table
<1>5. CASE Store
  <2>1. h1 \in Nat /\ hindex \in Slots
    BY <1>5, RowIsFeature DEF Store, TypeOK
  <2>2. hash \in [Slots -> Nat] /\ value \in [Slots -> Nat]
    <3>1. Hashes \subseteq Nat /\ Values \subseteq Nat
      BY FeaturesAssumption, ValueMaxAssumption DEF Hashes, Values
    <3>2. hash \in [Slots -> Hashes] /\ value \in [Slots -> Values]
      BY DEF TypeOK
    <3> QED BY <3>1, <3>2
  <2> DEFINE n == NewValue(value[hindex])
  <2>3. sense = 1
    BY DEF sense, ReachInv, OnlyAffirms
  <2>4. n \in Nat /\ n > 0
    BY <2>1, <2>2, <2>3, ValueMaxAssumption DEF NewValue
  <2>5. hash' = [hash EXCEPT ![hindex] = h1] /\ value' = [value EXCEPT ![hindex] = n]
    BY <1>5, <2>3 DEF Store
  <2>6. AllReachable(hash, value) /\ Stops(hash, value, h1, hindex) /\ Reaches(hash, value, h1, hindex)
    BY <1>5 DEF Store, AtStop, ReachInv, ProbeInv
  <2>7. AllReachable(hash', value')
    <3> HIDE DEF n
    <3> QED BY <2>1, <2>2, <2>4, <2>5, <2>6, StoreKeepsReachable
  <2>8. pc' \in {"idle", "probe"} /\ OnlyAffirms(flags')
    BY <1>5 DEF Store, Return, ReachInv, OnlyAffirms
  <2> QED BY <2>7, <2>8 DEF ReachInv
<1>6. ~GroomCall
  BY DEF GroomCall, MustGroom, ReachInv, OnlyAffirms
<1>7. ~(ZapSweep \/ ZapDone \/ PackClear \/ PackMove \/ PackNextSegment \/ GroomReturn)
  BY DEF ZapSweep, ZapDone, PackClear, PackMove, PackNextSegment, GroomReturn, ReachInv
<1>8. CASE UNCHANGED vars
  BY <1>8 DEF vars, table, call, ReachInv
<1> QED BY <1>1, <1>2, <1>3, <1>4, <1>5, <1>6, <1>7, <1>8 DEF Next, Learn

(***************************************************************************)
(* In a class that is only ever added to -- no ERASE, no MICROGROOM --     *)
(* classify finds every feature that was stored, also after calls that     *)
(* failed half way on a full table.                                        *)
(***************************************************************************)
THEOREM PlainLearningOrphansNothing ==
  ASSUME \A fl \in FlagSets : OnlyAffirms(fl)
  PROVE  Spec => []NoOrphans
<1>1. Init => ReachInv
  BY DEF Init, ReachInv, OnlyAffirms, AllReachable, EmptyValue
<1>2. TypeOK /\ ProbeInv /\ ReachInv /\ [Next]_vars => ReachInv'
  BY ReachInvStep
<1>3. ReachInv => NoOrphans
  BY DEF ReachInv, NoOrphans
<1> QED BY <1>1, <1>2, <1>3, ProbeInvariant, PTL DEF Spec

-----------------------------------------------------------------------------
(* The document counter.                                                   *)

(***************************************************************************)
(* A running call has already been counted, so that whatever it stores is  *)
(* covered even if it fails.                                               *)
(***************************************************************************)
DocumentsInv ==
  /\ "ERASE" \notin flags
  /\ pc # "idle" => documents > 0
  /\ StoredNeedsDocuments

LEMMA DocumentsInvStep ==
  ASSUME \A fl \in FlagSets : "ERASE" \notin fl
  PROVE  TypeOK /\ DocumentsInv /\ [Next]_vars => DocumentsInv'
<1> SUFFICES ASSUME TypeOK, DocumentsInv, [Next]_vars PROVE DocumentsInv'
  OBVIOUS
<1>1. ASSUME NEW d \in Docs, NEW fl \in FlagSets, LearnCall(d, fl) PROVE DocumentsInv'
  <2>1. documents' > 0
    BY <1>1 DEF LearnCall, DocumentsAfter, AtLeast0, TypeOK
  <2> QED BY <1>1, <2>1 DEF LearnCall, DocumentsInv, StoredNeedsDocuments
<1>2. ASSUME NEW d \in Docs, NEW fl \in FlagSets, LearnRefused(d, fl) PROVE DocumentsInv'
  BY <1>2 DEF LearnRefused, DocumentsInv, StoredNeedsDocuments, table, counters
<1>3. CASE Learn
  <2>1. documents > 0
    BY <1>3
    DEF Learn, ProbeNext, ProbeFull, Store, GroomCall, ZapSweep, ZapDone,
        PackClear, PackMove, PackNextSegment, GroomReturn, DocumentsInv
  <2>2. documents' = documents
    BY <1>3
    DEF Learn, ProbeNext, ProbeFull, Store, GroomCall, ZapSweep, ZapDone,
        PackClear, PackMove, PackNextSegment, GroomReturn, counters
  <2>3. flags' = flags \/ flags' = {}
    BY <1>3
    DEF Learn, ProbeNext, ProbeFull, Store, GroomCall, ZapSweep, ZapDone,
        PackClear, PackMove, PackNextSegment, GroomReturn, Return, call
  <2> QED BY <2>1, <2>2, <2>3 DEF DocumentsInv, StoredNeedsDocuments
<1>4. CASE UNCHANGED vars
  BY <1>4 DEF vars, table, counters, call, DocumentsInv, StoredNeedsDocuments
<1> QED BY <1>1, <1>2, <1>3, <1>4 DEF Next

(***************************************************************************)
(* Without ERASE, classify never divides by a document count of 0 for a    *)
(* class in which it can have a hit; grooming and failed calls included.   *)
(***************************************************************************)
THEOREM DocumentsCoverStored ==
  ASSUME \A fl \in FlagSets : "ERASE" \notin fl
  PROVE  Spec => []StoredNeedsDocuments
<1>1. Init => DocumentsInv
  BY DEF Init, DocumentsInv, StoredNeedsDocuments, EmptyValue
<1>2. TypeOK /\ DocumentsInv /\ [Next]_vars => DocumentsInv'
  BY DocumentsInvStep
<1>3. DocumentsInv => StoredNeedsDocuments
  BY DEF DocumentsInv
<1> QED BY <1>1, <1>2, <1>3, TypeCorrect, PTL DEF Spec

-----------------------------------------------------------------------------
(* What a step does to the table.                                          *)

(* What one step does to the table.                                        *)

LEMMA TableTypes ==
  ASSUME TypeOK
  PROVE  /\ hash \in [Slots -> Nat] /\ value \in [Slots -> Nat]
         /\ \A s \in Slots : value[s] <= ValueMax - 1
<1>1. Hashes \subseteq Nat /\ Values \subseteq Nat /\ \A n \in Values : n <= ValueMax - 1
  BY FeaturesAssumption, ValueMaxAssumption DEF Hashes, Values
<1>2. hash \in [Slots -> Hashes] /\ value \in [Slots -> Values]
  BY DEF TypeOK
<1> QED BY <1>1, <1>2

\* So it does after a step.
LEMMA TableTypesNext ==
  ASSUME TypeOK'
  PROVE  hash' \in [Slots -> Nat] /\ value' \in [Slots -> Nat]
<1>1. Hashes \subseteq Nat /\ Values \subseteq Nat
  BY FeaturesAssumption, ValueMaxAssumption DEF Hashes, Values
<1>2. hash' \in [Slots -> Hashes] /\ value' \in [Slots -> Values]
  BY DEF TypeOK
<1> QED BY <1>1, <1>2

\* Of the steps of a call, while it probes, only Store changes the table.
LEMMA ProbeChanges ==
  ASSUME pc = "probe", [Next]_vars
  PROVE  Store \/ UNCHANGED table
BY DEF Next, Learn, LearnCall, LearnRefused, ProbeNext, ProbeFull, GroomCall, ZapSweep, ZapDone,
       PackClear, PackMove, PackNextSegment, GroomReturn, vars

\* The bucket that Store writes belongs to the feature already, or is free.
LEMMA StoreWrites ==
  ASSUME TypeOK, Store
  PROVE  /\ hindex \in Slots /\ h1 \in Nat /\ h1 \in Features
         /\ hash[hindex] = h1 \/ value[hindex] = 0
         /\ "ERASE" \in flags  => /\ hash' = hash
                                  /\ \E n \in Nat : n <= value[hindex] /\ value' = [value EXCEPT ![hindex] = n]
         /\ "ERASE" \notin flags => /\ hash' = [hash EXCEPT ![hindex] = h1]
                                    /\ \E n \in Nat : /\ n > 0 /\ value[hindex] <= n /\ n <= value[hindex] + 1
                                                      /\ value' = [value EXCEPT ![hindex] = n]
<1>1. hindex \in Slots /\ h1 \in Nat /\ h1 \in Features
  BY RowIsFeature DEF Store, TypeOK
<1>2. hash[hindex] = h1 \/ value[hindex] = 0
  BY DEF Store, AtStop, Stops
<1> DEFINE n == NewValue(value[hindex])
<1>3. value[hindex] \in Nat /\ value[hindex] <= ValueMax - 1
  BY <1>1, TableTypes
<1>4. value' = [value EXCEPT ![hindex] = n]
  BY DEF Store
<1>5. ASSUME "ERASE" \in flags PROVE hash' = hash /\ n \in Nat /\ n <= value[hindex]
  BY <1>3, <1>5 DEF Store, sense, NewValue
<1>6. ASSUME "ERASE" \notin flags
      PROVE  /\ hash' = [hash EXCEPT ![hindex] = h1]
             /\ n \in Nat /\ n > 0 /\ value[hindex] <= n /\ n <= value[hindex] + 1
  BY <1>3, <1>6, ValueMaxAssumption DEF Store, sense, NewValue
<1> HIDE DEF n
<1> QED BY <1>1, <1>2, <1>4, <1>5, <1>6

(* The feature counter.                                                    *)

\* The bucket that packseg looks at moves to where the search for it ends.
LEMMA PackMoves ==
  ASSUME TypeOK, PackMove, value[ifrom] # 0
  PROVE  \E t \in Slots :
           /\ ifrom \in Slots /\ t = StopSlot(hash, value, hash[ifrom])
           /\ Stops(hash, value, hash[ifrom], t) /\ Reaches(hash, value, hash[ifrom], t)
           /\ hash' = [hash EXCEPT ![ifrom] = 0, ![t] = hash[ifrom]]
           /\ value' = [value EXCEPT ![ifrom] = 0, ![t] = value[ifrom]]
<1>1. ifrom \in Slots
  <2>1. Segs[seg].hi \in Slots /\ ifrom <= Segs[seg].hi /\ ifrom \in Nat
    BY SegType, HtLenAssumption DEF PackMove, TypeOK, Slots
  <2> QED BY <2>1, HtLenAssumption DEF Slots
<1>2. hash[ifrom] \in Nat
  BY <1>1, TableTypes
<1>3. Stops(hash, value, hash[ifrom], ifrom)
  BY DEF Stops
<1> DEFINE t == StopSlot(hash, value, hash[ifrom])
<1>4. t \in Slots /\ Stops(hash, value, hash[ifrom], t) /\ Reaches(hash, value, hash[ifrom], t)
  BY <1>1, <1>2, <1>3, StopSlotExists
<1>5. /\ hash' = [hash EXCEPT ![ifrom] = 0, ![t] = hash[ifrom]]
      /\ value' = [value EXCEPT ![ifrom] = 0, ![t] = value[ifrom]]
  BY DEF PackMove
<1> HIDE DEF t
<1> QED BY <1>1, <1>4, <1>5 DEF t

-----------------------------------------------------------------------------
(* Erasing never adds, learning never takes away; what is learned is found. *)

(***************************************************************************)
(* Erasing never adds to what is stored of a feature and learning never    *)
(* takes any away, under all flags: the bucket that is written is the      *)
(* feature's own or free.                                                  *)
(***************************************************************************)
THEOREM LearningKeepsSense == Spec => SenseIsKept
<1>1. ASSUME TypeOK, TypeOK', [Next]_vars, pc = "probe", NEW f \in Features
      PROVE  /\ "ERASE" \in flags => StoredTotal(hash', value', f) <= StoredTotal(hash, value, f)
             /\ "ERASE" \notin flags => StoredTotal(hash', value', f) >= StoredTotal(hash, value, f)
  <2>1. hash \in [Slots -> Nat] /\ value \in [Slots -> Nat] /\ hash' \in [Slots -> Nat] /\ value' \in [Slots -> Nat]
    BY <1>1, TableTypes, TableTypesNext
  <2> DEFINE before == OfFeature(hash, value, f)
             after  == OfFeature(hash', value', f)
  <2>2. before \in [Slots -> Int] /\ after \in [Slots -> Int]
    BY <2>1, OfFeatureType
  <2>3. StoredTotal(hash, value, f) = SumOf(before) /\ StoredTotal(hash', value', f) = SumOf(after)
    BY DEF StoredTotal, OfFeature
  <2>4. CASE UNCHANGED table
    <3>1. after = before
      BY <2>4 DEF table
    <3>2. SumOf(before) \in Int
      BY <2>2, SumIsInt
    <3> QED BY <2>3, <3>1, <3>2
  <2>5. CASE Store
    <3>1. ASSUME "ERASE" \in flags PROVE \A s \in Slots : after[s] <= before[s]
      <4>1. PICK n \in Nat : n <= value[hindex] /\ value' = [value EXCEPT ![hindex] = n]
        BY <1>1, <2>5, <3>1, StoreWrites
      <4>2. hash' = hash
        BY <1>1, <2>5, <3>1, StoreWrites
      <4> QED BY <2>1, <4>1, <4>2 DEF OfFeature
    <3>2. ASSUME "ERASE" \notin flags PROVE \A s \in Slots : before[s] <= after[s]
      <4>1. PICK n \in Nat : value[hindex] <= n /\ value' = [value EXCEPT ![hindex] = n]
        BY <1>1, <2>5, <3>2, StoreWrites
      <4>2. hash' = [hash EXCEPT ![hindex] = h1] /\ hindex \in Slots /\ (hash[hindex] = h1 \/ value[hindex] = 0)
        BY <1>1, <2>5, <3>2, StoreWrites
      <4> QED BY <2>1, <4>1, <4>2 DEF OfFeature
    <3> HIDE DEF before, after
    <3> QED BY <2>2, <2>3, <3>1, <3>2, SumMonotone
  <2> QED BY <1>1, <2>4, <2>5, ProbeChanges
<1>2. TypeOK /\ TypeOK' /\ [Next]_vars =>
        (pc = "probe" =>
           \A f \in Features :
             /\ "ERASE" \in flags => StoredTotal(hash', value', f) <= StoredTotal(hash, value, f)
             /\ "ERASE" \notin flags => StoredTotal(hash', value', f) >= StoredTotal(hash, value, f))
  BY <1>1
<1> QED BY <1>2, TypeCorrect, PTL DEF Spec, SenseIsKept

(***************************************************************************)
(* The rows that a call without ERASE and MICROGROOM has passed are found, *)
(* and only a call with MICROGROOM is ever in the groomer.                 *)
(***************************************************************************)
FoundInv ==
  /\ pc \in {"zap", "clear", "pack"} => "MICROGROOM" \in flags
  /\ (pc = "probe" /\ OnlyAffirms(flags)) => \A r \in 1 .. i - 1 : Found(hash, value, doc[r])

\* Storing a row adds it to the rows that are found.
LEMMA StoreFinds ==
  ASSUME TypeOK, ProbeInv, FoundInv, Store, OnlyAffirms(flags)
  PROVE  \A r \in 1 .. i : doc[r] \in Nat /\ Found(hash', value', doc[r])
<1>1. hash \in [Slots -> Nat] /\ value \in [Slots -> Nat]
  BY TableTypes
<1>2. hindex \in Slots /\ h1 \in Nat /\ hash' = [hash EXCEPT ![hindex] = h1]
  BY StoreWrites DEF OnlyAffirms
<1>3. \E n \in Nat : n > 0 /\ value' = [value EXCEPT ![hindex] = n]
  BY StoreWrites DEF OnlyAffirms
<1>4. PICK n \in Nat : n > 0 /\ value' = [value EXCEPT ![hindex] = n]
  BY <1>3
<1>5. Stops(hash, value, h1, hindex) /\ Reaches(hash, value, h1, hindex)
  BY DEF Store, AtStop, ProbeInv
<1> TAKE r \in 1 .. i
<1>6. doc[r] \in Nat
  <2>1. doc \in Seq(Features) /\ r \in 1 .. Len(doc)
    BY DEF TypeOK, Store
  <2>2. doc[r] \in Features
    BY <2>1
  <2> QED BY <2>2, FeaturesAssumption
<1>7. doc[r] = h1 \/ Found(hash, value, doc[r])
  <2>1. r = i \/ r \in 1 .. i - 1
    BY DEF TypeOK
  <2> QED BY <2>1 DEF FoundInv, h1, Store
<1> QED BY <1>1, <1>2, <1>4, <1>5, <1>6, <1>7, StoreKeepsFound

\* Every step keeps it; between calls it says nothing.
LEMMA FoundInvStep == TypeOK /\ TypeOK' /\ ProbeInv /\ FoundInv /\ [Next]_vars => FoundInv'
<1> SUFFICES ASSUME TypeOK, TypeOK', ProbeInv, FoundInv, [Next]_vars PROVE FoundInv'
  OBVIOUS
<1>1. ASSUME NEW d \in Docs, NEW fl \in FlagSets, LearnCall(d, fl) PROVE FoundInv'
  BY <1>1 DEF LearnCall, FoundInv
<1>2. CASE Store
  <2>1. CASE i = Len(doc)
    BY <1>2, <2>1 DEF Store, Return, FoundInv
  <2>2. CASE i # Len(doc)
    <3>1. i' = i + 1 /\ doc' = doc /\ flags' = flags /\ pc' = "probe" /\ (i + 1) - 1 = i
      BY <1>2, <2>2 DEF Store, TypeOK
    <3> QED BY <1>2, <3>1, StoreFinds DEF FoundInv
  <2> QED BY <2>1, <2>2
<1>3. CASE GroomReturn
  <2>1. "MICROGROOM" \in flags
    BY <1>3 DEF GroomReturn, FoundInv
  <2> QED BY <1>3, <2>1 DEF GroomReturn, Return, FoundInv, OnlyAffirms
<1>4. CASE GroomCall
  BY <1>4 DEF GroomCall, MustGroom, FoundInv
<1>5. CASE ProbeNext
  BY <1>5 DEF ProbeNext, FoundInv, table
<1>6. CASE ProbeFull
  BY <1>6 DEF ProbeFull, Return, FoundInv
<1>7. CASE ZapSweep \/ ZapDone \/ PackClear \/ PackMove \/ PackNextSegment
  BY <1>7 DEF ZapSweep, ZapDone, PackClear, PackMove, PackNextSegment, FoundInv, call
<1>8. ASSUME NEW d \in Docs, NEW fl \in FlagSets, LearnRefused(d, fl) PROVE FoundInv'
  BY <1>8 DEF LearnRefused, FoundInv
<1>9. CASE UNCHANGED vars
  BY <1>9 DEF vars, call, table, FoundInv
<1> QED BY <1>1, <1>2, <1>3, <1>4, <1>5, <1>6, <1>7, <1>8, <1>9 DEF Next, Learn

(***************************************************************************)
(* After a learn call without grooming that ends well, each feature of its *)
(* document is found with a positive value, for every earlier history of   *)
(* learning, erasing and grooming.                                         *)
(***************************************************************************)
THEOREM LearnedFeaturesAreFound == Spec => LearnedIsFound
<1>1. Init => FoundInv
  BY DEF Init, FoundInv
<1>2. TypeOK /\ ProbeInv /\ FoundInv /\ [Next]_vars =>
        ((pc = "probe" /\ pc' = "idle" /\ ret' = "OK" /\ flags \cap {"ERASE", "MICROGROOM"} = {})
           => \A r \in 1 .. Len(doc) : LookupValue(hash', value', doc[r]) > 0)
  <2> SUFFICES ASSUME TypeOK, ProbeInv, FoundInv, [Next]_vars, pc = "probe", pc' = "idle", ret' = "OK",
                      flags \cap {"ERASE", "MICROGROOM"} = {}
               PROVE  \A r \in 1 .. Len(doc) : LookupValue(hash', value', doc[r]) > 0
    OBVIOUS
  <2>1. Store /\ i = Len(doc)
    BY DEF Next, Learn, LearnCall, LearnRefused, ProbeNext, ProbeFull, Store, GroomCall, ZapSweep, ZapDone,
           PackClear, PackMove, PackNextSegment, GroomReturn, Return, vars, call
  <2>2. OnlyAffirms(flags)
    BY DEF OnlyAffirms
  <2> QED BY <2>1, <2>2, StoreFinds, FoundIsRead
<1> QED BY <1>1, <1>2, ProbeInvariant, FoundInvStep, PTL DEF Spec, LearnedIsFound

(***************************************************************************)
(* Whatever was called before, a learn call without grooming that returns  *)
(* well has its document in the table, and one that returns CLASS_FULL met *)
(* a full table.                                                           *)
(***************************************************************************)
THEOREM LearnSaysWhatItDid == Spec => RetIsTrue
BY FullIsFull, LearnedFeaturesAreFound DEF RetIsTrue

-----------------------------------------------------------------------------
(* The text form.                                                          *)

(***************************************************************************)
(* A bucket with hash 0 is not in use, when no feature has that hash.      *)
(***************************************************************************)
ZeroIsFree == \A s \in Slots : hash[s] = 0 => value[s] = 0

\* No step leaves a value at a bucket with hash 0.
LEMMA ZeroIsFreeStep ==
  ASSUME 0 \notin Features
  PROVE  TypeOK /\ ZeroIsFree /\ [Next]_vars => ZeroIsFree'
<1> SUFFICES ASSUME TypeOK, ZeroIsFree, [Next]_vars PROVE ZeroIsFree'
  OBVIOUS
<1>0. hash \in [Slots -> Nat] /\ value \in [Slots -> Nat]
  BY TableTypes
<1>1. CASE UNCHANGED table
  BY <1>1 DEF table, ZeroIsFree
<1>2. CASE Store
  <2>1. \E n \in Nat : /\ value' = [value EXCEPT ![hindex] = n]
                       /\ (hash' = hash /\ n <= value[hindex]) \/ hash' = [hash EXCEPT ![hindex] = h1]
    BY <1>2, StoreWrites, Zenon
  <2>2. PICK n \in Nat : /\ value' = [value EXCEPT ![hindex] = n]
                         /\ (hash' = hash /\ n <= value[hindex]) \/ hash' = [hash EXCEPT ![hindex] = h1]
    BY <2>1
  <2>3. hindex \in Slots /\ h1 # 0
    BY <1>2, StoreWrites
  <2> QED BY <1>0, <2>2, <2>3 DEF ZeroIsFree
<1>3. CASE ZapSweep
  BY <1>0, <1>3 DEF ZapSweep, ZeroIsFree
<1>4. CASE PackClear
  BY <1>0, <1>4 DEF PackClear, ZeroIsFree
<1>5. CASE PackMove
  <2>1. CASE value[ifrom] = 0
    BY <1>1, <1>5, <2>1 DEF PackMove
  <2>2. CASE value[ifrom] # 0
    <3>1. PICK t \in Slots :
           /\ ifrom \in Slots
           /\ hash' = [hash EXCEPT ![ifrom] = 0, ![t] = hash[ifrom]]
           /\ value' = [value EXCEPT ![ifrom] = 0, ![t] = value[ifrom]]
      BY <1>5, <2>2, PackMoves
    <3>2. hash[ifrom] # 0
      BY <2>2, <3>1 DEF ZeroIsFree
    <3> QED BY <1>0, <3>1, <3>2 DEF ZeroIsFree
  <2> QED BY <2>1, <2>2
<1> QED
  BY <1>1, <1>2, <1>3, <1>4, <1>5
  DEF Next, Learn, LearnCall, LearnRefused, ProbeNext, ProbeFull, GroomCall, ZapDone,
      PackNextSegment, GroomReturn, vars

\* Where buckets with hash 0 are not in use, the text has the whole table.
LEMMA TextIsWhole ==
  ASSUME TypeOK, ZeroIsFree
  PROVE  RestoredValue(hash, value) = value
<1>1. value \in [Slots -> Nat]
  BY TableTypes
<1> QED BY <1>1 DEF RestoredValue, ZeroIsFree

(***************************************************************************)
(* Between calls, what classify sees of a feature stays as it is, also     *)
(* when the database is written as text and read back; with all flags and  *)
(* with grooming, if no feature has hash 0.                                *)
(***************************************************************************)
THEOREM AnswersSurviveText ==
  ASSUME 0 \notin Features
  PROVE  TextSpec => OnlyLearnChangesCounts
<1>1. Init => TypeOK /\ ZeroIsFree
  BY InitType DEF Init, EmptyValue, ZeroIsFree
<1>2. TypeOK /\ ZeroIsFree /\ [TextNext]_vars => TypeOK' /\ ZeroIsFree'
  <2> SUFFICES ASSUME TypeOK, ZeroIsFree, SaveRestore PROVE TypeOK' /\ ZeroIsFree'
    BY NextType, ZeroIsFreeStep DEF TextNext
  <2>1. UNCHANGED vars
    BY TextIsWhole DEF SaveRestore, vars, table
  <2> QED BY <2>1, NextType, ZeroIsFreeStep
<1>3. TypeOK /\ ZeroIsFree /\ [TextNext]_vars =>
        (pc = "idle" =>
           \A f \in Features : LookupValue(hash', value', f) = LookupValue(hash, value, f))
  <2> SUFFICES ASSUME TypeOK, ZeroIsFree, [TextNext]_vars, pc = "idle" PROVE hash' = hash /\ value' = value
    OBVIOUS
  <2>1. CASE SaveRestore
    BY <2>1, TextIsWhole DEF SaveRestore
  <2>2. CASE [Next]_vars
    BY <2>2
    DEF Next, Learn, LearnCall, LearnRefused, ProbeNext, ProbeFull, Store, GroomCall, ZapSweep, ZapDone,
        PackClear, PackMove, PackNextSegment, GroomReturn, vars, table
  <2> QED BY <2>1, <2>2 DEF TextNext
<1> QED BY <1>1, <1>2, <1>3, PTL DEF TextSpec, OnlyLearnChangesCounts

-----------------------------------------------------------------------------
(* The feature counter, and what zap takes.                                *)

\* What a sweep counts for a bucket: for one that came round more than an int holds.
LEMMA CostOf ==
  ASSUME NEW s \in Slots, hash \in [Slots -> Nat], value \in [Slots -> Nat]
  PROVE  /\ Cost(s) \in Int /\ Staleness(s) \in Int
         /\ Wrapped(s) => Cost(s) > IntMax
         /\ ~Wrapped(s) => Cost(s) = Staleness(s)
<1>1. Home(hash[s]) \in Slots /\ value[s] \in Nat /\ s \in Slots
  BY HomeInSlots
<1>2. HtLen \in Nat /\ IntMax \in Nat /\ HtLen <= IntMax
  BY HtLenAssumption, LimitsAssumption
<1> QED BY <1>1, <1>2 DEF Cost, FromHome, Staleness, Dist, Wrapped, Slots

\* The limit of the sweeps is an int: counted on, it begins again below.
LEMMA CutStep == vcut \in Int /\ vcut <= IntMax /\ [Next]_vars => vcut' \in Int /\ vcut' <= IntMax
<1> SUFFICES ASSUME vcut \in Int, vcut <= IntMax, [Next]_vars PROVE vcut' \in Int /\ vcut' <= IntMax
  OBVIOUS
<1>0. IntMax \in Nat /\ 1 <= IntMax
  BY LimitsAssumption
<1>1. vcut' = vcut \/ vcut' = 1 \/ vcut' = (IF vcut = IntMax THEN -IntMax - 1 ELSE vcut + 1)
  BY DEF Next, Learn, LearnCall, LearnRefused, ProbeNext, ProbeFull, Store, GroomCall, ZapSweep, ZapDone,
     PackClear, PackMove, PackNextSegment, GroomReturn, groom, vars
<1> QED BY <1>0, <1>1

(***************************************************************************)
(* A pass of zap clears no bucket that came round the end of the table,    *)
(* and of the others what it clears is staler than anything it leaves in   *)
(* the segment, for every limit, also past the wrap of the limit.          *)
(***************************************************************************)
THEOREM StalestGoFirst == Spec => StalestFirst
<1>1. ASSUME TypeOK, vcut <= IntMax, [Next]_vars, pc = "zap", NEW k \in Slots,
             InSeg(k), value[k] > 0, value'[k] = 0
      PROVE  /\ ~Wrapped(k)
             /\ \A m \in Slots : (InSeg(m) /\ value'[m] > 0 /\ ~Wrapped(m)) => Staleness(k) < Staleness(m)
  <2>1. value \in [Slots -> Nat] /\ hash \in [Slots -> Nat]
    BY <1>1, TableTypes
  <2>2. ZapSweep
    BY <1>1, <2>1 DEF Next, Learn, LearnCall, LearnRefused, ProbeNext, ProbeFull, Store, GroomCall, ZapDone,
       PackClear, PackMove, PackNextSegment, GroomReturn, vars, table
  <2>3. k \in ZapSet
    BY <1>1, <2>1, <2>2 DEF ZapSweep
  <2>4. Cost(k) <= vcut
    BY <2>3 DEF ZapSet
  <2>5. vcut \in Int /\ IntMax \in Int
    BY <1>1, LimitsAssumption DEF TypeOK
  <2>6. Cost(k) \in Int /\ (Wrapped(k) => Cost(k) > IntMax) /\ (~Wrapped(k) => Cost(k) = Staleness(k))
    BY <2>1, CostOf
  <2>7. ~Wrapped(k)
    BY <1>1, <2>4, <2>5, <2>6
  <2>8. ASSUME NEW m \in Slots, InSeg(m), value'[m] > 0, ~Wrapped(m)
        PROVE  Staleness(k) < Staleness(m)
    <3>1. m \notin ZapSet /\ value[m] > 0
      BY <2>1, <2>2, <2>8 DEF ZapSweep
    <3>2. ~(Cost(m) <= vcut)
      BY <2>8, <3>1 DEF ZapSet
    <3>3. Cost(m) \in Int /\ Cost(m) = Staleness(m)
      BY <2>1, <2>8, CostOf
    <3> QED BY <2>4, <2>5, <2>6, <2>7, <3>2, <3>3
  <2> QED BY <2>7, <2>8
<1>2. TypeOK /\ vcut <= IntMax /\ [Next]_vars =>
        (pc = "zap" =>
           \A k \in Slots :
             (InSeg(k) /\ value[k] > 0 /\ value'[k] = 0) =>
                /\ ~Wrapped(k)
                /\ \A m \in Slots :
                     (InSeg(m) /\ value'[m] > 0 /\ ~Wrapped(m)) => Staleness(k) < Staleness(m))
  BY <1>1
<1>3. Init => vcut <= IntMax
  BY LimitsAssumption DEF Init, GroomIdle
<1>4. TypeOK /\ vcut <= IntMax /\ [Next]_vars => (vcut <= IntMax)'
  BY CutStep DEF TypeOK
<1> QED BY <1>2, <1>3, <1>4, TypeCorrect, PTL DEF Spec, StalestFirst

(***************************************************************************)
(* FeaturesCoverValues is not inductive: what zap clears is taken off the  *)
(* counter only when the groomer returns.                                  *)
(***************************************************************************)
CoverInv ==
  /\ "ERASE" \notin flags
  /\ pc \in {"idle", "probe"} => zeroed = 0
  /\ features - zeroed >= SumOf(value)

\* Every step keeps it: a store counts one, zap takes no more off than it clears.
LEMMA CoverInvStep ==
  ASSUME \A fl \in FlagSets : "ERASE" \notin fl
  PROVE  TypeOK /\ CoverInv /\ [Next]_vars => CoverInv'
<1> SUFFICES ASSUME TypeOK, CoverInv, [Next]_vars PROVE CoverInv'
  OBVIOUS
<1>0. value \in [Slots -> Int] /\ value \in [Slots -> Nat] /\ features \in Int /\ zeroed \in Nat
  BY TableTypes DEF TypeOK
<1>00. SumOf(value) \in Int
  BY <1>0, SumIsInt
<1>1. ASSUME NEW d \in Docs, NEW fl \in FlagSets, LearnCall(d, fl) PROVE CoverInv'
  BY <1>1 DEF LearnCall, CoverInv, table, groom
<1>2. ASSUME NEW d \in Docs, NEW fl \in FlagSets, LearnRefused(d, fl) PROVE CoverInv'
  BY <1>2 DEF LearnRefused, CoverInv, table, counters, groom
<1>3. CASE ProbeNext
  BY <1>3 DEF ProbeNext, CoverInv, table, counters, groom
<1>4. CASE ProbeFull
  BY <1>4 DEF ProbeFull, Return, CoverInv, table, counters, groom
<1>5. CASE Store
  <2>1. PICK n \in Nat : n <= value[hindex] + 1 /\ value' = [value EXCEPT ![hindex] = n]
    BY <1>5, StoreWrites DEF CoverInv
  <2>2. hindex \in Slots
    BY <1>5, StoreWrites
  <2>3. SumOf(value') = SumOf(value) - value[hindex] + n
    <3>1. n \in Int /\ value' = [value EXCEPT ![hindex] = n]
      BY <2>1
    <3>2. SumOf([value EXCEPT ![hindex] = n]) = SumOf(value) - value[hindex] + n
      BY <1>0, <2>2, <3>1, SumUpdate
    <3> QED BY <3>1, <3>2
  <2>4. features' = features + 1 /\ zeroed' = zeroed /\ zeroed = 0
    BY <1>5 DEF Store, FeaturesAfterStore, sense, CoverInv, groom
  <2>5. features' - zeroed' >= SumOf(value')
    <3>1. features >= SumOf(value) /\ value[hindex] \in Int
      BY <1>0, <1>00, <2>2, <2>4 DEF CoverInv
    <3> QED BY <1>0, <1>00, <2>1, <2>3, <2>4, <3>1
  <2> QED BY <1>5, <2>4, <2>5 DEF Store, Return, CoverInv
<1>6. CASE GroomCall
  BY <1>6 DEF GroomCall, CoverInv, table, counters
<1>7. CASE ZapSweep
  <2>1. ZapSet \in SUBSET Slots /\ \A s \in ZapSet : value[s] > 0
    BY DEF ZapSet
  <2>2. value' = [s \in Slots |-> IF s \in ZapSet THEN 0 ELSE value[s]] /\ zeroed' = zeroed + Cardinality(ZapSet)
    BY <1>7 DEF ZapSweep
  <2>3. SumOf(value') + Cardinality(ZapSet) <= SumOf(value)
    BY <1>0, <2>1, <2>2, SumCleared
  <2>4. value' \in [Slots -> Int]
    BY <1>0, <2>2
  <2>5. SumOf(value') \in Int /\ Cardinality(ZapSet) \in Nat
    BY <2>4, SumIsInt, ZapSetType
  <2>6. features' = features /\ pc' = "zap" /\ flags' = flags
    BY <1>7 DEF ZapSweep, counters, call
  <2>7. features - zeroed >= SumOf(value)
    BY DEF CoverInv
  <2>8. features' - zeroed' >= SumOf(value')
    BY <1>0, <1>00, <2>2, <2>3, <2>5, <2>6, <2>7
  <2> QED BY <2>6, <2>8 DEF CoverInv
<1>8. CASE ZapDone
  BY <1>8 DEF ZapDone, CoverInv, table, counters
<1>9. CASE PackClear
  BY <1>9 DEF PackClear, CoverInv, counters
<1>10. CASE PackMove
  <2>1. features' = features /\ pc' = "pack" /\ flags' = flags /\ zeroed' = zeroed
    BY <1>10 DEF PackMove, counters, call
  <2>2. SumOf(value') <= SumOf(value) /\ SumOf(value') \in Int
    <3>1. CASE value[ifrom] = 0
      BY <1>10, <1>00, <3>1 DEF PackMove, table
    <3>2. CASE value[ifrom] # 0
      <4>1. PICK t \in Slots : ifrom \in Slots /\ value' = [value EXCEPT ![ifrom] = 0, ![t] = value[ifrom]]
        BY <1>10, <3>2, PackMoves
      <4> DEFINE w == [value EXCEPT ![ifrom] = 0]
      <4>2. w \in [Slots -> Nat] /\ w \in [Slots -> Int] /\ value' = [w EXCEPT ![t] = value[ifrom]]
        BY <1>0, <4>1
      <4>3. SumOf(w) = SumOf(value) - value[ifrom] + 0
        <5>1. 0 \in Int
          OBVIOUS
        <5> QED BY <1>0, <4>1, <5>1, SumUpdate
      <4>4. value[ifrom] \in Int /\ w[t] \in Nat
        BY <1>0, <4>1, <4>2
      <4> HIDE DEF w
      <4>5. SumOf(value') = SumOf(w) - w[t] + value[ifrom]
        BY <4>2, <4>4, SumUpdate
      <4> QED BY <1>00, <4>3, <4>4, <4>5
    <3> QED BY <3>1, <3>2
  <2>3. features - zeroed >= SumOf(value)
    BY DEF CoverInv
  <2>4. features' - zeroed' >= SumOf(value')
    BY <1>0, <1>00, <2>1, <2>2, <2>3
  <2> QED BY <2>1, <2>4 DEF CoverInv
<1>11. CASE PackNextSegment
  BY <1>11 DEF PackNextSegment, CoverInv, table, counters
<1>12. CASE GroomReturn
  <2>1. value' = value /\ zeroed' = 0 /\ features' = features - zeroed
    BY <1>0, <1>12 DEF GroomReturn, FeaturesAfterGroom, Helpless, table
  <2>2. "ERASE" \notin flags'
    BY <1>12 DEF GroomReturn, Return, CoverInv
  <2>3. features - zeroed >= SumOf(value)
    BY DEF CoverInv
  <2>4. features' - zeroed' >= SumOf(value')
    BY <1>0, <1>00, <2>1, <2>3
  <2> QED BY <2>1, <2>2, <2>4 DEF CoverInv
<1>13. CASE UNCHANGED vars
  BY <1>13 DEF vars, table, counters, call, groom, CoverInv
<1> QED
  BY <1>1, <1>2, <1>3, <1>4, <1>5, <1>6, <1>7, <1>8, <1>9, <1>10, <1>11, <1>12, <1>13
  DEF Next, Learn

(***************************************************************************)
(* Without ERASE, the feature counter is never behind the values in the    *)
(* table: saturation only loses on the table's side, and grooming takes    *)
(* one off for each bucket it clears, which held at least one.             *)
(***************************************************************************)
THEOREM CounterCoversValues ==
  ASSUME \A fl \in FlagSets : "ERASE" \notin fl
  PROVE  Spec => []FeaturesCoverValues
<1>1. Init => CoverInv
  <2> SUFFICES ASSUME Init PROVE CoverInv
    OBVIOUS
  <2>1. value = Mark({}) /\ Cardinality({}) = 0
    BY FS_EmptySet DEF Init, EmptyValue, Mark
  <2>2. SumOf(value) = 0
    BY <2>1, SumOfMark
  <2> QED BY <2>2 DEF Init, GroomIdle, CoverInv
<1>2. TypeOK /\ CoverInv => FeaturesCoverValues
  <2> SUFFICES ASSUME TypeOK, CoverInv PROVE FeaturesCoverValues
    OBVIOUS
  <2>1. value \in [Slots -> Int] /\ features \in Int /\ zeroed \in Nat
    BY TableTypes DEF TypeOK
  <2>2. SumOf(value) \in Int
    BY <2>1, SumIsInt
  <2> QED BY <2>1, <2>2 DEF CoverInv, FeaturesCoverValues
<1> QED BY <1>1, <1>2, CoverInvStep, TypeCorrect, PTL DEF Spec

-----------------------------------------------------------------------------
(* Grooming.                                                               *)

\* The two ways to say that bucket s is in a segment.
LEMMA SegmentIsInterval ==
  ASSUME NEW a \in Slots, NEW e \in Slots, a # e,
         NEW n \in 1 .. Len(Segments(a, e)), NEW s \in Slots
  PROVE  LET b == Succ(e)
             lo == Segments(a, e)[n].lo
             hi == Segments(a, e)[n].hi
         IN  /\ lo <= hi /\ Dist(b, a) <= Dist(b, lo)
             /\ n = 1 => lo = a
             /\ n = Len(Segments(a, e)) => Dist(b, hi) = HtLen - 1
             /\ s \in lo .. hi <=> (Dist(b, lo) <= Dist(b, s) /\ Dist(b, s) <= Dist(b, lo) + (hi - lo))
             /\ s \in lo .. hi => Dist(b, s) = Dist(b, lo) + (s - lo)
             /\ Dist(b, hi) = Dist(b, lo) + (hi - lo)
<1>0. HtLen \in Nat \ {0}
  BY HtLenAssumption
<1>1. CASE a < e
  <2>1. Segments(a, e) = <<[lo |-> a, hi |-> e]>>
    BY <1>1 DEF Segments
  <2>2. Len(Segments(a, e)) = 1 /\ n = 1 /\ Segments(a, e)[n].lo = a /\ Segments(a, e)[n].hi = e
    BY <2>1
  <2> QED BY <1>0, <1>1, <2>2 DEF Dist, Succ, Slots
<1>2. CASE e < a
  <2>1. Segments(a, e) = <<[lo |-> a, hi |-> HtLen - 1], [lo |-> 0, hi |-> e]>>
    BY <1>2 DEF Segments, Slots
  <2>2. Len(Segments(a, e)) = 2
    BY <2>1
  <2>3. CASE n = 1
    <3>1. Segments(a, e)[n].lo = a /\ Segments(a, e)[n].hi = HtLen - 1
      BY <2>1, <2>3
    <3> QED BY <1>0, <1>2, <2>2, <2>3, <3>1 DEF Dist, Succ, Slots
  <2>4. CASE n = 2
    <3>1. Segments(a, e)[n].lo = 0 /\ Segments(a, e)[n].hi = e
      BY <2>1, <2>4
    <3> QED BY <1>0, <1>2, <2>2, <2>4, <3>1 DEF Dist, Succ, Slots
  <2> QED BY <2>2, <2>3, <2>4
<1> QED BY <1>1, <1>2 DEF Slots

\* The second segment begins where the first ends.
LEMMA SegmentsMeet ==
  ASSUME NEW a \in Slots, NEW e \in Slots, a # e, Len(Segments(a, e)) = 2
  PROVE  Dist(Succ(e), Segments(a, e)[2].lo) = Dist(Succ(e), Segments(a, e)[1].hi) + 1
<1>1. CASE a < e
  BY <1>1 DEF Segments
<1>2. CASE e < a
  <2>1. Segments(a, e) = <<[lo |-> a, hi |-> HtLen - 1], [lo |-> 0, hi |-> e]>>
    BY <1>2 DEF Segments, Slots
  <2>2. Segments(a, e)[2].lo = 0 /\ Segments(a, e)[1].hi = HtLen - 1
    BY <2>1
  <2> QED BY <1>2, <2>2, HtLenAssumption DEF Dist, Succ, Slots
<1> QED BY <1>1, <1>2 DEF Slots

\* The bucket behind the chain, and the chain's first.
stop == Succ(packend)

start == Home(h1)

\* How far a bucket is from the empty one behind the chain.
Pos(s) == Dist(stop, s)

\* The class has a bucket that was never written to.
HasRoom == \E s \in Slots : hash[s] = 0

(***************************************************************************)
(* NoOrphans is not inductive: while the groomer works, features are out   *)
(* of place. From the empty bucket behind the chain the way from a home to *)
(* its feature never wraps, and the front goes along the chain: what it    *)
(* has passed is in place, and what it has not passed is no nearer than    *)
(* its home.                                                               *)
(***************************************************************************)
GroomInv ==
  /\ "ERASE" \notin flags
  /\ pc \in {"idle", "probe"} => AllReachable(hash, value) /\ ZeroAlike(hash, value)
  /\ pc \in {"zap", "clear", "pack"} => packend # start
  /\ pc = "zap" => Groomed(stop, hash, value, Pos(start), Pos(start))
  /\ pc = "clear" => Groomed(stop, hash, value, Pos(Segs[seg].lo), Pos(Segs[seg].lo))
  /\ pc = "pack" =>
       /\ Segs[seg].lo <= ifrom /\ ifrom <= Segs[seg].hi + 1
       /\ Groomed(stop, hash, value, Pos(Segs[seg].lo) + (ifrom - Segs[seg].lo),
                  Pos(Segs[seg].lo) + (Segs[seg].hi - Segs[seg].lo) + 1)

\* While there is an unused bucket, a chain ends before one.
LEMMA PackEndIsBeforeEmpty ==
  ASSUME NEW a \in Slots, HasRoom
  PROVE  Succ(PackEnd(a)) \in Slots /\ hash[Succ(PackEnd(a))] = 0
<1> DEFINE Ends == {s \in Slots : hash[s] = 0}
           First == CHOOSE s \in Ends : \A t \in Ends : Dist(a, s) <= Dist(a, t)
<1>1. Ends # {}
  BY DEF HasRoom
<1>2. First \in Ends
  <2>1. \E s \in Ends : \A t \in Ends : Dist(a, s) <= Dist(a, t)
    BY <1>1, FirstOnWalk
  <2> QED BY <2>1
<1>3. PackEnd(a) = Pred(First)
  BY <1>1 DEF PackEnd
<1>4. \A s \in Slots : Succ(Pred(s)) = s
  BY HtLenAssumption DEF Succ, Pred, Slots
<1> HIDE DEF First
<1> QED BY <1>2, <1>3, <1>4

\* The chain that is handed to the groomer has a second bucket.
LEMMA ChainIsLong ==
  ASSUME TypeOK, ProbeInv, GroomCall, ChainLength # 0, ZeroAlike(hash, value), HasRoom
  PROVE  packend' # start
<1>0. start \in Slots /\ hindex \in Slots /\ h1 \in Nat
  BY RowIsFeature DEF TypeOK, GroomCall, start
<1>1. incrs = Dist(start, hindex) /\ Reaches(hash, value, h1, hindex) /\ value[hindex] # 0
  BY DEF GroomCall, ProbeInv, AtStop, Stops, start
<1>2. incrs >= 1
  BY LimitsAssumption DEF GroomCall, MustGroom, TypeOK
<1>3. Dist(start, Succ(start)) = 1 /\ Succ(start) \in Slots
  <2>1. Dist(start, start) = 0
    BY <1>0, DistFacts
  <2>2. Dist(start, hindex) \in 0 .. HtLen - 1
    BY <1>0, PosType
  <2>3. 0 + 1 < HtLen
    BY <1>1, <1>2, <2>2, HtLenAssumption
  <2> QED BY <1>0, <2>1, <2>3, DistSucc, SuccInSlots
<1>4. value[Succ(start)] # 0
  <2>1. CASE incrs = 1
    BY <1>0, <1>1, <1>3, <2>1, DistInjective
  <2>2. CASE incrs # 1
    <3>1. Dist(start, Succ(start)) < Dist(start, hindex)
      BY <1>1, <1>2, <1>3, <2>2 DEF TypeOK
    <3> QED BY <1>1, <1>3, <3>1 DEF Reaches, Stops, start
  <2> QED BY <2>1, <2>2
<1>5. hash[Succ(start)] # 0
  BY <1>3, <1>4 DEF ZeroAlike
<1>6. packend' = PackEnd(start)
  BY DEF GroomCall, start
<1> QED BY <1>0, <1>5, <1>6, PackEndIsBeforeEmpty

\* The geometry of the segment in the groomer's hands.
LEMMA SegGeometry ==
  ASSUME TypeOK, pc # "idle", packend # start
  PROVE  /\ stop \in Slots /\ start \in Slots /\ Segs[seg].lo \in Slots /\ Segs[seg].hi \in Slots
         /\ Segs[1].lo = start
         /\ Segs[seg].lo <= Segs[seg].hi
         /\ seg = Len(Segs) => Pos(Segs[seg].hi) = HtLen - 1
         /\ seg < Len(Segs) => seg = 1 /\ Pos(Segs[2].lo) = Pos(Segs[1].hi) + 1
         /\ Pos(Segs[seg].hi) = Pos(Segs[seg].lo) + (Segs[seg].hi - Segs[seg].lo)
         /\ \A s \in Slots :
              /\ InSeg(s) => Pos(s) >= Pos(start)
              /\ InSeg(s) => Pos(s) = Pos(Segs[seg].lo) + (s - Segs[seg].lo)
              /\ (Pos(Segs[seg].lo) <= Pos(s) /\ Pos(s) < Pos(Segs[seg].lo) + (Segs[seg].hi - Segs[seg].lo) + 1)
                   => InSeg(s)
<1>1. start \in Slots /\ packend \in Slots /\ stop \in Slots
  BY RowIsFeature, SuccInSlots DEF TypeOK, start, stop
<1>2. /\ Segs = Segments(start, packend)
      /\ seg \in 1 .. Len(Segs) /\ 1 \in 1 .. Len(Segs)
      /\ Segs[seg].lo \in Slots /\ Segs[seg].hi \in Slots
      /\ seg < Len(Segs) => seg = 1 /\ Len(Segs) = 2
  <2>1. /\ Len(Segs) = 1 \/ Len(Segs) = 2
        /\ seg = 1 \/ (seg = 2 /\ Len(Segs) = 2)
        /\ Segs[seg].lo \in Slots /\ Segs[seg].hi \in Slots
    BY SegType
  <2> DEFINE n == Len(Segs)
  <2>2. /\ seg \in 1 .. n /\ 1 \in 1 .. n
        /\ seg < n => seg = 1 /\ n = 2
    <3>1. (n = 1 \/ n = 2) /\ (seg = 1 \/ (seg = 2 /\ n = 2))
      BY <2>1
    <3> HIDE DEF n
    <3> QED BY <3>1
  <2> QED BY <2>1, <2>2 DEF Segs, start
<1> DEFINE lo == Segs[seg].lo
           hi == Segs[seg].hi
<1>3. ASSUME NEW s \in Slots
      PROVE  /\ lo <= hi /\ Pos(start) <= Pos(lo)
             /\ seg = Len(Segs) => Pos(hi) = HtLen - 1
             /\ s \in lo .. hi <=> (Pos(lo) <= Pos(s) /\ Pos(s) <= Pos(lo) + (hi - lo))
             /\ s \in lo .. hi => Pos(s) = Pos(lo) + (s - lo)
             /\ Pos(hi) = Pos(lo) + (hi - lo)
  BY <1>1, <1>2, SegmentIsInterval DEF Pos, stop
<1>4. Segs[1].lo = start
  BY <1>1, <1>2, SegmentIsInterval
<1>5. seg < Len(Segs) => seg = 1 /\ Pos(Segs[2].lo) = Pos(Segs[1].hi) + 1
  BY <1>1, <1>2, SegmentsMeet DEF Pos, stop
<1>6. lo \in Int /\ hi \in Int /\ \A s \in Slots : Pos(s) \in Int /\ s \in Int
  <2>1. \A s \in Slots : Pos(s) \in 0 .. HtLen - 1
    BY <1>1, PosType DEF Pos
  <2> QED BY <1>2, <2>1, HtLenAssumption DEF Slots
<1>7. ASSUME NEW s \in Slots
      PROVE  /\ InSeg(s) => Pos(s) >= Pos(start)
             /\ InSeg(s) => Pos(s) = Pos(lo) + (s - lo)
             /\ (Pos(lo) <= Pos(s) /\ Pos(s) < Pos(lo) + (hi - lo) + 1) => InSeg(s)
  <2>1. InSeg(s) <=> s \in lo .. hi
    BY DEF InSeg
  <2>2. Pos(s) \in Int /\ Pos(lo) \in Int /\ Pos(start) \in Int
    BY <1>1, <1>2, <1>6
  <2> HIDE DEF lo, hi
  <2> QED BY <1>3, <1>6, <2>1, <2>2
<1> QED BY <1>1, <1>2, <1>3, <1>4, <1>5, <1>7

\* The groomer takes over a table in order.
LEMMA GroomCallInv ==
  ASSUME TypeOK, ProbeInv, GroomInv, HasRoom, ChainLength # 0, GroomCall
  PROVE  GroomInv'
<1>1. /\ AllReachable(hash, value) /\ ZeroAlike(hash, value) /\ "ERASE" \notin flags
      /\ start \in Slots
  BY RowIsFeature DEF GroomCall, GroomInv, start
<1>2. packend' = PackEnd(start) /\ hash' = hash /\ value' = value /\ flags' = flags /\ pc' = "zap" /\ start' = start
  BY DEF GroomCall, table, start, h1
<1>3. stop' \in Slots /\ hash[stop'] = 0
  BY <1>1, <1>2, PackEndIsBeforeEmpty DEF stop
<1>4. packend' # start'
  BY <1>1, <1>2, ChainIsLong
<1>5. Dist(stop', start') \in Int
  BY <1>1, <1>2, <1>3, PosType, HtLenAssumption
<1>6. Groomed(stop', hash, value, Dist(stop', start'), Dist(stop', start'))
  BY <1>1, <1>3, <1>5, TableTypes, GroomStarts
<1> QED BY <1>1, <1>2, <1>4, <1>6 DEF GroomInv, Pos

\* What the two names of the chain's ends keep denoting while the groomer works.
LEMMA ChainStays ==
  ASSUME UNCHANGED <<doc, i, packend>>
  PROVE  start' = start /\ stop' = stop /\ Segs' = Segs /\ \A s \in Slots : Pos(s)' = Pos(s)
BY DEF start, stop, Segs, Pos, h1

\* Positions are numbers.
LEMMA PosIsInt == ASSUME stop \in Slots, NEW s \in Slots PROVE s \in Int /\ Pos(s) \in Int
<1>1. Dist(stop, s) \in 0 .. HtLen - 1
  BY PosType
<1> QED BY <1>1, HtLenAssumption DEF Pos, Slots

\* zap clears behind the front.
LEMMA ZapInv ==
  ASSUME TypeOK, GroomInv, ZapSweep \/ ZapDone
  PROVE  GroomInv'
<1>1. /\ pc = "zap" /\ pc # "idle" /\ packend # start /\ "ERASE" \notin flags
      /\ Groomed(stop, hash, value, Pos(start), Pos(start))
  BY DEF ZapSweep, ZapDone, GroomInv
<1>2. hash' = hash /\ flags' = flags /\ UNCHANGED <<doc, i, packend>>
  BY DEF ZapSweep, ZapDone, call, table
<1>3. start' = start /\ stop' = stop /\ Segs' = Segs /\ \A s \in Slots : Pos(s)' = Pos(s)
  BY <1>2, ChainStays
<1>4. /\ stop \in Slots /\ start \in Slots /\ Segs[1].lo = start
      /\ \A s \in Slots : InSeg(s) => Pos(s) >= Pos(start)
  BY <1>1, SegGeometry
<1>5. Pos(start)' = Pos(start) /\ packend' # start'
  BY <1>1, <1>2, <1>3, <1>4
<1>6. CASE ZapSweep
  <2>1. pc' = "zap" /\ value' = [s \in Slots |-> IF s \in ZapSet THEN 0 ELSE value[s]]
    BY <1>1, <1>6 DEF ZapSweep, call
  <2>2. ZapSet \in SUBSET Slots /\ \A s \in ZapSet : Dist(stop, s) >= Pos(start)
    BY <1>4 DEF ZapSet, Pos
  <2>3. Pos(start) \in Int
    BY <1>4, PosType, HtLenAssumption DEF Pos
  <2>4. Groomed(stop, hash, value', Pos(start), Pos(start))
    BY <1>1, <1>4, <2>1, <2>2, <2>3, TableTypes, ZapKeepsGroomed
  <2> QED BY <1>1, <1>2, <1>3, <1>5, <2>1, <2>4 DEF GroomInv
<1>7. CASE ZapDone
  <2>1. value' = value /\ (pc' = "zap" \/ (pc' = "clear" /\ seg' = 1))
    BY <1>1, <1>7 DEF ZapDone, table
  <2>2. CASE pc' = "zap"
    BY <1>1, <1>2, <1>3, <1>5, <2>1, <2>2 DEF GroomInv
  <2>3. CASE pc' = "clear" /\ seg' = 1
    <3>1. Pos(Segs[seg].lo)' = Pos(start)
      BY <1>3, <1>4, <2>3 DEF Pos
    <3> QED BY <1>1, <1>2, <1>3, <1>5, <2>1, <2>3, <3>1 DEF GroomInv
  <2> QED BY <2>1, <2>2, <2>3
<1> QED BY <1>6, <1>7

\* The first loop of packseg leaves no placeholder in the segment.
LEMMA ClearInv ==
  ASSUME TypeOK, GroomInv, PackClear
  PROVE  GroomInv'
<1> DEFINE lo == Segs[seg].lo
           hi == Segs[seg].hi
           upto == Pos(lo) + (hi - lo) + 1
<1>1. /\ pc = "clear" /\ pc # "idle" /\ packend # start /\ "ERASE" \notin flags
      /\ Groomed(stop, hash, value, Pos(lo), Pos(lo))
  BY DEF PackClear, GroomInv
<1>2. /\ value' = value /\ flags' = flags /\ pc' = "pack" /\ seg' = seg /\ UNCHANGED <<doc, i, packend>>
      /\ hash' = [s \in Slots |-> IF InSeg(s) /\ value[s] = 0 THEN 0 ELSE hash[s]]
      /\ ifrom' = lo
  BY DEF PackClear
<1>3. start' = start /\ stop' = stop /\ Segs' = Segs
  BY <1>2, ChainStays
<1>4. /\ stop \in Slots /\ start \in Slots /\ lo \in Slots /\ hi \in Slots /\ lo <= hi
      /\ \A s \in Slots : (Pos(lo) <= Pos(s) /\ Pos(s) < upto) => InSeg(s)
  BY <1>1, SegGeometry
<1>5. Pos(lo) \in Int /\ lo \in Int /\ hi \in Int
  BY <1>4, PosIsInt
<1>6. upto \in Int
  BY <1>5
<1> DEFINE P == {s \in Slots : InSeg(s)}
<1>7. \A s \in Slots : hash'[s] = IF s \in P /\ value[s] = 0 THEN 0 ELSE hash[s]
  BY <1>2
<1>8. \A s \in Slots : (Pos(lo) <= Dist(stop, s) /\ Dist(stop, s) < upto) => s \in P
  BY <1>4 DEF Pos
<1>9. Groomed(stop, hash', value, Pos(lo), upto)
  <2>1. P \in SUBSET Slots
    OBVIOUS
  <2>2. hash \in [Slots -> Nat] /\ value \in [Slots -> Nat]
    BY TableTypes
  <2> DEFINE front == Pos(lo)
  <2>3. /\ front \in Int /\ Groomed(stop, hash, value, front, front)
        /\ \A s \in Slots : (front <= Dist(stop, s) /\ Dist(stop, s) < upto) => s \in P
    BY <1>1, <1>5, <1>8
  <2> HIDE DEF P, upto, front
  <2>4. Groomed(stop, hash', value, front, upto)
    BY <1>4, <1>6, <1>7, <2>1, <2>2, <2>3, ClearKeepsGroomed
  <2> QED BY <2>4 DEF front
<1>10. /\ lo <= ifrom' /\ ifrom' <= hi + 1
       /\ Groomed(stop, hash', value', Pos(lo) + (ifrom' - lo), upto)
  <2>1. Pos(lo) + (ifrom' - lo) = Pos(lo)
    BY <1>2, <1>5
  <2>2. lo <= ifrom' /\ ifrom' <= hi + 1
    BY <1>2, <1>4, <1>5
  <2> QED BY <1>2, <1>9, <2>1, <2>2
<1>11. Pos(lo)' = Pos(lo) /\ lo' = lo /\ hi' = hi
  BY <1>2, <1>3 DEF Pos
<1> QED BY <1>1, <1>2, <1>3, <1>10, <1>11 DEF GroomInv

\* What a turn of packseg's second loop does, apart from ifrom.
LEMMA MoveInv ==
  ASSUME TypeOK, GroomInv, PackMove
  PROVE  /\ GroomInv'
         /\ \/ UNCHANGED table
            \/ \E t \in Slots : /\ ifrom \in Slots /\ t # ifrom /\ hash[t] = 0 /\ value[t] = 0
                                /\ hash' = [hash EXCEPT ![ifrom] = 0, ![t] = hash[ifrom]]
                                /\ value' = [value EXCEPT ![ifrom] = 0, ![t] = value[ifrom]]
<1> DEFINE lo == Segs[seg].lo
           hi == Segs[seg].hi
           upto == Pos(lo) + (hi - lo) + 1
<1>1. /\ pc = "pack" /\ pc # "idle" /\ packend # start /\ "ERASE" \notin flags
      /\ lo <= ifrom /\ ifrom <= hi
      /\ Groomed(stop, hash, value, Pos(lo) + (ifrom - lo), upto)
  BY DEF PackMove, GroomInv
<1>2. flags' = flags /\ pc' = "pack" /\ seg' = seg /\ UNCHANGED <<doc, i, packend>> /\ ifrom' = ifrom + 1
  BY <1>1 DEF PackMove, call
<1>3. start' = start /\ stop' = stop /\ Segs' = Segs
  BY <1>2, ChainStays
<1>4. stop \in Slots /\ start \in Slots /\ lo \in Slots /\ hi \in Slots /\ ifrom \in Slots
  <2>1. stop \in Slots /\ start \in Slots /\ lo \in Slots /\ hi \in Slots
    BY <1>1, SegGeometry
  <2>2. ifrom \in Nat
    BY HtLenAssumption DEF TypeOK
  <2> HIDE DEF lo, hi
  <2> QED BY <1>1, <2>1, <2>2, HtLenAssumption DEF Slots
<1>5. Pos(lo) \in Int /\ lo \in Int /\ hi \in Int /\ ifrom \in Int /\ InSeg(ifrom)
  <2>1. Pos(lo) \in Int /\ lo \in Int /\ hi \in Int /\ ifrom \in Int
    BY <1>4, PosIsInt
  <2> QED BY <1>1, <2>1 DEF InSeg
<1>6. Dist(stop, ifrom) = Pos(lo) + (ifrom - lo)
  BY <1>1, <1>4, <1>5, SegGeometry DEF Pos
<1>7. upto \in Int /\ Dist(stop, ifrom) < upto
  BY <1>1, <1>5, <1>6
<1>8. Pos(lo)' = Pos(lo) /\ lo' = lo /\ hi' = hi
  BY <1>2, <1>3 DEF Pos
<1>9. ASSUME Groomed(stop, hash', value', Dist(stop, ifrom) + 1, upto) PROVE GroomInv'
  <2>1. lo <= ifrom' /\ ifrom' <= hi + 1
    BY <1>1, <1>2, <1>5
  <2>2. Dist(stop, ifrom) + 1 = Pos(lo) + (ifrom' - lo)
    BY <1>2, <1>5, <1>6
  <2> QED BY <1>1, <1>2, <1>3, <1>8, <1>9, <2>1, <2>2 DEF GroomInv
<1>10. CASE value[ifrom] = 0
  <2>1. UNCHANGED table
    BY <1>10 DEF PackMove
  <2>2. Groomed(stop, hash, value, Dist(stop, ifrom) + 1, upto)
    <3> HIDE DEF upto
    <3> QED BY <1>1, <1>4, <1>6, <1>7, <1>10, TableTypes, SkipKeepsGroomed
  <2> QED BY <1>9, <2>1, <2>2 DEF table
<1>11. CASE value[ifrom] # 0
  <2>1. PICK t \in Slots :
           /\ Stops(hash, value, hash[ifrom], t) /\ Reaches(hash, value, hash[ifrom], t)
           /\ hash' = [hash EXCEPT ![ifrom] = 0, ![t] = hash[ifrom]]
           /\ value' = [value EXCEPT ![ifrom] = 0, ![t] = value[ifrom]]
    BY <1>11, PackMoves
  <2>2. /\ Groomed(stop, hash', value', Dist(stop, ifrom) + 1, upto)
        /\ t = ifrom \/ (hash[t] = 0 /\ value[t] = 0)
    <3>1. hash \in [Slots -> Nat] /\ value \in [Slots -> Nat]
      BY TableTypes
    <3>2. Groomed(stop, hash, value, Dist(stop, ifrom), upto)
      BY <1>1, <1>6
    <3> HIDE DEF upto
    <3>3. /\ Groomed(stop, [hash EXCEPT ![ifrom] = 0, ![t] = hash[ifrom]],
                     [value EXCEPT ![ifrom] = 0, ![t] = value[ifrom]], Dist(stop, ifrom) + 1, upto)
          /\ t = ifrom \/ (hash[t] = 0 /\ value[t] = 0)
      <4>1. /\ Stops(hash, value, hash[ifrom], t) /\ Reaches(hash, value, hash[ifrom], t)
            /\ stop \in Slots /\ ifrom \in Slots /\ t \in Slots /\ value[ifrom] # 0
        BY <1>4, <1>11, <2>1
      <4>2. upto \in Int /\ Dist(stop, ifrom) < upto
        BY <1>7
      <4> HIDE DEF stop
      <4> QED BY ONLY <3>1, <3>2, <4>1, <4>2, MoveKeepsGroomed
    <3> QED BY <2>1, <3>3
  <2>3. t = ifrom => UNCHANGED table
    BY <1>4, <2>1, TableTypes DEF table
  <2> QED BY <1>4, <1>9, <2>1, <2>2, <2>3
<1> QED BY <1>10, <1>11

\* The front has passed the segment, and with the last one the table.
LEMMA PackDoneInv ==
  ASSUME TypeOK, GroomInv, PackNextSegment \/ GroomReturn
  PROVE  GroomInv'
<1> DEFINE lo == Segs[seg].lo
           hi == Segs[seg].hi
           upto == Pos(lo) + (hi - lo) + 1
<1>1. /\ pc = "pack" /\ pc # "idle" /\ packend # start /\ "ERASE" \notin flags
      /\ ifrom > hi /\ ifrom <= hi + 1
      /\ Groomed(stop, hash, value, Pos(lo) + (ifrom - lo), upto)
  BY DEF PackNextSegment, GroomReturn, GroomInv
<1>2. /\ stop \in Slots /\ lo \in Slots /\ hi \in Slots
      /\ seg = Len(Segs) => Pos(hi) = HtLen - 1
      /\ seg < Len(Segs) => seg = 1 /\ Pos(Segs[2].lo) = Pos(Segs[1].hi) + 1
      /\ Pos(hi) = Pos(lo) + (hi - lo)
  BY <1>1, SegGeometry
<1>3. Pos(lo) \in Int /\ lo \in Int /\ hi \in Int /\ Pos(hi) \in Int /\ ifrom \in Int
  <2>1. ifrom \in Int
    BY HtLenAssumption DEF TypeOK
  <2> QED BY <1>2, <2>1, PosIsInt
<1>4. Pos(lo) + (ifrom - lo) = Pos(hi) + 1 /\ upto = Pos(hi) + 1
  <2> HIDE DEF lo, hi
  <2> QED BY <1>1, <1>2, <1>3
<1>5. Groomed(stop, hash, value, Pos(hi) + 1, Pos(hi) + 1)
  BY <1>1, <1>4
<1>6. hash' = hash /\ value' = value
  BY DEF PackNextSegment, GroomReturn, table
<1>7. CASE PackNextSegment
  <2>1. seg < Len(Segs) /\ seg' = seg + 1 /\ pc' = "clear" /\ flags' = flags /\ UNCHANGED <<doc, i, packend>>
    BY <1>7 DEF PackNextSegment
  <2>2. seg = 1 /\ Pos(Segs[2].lo) = Pos(Segs[1].hi) + 1
    BY <1>2, <2>1
  <2>3. start' = start /\ stop' = stop /\ Segs' = Segs
    BY <2>1, ChainStays
  <2>4. seg' = 2
    BY <2>1, <2>2
  <2>5. Pos(Segs[seg].lo)' = Pos(hi) + 1
    BY <2>2, <2>3, <2>4 DEF Pos
  <2> QED BY <1>1, <1>5, <1>6, <2>1, <2>3, <2>5 DEF GroomInv
<1>8. CASE GroomReturn
  <2>1. seg = Len(Segs) /\ pc' \in {"idle", "probe"} /\ "ERASE" \notin flags'
    BY <1>1, <1>8 DEF GroomReturn, Return
  <2>2. Pos(hi) + 1 = HtLen
    BY <1>2, <2>1, HtLenAssumption
  <2>3. AllReachable(hash, value) /\ ZeroAlike(hash, value)
    BY <1>2, <1>5, <2>2, TableTypes, GroomEnds
  <2> QED BY <1>6, <2>1, <2>3 DEF GroomInv
<1> QED BY <1>7, <1>8

\* Every step of the class keeps it.
LEMMA GroomInvStep ==
  ASSUME \A fl \in FlagSets : "ERASE" \notin fl, 0 \notin Features, ChainLength # 0
  PROVE  TypeOK /\ ProbeInv /\ GroomInv /\ HasRoom /\ [Next]_vars => GroomInv'
<1> SUFFICES ASSUME TypeOK, ProbeInv, GroomInv, HasRoom, [Next]_vars PROVE GroomInv'
  OBVIOUS
<1>1. ASSUME NEW d \in Docs, NEW fl \in FlagSets, LearnCall(d, fl) PROVE GroomInv'
  BY <1>1 DEF LearnCall, GroomInv, table
<1>2. ASSUME NEW d \in Docs, NEW fl \in FlagSets, LearnRefused(d, fl) PROVE GroomInv'
  BY <1>2 DEF LearnRefused, GroomInv, table
<1>3. CASE ProbeNext
  BY <1>3 DEF ProbeNext, GroomInv, table
<1>4. CASE ProbeFull
  BY <1>4 DEF ProbeFull, Return, GroomInv, table
<1>5. CASE Store
  <2>1. AllReachable(hash, value) /\ ZeroAlike(hash, value) /\ "ERASE" \notin flags
    BY <1>5 DEF Store, GroomInv
  <2>2. /\ hindex \in Slots /\ h1 \in Nat /\ h1 # 0 /\ hash' = [hash EXCEPT ![hindex] = h1]
        /\ \E n \in Nat : n > 0 /\ value' = [value EXCEPT ![hindex] = n]
    BY <1>5, <2>1, StoreWrites
  <2>3. PICK n \in Nat : n > 0 /\ value' = [value EXCEPT ![hindex] = n]
    BY <2>2
  <2>4. Stops(hash, value, h1, hindex) /\ Reaches(hash, value, h1, hindex)
    BY <1>5 DEF Store, AtStop, ProbeInv
  <2>5. AllReachable(hash', value')
    BY <2>1, <2>2, <2>3, <2>4, TableTypes, StoreKeepsReachable
  <2>6. ZeroAlike(hash', value')
    BY <2>1, <2>2, <2>3, TableTypes DEF ZeroAlike
  <2>7. pc' \in {"idle", "probe"} /\ "ERASE" \notin flags'
    BY <1>5, <2>1 DEF Store, Return
  <2> QED BY <2>5, <2>6, <2>7 DEF GroomInv
<1>6. CASE UNCHANGED vars
  BY <1>6 DEF vars, table, call, groom, GroomInv, start, stop, Pos, Segs, h1
<1> QED
  BY <1>1, <1>2, <1>3, <1>4, <1>5, <1>6, GroomCallInv, ZapInv, ClearInv, MoveInv, PackDoneInv
  DEF Next, Learn

\* It holds of the empty class.
LEMMA GroomInvInit ==
  Init => GroomInv
BY DEF Init, GroomInv, AllReachable, ZeroAlike, EmptyHash, EmptyValue

(***************************************************************************)
(* While some bucket is unused: grooming takes chains apart and puts them  *)
(* together without cutting any feature off, also where they wrap.         *)
(***************************************************************************)
THEOREM GroomingOrphansNothing ==
  ASSUME \A fl \in FlagSets : "ERASE" \notin fl, 0 \notin Features, ChainLength # 0
  PROVE  Spec /\ []HasRoom => []NoOrphans
<1>1. GroomInv => NoOrphans
  BY DEF GroomInv, NoOrphans
<1> QED BY <1>1, GroomInvInit, GroomInvStep, ProbeInvariant, PTL DEF Spec

\* Fewer features than buckets leave a bucket unused.
LEMMA FewFeaturesLeaveRoom ==
  ASSUME IsFiniteSet(Features), Cardinality(Features) < HtLen
  PROVE  TypeOK /\ GroomInv => HasRoom
<1> SUFFICES ASSUME TypeOK, GroomInv PROVE HasRoom
  OBVIOUS
<1>1. CASE pc \in {"zap", "clear", "pack"}
  <2>1. hash[stop] = 0
    BY <1>1 DEF GroomInv, Groomed
  <2>2. stop \in Slots
    BY SuccInSlots DEF TypeOK, stop
  <2> QED BY <2>1, <2>2 DEF HasRoom
<1>2. CASE pc \in {"idle", "probe"}
  <2> SUFFICES ASSUME \A s \in Slots : hash[s] # 0 PROVE FALSE
    BY DEF HasRoom
  <2>1. hash \in [Slots -> Features]
    <3>1. hash \in [Slots -> Hashes]
      BY DEF TypeOK
    <3> QED BY <3>1 DEF Hashes
  <2>2. IsFiniteSet(Slots) /\ Cardinality(Slots) = HtLen
    BY FS_Interval, HtLenAssumption DEF Slots
  <2>3. PICK s \in Slots, t \in Slots : s # t /\ hash[s] = hash[t]
    BY <2>1, <2>2, FS_PigeonHole
  <2>4. AllReachable(hash, value) /\ value[s] > 0 /\ value[t] > 0
    BY <1>2, <2>3, TableTypes DEF GroomInv, ZeroAlike
  <2> QED BY <2>3, <2>4, TableTypes, ReachableIsUnique
<1> QED BY <1>1, <1>2 DEF TypeOK

(***************************************************************************)
(* A class whose texts have fewer features than it has buckets always has  *)
(* an unused one, so what holds while it has one holds of it.              *)
(***************************************************************************)
THEOREM SmallVocabularyLeavesRoom ==
  ASSUME \A fl \in FlagSets : "ERASE" \notin fl, 0 \notin Features, ChainLength # 0,
         IsFiniteSet(Features), Cardinality(Features) < HtLen
  PROVE  Spec => []HasRoom
<1>1. TypeOK /\ ProbeInv /\ GroomInv /\ [Next]_vars => GroomInv'
  BY FewFeaturesLeaveRoom, GroomInvStep
<1> QED BY <1>1, FewFeaturesLeaveRoom, GroomInvInit, ProbeInvariant, PTL DEF Spec

(***************************************************************************)
(* While some bucket is unused: packing changes no feature's total. A      *)
(* feature that is moved goes to an empty bucket, not onto another.        *)
(***************************************************************************)
THEOREM PackingOnlyMoves ==
  ASSUME \A fl \in FlagSets : "ERASE" \notin fl, 0 \notin Features, ChainLength # 0
  PROVE  Spec /\ []HasRoom => PackKeepsCounts
<1>1. TypeOK /\ GroomInv /\ [Next]_vars =>
        ((pc = "clear" \/ pc = "pack") =>
           \A f \in Features : StoredTotal(hash', value', f) = StoredTotal(hash, value, f))
  <2> SUFFICES ASSUME TypeOK, GroomInv, [Next]_vars, pc = "clear" \/ pc = "pack", NEW f \in Features
               PROVE  StoredTotal(hash', value', f) = StoredTotal(hash, value, f)
    OBVIOUS
  <2>1. UNCHANGED table \/ PackClear \/ PackMove
    BY DEF Next, Learn, LearnCall, LearnRefused, ProbeNext, ProbeFull, Store, GroomCall, ZapSweep, ZapDone,
           PackNextSegment, GroomReturn, vars
  <2>2. CASE UNCHANGED table
    BY <2>2 DEF table
  <2>3. CASE PackClear
    <3>1. OfFeature(hash', value', f) = OfFeature(hash, value, f)
      BY <2>3, TableTypes DEF OfFeature, PackClear
    <3> QED BY <3>1 DEF StoredTotal, OfFeature
  <2>4. CASE PackMove
    <3> SUFFICES ASSUME NEW t \in Slots, ifrom \in Slots, t # ifrom, hash[t] = 0, value[t] = 0,
                        hash' = [hash EXCEPT ![ifrom] = 0, ![t] = hash[ifrom]],
                        value' = [value EXCEPT ![ifrom] = 0, ![t] = value[ifrom]]
                 PROVE  StoredTotal(hash', value', f) = StoredTotal(hash, value, f)
      BY <2>2, <2>4, MoveInv
    <3>1. hash \in [Slots -> Nat] /\ value \in [Slots -> Nat]
      BY TableTypes
    <3>2. /\ value' \in [Slots -> Nat] /\ hash' \in [Slots -> Nat]
          /\ hash'[t] = hash[ifrom] /\ value'[t] = value[ifrom] /\ value'[ifrom] = 0
          /\ \A s \in Slots \ {ifrom, t} : hash'[s] = hash[s] /\ value'[s] = value[s]
      BY <3>1
    <3> QED BY ONLY <3>1, <3>2, MovedTotal, ifrom \in Slots, t # ifrom, value[t] = 0, t \in Slots, f \in Features
  <2> QED BY <2>1, <2>2, <2>3, <2>4
<1> QED BY <1>1, GroomInvInit, GroomInvStep, ProbeInvariant, PTL DEF Spec, PackKeepsCounts

-----------------------------------------------------------------------------
(* The class is a count per feature.                                       *)

(* The class is a count per feature.                                       *)

counted == [f \in Features |-> StoredCount(f)]

\* It is CountOf of the table, now and after a step.
LEMMA StoredIsCount ==
  /\ \A f : StoredCount(f) = CountOf(hash, value, f)
  /\ counted = [f \in Features |-> CountOf(hash, value, f)]
  /\ counted' = [f \in Features |-> CountOf(hash', value', f)]
BY DEF StoredCount, CountOf, counted

\* Store learns the row in hand.
LEMMA StoreIsLearn ==
  ASSUME TypeOK, TypeOK', UsedOnce(hash, value), UsedOnce(hash', value'), "ERASE" \notin flags, Store
  PROVE  Counts!Learn(h1) /\ h1 \in Features
<1>1. /\ hash \in [Slots -> Nat] /\ value \in [Slots -> Nat]
      /\ hash' \in [Slots -> Nat] /\ value' \in [Slots -> Nat]
  BY TableTypes, TableTypesNext
<1>2. /\ hindex \in Slots /\ h1 \in Nat /\ h1 \in Features
      /\ hash[hindex] = h1 \/ value[hindex] = 0
      /\ hash' = [hash EXCEPT ![hindex] = h1]
  BY StoreWrites
<1>3. /\ value' = [value EXCEPT ![hindex] = NewValue(value[hindex])]
      /\ sense = 1
  BY DEF Store, sense
<1>4. value[hindex] \in Nat /\ value[hindex] <= ValueMax - 1
  BY <1>2, TableTypes
<1>5. /\ value'[hindex] = IF value[hindex] = ValueMax - 1 THEN ValueMax - 1 ELSE value[hindex] + 1
      /\ value'[hindex] # 0
  BY <1>1, <1>2, <1>3, <1>4, ValueMaxAssumption DEF NewValue
<1>6. /\ CountOf(hash, value, h1) = value[hindex] /\ CountOf(hash', value', h1) = value'[hindex]
      /\ \A g \in Nat \ {h1} : CountOf(hash', value', g) = CountOf(hash, value, g)
  <2>1. hash'[hindex] = h1 /\ \A t \in Slots \ {hindex} : hash'[t] = hash[t] /\ value'[t] = value[t]
    BY <1>1, <1>2, <1>3
  <2>2. hindex \in Slots /\ h1 \in Nat /\ (hash[hindex] = h1 \/ value[hindex] = 0) /\ value'[hindex] # 0
    BY <1>2, <1>5
  <2> QED BY ONLY <1>1, <2>1, <2>2, UsedOnce(hash, value), UsedOnce(hash', value'), StoreCounts
<1>7. counted' = [counted EXCEPT ![h1] = IF @ = ValueMax - 1 THEN ValueMax - 1 ELSE @ + 1]
  <2>1. counted[h1] = value[hindex]
    BY <1>2, <1>6, StoredIsCount
  <2>2. \A g \in Features : CountOf(hash', value', g) =
          IF g = h1 THEN IF value[hindex] = ValueMax - 1 THEN ValueMax - 1 ELSE value[hindex] + 1
                    ELSE counted[g]
    BY <1>5, <1>6, FeaturesAssumption, StoredIsCount
  <2>3. counted \in [Features -> {counted[g] : g \in Features}]
    BY StoredIsCount
  <2> QED BY <1>2, <2>1, <2>2, <2>3, StoredIsCount
<1>8. h1 \in Counts!Known \/ Cardinality(Counts!Known) < HtLen
  <2>0. Counts!Known = {f \in Features : counted[f] > 0}
    BY DEF Counts!Known, counted
  <2>1. CASE value[hindex] # 0
    <3>1. counted[h1] > 0
      BY <1>2, <1>4, <1>6, <2>1, StoredIsCount
    <3> QED BY <1>2, <2>0, <3>1
  <2>2. CASE value[hindex] = 0
    <3>1. \A f \in Counts!Known : CountOf(hash, value, f) > 0
      BY <2>0, StoredIsCount
    <3> QED BY <1>1, <1>2, <2>2, <3>1, KnownFit
  <2> QED BY <2>1, <2>2
<1>9. counted' = [counted EXCEPT ![h1] = IF counted[h1] = ValueMax - 1 THEN ValueMax - 1 ELSE counted[h1] + 1]
  BY <1>7
<1>10. h1 \in Counts!Known \/ Counts!Cardinality(Counts!Known) < HtLen
  BY <1>8 DEF Counts!Cardinality, Cardinality
<1> QED BY <1>2, <1>9, <1>10 DEF Counts!Learn, counted

\* A pass of zap forgets the features it clears.
LEMMA ZapIsForget ==
  ASSUME TypeOK, TypeOK', UsedOnce(hash, value), "MICROGROOM" \in flags, ZapSweep
  PROVE  \E F \in SUBSET Counts!Known : Counts!Forget(F)
<1>1. /\ hash \in [Slots -> Nat] /\ value \in [Slots -> Nat]
      /\ value' = [s \in Slots |-> IF s \in ZapSet THEN 0 ELSE value[s]] /\ hash' = hash
  BY TableTypes DEF ZapSweep
<1>2. value' \in [Slots -> Nat] /\ ZapSet \in SUBSET Slots
  BY <1>1 DEF ZapSet
<1> DEFINE F == {f \in Features : \E s \in ZapSet : hash[s] = f /\ value[s] # 0}
<1>3. F \in SUBSET Counts!Known
  <2>1. ASSUME NEW f \in F PROVE counted[f] > 0
    <3>1. PICK s \in Slots : hash[s] = f /\ value[s] # 0
      BY <1>2
    <3>2. CountOf(hash, value, f) = value[s] /\ value[s] > 0
      BY <1>1, <3>1, CountOfStored
    <3> QED BY <3>2, StoredIsCount
  <2> QED BY <2>1 DEF Counts!Known, counted
<1>4. \A f \in Features : CountOf(hash', value', f) = IF f \in F THEN 0 ELSE counted[f]
  <2> TAKE f \in Features
  <2>1. \A s \in Slots : value'[s] = IF s \in ZapSet THEN 0 ELSE value[s]
    BY <1>1
  <2>2. CountOf(hash, value', f)
          = IF \E s \in ZapSet : hash[s] = f /\ value[s] # 0 THEN 0 ELSE CountOf(hash, value, f)
    BY ONLY <1>1, <1>2, <2>1, UsedOnce(hash, value), ClearedCounts
  <2> QED BY <1>1, <2>2, StoredIsCount
<1>5. counted' = [f \in Features |-> IF f \in F THEN 0 ELSE counted[f]]
  BY <1>4, StoredIsCount
<1> HIDE DEF F
<1>6. Counts!Forget(F)
  BY <1>5 DEF Counts!Forget, counted
<1> QED BY <1>3, <1>6

\* Any step either counts, or forgets, or changes no count.
LEMMA CountsStep ==
  ASSUME TypeOK, TypeOK', UsedOnce(hash, value), UsedOnce(hash', value'), "ERASE" \notin flags,
         pc = "zap" => "MICROGROOM" \in flags,
         PackMove => \/ UNCHANGED table
                     \/ \E t \in Slots : /\ ifrom \in Slots /\ t # ifrom /\ hash[t] = 0 /\ value[t] = 0
                                         /\ hash' = [hash EXCEPT ![ifrom] = 0, ![t] = hash[ifrom]]
                                         /\ value' = [value EXCEPT ![ifrom] = 0, ![t] = value[ifrom]],
         [Next]_vars
  PROVE  [Counts!Next]_counted
<1>0. /\ hash \in [Slots -> Nat] /\ value \in [Slots -> Nat]
      /\ hash' \in [Slots -> Nat] /\ value' \in [Slots -> Nat]
  BY TableTypes, TableTypesNext
<1>1. ASSUME \A s \in Slots : value[s] # 0 => \E t \in Slots : hash'[t] = hash[s] /\ value'[t] = value[s],
             \A t \in Slots : value'[t] # 0 => \E s \in Slots : hash[s] = hash'[t] /\ value[s] = value'[t]
      PROVE  counted' = counted
  <2>1. \A f : CountOf(hash', value', f) = CountOf(hash, value, f)
    BY ONLY <1>0, <1>1, UsedOnce(hash, value), UsedOnce(hash', value'), SameUseSameCounts
  <2> QED BY <2>1, StoredIsCount
<1>2. CASE UNCHANGED table
  BY <1>2, StoredIsCount DEF table
<1>3. CASE Store
  BY <1>3, StoreIsLearn DEF Counts!Next
<1>4. CASE ZapSweep
  BY <1>4, ZapIsForget DEF Counts!Next, ZapSweep
<1>5. CASE PackClear
  <2>1. value' = value /\ \A s \in Slots : value[s] # 0 => hash'[s] = hash[s]
    BY <1>5 DEF PackClear
  <2> QED BY <1>1, <2>1
<1>6. CASE PackMove
  <2> SUFFICES ASSUME NEW t \in Slots, ifrom \in Slots, t # ifrom, hash[t] = 0, value[t] = 0,
                      hash' = [hash EXCEPT ![ifrom] = 0, ![t] = hash[ifrom]],
                      value' = [value EXCEPT ![ifrom] = 0, ![t] = value[ifrom]]
               PROVE  counted' = counted
    BY <1>2, <1>6
  <2>1. /\ hash'[t] = hash[ifrom] /\ value'[t] = value[ifrom] /\ value'[ifrom] = 0
        /\ \A s \in Slots \ {ifrom, t} : hash'[s] = hash[s] /\ value'[s] = value[s]
    BY <1>0
  <2>2. ASSUME NEW s \in Slots, value[s] # 0
        PROVE \E r \in Slots : hash'[r] = hash[s] /\ value'[r] = value[s]
    BY <2>1, <2>2
  <2>3. ASSUME NEW r \in Slots, value'[r] # 0
        PROVE \E s \in Slots : hash[s] = hash'[r] /\ value[s] = value'[r]
    BY <2>1, <2>3
  <2> QED BY <1>1, <2>2, <2>3
<1> QED
  BY <1>2, <1>3, <1>4, <1>5, <1>6
  DEF Next, Learn, LearnCall, LearnRefused, ProbeNext, ProbeFull, GroomCall, ZapDone,
      PackNextSegment, GroomReturn, vars

\* The groomer runs under MICROGROOM.
FlagsInv ==
  pc \in {"zap", "clear", "pack"} => "MICROGROOM" \in flags

\* Flags are set when a call is made, and the groomer is called by MICROGROOM only.
LEMMA FlagsInvStep == FlagsInv /\ [Next]_vars => FlagsInv'
BY DEF FlagsInv, Next, Learn, LearnCall, LearnRefused, ProbeNext, ProbeFull, Store, GroomCall, MustGroom,
       ZapSweep, ZapDone, PackClear, PackMove, PackNextSegment, GroomReturn, Return, vars, call

\* The empty class counts nothing.
LEMMA CountsInit == Init => Counts!Init /\ FlagsInv
<1> SUFFICES ASSUME Init PROVE counted = [f \in Features |-> 0] /\ FlagsInv
  BY DEF Counts!Init, counted
<1>1. FlagsInv
  BY DEF Init, FlagsInv
<1>2. \A f : StoredCount(f) = 0
  BY DEF Init, EmptyValue, StoredCount
<1> QED BY <1>1, <1>2 DEF counted

(***************************************************************************)
(* Without ERASE and MICROGROOM, learning is counting: a store adds one to *)
(* the count of its feature, up to the limit, and touches no other; what   *)
(* is not counted yet takes one of the HtLen places; nothing else changes  *)
(* a count.                                                                *)
(***************************************************************************)
THEOREM PlainLearningCounts ==
  ASSUME \A fl \in FlagSets : OnlyAffirms(fl)
  PROVE  Spec => ImplementsCounts
<1>1. Init => ReachInv
  BY DEF Init, ReachInv, OnlyAffirms, AllReachable, EmptyValue
<1>2. TypeOK /\ ProbeInv /\ ReachInv /\ [Next]_vars => ReachInv'
  BY ReachInvStep
<1>3. TypeOK /\ TypeOK' /\ ReachInv /\ ReachInv' /\ [Next]_vars => [Counts!Next]_counted
  <2> SUFFICES ASSUME TypeOK, TypeOK', ReachInv, ReachInv', [Next]_vars PROVE [Counts!Next]_counted
    OBVIOUS
  <2>1. UsedOnce(hash, value)
    BY ReachableUsedOnce, TableTypes DEF ReachInv
  <2>2. UsedOnce(hash', value')
    BY ReachableUsedOnce, TableTypesNext DEF ReachInv
  <2>3. pc # "zap" /\ ~PackMove /\ "ERASE" \notin flags
    BY DEF ReachInv, PackMove, OnlyAffirms
  <2> QED BY <2>1, <2>2, <2>3, CountsStep
<1> QED BY <1>1, <1>2, <1>3, CountsInit, ProbeInvariant, PTL DEF Spec, ImplementsCounts, Counts!Spec, counted

(***************************************************************************)
(* With MICROGROOM, while some bucket is unused: grooming, besides, forgets*)
(* some features, each entirely, and packing what is left changes no count.*)
(***************************************************************************)
THEOREM GroomingForgetsWhole ==
  ASSUME \A fl \in FlagSets : "ERASE" \notin fl, 0 \notin Features, ChainLength # 0
  PROVE  Spec /\ []HasRoom => ImplementsCounts
<1>1. TypeOK /\ GroomInv => UsedOnce(hash, value)
  BY ReachableUsedOnce, TableTypes DEF TypeOK, GroomInv, Groomed
<1>2. TypeOK /\ TypeOK' /\ FlagsInv /\ GroomInv /\ UsedOnce(hash, value) /\ UsedOnce(hash, value)' /\ [Next]_vars
        => [Counts!Next]_counted
  <2> SUFFICES ASSUME TypeOK, TypeOK', FlagsInv, GroomInv, UsedOnce(hash, value), UsedOnce(hash', value'), [Next]_vars
               PROVE [Counts!Next]_counted
    OBVIOUS
  <2>1. "ERASE" \notin flags /\ (pc = "zap" => "MICROGROOM" \in flags)
    BY DEF GroomInv, FlagsInv
  <2> QED BY <2>1, MoveInv, CountsStep
<1> QED
  BY <1>1, <1>2, CountsInit, FlagsInvStep, GroomInvInit, GroomInvStep, ProbeInvariant, PTL
  DEF Spec, ImplementsCounts, Counts!Spec, counted
=============================================================================
