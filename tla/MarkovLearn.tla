---------------------------- MODULE MarkovLearn ----------------------------
(***************************************************************************)
(* Learning into one class of an OSB/Markov database, bucket by bucket:    *)
(* crm114_learn_features_markov and the microgroomer it calls when a probe *)
(* path has become too long.                                               *)
(*                                                                         *)
(* One call of learn is a sequence of steps, so that what a probe has      *)
(* established, what the groomer has taken apart and what a call that      *)
(* fails half way leaves behind are all states of the model.  The library  *)
(* is single threaded: a new call starts only when pc is "idle".            *)
(*                                                                         *)
(* Definitions named Wrong... are variants with a plausible slip in them.  *)
(* No specification uses one; they show that the properties can fail.      *)
(***************************************************************************)
EXTENDS MarkovTable, Sequences, FiniteSets

CONSTANTS
  Docs,           \* the feature rows a caller may hand to learn
  FlagSets,       \* the sets of classifier flags a call may run under
  ChainLength,    \* MARKOV_MICROGROOM_CHAIN_LENGTH
  GroomDivisor,   \* zap gets rid of one bucket in this many (32)
  IntMax,         \* the largest int; an unsigned int holds 2*IntMax + 1
  MaxDocuments,   \* bound: learn calls are not made beyond this count
  MaxFeatures     \* bound on the absolute value of the feature counter

Flags == {"ERASE", "MICROGROOM", "REFUTE"}

ASSUME DocsAssumption == Docs \subseteq Seq(Features)
ASSUME FlagSetsAssumption == FlagSets \subseteq SUBSET Flags
ASSUME LimitsAssumption ==
  /\ ChainLength \in Nat
  /\ GroomDivisor \in Nat \ {0}
  /\ IntMax \in Nat \ {0} /\ HtLen <= IntMax  \* hs is handed over as an int
  /\ MaxDocuments \in Nat
  /\ MaxFeatures \in Nat

VARIABLES
  \* what the database keeps of the class
  hash,        \* hashes[s].hash
  value,       \* hashes[s].value
  documents,   \* cb.class[icls].documents
  features,    \* cb.class[icls].features
  \* the learn call
  pc,          \* "idle", "probe", or where the groomer is: "zap", "clear", "pack"
  flags,       \* cb.classifier_flags for this call
  doc,         \* features[], the rows to learn
  i,           \* the row being learned (1-based)
  hindex,      \* the bucket being probed
  incrs,       \* buckets passed since the home bucket
  ret,         \* what the last call returned
  \* the groom call
  packend,     \* last used bucket of the chain
  seg,         \* which of the chain's segments is being worked on
  vcut,        \* zap's current cost limit
  zcountdown,  \* buckets zap has still to clear in this segment
  zeroed,      \* actually_zeroed
  ifrom        \* the bucket packseg looks at

table == <<hash, value>>
counters == <<documents, features>>
call  == <<pc, flags, doc, i, hindex, incrs, ret>>
groom == <<packend, seg, vcut, zcountdown, zeroed, ifrom>>
vars  == <<table, counters, call, groom>>

h1 == doc[i]
sense == IF "ERASE" \in flags THEN -1 ELSE 1

GroomIdle ==
  /\ packend = 0 /\ seg = 1 /\ vcut = 1 /\ zcountdown = 0 /\ zeroed = 0 /\ ifrom = 0

Init ==
  /\ hash = EmptyHash /\ value = EmptyValue
  /\ documents = 0 /\ features = 0
  /\ pc = "idle" /\ flags = {} /\ doc = <<>> /\ i = 1
  /\ hindex = 0 /\ incrs = 0 /\ ret = "OK"
  /\ GroomIdle

-----------------------------------------------------------------------------
(* Entering and leaving a call.                                            *)

AtLeast0(n) == IF n < 0 THEN 0 ELSE n

\* The counters stay where the bounds of the model leave room for this call.
WithinBounds(d, fl) ==
  IF "ERASE" \in fl
    THEN features - Len(d) >= -MaxFeatures
    ELSE documents < MaxDocuments /\ features + Len(d) <= MaxFeatures

\* A call that is refused has changed nothing.
LearnRefused(d, fl) ==
  /\ pc = "idle"
  /\ "REFUTE" \in fl
  /\ ret' = "BADARG"
  /\ UNCHANGED <<table, counters, pc, flags, doc, i, hindex, incrs, groom>>

DocumentsAfter(fl) == AtLeast0(documents + (IF "ERASE" \in fl THEN -1 ELSE 1))

\* Every row starts its search afresh.
WrongStartOf(f) == hindex
StartOf(f) == Home(f)

\* The document is counted before any of its features is learned.
LearnCall(d, fl) ==
  /\ pc = "idle"
  /\ "REFUTE" \notin fl
  /\ WithinBounds(d, fl)
  /\ documents' = DocumentsAfter(fl)
  /\ IF d = <<>>
       THEN /\ ret' = "OK"
            /\ UNCHANGED <<pc, flags, doc, i, hindex, incrs>>
       ELSE /\ pc' = "probe"
            /\ flags' = fl /\ doc' = d /\ i' = 1
            /\ hindex' = StartOf(d[1]) /\ incrs' = 0
            /\ ret' = "none"
  /\ UNCHANGED <<table, features, groom>>

\* The call ends with result r; its local variables are gone.
Return(r) ==
  /\ pc' = "idle" /\ ret' = r
  /\ flags' = {} /\ doc' = <<>> /\ i' = 1 /\ hindex' = 0 /\ incrs' = 0

-----------------------------------------------------------------------------
(* The probe loop.                                                         *)

WrongAtStop == hash[hindex] = h1 \/ value[hindex] <= 1
AtStop == Stops(hash, value, h1, hindex)
MustGroom == "MICROGROOM" \in flags /\ incrs >= ChainLength

ProbeNext ==
  /\ pc = "probe" /\ ~AtStop /\ ~MustGroom
  /\ incrs + 1 < HtLen
  /\ incrs' = incrs + 1
  /\ hindex' = Succ(hindex)
  /\ UNCHANGED <<table, counters, pc, flags, doc, i, ret, groom>>

\* All the way round: the features before this one stay learned.
ProbeFull ==
  /\ pc = "probe" /\ ~AtStop /\ ~MustGroom
  /\ incrs + 1 >= HtLen
  /\ Return("CLASS_FULL")
  /\ UNCHANGED <<table, counters, groom>>

WrongNewValueNoCap(v) == IF sense > 0 THEN v + 1 ELSE IF v <= 1 THEN 0 ELSE v - 1
WrongNewValueUnsigned(v) ==
  IF sense > 0
    THEN IF v + 1 >= ValueMax - 1 THEN ValueMax - 1 ELSE v + 1
    ELSE (v - 1) % ValueMax

\* One more, saturating; one less, stopping at 0 with the hash left in place.
NewValue(v) ==
  IF sense > 0
    THEN IF v + 1 >= ValueMax - 1 THEN ValueMax - 1 ELSE v + 1
    ELSE IF v <= 1 THEN 0 ELSE v - 1

FeaturesAfterStore == features + sense

Store ==
  /\ pc = "probe" /\ AtStop
  /\ features' = FeaturesAfterStore
  /\ hash' = IF sense > 0 THEN [hash EXCEPT ![hindex] = h1] ELSE hash
  /\ value' = [value EXCEPT ![hindex] = NewValue(@)]
  /\ IF i = Len(doc)
       THEN Return("OK")
       ELSE /\ i' = i + 1
            /\ hindex' = StartOf(doc[i + 1]) /\ incrs' = 0
            /\ UNCHANGED <<pc, flags, doc, ret>>
  /\ UNCHANGED <<documents, groom>>

-----------------------------------------------------------------------------
(* The microgroomer (the weight-distance variant, which is the one built). *)

Pred(s) == IF s = 0 THEN HtLen - 1 ELSE s - 1

\* while (h[j].hash != 0) j++, at most once round; then one back.
PackEnd(start) ==
  LET Ends == {s \in Slots : hash[s] = 0}
      First == CHOOSE s \in Ends : \A t \in Ends : Dist(start, s) <= Dist(start, t)
  IN  IF Ends = {} THEN Pred(start) ELSE Pred(First)

WrongSegmentsOrder(start, end) ==
  IF start < end THEN <<[lo |-> start, hi |-> end]>>
                 ELSE <<[lo |-> 0, hi |-> end], [lo |-> start, hi |-> HtLen - 1]>>

\* The chain as one or, in wraparound, two runs of buckets, first to last.
Segments(start, end) ==
  IF start < end THEN <<[lo |-> start, hi |-> end]>>
                 ELSE <<[lo |-> start, hi |-> HtLen - 1], [lo |-> 0, hi |-> end]>>

Segs == Segments(Home(h1), packend)
InSeg(s) == s \in Segs[seg].lo .. Segs[seg].hi
Quota(sg) == (sg.hi - sg.lo + 1) \div GroomDivisor

GroomCall ==
  /\ pc = "probe" /\ ~AtStop /\ MustGroom
  /\ packend' = PackEnd(Home(h1))
  /\ seg' = 1 /\ vcut' = 1 /\ zeroed' = 0 /\ ifrom' = 0
  /\ zcountdown' = Quota(Segments(Home(h1), PackEnd(Home(h1)))[1])
  /\ pc' = "zap"
  /\ UNCHANGED <<table, counters, flags, doc, i, hindex, incrs, ret>>

WrongFromHome(k) == Dist(Home(hash[k]), k)

\* k - h[k].hash % hs, in unsigned ints: a bucket that wrapped is very far.
FromHome(k) ==
  IF k >= Home(hash[k]) THEN k - Home(hash[k])
                        ELSE k - Home(hash[k]) + 2 * (IntMax + 1)

Cost(k) == value[k] + FromHome(k)

ZapSet == {k \in Slots : InSeg(k) /\ value[k] > 0 /\ Cost(k) <= vcut}

\* One pass of the multisweep; vcut is an int and wraps.
ZapSweep ==
  /\ pc = "zap" /\ zcountdown > 0
  /\ value' = [k \in Slots |-> IF k \in ZapSet THEN 0 ELSE value[k]]
  /\ zcountdown' = zcountdown - Cardinality(ZapSet)
  /\ zeroed' = zeroed + Cardinality(ZapSet)
  /\ vcut' = IF vcut = IntMax THEN -IntMax - 1 ELSE vcut + 1
  /\ UNCHANGED <<hash, counters, call, packend, seg, ifrom>>

ZapDone ==
  /\ pc = "zap" /\ zcountdown <= 0
  /\ vcut' = 1
  /\ IF seg < Len(Segs)
       THEN /\ seg' = seg + 1 /\ zcountdown' = Quota(Segs[seg + 1])
            /\ UNCHANGED pc
       ELSE /\ seg' = 1 /\ zcountdown' = 0
            /\ pc' = "clear"
  /\ UNCHANGED <<table, counters, flags, doc, i, hindex, incrs, ret,
                 packend, zeroed, ifrom>>

\* packseg, first loop: placeholders become empty buckets.
PackClear ==
  /\ pc = "clear"
  /\ hash' = [s \in Slots |-> IF InSeg(s) /\ value[s] = 0 THEN 0 ELSE hash[s]]
  /\ ifrom' = Segs[seg].lo
  /\ pc' = "pack"
  /\ UNCHANGED <<value, counters, flags, doc, i, hindex, incrs, ret,
                 packend, seg, vcut, zcountdown, zeroed>>

WrongPackMove ==
  /\ pc = "pack" /\ ifrom <= Segs[seg].hi
  /\ LET ito == StopSlot(hash, value, hash[ifrom])
     IN  IF value[ifrom] = 0
           THEN UNCHANGED table
           ELSE /\ hash'  = [hash  EXCEPT ![ito] = hash[ifrom], ![ifrom] = 0]
                /\ value' = [value EXCEPT ![ito] = value[ifrom], ![ifrom] = 0]
  /\ ifrom' = ifrom + 1
  /\ UNCHANGED <<counters, call, packend, seg, vcut, zcountdown, zeroed>>

\* packseg, second loop: re-insert the next bucket in use.
PackMove ==
  /\ pc = "pack" /\ ifrom <= Segs[seg].hi
  /\ LET ito == StopSlot(hash, value, hash[ifrom])
     IN  IF value[ifrom] = 0
           THEN UNCHANGED table
           ELSE /\ hash'  = [hash  EXCEPT ![ifrom] = 0, ![ito] = hash[ifrom]]
                /\ value' = [value EXCEPT ![ifrom] = 0, ![ito] = value[ifrom]]
  /\ ifrom' = ifrom + 1
  /\ UNCHANGED <<counters, call, packend, seg, vcut, zcountdown, zeroed>>

PackNextSegment ==
  /\ pc = "pack" /\ ifrom > Segs[seg].hi /\ seg < Len(Segs)
  /\ seg' = seg + 1 /\ pc' = "clear"
  /\ UNCHANGED <<table, counters, flags, doc, i, hindex, incrs, ret,
                 packend, vcut, zcountdown, zeroed, ifrom>>

WrongFeaturesAfterGroom == features - (Segs[seg].hi - Segs[seg].lo + 1)
FeaturesAfterGroom == features - zeroed

WrongHelpless == FALSE
Helpless == zeroed = 0

\* Back in learn: give up if nothing was gained, else search from the start.
GroomReturn ==
  /\ pc = "pack" /\ ifrom > Segs[seg].hi /\ seg = Len(Segs)
  /\ packend' = 0 /\ seg' = 1 /\ vcut' = 1 /\ zcountdown' = 0 /\ zeroed' = 0
  /\ ifrom' = 0
  /\ IF Helpless
       THEN /\ Return("CLASS_FULL")
            /\ UNCHANGED features
       ELSE /\ features' = FeaturesAfterGroom
            /\ hindex' = StartOf(h1) /\ incrs' = 0 /\ pc' = "probe"
            /\ UNCHANGED <<flags, doc, i, ret>>
  /\ UNCHANGED <<table, documents>>

-----------------------------------------------------------------------------
Learn ==
  \/ ProbeNext \/ ProbeFull \/ Store
  \/ GroomCall \/ ZapSweep \/ ZapDone
  \/ PackClear \/ PackMove \/ PackNextSegment \/ GroomReturn

Next ==
  \/ \E d \in Docs, fl \in FlagSets : LearnCall(d, fl) \/ LearnRefused(d, fl)
  \/ Learn

Spec == Init /\ [][Next]_vars

\* A call, once made, runs: nothing in the library waits for anything.
FairSpec == Spec /\ WF_vars(Learn)

-----------------------------------------------------------------------------
(***************************************************************************)
(* Types of the variables.                                                 *)
(***************************************************************************)
TypeOK ==
  /\ hash \in [Slots -> Hashes] /\ value \in [Slots -> Values]
  /\ documents \in Nat /\ features \in Int
  /\ pc \in {"idle", "probe", "zap", "clear", "pack"}
  /\ flags \in SUBSET Flags /\ doc \in Seq(Features) /\ i \in Nat \ {0}
  /\ (pc # "idle" => i <= Len(doc) /\ ret = "none")
  /\ hindex \in Slots /\ incrs \in Nat
  /\ ret \in {"OK", "BADARG", "CLASS_FULL", "none"}
  /\ packend \in Slots /\ seg \in {1, 2}
  /\ (seg = 2 => pc \notin {"idle", "probe"} /\ Len(Segs) = 2)
  /\ vcut \in Int /\ zcountdown \in Int /\ zeroed \in Nat /\ ifrom \in 0 .. HtLen

(***************************************************************************)
(* Whenever a search can start, every feature the class stores is in the   *)
(* bucket where the search for it ends: no chain has been cut.             *)
(***************************************************************************)
NoOrphans == pc \in {"idle", "probe"} => AllReachable(hash, value)

(***************************************************************************)
(* learn reports a full class only when every bucket is in use by another  *)
(* feature, unless it was the groomer that could not help.                 *)
(***************************************************************************)
FullMeansFull ==
  [][(pc = "probe" /\ ret' = "CLASS_FULL")
       => \A s \in Slots : value[s] > 0 /\ hash[s] # h1]_vars

(***************************************************************************)
(* The class's feature counter never falls behind the values in its        *)
(* buckets: saturation and grooming let it run ahead only.                 *)
(***************************************************************************)
FeaturesCoverValues == features >= SumOf(value)

(***************************************************************************)
(* A class with features has documents: classify divides by the number of  *)
(* documents for every hit.                                                *)
(***************************************************************************)
StoredNeedsDocuments == (\E s \in Slots : value[s] > 0) => documents > 0

(***************************************************************************)
(* When a learn call without microgrooming ends well, classify finds each  *)
(* feature of its document, whatever was erased before.                    *)
(***************************************************************************)
LearnedIsFound ==
  [][(pc = "probe" /\ pc' = "idle" /\ ret' = "OK" /\ flags \cap {"ERASE", "MICROGROOM"} = {})
       => \A r \in 1 .. Len(doc) : LookupValue(hash', value', doc[r]) > 0]_vars

(***************************************************************************)
(* What a learn call without microgrooming says of itself is so: it ends   *)
(* well with its whole document in the table, and fails on a full one.     *)
(***************************************************************************)
RetIsTrue == FullMeansFull /\ LearnedIsFound

(***************************************************************************)
(* Erasing never adds to what is stored of any feature, learning never     *)
(* takes any away except by grooming.                                      *)
(***************************************************************************)
SenseIsKept ==
  [][pc = "probe" =>
       \A f \in Features :
         /\ "ERASE" \in flags => StoredTotal(hash', value', f) <= StoredTotal(hash, value, f)
         /\ "ERASE" \notin flags => StoredTotal(hash', value', f) >= StoredTotal(hash, value, f)]_vars

\* The bucket has come round the end of the table to where it is.
Wrapped(s) == s < Home(hash[s])

\* How old and stale a bucket is: its count and the buckets passed to reach it.
Staleness(s) == value[s] + Dist(Home(hash[s]), s)

(***************************************************************************)
(* Of the buckets of a segment that have not come round the end of the     *)
(* table, zap clears those first whose count and distance from home are    *)
(* least ("low-count buckets at or near their original insert point are    *)
(* likely to be old and stale so expire those first"), and it clears no    *)
(* other: one that came round is passed over, stale or not.                *)
(***************************************************************************)
StalestFirst ==
  [][pc = "zap" =>
       \A k \in Slots :
         (InSeg(k) /\ value[k] > 0 /\ value'[k] = 0) =>
            /\ ~Wrapped(k)
            /\ \A m \in Slots :
                 (InSeg(m) /\ value'[m] > 0 /\ ~Wrapped(m)) => Staleness(k) < Staleness(m)]_vars

(***************************************************************************)
(* Packing only moves: every feature in use keeps its value.               *)
(***************************************************************************)
PackKeepsCounts ==
  [][(pc = "clear" \/ pc = "pack") =>
       \A f \in Features :
         StoredTotal(hash', value', f) = StoredTotal(hash, value, f)]_vars

(***************************************************************************)
(* A learn call ends: the probe loop, the groomer's sweeps and the restart *)
(* after a groom do not go on for ever.                                    *)
(***************************************************************************)
CallReturns == pc # "idle" ~> pc = "idle"

\* Zap has more buckets to clear than the segment has that it ever clears.
Starved ==
  /\ pc = "zap"
  /\ zcountdown > Cardinality({s \in Slots : InSeg(s) /\ value[s] > 0 /\ ~Wrapped(s)})

(***************************************************************************)
(* What keeps a learn call from ending is this and nothing else: a segment *)
(* in which zap has more buckets to clear than have not come round the end *)
(* of the table, which may be so with buckets free.                        *)
(***************************************************************************)
ReturnsUnlessStarved == pc # "idle" ~> (pc = "idle" \/ Starved)

(***************************************************************************)
(* The class as a count per feature, and the promise it keeps.             *)
(***************************************************************************)
StoredCount(f) ==
  LET At == {s \in Slots : hash[s] = f /\ value[s] > 0}
  IN  IF At = {} THEN 0 ELSE value[CHOOSE s \in At : TRUE]

Counts == INSTANCE FeatureCounts WITH
  Capacity <- HtLen, Limit <- ValueMax - 1,
  mayForget <- "MICROGROOM" \in flags,
  count <- [f \in Features |-> StoredCount(f)]

(***************************************************************************)
(* Learning implements the count per feature.                              *)
(***************************************************************************)
ImplementsCounts == Counts!Spec
=============================================================================
