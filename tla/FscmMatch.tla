----------------------------- MODULE FscmMatch -----------------------------
(***************************************************************************)
(* Classifying with the fast substring matcher: from each symbol of the    *)
(* unknown text, along the chain of its slot, how far the text runs in     *)
(* step with what was learned; then past the run and on (compress_me).     *)
(* A step is one look for a position on a chain.  The looks share a cache  *)
(* of the last chain walked, so what one finds depends on those before it. *)
(*                                                                         *)
(* Definitions named Wrong... are variants with a plausible slip in them.  *)
(***************************************************************************)
EXTENDS Fscm

CONSTANTS
  CodePrefixLen,  \* FSCM_DEFAULT_CODE_PREFIX_LEN
  Unknowns        \* the feature rows that are classified

ASSUME CodePrefixLenAssumption == CodePrefixLen \in Nat
ASSUME UnknownsAssumption == Unknowns \subseteq Seq(Nat)

VARIABLES
  unk,      \* the unknown features
  symbol,   \* current_symbol, counted from 1; 0, nothing is being classified
  occ,      \* chain_index_start; 0, the chain is done
  offset,   \* length of the run behind occ so far
  best,     \* max_run
  cache     \* the chain cache (of one cell)

match == <<unk, symbol, occ, offset, best, cache>>

NoCache == [chstart |-> 0, cval0 |-> 0, cval1 |-> 0]

MatchInit ==
  /\ Init
  /\ unk = <<>> /\ symbol = 0 /\ occ = 0 /\ offset = 0 /\ best = 0
  /\ cache = NoCache

\* The chains of the unknown features, and none after the last.
unk_indexes(u) == [k \in 1 .. Len(u) + 1 |-> IF k <= Len(u) THEN index[Slot(u[k])] ELSE 0]

-----------------------------------------------------------------------------
(* chain_search_one_chain_link.                                            *)

\* Where the walk for position must begins on the chain that starts at head:
\* as far along as the cache allows.
Tighter(v, from, must) == v < must /\ v > from

StartOfWalk(head, must) ==
  LET first == IF Tighter(cache.cval0, head, must) THEN cache.cval0 ELSE head
  IN  IF Tighter(cache.cval1, first, must) THEN cache.cval1 ELSE first

\* A variant with a slip: the cache keeps what it had of another chain.
WrongCached(head) == [cache EXCEPT !.chstart = head]
Cached(head) ==
  IF cache.chstart = head THEN cache ELSE [chstart |-> head, cval0 |-> head, cval1 |-> head]

\* The walk from a place on a chain: where it ends, and the cache it leaves.
Places == [at : 0 .. ChainLen - 1, cache : [chstart : Nat, cval0 : Nat, cval1 : Nat]]

Onward(p) ==
  [at |-> chains[p.at],
   cache |-> [chstart |-> p.cache.chstart, cval0 |-> chains[p.at], cval1 |-> p.cache.cval0]]

Walk(must) ==
  LET walk[p \in Places] == IF p.at < must /\ p.at > 0 THEN walk[Onward(p)] ELSE p
  IN  walk

SearchChain(head, must) ==
  LET start == IF cache.chstart = head THEN StartOfWalk(head, must) ELSE head
  IN  Walk(must)[[at |-> start, cache |-> Cached(head)]]

-----------------------------------------------------------------------------
(* compress_me, longest_run_starting_here and this_chain_run_length.       *)

\* At a symbol: the first occurrence of its slot, if any.
AtSymbol(u, s) ==
  /\ symbol' = s
  /\ occ' = unk_indexes(u)[s]
  /\ offset' = 0
  /\ best' = IF occ' = 0 THEN 0 ELSE 1

Classify(u) ==
  /\ pc = "idle" /\ symbol = 0
  /\ unk' = u /\ cache' = NoCache
  /\ AtSymbol(u, 1)
  /\ UNCHANGED vars

\* The symbol the run wants next, the position it wants it at.
Wanted == symbol + 1 + offset
At == occ + 1 + offset

CanRun == occ # 0 /\ Wanted <= Len(unk) /\ unk_indexes(unk)[Wanted - offset] # 0
WrongFound == SearchChain(unk_indexes(unk)[Wanted], At).at # 0
Found == SearchChain(unk_indexes(unk)[Wanted], At).at = At

RunGoesOn ==
  /\ symbol # 0 /\ CanRun /\ Found
  /\ cache' = SearchChain(unk_indexes(unk)[Wanted], At).cache
  /\ offset' = offset + 1
  /\ UNCHANGED <<vars, unk, symbol, occ, best>>

\* The next occurrence to try: skip those within the run just found, as the
\* code counts it, from the next occurrence on.
Skip(past) ==
  LET skip[k \in 0 .. ChainLen - 1] == IF k > 0 /\ k < past THEN skip[chains[k]] ELSE k
  IN  skip

NextOccurrence == Skip(chains[occ] + offset)[chains[occ]]

\* The larger of the best run and the one that ends here.
BestOf(run) == IF run > best THEN run ELSE best

RunEnds ==
  /\ symbol # 0 /\ occ # 0 /\ ~ (CanRun /\ Found)
  /\ cache' = IF CanRun THEN SearchChain(unk_indexes(unk)[Wanted], At).cache ELSE cache
  /\ best' = BestOf(offset)
  /\ occ' = NextOccurrence
  /\ offset' = 0
  /\ UNCHANGED <<vars, unk, symbol>>

\* What the longest run is said to be.
RunLength == IF best = 0 THEN 0 ELSE best + CodePrefixLen

\* On to the symbol after the run, or to the next one.
WrongStride == RunLength
Stride == IF RunLength > 0 THEN RunLength ELSE 1

NextSymbol ==
  /\ symbol # 0 /\ symbol <= Len(unk) /\ occ = 0
  /\ IF symbol + Stride <= Len(unk)
       THEN AtSymbol(unk, symbol + Stride)
       ELSE symbol' = symbol + Stride /\ UNCHANGED <<occ, offset, best>>
  /\ UNCHANGED <<vars, unk, cache>>

Classified ==
  /\ symbol > Len(unk)
  /\ symbol' = 0 /\ occ' = 0 /\ best' = 0 /\ unk' = <<>> /\ cache' = NoCache
  /\ UNCHANGED <<vars, offset>>

Matching == RunGoesOn \/ RunEnds \/ NextSymbol \/ Classified

MatchNext ==
  \/ symbol = 0 /\ Next /\ UNCHANGED match
  \/ \E u \in Unknowns : Classify(u)
  \/ Matching

\* A call, to learn or to classify, runs to its end in the one thread.
MatchSpec ==
  /\ MatchInit /\ [][MatchNext]_<<vars, match>>
  /\ WF_<<vars, match>>(Learning /\ UNCHANGED match)
  /\ WF_<<vars, match>>(Matching)

-----------------------------------------------------------------------------
(* What is in step, by the text that was learned.                          *)

\* The position has the slot of the unknown symbol.
Agrees(s, p) == p \in Positions /\ written[p] = Slot(unk[s])

\* How far the unknown text from symbol s on agrees with the class from p on.
Agreement(s, p) ==
  LET ok(n) == \A k \in 0 .. n - 1 : s + k <= Len(unk) /\ Agrees(s + k, p + k)
  IN  CHOOSE n \in 0 .. Len(unk) : ok(n) /\ ~ ok(n + 1)

Occurrences(s) == {p \in Positions : Agrees(s, p)}
Longest(s) == CHOOSE n \in {Agreement(s, p) : p \in Occurrences(s)} :
                \A p \in Occurrences(s) : Agreement(s, p) <= n

-----------------------------------------------------------------------------
(***************************************************************************)
(* A look that starts from the cache finds what the walk from the head of  *)
(* the chain would: the position is found exactly when it was learned with *)
(* that slot, whatever was looked for before.                              *)
(***************************************************************************)
CacheIsTransparent ==
  symbol # 0 /\ CanRun /\ unk_indexes(unk)[Wanted] # 0 => (Found <=> Agrees(Wanted, At))

(***************************************************************************)
(* A run is text the class has learned, symbol by symbol, and the blanks   *)
(* between its documents end it.  The longest run counted is never longer  *)
(* than the longest there is, and there is one exactly when the symbol's   *)
(* slot has been learned.                                                  *)
(***************************************************************************)
RunsAreLearned ==
  /\ symbol # 0 /\ occ # 0 =>
       \A k \in 0 .. offset : Agrees(symbol + k, occ + k)
  /\ symbol # 0 /\ symbol <= Len(unk) /\ occ = 0 =>
       /\ best = 0 <=> Occurrences(symbol) = {}
       /\ best > 0 => best <= Longest(symbol)

(***************************************************************************)
(* Classifying comes to its end.                                           *)
(***************************************************************************)
ClassifyReturns == symbol # 0 ~> symbol = 0

(***************************************************************************)
(* "skip forward till end of currently found best": the occurrences that   *)
(* are skipped would not have given a longer run than the one found, both  *)
(* counted from the symbol after the first.                                *)
(***************************************************************************)
SkippingLosesNothing ==
  symbol # 0 /\ symbol <= Len(unk) /\ occ = 0 /\ best > 0 =>
    \A p \in Occurrences(symbol) : Agreement(symbol, p) - 1 <= best
=============================================================================
