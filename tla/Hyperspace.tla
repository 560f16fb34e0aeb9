----------------------------- MODULE Hyperspace -----------------------------
(***************************************************************************)
(* The hyperspace classifier: a class is a block of cells in which each    *)
(* learned document is its sorted feature hashes, ended by a zero.         *)
(* Learning appends and grows the block when it must; classifying compares *)
(* the unknown document with every known one by the two-finger algorithm.  *)
(*                                                                         *)
(* Definitions named Wrong... are variants with a plausible slip in them.  *)
(***************************************************************************)
EXTENDS DataBlock, Sequences, FiniteSets

CONSTANTS
  DataSize,    \* cells in the data area of a new database
  Docs,        \* the (sorted) feature rows that a text can produce
  MaxSize      \* bound: learn is not called when it would need a larger area

ASSUME DataSizeAssumption == DataSize \in Nat
ASSUME DocsAssumption == Docs \subseteq Seq(Cells \cap Nat)
ASSUME SortedAssumption == \A d \in Docs : \A j \in 1 .. Len(d) - 1 : d[j] <= d[j + 1]
ASSUME PromotedAssumption == 1 \in Cells
ASSUME MaxSizeAssumption == MaxSize \in Nat

\* One block per class.
Classes == Blocks

VARIABLES
  db,          \* the data area and its block table
  sizeUsed,    \* cb.block[c].size_used, in cells
  documents,   \* cb.class[c].documents
  features,    \* cb.class[c].features
  ret          \* what the last learn returned

vars == <<db, sizeUsed, documents, features, ret>>

Init ==
  /\ db = NewDataBlock(DataSize)
  /\ sizeUsed = [c \in Classes |-> 0]
  /\ documents = [c \in Classes |-> 0]
  /\ features = [c \in Classes |-> 0]
  /\ ret = "OK"

\* Cells in use: every feature, and a sentinel for every document.
Used(c) == documents[c] + features[c]

-----------------------------------------------------------------------------
(* Learning.                                                               *)

\* A feature whose hash is 0 would be taken for a sentinel.
Promote(f) == IF f = 0 THEN 1 ELSE f

Promoted(d) == [k \in 1 .. Len(d) |-> Promote(d[k])]

\* The room a document needs is its features and a sentinel.
WrongMustGrow(c, d) == Used(c) + Len(d) > db.alloc[c]
MustGrow(c, d) == Used(c) + Len(d) + 1 > db.alloc[c]

\* "Double up": twice the block and the new features.
GrownSize(c, d) == 2 * db.alloc[c] + Len(d)

RoomFor(c, d) == IF MustGrow(c, d) THEN Resize(db, c, GrownSize(c, d)) ELSE db

\* The cells from position at on, overwritten by s; writes past the end of
\* the data area are outside the model.
Written(mem, at, s) ==
  [a \in DOMAIN mem |-> IF a \in at .. at + Len(s) - 1 THEN s[a - at + 1] ELSE mem[a]]

\* The library refuses a class that does not exist and flags it cannot serve.
LearnRefused(c, flags) ==
  /\ c \notin Classes \/ flags # {}
  /\ ret' = "BADARG"
  /\ UNCHANGED <<db, sizeUsed, documents, features>>

\* realloc failed: the database is still what it was.
LearnNoMemory(c, d) ==
  /\ MustGrow(c, d)
  /\ ret' = "NOMEM"
  /\ UNCHANGED <<db, sizeUsed, documents, features>>

Learn(c, d) ==
  LET room == RoomFor(c, d)
  IN  /\ room.size <= MaxSize
      /\ db' = [room EXCEPT !.mem = Written(@, room.start[c] + Used(c), Append(Promoted(d), 0))]
      /\ features' = [features EXCEPT ![c] = @ + Len(d)]
      /\ documents' = [documents EXCEPT ![c] = @ + 1]
      /\ sizeUsed' = [sizeUsed EXCEPT ![c] = Used(c)']
      /\ ret' = "OK"

-----------------------------------------------------------------------------
(* Writing the learned cells as text and reading them into a zeroed area.  *)

InUse(a) == \E c \in Classes : a \in db.start[c] .. db.start[c] + Used(c) - 1

Restored == [a \in DOMAIN db.mem |-> IF InUse(a) THEN db.mem[a] ELSE 0]

SaveRestore ==
  /\ db' = [db EXCEPT !.mem = Restored]
  /\ UNCHANGED <<sizeUsed, documents, features, ret>>

Next ==
  \/ \E c \in Classes, d \in Docs : Learn(c, d) \/ LearnNoMemory(c, d)
  \/ \E c \in -1 .. NumBlocks, flags \in {{}, {"ERASE"}, {"REFUTE"}} : LearnRefused(c, flags)
  \/ SaveRestore

Spec == Init /\ [][Next]_vars

-----------------------------------------------------------------------------
(* Classifying: the two fingers.                                           *)

\* The cells of class c that are in use, in order.
CellsOf(c) == [k \in 1 .. Used(c) |-> db.mem[db.start[c] + k - 1]]

(***************************************************************************)
(* Where a comparison stands: the fingers kpt (in the known cells) and upt *)
(* (in the unknown document), the counters for the known document it is    *)
(* in, and the scores of the known documents it is done with.              *)
(***************************************************************************)
Zeroed == [kandu |-> 0, knotu |-> 1, unotk |-> 1]
Begin == [kpt |-> 1, upt |-> 1, now |-> Zeroed, done |-> <<>>]

\* From cell k on, the first sentinel, or the end.
SkipToSentinel(known, k) ==
  CHOOSE n \in k .. Len(known) + 1 :
    /\ n > Len(known) \/ known[n] = 0
    /\ \A m \in k .. n - 1 : known[m] # 0

\* The unknown document is used up: the rest of the known one has no match.
WrongAtUnknownEnd(known, u, s) == s
AtUnknownEnd(known, u, s) ==
  IF s.upt <= Len(u) THEN s
  ELSE LET k == SkipToSentinel(known, s.kpt)
       IN  [s EXCEPT !.kpt = k, !.now.knotu = @ + (k - s.kpt)]

\* One round of the loop over the known cells.
Round(known, u, s) ==
  IF known[s.kpt] = 0 \/ s.upt > Len(u)
    THEN [kpt |-> s.kpt + 1, upt |-> 1, now |-> Zeroed, done |-> Append(s.done, s.now)]
    ELSE AtUnknownEnd(known, u,
           CASE known[s.kpt] > u[s.upt] ->
                  [s EXCEPT !.upt = @ + 1, !.now.unotk = @ + 1]
             [] known[s.kpt] < u[s.upt] ->
                  [s EXCEPT !.kpt = @ + 1, !.now.knotu = @ + 1]
             [] known[s.kpt] = u[s.upt] ->
                  [s EXCEPT !.upt = @ + 1, !.kpt = @ + 1, !.now.kandu = @ + 1])

\* Every round moves a finger on, and upt starts again only when kpt moves.
Rounds(known, u) == Len(known) * (Len(u) + 1)

\* The scores of the known documents, in order.
TwoFinger(known, u) ==
  LET at[k \in 0 .. Rounds(known, u)] ==
        IF k = 0 THEN Begin
        ELSE LET s == at[k - 1]
             IN  IF s.kpt > Len(known) THEN s ELSE Round(known, u, s)
  IN  at[Rounds(known, u)].done

-----------------------------------------------------------------------------
(* What a class stands for.                                                *)

\* Where the n-th document of a class ends: its n-th sentinel.
EndOf(known, n) ==
  CHOOSE k \in 1 .. Len(known) :
    /\ known[k] = 0
    /\ Cardinality({m \in 1 .. k : known[m] = 0}) = n

\* The documents in a class: the runs of cells between the sentinels.
DocsIn(known) ==
  [n \in 1 .. Cardinality({k \in 1 .. Len(known) : known[k] = 0}) |->
     SubSeq(known, IF n = 1 THEN 1 ELSE EndOf(known, n - 1) + 1, EndOf(known, n) - 1)]

Times(f, d) == Cardinality({k \in 1 .. Len(d) : d[k] = f})

\* How many features two documents share: the k-th time one has a feature
\* counts if the other has it k times.
Shared(d, u) ==
  Cardinality({p \in Cells \X (1 .. Len(d)) : p[2] <= Times(p[1], d) /\ p[2] <= Times(p[1], u)})

-----------------------------------------------------------------------------
(***************************************************************************)
(* Types of the variables.                                                 *)
(***************************************************************************)
TypeOK ==
  /\ db.size \in 0 .. MaxSize
  /\ db.start \in [Blocks -> 0 .. db.size] /\ db.alloc \in [Blocks -> 0 .. db.size]
  /\ db.mem \in [0 .. db.size - 1 -> Cells \cup {Junk}]
  /\ documents \in [Classes -> Nat] /\ features \in [Classes -> Nat]
  /\ sizeUsed \in [Classes -> Nat]
  /\ ret \in {"OK", "BADARG", "NOMEM"}

(***************************************************************************)
(* Growing a block keeps the blocks apart, and learn keeps a class inside  *)
(* its own ("We have enough space, guaranteed").                           *)
(***************************************************************************)
BlocksApart == WellLaidOut(db)
EnoughSpace == \A c \in Classes : Used(c) <= db.alloc[c]
SpaceIsKept == BlocksApart /\ EnoughSpace

Unknowns == Docs \ {<<>>}

(***************************************************************************)
(* The two-finger walk gives each known document exactly one score, with   *)
(* the number of features it shares with the unknown one, and accounts for *)
(* every feature of the known document once.                               *)
(***************************************************************************)
ScoresAreExact ==
  \A c \in Classes, u \in Unknowns :
    LET known == CellsOf(c)
        docs == DocsIn(known)
        scores == TwoFinger(known, u)
    IN  /\ Len(scores) = Len(docs)
        /\ \A n \in 1 .. Len(docs) :
             /\ scores[n].kandu = Shared(docs[n], u)
             /\ scores[n].kandu + scores[n].knotu - 1 = Len(docs[n])

(***************************************************************************)
(* The class as a list of documents, and the promise it keeps.             *)
(***************************************************************************)
Store == INSTANCE DocumentStore WITH
  Documents <- {Promoted(d) : d \in Docs},
  learned <- [c \in Classes |-> DocsIn(CellsOf(c))]

(***************************************************************************)
(* Learning appends one document to one class and, also when blocks move,  *)
(* when memory runs out and when the database goes through its text form,  *)
(* leaves every other document as it was.                                  *)
(***************************************************************************)
ImplementsStore == Store!Spec
=============================================================================
