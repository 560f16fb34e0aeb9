-------------------------- MODULE HyperspaceProofs --------------------------
(***************************************************************************)
(* Growing a block of a data block, and learning into a hyperspace class,  *)
(* for every number of blocks, every size and every document: a class      *)
(* keeps to its block, and learning appends to its documents.  Then what   *)
(* the tokenizer makes of a text, for every text, hash and matrix, and     *)
(* that a class is the list of the texts it was taught.                    *)
(***************************************************************************)
EXTENDS HyperspaceText, FiniteSetTheorems, WellFoundedInduction, TLAPS

\* What the lemmas about a data block assume of it.
IsBlockTable(d) ==
  /\ d.size \in Nat
  /\ d.start \in [Blocks -> Nat] /\ d.alloc \in [Blocks -> Nat]
  /\ d.mem \in [0 .. d.size - 1 -> Cells \cup {Junk}]

\* Equal blocks of a new database fill no more than its data area.
LEMMA TimesMonotone ==
  ASSUME NEW a \in Nat, NEW b \in Nat, NEW e \in Nat, a <= b
  PROVE  a * e <= b * e
<1> DEFINE c == b - a
<1>1. c \in Nat /\ b = a + c
  OBVIOUS
<1>2. b * e = a * e + c * e
  BY <1>1, (a + c) * e = a * e + c * e
<1>3. c * e >= 0
  BY <1>1
<1> QED
  BY <1>2, <1>3

LEMMA Division ==
  ASSUME NEW n \in Nat, NEW m \in Nat \ {0}
  PROVE  n \div m \in Nat /\ m * (n \div m) <= n /\ (n >= m => n \div m >= 1)
  OBVIOUS

\* A new data block is well laid out; no block is empty when there is a cell
\* for each.
LEMMA NewDataBlockLaidOut ==
  ASSUME NEW n \in Nat
  PROVE  /\ IsBlockTable(NewDataBlock(n))
         /\ WellLaidOut(NewDataBlock(n))
         /\ n >= NumBlocks => \A b \in Blocks : NewDataBlock(n).alloc[b] >= 1
<1> DEFINE each == n \div NumBlocks
           d == NewDataBlock(n)
<1>1. each \in Nat /\ NumBlocks * each <= n /\ (n >= NumBlocks => each >= 1)
  BY Division, NumBlocksAssumption
<1> HIDE DEF each
<1>2. \A b \in Blocks : b \in Nat /\ b + 1 \in Nat /\ b + 1 <= NumBlocks /\ NumBlocks \in Nat
  BY NumBlocksAssumption DEF Blocks
<1>3. \A b \in Blocks : b * each \in Nat /\ b * each + each <= NumBlocks * each
  <2> TAKE b \in Blocks
  <2>1. (b + 1) * each <= NumBlocks * each
    BY <1>1, <1>2, TimesMonotone
  <2>2. (b + 1) * each = b * each + each
    BY <1>1, <1>2
  <2>3. b * each \in Nat
    BY <1>1, <1>2
  <2> QED
    BY <2>1, <2>2, <2>3
<1>4. \A a, b \in Blocks : a < b => a * each + each <= b * each
  <2> TAKE a, b \in Blocks
  <2> HAVE a < b
  <2>1. (a + 1) * each <= b * each
    BY <1>1, <1>2, TimesMonotone
  <2>2. (a + 1) * each = a * each + each
    BY <1>1, <1>2
  <2> QED
    BY <2>1, <2>2
<1>5. /\ d.size = n
      /\ d.start = [b \in Blocks |-> b * each]
      /\ d.alloc = [b \in Blocks |-> each]
      /\ d.mem = [a \in 0 .. n - 1 |-> 0]
  BY DEF NewDataBlock, each
<1> HIDE DEF d
<1>6. \A b \in Blocks : b * each + each <= n
  <2> TAKE b \in Blocks
  <2>1. NumBlocks * each \in Nat
    BY <1>1, NumBlocksAssumption
  <2> QED
    BY <1>1, <1>3, <2>1
<1>7. IsBlockTable(d)
  BY <1>1, <1>3, <1>5, CellsAssumption DEF IsBlockTable
<1>8. WellLaidOut(d)
  BY <1>4, <1>5, <1>6 DEF WellLaidOut
<1>10. n >= NumBlocks => \A b \in Blocks : d.alloc[b] >= 1
  BY <1>1, <1>5
<1> QED
  BY <1>7, <1>8, <1>10 DEF d

\* Growing a block keeps the table well formed and the blocks apart.
LEMMA ResizeLaidOut ==
  ASSUME NEW d, IsBlockTable(d), WellLaidOut(d),
         NEW w \in Blocks, NEW n \in Nat, n >= d.alloc[w]
  PROVE  /\ IsBlockTable(Resize(d, w, n))
         /\ WellLaidOut(Resize(d, w, n))
         /\ Resize(d, w, n).alloc = [d.alloc EXCEPT ![w] = n]
<1> DEFINE gain == n - d.alloc[w]
           from == MovedFrom(d, w)
           top == d.size + gain
           r == Resize(d, w, n)
<1>1. gain \in Nat
  BY DEF IsBlockTable
<1>2. /\ r.size = top
      /\ r.start = [b \in Blocks |-> IF b > w THEN d.start[b] + gain ELSE d.start[b]]
      /\ r.alloc = [d.alloc EXCEPT ![w] = n]
      /\ r.mem = [a \in 0 .. top - 1 |->
                    IF a >= from + gain THEN d.mem[a - gain]
                    ELSE IF a < d.size THEN d.mem[a] ELSE Junk]
  BY DEF Resize
<1> HIDE DEF r
<1>10. top = d.size + gain
  OBVIOUS
<1> HIDE DEF top
<1>3. from \in Nat
  BY NumBlocksAssumption DEF MovedFrom, IsBlockTable, Blocks
<1> HIDE DEF from
<1>4. n = d.alloc[w] + gain
  BY DEF IsBlockTable
<1> HIDE DEF gain
<1>5. \A b \in Blocks :
        /\ b \in Nat /\ d.start[b] \in Nat /\ d.alloc[b] \in Nat
        /\ r.start[b] = IF b > w THEN d.start[b] + gain ELSE d.start[b]
        /\ r.alloc[b] = IF b = w THEN n ELSE d.alloc[b]
  BY <1>2, NumBlocksAssumption DEF IsBlockTable, Blocks
<1>6. d.size \in Nat /\ w \in Nat /\ n = d.alloc[w] + gain /\ gain \in Nat
  BY <1>1, <1>4, <1>5 DEF IsBlockTable
<1>7. IsBlockTable(r)
  <2>1. r.size \in Nat /\ r.start \in [Blocks -> Nat] /\ r.alloc \in [Blocks -> Nat]
    BY <1>1, <1>2, <1>10 DEF IsBlockTable
  <2>2. \A a \in 0 .. top - 1 :
          (IF a >= from + gain THEN d.mem[a - gain]
           ELSE IF a < d.size THEN d.mem[a] ELSE Junk) \in Cells \cup {Junk}
    <3> TAKE a \in 0 .. top - 1
    <3>1. CASE a >= from + gain
      <4>1. a - gain \in 0 .. d.size - 1
        BY <3>1, <1>3, <1>6, <1>10
      <4> QED
        BY <4>1, <3>1 DEF IsBlockTable
    <3>2. CASE ~(a >= from + gain) /\ a < d.size
      <4>1. a \in 0 .. d.size - 1
        BY <3>2, <1>6, <1>10
      <4> QED
        BY <4>1, <3>2 DEF IsBlockTable
    <3>3. CASE ~(a >= from + gain) /\ ~(a < d.size)
      BY <3>3
    <3> QED
      BY <3>1, <3>2, <3>3
  <2>3. r.mem \in [0 .. top - 1 -> Cells \cup {Junk}]
    BY <1>2, <2>2
  <2>4. r.mem \in [0 .. r.size - 1 -> Cells \cup {Junk}]
    BY <1>2, <2>3
  <2> QED
    BY <2>1, <2>4 DEF IsBlockTable
<1>8. WellLaidOut(r)
  <2>1. \A b \in Blocks : r.start[b] + r.alloc[b] <= r.size
    <3> TAKE b \in Blocks
    <3>1. d.start[b] + d.alloc[b] <= d.size
      BY DEF WellLaidOut
    <3>2. r.size = d.size + gain
      BY <1>2, <1>10
    <3>3. CASE b = w
      BY <3>1, <3>2, <3>3, <1>5, <1>6
    <3>4. CASE b # w
      BY <3>1, <3>2, <3>4, <1>5, <1>6
    <3> QED
      BY <3>3, <3>4
  <2>2. \A a, b \in Blocks : a < b => r.start[a] + r.alloc[a] <= r.start[b]
    <3> TAKE a, b \in Blocks
    <3> HAVE a < b
    <3>1. d.start[a] + d.alloc[a] <= d.start[b]
      BY DEF WellLaidOut
    <3>2. CASE a = w
      BY <3>1, <3>2, <1>5, <1>6
    <3>3. CASE a # w
      BY <3>1, <3>3, <1>5, <1>6
    <3> QED
      BY <3>2, <3>3
  <2> QED
    BY <2>1, <2>2 DEF WellLaidOut
<1> QED
  BY <1>2, <1>7, <1>8 DEF r

\* Growing a block moves the blocks behind it and changes no cell of any:
\* what was at offset k of a block is at offset k of it still.
LEMMA ResizeKeepsCells ==
  ASSUME NEW d, IsBlockTable(d), WellLaidOut(d),
         NEW w \in Blocks, NEW n \in Nat, n >= d.alloc[w],
         NEW b \in Blocks, NEW k \in Nat, k < d.alloc[b]
  PROVE  Resize(d, w, n).mem[Resize(d, w, n).start[b] + k] = d.mem[d.start[b] + k]
<1> DEFINE gain == n - d.alloc[w]
           from == MovedFrom(d, w)
           r == Resize(d, w, n)
           at == d.start[b] + k
<1>1. /\ gain \in Nat /\ d.size \in Nat
      /\ \A c \in Blocks : c \in Nat /\ d.start[c] \in Nat /\ d.alloc[c] \in Nat
      /\ NumBlocks \in Nat
  <2>1. /\ d.size \in Nat
        /\ \A c \in Blocks : d.start[c] \in Nat /\ d.alloc[c] \in Nat
    BY DEF IsBlockTable
  <2>2. NumBlocks \in Nat /\ \A c \in Blocks : c \in Nat
    BY NumBlocksAssumption DEF Blocks
  <2>3. gain \in Nat
    BY <2>1
  <2> QED
    BY <2>1, <2>2, <2>3
<1>2. /\ r.start[b] = IF b > w THEN d.start[b] + gain ELSE d.start[b]
      /\ \A a \in 0 .. (d.size + gain) - 1 :
           r.mem[a] = IF a >= from + gain THEN d.mem[a - gain]
                      ELSE IF a < d.size THEN d.mem[a] ELSE Junk
  BY DEF Resize
<1> HIDE DEF r, gain
<1>3. at \in Nat /\ at < d.start[b] + d.alloc[b] /\ at < d.size
  BY <1>1 DEF WellLaidOut
<1>4. from \in Nat /\ (b <= w => at < from) /\ (b > w => from <= at)
  <2>1. CASE w + 1 < NumBlocks
    <3>1. w + 1 \in Blocks /\ from = d.start[w + 1]
      BY <2>1, <1>1 DEF Blocks, MovedFrom
    <3>2. b <= w => at < from
      <4> HAVE b <= w
      <4>1. d.start[b] + d.alloc[b] <= d.start[w + 1]
        BY <3>1, <1>1 DEF WellLaidOut
      <4> QED
        BY <4>1, <3>1, <1>1, <1>3
    <3>3. b > w => from <= at
      <4> HAVE b > w
      <4>1. CASE b = w + 1
        BY <4>1, <3>1, <1>1
      <4>2. CASE b # w + 1
        <5>1. w + 1 < b
          BY <4>2, <1>1
        <5>2. d.start[w + 1] + d.alloc[w + 1] <= d.start[b]
          BY <5>1, <3>1 DEF WellLaidOut
        <5> QED
          BY <5>2, <3>1, <1>1
      <4> QED
        BY <4>1, <4>2
    <3> QED
      BY <3>1, <3>2, <3>3, <1>1
  <2>2. CASE ~(w + 1 < NumBlocks)
    <3>1. from = d.size
      BY <2>2 DEF MovedFrom
    <3>2. b <= w
      BY <2>2, <1>1 DEF Blocks
    <3> QED
      BY <3>1, <3>2, <1>1, <1>3
  <2> QED
    BY <2>1, <2>2
<1> HIDE DEF from, at
<1>5. CASE b > w
  <2>1. r.start[b] + k = at + gain
    BY <1>5, <1>1, <1>2 DEF at
  <2>2. at + gain \in 0 .. (d.size + gain) - 1 /\ at + gain >= from + gain
    BY <1>5, <1>1, <1>3, <1>4
  <2>3. (at + gain) - gain = at
    BY <1>1, <1>3
  <2>4. r.mem[at + gain] = d.mem[(at + gain) - gain]
    BY <2>2, <1>2
  <2> QED
    BY <2>1, <2>3, <2>4 DEF at, r
<1>6. CASE ~(b > w)
  <2>1. r.start[b] + k = at
    BY <1>6, <1>2 DEF at
  <2>2. at \in 0 .. (d.size + gain) - 1 /\ ~(at >= from + gain) /\ at < d.size
    BY <1>6, <1>1, <1>3, <1>4
  <2>3. r.mem[at] = d.mem[at]
    BY <2>2, <1>2
  <2> QED
    BY <2>1, <2>3 DEF at, r
<1> QED
  BY <1>5, <1>6

-----------------------------------------------------------------------------
\* What holds of a database in which every block had room for a cell.
RoomInv ==
  /\ IsBlockTable(db)
  /\ documents \in [Classes -> Nat] /\ features \in [Classes -> Nat]
  /\ BlocksApart
  /\ \A c \in Classes : db.alloc[c] >= 1
  /\ EnoughSpace

LEMMA DocLength ==
  ASSUME NEW d \in Docs
  PROVE  Len(d) \in Nat /\ Promoted(d) \in Seq(Cells) /\ Len(Promoted(d)) = Len(d)
<1>1. d \in Seq(Cells \cap Nat)
  BY DocsAssumption
<1>2. Len(d) \in Nat /\ \A j \in 1 .. Len(d) : d[j] \in Cells
  BY <1>1
<1>3. \A j \in 1 .. Len(d) : Promote(d[j]) \in Cells
  BY <1>2, PromotedAssumption DEF Promote
<1> QED
  BY <1>2, <1>3 DEF Promoted

\* Once the test and, if need be, the resize are behind it, learn has a block
\* with room for the document.
LEMMA RoomForFits ==
  ASSUME RoomInv, NEW c \in Classes, NEW d \in Docs
  PROVE  /\ IsBlockTable(RoomFor(c, d)) /\ WellLaidOut(RoomFor(c, d))
         /\ \A b \in Classes : RoomFor(c, d).alloc[b] >= db.alloc[b]
         /\ Used(c) + Len(d) + 1 <= RoomFor(c, d).alloc[c]
<1>1. Len(d) \in Nat /\ Used(c) \in Nat /\ c \in Blocks
  BY DocLength DEF RoomInv, Used, Classes
<1>2. /\ IsBlockTable(db) /\ WellLaidOut(db)
      /\ \A b \in Classes : db.alloc[b] \in Nat /\ db.alloc[b] >= 1 /\ Used(b) <= db.alloc[b]
  BY DEF RoomInv, BlocksApart, EnoughSpace, IsBlockTable, Classes
<1>3. CASE ~MustGrow(c, d)
  BY <1>1, <1>2, <1>3 DEF RoomFor, MustGrow
<1>4. CASE MustGrow(c, d)
  <2> DEFINE n == GrownSize(c, d)
             r == Resize(db, c, n)
  <2>1. n \in Nat /\ n >= db.alloc[c] /\ Used(c) + Len(d) + 1 <= n
    BY <1>1, <1>2 DEF GrownSize
  <2> HIDE DEF n
  <2>2. IsBlockTable(r) /\ WellLaidOut(r) /\ r.alloc = [db.alloc EXCEPT ![c] = n]
    BY <1>1, <1>2, <2>1, ResizeLaidOut
  <2>3. RoomFor(c, d) = r
    BY <1>4 DEF RoomFor, n
  <2> HIDE DEF r
  <2>4. r.alloc[c] = n /\ \A b \in Classes : r.alloc[b] >= db.alloc[b]
    BY <1>1, <1>2, <2>1, <2>2 DEF IsBlockTable, Classes
  <2> QED
    BY <2>1, <2>2, <2>3, <2>4
<1> QED
  BY <1>3, <1>4

LEMMA RoomInvStep ==
  ASSUME RoomInv, [Next]_vars
  PROVE  RoomInv'
<1>1. ASSUME NEW c \in Classes, NEW d \in Docs, Learn(c, d)
      PROVE  RoomInv'
  <2> DEFINE room == RoomFor(c, d)
  <2>1. /\ IsBlockTable(room) /\ WellLaidOut(room)
        /\ \A b \in Classes : room.alloc[b] >= db.alloc[b]
        /\ Used(c) + Len(d) + 1 <= room.alloc[c]
    BY <1>1, RoomForFits
  <2>2. /\ Len(d) \in Nat /\ Append(Promoted(d), 0) \in Seq(Cells)
    BY <1>1, DocLength, CellsAssumption
  <2>3. /\ db' = [room EXCEPT !.mem = Written(@, room.start[c] + Used(c), Append(Promoted(d), 0))]
        /\ features' = [features EXCEPT ![c] = @ + Len(d)]
        /\ documents' = [documents EXCEPT ![c] = @ + 1]
    BY <1>1 DEF Learn
  <2> HIDE DEF room
  <2>4. /\ documents' \in [Classes -> Nat] /\ features' \in [Classes -> Nat]
        /\ Used(c)' = Used(c) + Len(d) + 1
        /\ \A b \in Classes : b # c => Used(b)' = Used(b)
    <3>1. documents \in [Classes -> Nat] /\ features \in [Classes -> Nat] /\ c \in Classes
      BY DEF RoomInv
    <3>2. documents' \in [Classes -> Nat] /\ features' \in [Classes -> Nat]
      BY <2>2, <2>3, <3>1
    <3>3. documents'[c] = documents[c] + 1 /\ features'[c] = features[c] + Len(d)
      BY <2>3, <3>1
    <3>4. \A b \in Classes : b # c => documents'[b] = documents[b] /\ features'[b] = features[b]
      BY <2>3, <3>1
    <3>5. Used(c)' = Used(c) + Len(d) + 1
      BY <2>2, <3>1, <3>3 DEF Used
    <3> QED
      BY <3>2, <3>4, <3>5 DEF Used
  <2>5. db'.size = room.size /\ db'.start = room.start /\ db'.alloc = room.alloc
    BY <2>3
  <2>6. db'.mem \in [0 .. db'.size - 1 -> Cells \cup {Junk}]
    <3> DEFINE s == Append(Promoted(d), 0)
               at == room.start[c] + Used(c)
    <3>1. at \in Nat /\ Len(s) \in Nat /\ \A j \in 1 .. Len(s) : s[j] \in Cells
      BY <2>1, <2>2 DEF IsBlockTable, RoomInv, Used, Classes
    <3>2. room.mem \in [0 .. room.size - 1 -> Cells \cup {Junk}] /\ room.size \in Nat
      BY <2>1 DEF IsBlockTable
    <3> HIDE DEF s, at
    <3>3. Written(room.mem, at, s) \in [0 .. room.size - 1 -> Cells \cup {Junk}]
      <4> SUFFICES ASSUME NEW a \in 0 .. room.size - 1, a \in at .. at + Len(s) - 1
                   PROVE  s[a - at + 1] \in Cells
        BY <3>2 DEF Written
      <4>1. a - at + 1 \in 1 .. Len(s)
        BY <3>1
      <4> QED
        BY <3>1, <4>1
    <3>4. db'.mem = Written(room.mem, at, s)
      BY <2>3 DEF s, at
    <3> QED
      BY <2>5, <3>3, <3>4
  <2>7. IsBlockTable(db')
    BY <2>1, <2>5, <2>6 DEF IsBlockTable
  <2>8. BlocksApart'
    BY <2>1, <2>5 DEF BlocksApart, WellLaidOut
  <2>9. /\ \A b \in Classes : db'.alloc[b] >= 1
        /\ \A b \in Classes : Used(b)' <= db'.alloc[b]
    <3> SUFFICES ASSUME NEW b \in Classes
                 PROVE  db'.alloc[b] >= 1 /\ Used(b)' <= db'.alloc[b]
      OBVIOUS
    <3>1. room.alloc[b] \in Nat /\ room.alloc[c] \in Nat
      BY <2>1 DEF IsBlockTable, Classes
    <3>2. db.alloc[b] \in Nat /\ db.alloc[b] >= 1 /\ Used(b) <= db.alloc[b]
      BY DEF IsBlockTable, RoomInv, EnoughSpace, Classes
    <3>3. Used(b) \in Nat
      BY DEF RoomInv, Used
    <3>4. db'.alloc[b] = room.alloc[b] /\ room.alloc[b] >= db.alloc[b]
      BY <2>1, <2>5
    <3>5. CASE b = c
      BY <2>1, <2>4, <3>1, <3>2, <3>4, <3>5
    <3>6. CASE b # c
      <4>1. Used(b)' = Used(b)
        BY <2>4, <3>6
      <4> QED
        BY <4>1, <3>1, <3>2, <3>3, <3>4
    <3> QED
      BY <3>5, <3>6
  <2> QED
    BY <2>4, <2>7, <2>8, <2>9 DEF RoomInv, EnoughSpace
<1>2. ASSUME NEW c \in Classes, NEW d \in Docs, LearnNoMemory(c, d)
      PROVE  RoomInv'
  BY <1>2 DEF LearnNoMemory, RoomInv, BlocksApart, EnoughSpace, Used
<1>3. ASSUME NEW c \in -1 .. NumBlocks, NEW fl \in {{}, {"ERASE"}, {"REFUTE"}}, LearnRefused(c, fl)
      PROVE  RoomInv'
  BY <1>3 DEF LearnRefused, RoomInv, BlocksApart, EnoughSpace, Used
<1>4. CASE SaveRestore
  <2>1. /\ db'.size = db.size /\ db'.start = db.start /\ db'.alloc = db.alloc
        /\ db'.mem = Restored /\ UNCHANGED <<documents, features>>
    BY <1>4 DEF SaveRestore
  <2>2. db.mem \in [0 .. db.size - 1 -> Cells \cup {Junk}]
    BY DEF RoomInv, IsBlockTable
  <2>3. Restored \in [0 .. db.size - 1 -> Cells \cup {Junk}]
    BY <2>2, CellsAssumption DEF Restored
  <2>4. IsBlockTable(db')
    BY <2>1, <2>3 DEF RoomInv, IsBlockTable
  <2> QED
    BY <2>1, <2>4 DEF RoomInv, BlocksApart, WellLaidOut, EnoughSpace, Used
<1>5. CASE UNCHANGED vars
  BY <1>5 DEF vars, RoomInv, BlocksApart, EnoughSpace, Used
<1> QED
  BY <1>1, <1>2, <1>3, <1>4, <1>5 DEF Next

LEMMA RoomInvInit ==
  ASSUME Init, DataSize >= NumBlocks
  PROVE  RoomInv
<1>1. IsBlockTable(db) /\ WellLaidOut(db) /\ \A b \in Blocks : db.alloc[b] >= 1
  BY NewDataBlockLaidOut, DataSizeAssumption DEF Init
<1>2. /\ documents \in [Classes -> Nat] /\ features \in [Classes -> Nat]
      /\ \A c \in Classes : Used(c) = 0
  BY DEF Init, Used
<1>3. \A b \in Classes : db.alloc[b] >= 1 /\ Used(b) <= db.alloc[b]
  BY <1>1, <1>2 DEF IsBlockTable, Classes
<1> QED
  BY <1>1, <1>2, <1>3 DEF RoomInv, BlocksApart, EnoughSpace

(***************************************************************************)
(* In a database created with at least one cell for each block, blocks     *)
(* never overlap and a class never outgrows its own, whatever is learned.  *)
(***************************************************************************)
THEOREM EveryDocumentHasRoom ==
  DataSize >= NumBlocks => (Spec => []SpaceIsKept)
<1> SUFFICES ASSUME DataSize >= NumBlocks
             PROVE  Spec => []SpaceIsKept
  OBVIOUS
<1>1. Init => RoomInv
  BY RoomInvInit
<1>2. RoomInv /\ [Next]_vars => RoomInv'
  BY RoomInvStep
<1>3. RoomInv => SpaceIsKept
  BY DEF RoomInv, SpaceIsKept
<1> QED
  BY <1>1, <1>2, <1>3, PTL DEF Spec

-----------------------------------------------------------------------------
(* The cells of a class as the documents between the sentinels.            *)

Zeros(s, k) == {m \in 1 .. k : s[m] = 0}

LEMMA LeastOfSet ==
  ASSUME NEW S, S \subseteq Nat, S # {}
  PROVE  \E n \in S : \A m \in S : n <= m
<1> DEFINE Below == {p \in Nat \X Nat : p[1] < p[2]}
<1>1. IsWellFoundedOn(Below, Nat)
  BY NatLessThanWellFounded DEF OpToRel
<1>2. PICK k \in S : \A l \in S : ~ (<<l, k>> \in Below)
  <2> HIDE DEF Below
  <2> QED
    BY <1>1, WFMin
<1>3. \A l \in S : ~ (l < k)
  BY <1>2
<1> QED
  BY <1>3

LEMMA ZerosCount ==
  ASSUME NEW s, NEW k \in Nat
  PROVE  /\ IsFiniteSet(Zeros(s, k)) /\ Cardinality(Zeros(s, k)) \in Nat
         /\ Zeros(s, k) = {} <=> Cardinality(Zeros(s, k)) = 0
<1>1. IsFiniteSet(1 .. k)
  BY FS_Interval
<1>2. IsFiniteSet(Zeros(s, k))
  BY <1>1, FS_Subset DEF Zeros
<1> QED
  BY <1>2, FS_CardinalityType, FS_EmptySet

\* A later zero has more zeros up to it.
LEMMA ZerosGrow ==
  ASSUME NEW s, NEW j \in Nat, NEW k \in Nat, j < k
  PROVE  /\ Cardinality(Zeros(s, j)) <= Cardinality(Zeros(s, k))
         /\ s[k] = 0 => Cardinality(Zeros(s, j)) < Cardinality(Zeros(s, k))
<1>1. Zeros(s, j) \subseteq Zeros(s, k)
  BY DEF Zeros
<1>2. Cardinality(Zeros(s, j)) <= Cardinality(Zeros(s, k))
  BY <1>1, ZerosCount, FS_Subset
<1>3. s[k] = 0 => Zeros(s, j) # Zeros(s, k)
  <2> HAVE s[k] = 0
  <2>1. k \in Zeros(s, k) /\ k \notin Zeros(s, j)
    BY DEF Zeros
  <2> QED
    BY <2>1
<1>4. Cardinality(Zeros(s, k)) = Cardinality(Zeros(s, j)) => Zeros(s, k) = Zeros(s, j)
  BY <1>1, ZerosCount, FS_Subset
<1> QED
  BY <1>2, <1>3, <1>4, ZerosCount

\* From one cell to the next there is at most one more.
LEMMA ZerosStep ==
  ASSUME NEW s, NEW k \in Nat
  PROVE  Cardinality(Zeros(s, k + 1)) =
           IF s[k + 1] = 0 THEN Cardinality(Zeros(s, k)) + 1 ELSE Cardinality(Zeros(s, k))
<1>1. CASE s[k + 1] = 0
  <2>1. Zeros(s, k + 1) = Zeros(s, k) \cup {k + 1} /\ k + 1 \notin Zeros(s, k)
    BY <1>1 DEF Zeros
  <2> QED
    BY <1>1, <2>1, ZerosCount, FS_AddElement
<1>2. CASE s[k + 1] # 0
  <2>1. Zeros(s, k + 1) = Zeros(s, k)
    BY <1>2 DEF Zeros
  <2> QED
    BY <1>2, <2>1
<1> QED
  BY <1>1, <1>2

\* EndOf is the n-th sentinel, and the only one.
LEMMA EndOfIsEnd ==
  ASSUME NEW s, Len(s) \in Nat, NEW n \in 1 .. Cardinality(Zeros(s, Len(s)))
  PROVE  /\ EndOf(s, n) \in 1 .. Len(s) /\ s[EndOf(s, n)] = 0
         /\ Cardinality(Zeros(s, EndOf(s, n))) = n
         /\ \A k \in 1 .. Len(s) : s[k] = 0 /\ Cardinality(Zeros(s, k)) = n => k = EndOf(s, n)
<1> DEFINE Enough == {k \in 0 .. Len(s) : Cardinality(Zeros(s, k)) >= n}
<1>1. n \in Nat /\ n >= 1 /\ Cardinality(Zeros(s, Len(s))) \in Nat
  BY ZerosCount
<1>2. Enough \subseteq Nat /\ Len(s) \in Enough
  BY <1>1
<1>3. PICK k \in Enough : \A l \in Enough : k <= l
  <2> HIDE DEF Enough
  <2> QED
    BY <1>2, LeastOfSet
<1>4. k \in 0 .. Len(s) /\ Cardinality(Zeros(s, k)) >= n
  OBVIOUS
<1>5. k # 0
  <2>1. Zeros(s, 0) = {}
    BY DEF Zeros
  <2> QED
    BY <1>1, <1>4, <2>1, ZerosCount
<1>6. k - 1 \in Nat /\ k - 1 + 1 = k /\ k \in 1 .. Len(s) /\ k - 1 \in 0 .. Len(s)
  BY <1>4, <1>5
<1>7. ~ (Cardinality(Zeros(s, k - 1)) >= n)
  <2>1. k - 1 \notin Enough
    BY <1>3, <1>6
  <2> QED
    BY <1>6, <2>1
<1>8. Cardinality(Zeros(s, k - 1)) \in Nat
  BY <1>6, ZerosCount
<1> HIDE DEF Enough
<1>9. s[k] = 0 /\ Cardinality(Zeros(s, k)) = n
  <2>1. Cardinality(Zeros(s, k)) =
          IF s[k] = 0 THEN Cardinality(Zeros(s, k - 1)) + 1 ELSE Cardinality(Zeros(s, k - 1))
    BY <1>6, ZerosStep
  <2> QED
    BY <1>1, <1>4, <1>7, <1>8, <2>1
<1>10. EndOf(s, n) = CHOOSE l \in 1 .. Len(s) : s[l] = 0 /\ Cardinality(Zeros(s, l)) = n
  BY DEF EndOf, Zeros
<1>11. /\ EndOf(s, n) \in 1 .. Len(s) /\ s[EndOf(s, n)] = 0
       /\ Cardinality(Zeros(s, EndOf(s, n))) = n
  BY <1>6, <1>9, <1>10
<1>12. ASSUME NEW l \in 1 .. Len(s), s[l] = 0, Cardinality(Zeros(s, l)) = n
       PROVE  l = EndOf(s, n)
  <2>1. l \in Nat /\ EndOf(s, n) \in Nat
    BY <1>11
  <2>2. ~ (l < EndOf(s, n))
    BY <1>1, <1>11, <1>12, <2>1, ZerosGrow
  <2>3. ~ (EndOf(s, n) < l)
    BY <1>1, <1>11, <1>12, <2>1, ZerosGrow
  <2> QED
    BY <2>1, <2>2, <2>3
<1> QED
  BY <1>11, <1>12

\* What a class can hold, and a document in it.
Text == Seq(Cells \cup {Junk})
Entry == Seq(Cells \ {0})

EndsInSentinel(s) == Len(s) > 0 => s[Len(s)] = 0

\* t is s with the document d and a sentinel behind it.
IsAppended(t, s, d) ==
  /\ t \in Text /\ Len(t) = Len(s) + Len(d) + 1
  /\ \A k \in 1 .. Len(s) : t[k] = s[k]
  /\ \A j \in 1 .. Len(d) : t[Len(s) + j] = d[j]
  /\ t[Len(s) + Len(d) + 1] = 0

\* The sentinels of t are those of s and the new one.
LEMMA SentinelsOfAppended ==
  ASSUME NEW s \in Text, EndsInSentinel(s), NEW d \in Entry, NEW t, IsAppended(t, s, d)
  PROVE  /\ Cardinality(Zeros(t, Len(t))) = Cardinality(Zeros(s, Len(s))) + 1
         /\ \A n \in 1 .. Cardinality(Zeros(s, Len(s))) :
              EndOf(s, n) \in 1 .. Len(s) /\ EndOf(t, n) = EndOf(s, n)
         /\ EndOf(t, Cardinality(Zeros(s, Len(s))) + 1) = Len(t)
         /\ Cardinality(Zeros(s, Len(s))) = 0 => Len(s) = 0
         /\ Cardinality(Zeros(s, Len(s))) # 0 =>
              EndOf(s, Cardinality(Zeros(s, Len(s)))) = Len(s)
<1> DEFINE L == Len(s)
           z == Cardinality(Zeros(s, L))
<1>1. /\ L \in Nat /\ Len(d) \in Nat /\ Len(t) \in Nat /\ Len(t) = L + Len(d) + 1
      /\ \A j \in 1 .. Len(d) : d[j] # 0
  BY DEF Text, Entry, IsAppended
<1>2. z \in Nat
  BY <1>1, ZerosCount
<1>3. ASSUME NEW k \in 0 .. L PROVE Zeros(t, k) = Zeros(s, k)
  BY <1>1 DEF Zeros, IsAppended
<1>4. Zeros(t, L + Len(d)) = Zeros(s, L)
  <2>1. ASSUME NEW m \in 1 .. L + Len(d), t[m] = 0
        PROVE  m \in 1 .. L /\ s[m] = 0
    <3>1. CASE m <= L
      BY <1>1, <2>1, <3>1 DEF IsAppended
    <3>2. CASE m > L
      <4>1. m - L \in 1 .. Len(d) /\ L + (m - L) = m
        BY <1>1, <3>2
      <4>2. t[m] = d[m - L]
        BY <4>1 DEF IsAppended
      <4> QED
        BY <1>1, <2>1, <4>1, <4>2
    <3> QED
      BY <1>1, <3>1, <3>2
  <2>2. ASSUME NEW m \in 1 .. L, s[m] = 0
        PROVE  m \in 1 .. L + Len(d) /\ t[m] = 0
    BY <1>1, <2>2 DEF IsAppended
  <2> QED
    BY <2>1, <2>2 DEF Zeros
<1>5. Cardinality(Zeros(t, Len(t))) = z + 1
  <2>1. L + Len(d) \in Nat /\ t[L + Len(d) + 1] = 0
    BY <1>1 DEF IsAppended
  <2>2. Cardinality(Zeros(t, L + Len(d) + 1)) = Cardinality(Zeros(t, L + Len(d))) + 1
    BY <2>1, ZerosStep
  <2> QED
    BY <1>1, <1>4, <2>2
<1> HIDE DEF z
<1>6. ASSUME NEW n \in 1 .. z
      PROVE  EndOf(s, n) \in 1 .. L /\ EndOf(t, n) = EndOf(s, n)
  <2> DEFINE e == EndOf(s, n)
  <2>1. e \in 1 .. L /\ s[e] = 0 /\ Cardinality(Zeros(s, e)) = n
    BY <1>1, EndOfIsEnd DEF z
  <2> HIDE DEF e
  <2>2. e \in 1 .. Len(t) /\ t[e] = 0 /\ Cardinality(Zeros(t, e)) = n
    BY <1>1, <1>3, <2>1 DEF IsAppended
  <2>3. n \in 1 .. Cardinality(Zeros(t, Len(t)))
    BY <1>2, <1>5
  <2>4. e = EndOf(t, n)
    BY <1>1, <2>2, <2>3, EndOfIsEnd
  <2> QED
    BY <2>1, <2>4 DEF e
<1>7. EndOf(t, z + 1) = Len(t)
  <2>1. z + 1 \in 1 .. Cardinality(Zeros(t, Len(t)))
    BY <1>2, <1>5
  <2>2. Len(t) \in 1 .. Len(t) /\ t[Len(t)] = 0
    BY <1>1 DEF IsAppended
  <2> QED
    BY <1>1, <1>5, <2>1, <2>2, EndOfIsEnd
<1>8. z = 0 => L = 0
  <2> SUFFICES ASSUME L # 0 PROVE z # 0
    OBVIOUS
  <2>1. L \in Zeros(s, L)
    BY <1>1 DEF Zeros, EndsInSentinel
  <2> QED
    BY <1>1, <2>1, ZerosCount DEF z
<1>9. z # 0 => EndOf(s, z) = L
  <2> HAVE z # 0
  <2>1. L # 0
    <3>1. Zeros(s, 0) = {}
      BY DEF Zeros
    <3> QED
      BY <3>1, ZerosCount DEF z
  <2>2. s[L] = 0 /\ L \in 1 .. L /\ z \in 1 .. z
    BY <1>1, <1>2, <2>1 DEF EndsInSentinel
  <2> QED
    BY <1>1, <2>2, EndOfIsEnd DEF z
<1> QED
  BY <1>5, <1>6, <1>7, <1>8, <1>9 DEF z

\* A piece of a text that is the same in another one.
LEMMA SamePiece ==
  ASSUME NEW s \in Text, NEW t \in Text, NEW a \in Nat \ {0}, NEW b \in Int,
         b <= Len(s), b <= Len(t), \A k \in a .. b : t[k] = s[k]
  PROVE  SubSeq(t, a, b) = SubSeq(s, a, b)
BY DEF Text

LEMMA DocsOfAppended ==
  ASSUME NEW s \in Text, EndsInSentinel(s), NEW d \in Entry, NEW t, IsAppended(t, s, d)
  PROVE  DocsIn(t) = Append(DocsIn(s), d)
<1> DEFINE L == Len(s)
           z == Cardinality(Zeros(s, L))
           From(u, n) == IF n = 1 THEN 1 ELSE EndOf(u, n - 1) + 1
           Piece(u, n) == SubSeq(u, From(u, n), EndOf(u, n) - 1)
<1>1. /\ L \in Nat /\ Len(d) \in Nat /\ z \in Nat /\ t \in Text /\ Len(t) \in Nat
      /\ Len(t) = L + Len(d) + 1
  BY ZerosCount DEF Text, Entry, IsAppended
<1>2. /\ Cardinality(Zeros(t, Len(t))) = z + 1
      /\ \A n \in 1 .. z : EndOf(s, n) \in 1 .. L /\ EndOf(t, n) = EndOf(s, n)
      /\ EndOf(t, z + 1) = Len(t)
      /\ z = 0 => L = 0
      /\ z # 0 => EndOf(s, z) = L
  BY SentinelsOfAppended
<1>3. DocsIn(t) = [n \in 1 .. z + 1 |-> Piece(t, n)]
  BY <1>2 DEF DocsIn, Zeros
<1>4. DocsIn(s) = [n \in 1 .. z |-> Piece(s, n)]
  BY DEF DocsIn, Zeros
<1> HIDE DEF z
<1>5. ASSUME NEW n \in 1 .. z
      PROVE  Piece(t, n) = Piece(s, n)
  <2>1. EndOf(s, n) \in 1 .. L /\ EndOf(t, n) = EndOf(s, n)
    BY <1>2
  <2>2. From(t, n) = From(s, n) /\ From(s, n) \in Nat \ {0}
    <3>1. CASE n = 1
      BY <3>1
    <3>2. CASE n # 1
      <4>1. n - 1 \in 1 .. z
        BY <1>1, <3>2
      <4>2. EndOf(s, n - 1) \in 1 .. L /\ EndOf(t, n - 1) = EndOf(s, n - 1)
        BY <1>2, <4>1
      <4> QED
        BY <1>1, <3>2, <4>2
    <3> QED
      BY <3>1, <3>2
  <2> DEFINE a == From(s, n)
             b == EndOf(s, n) - 1
  <2>3. b \in Int /\ b <= L /\ b <= Len(t)
    BY <1>1, <2>1
  <2>4. a \in Nat \ {0}
    BY <2>2
  <2> HIDE DEF a
  <2>5. \A k \in a .. b : t[k] = s[k]
    BY <1>1, <2>1, <2>4 DEF IsAppended
  <2> HIDE DEF b
  <2>6. SubSeq(t, a, b) = SubSeq(s, a, b)
    BY <1>1, <2>3, <2>4, <2>5, SamePiece
  <2> QED
    BY <2>1, <2>2, <2>6 DEF a, b
<1>6. Piece(t, z + 1) = d
  <2>1. From(t, z + 1) = L + 1
    <3>1. CASE z = 0
      BY <1>2, <3>1
    <3>2. CASE z # 0
      <4>1. z \in 1 .. z /\ z + 1 # 1 /\ z + 1 - 1 = z
        BY <1>1, <3>2
      <4> QED
        BY <1>2, <3>2, <4>1
    <3> QED
      BY <3>1, <3>2
  <2>2. EndOf(t, z + 1) - 1 = L + Len(d)
    BY <1>1, <1>2
  <2>3. Piece(t, z + 1) = SubSeq(t, L + 1, L + Len(d))
    BY <2>1, <2>2
  <2>4. \A j \in 1 .. Len(d) : t[L + j] = d[j]
    BY DEF IsAppended
  <2>5. SubSeq(t, L + 1, L + Len(d)) = d
    <3>1. /\ Len(SubSeq(t, L + 1, L + Len(d))) = Len(d)
          /\ SubSeq(t, L + 1, L + Len(d)) \in Text
          /\ \A j \in 1 .. Len(d) : SubSeq(t, L + 1, L + Len(d))[j] = t[L + j]
      BY <1>1 DEF Text
    <3> QED
      BY <2>4, <3>1 DEF Text, Entry
  <2> QED
    BY <2>3, <2>5
<1>7. /\ Append(DocsIn(s), d) = [n \in 1 .. z + 1 |-> IF n = z + 1 THEN d ELSE Piece(s, n)]
  <2> HIDE DEF Piece
  <2> QED
    BY <1>1, <1>4
<1> HIDE DEF Piece
<1>8. ASSUME NEW n \in 1 .. z + 1
      PROVE  Piece(t, n) = IF n = z + 1 THEN d ELSE Piece(s, n)
  <2>1. n # z + 1 => n \in 1 .. z
    BY <1>1
  <2> QED
    BY <1>5, <1>6, <2>1
<1> QED
  BY <1>3, <1>7, <1>8

-----------------------------------------------------------------------------
(* The detailed specification implements the list of documents.            *)

\* A class is a text that ends in a sentinel.
TextInv == RoomInv /\ \A c \in Classes : EndsInSentinel(CellsOf(c))

LEMMA CellsAreText ==
  ASSUME RoomInv, NEW c \in Classes
  PROVE  /\ CellsOf(c) \in Text /\ Len(CellsOf(c)) = Used(c) /\ Used(c) \in Nat
         /\ \A k \in 1 .. Used(c) : CellsOf(c)[k] = db.mem[db.start[c] + (k - 1)]
<1>1. /\ Used(c) \in Nat /\ db.start[c] \in Nat /\ db.alloc[c] \in Nat /\ db.size \in Nat
      /\ Used(c) <= db.alloc[c] /\ db.start[c] + db.alloc[c] <= db.size
      /\ db.mem \in [0 .. db.size - 1 -> Cells \cup {Junk}]
  BY DEF RoomInv, Used, EnoughSpace, BlocksApart, WellLaidOut, IsBlockTable, Classes
<1>2. \A k \in 1 .. Used(c) : /\ db.start[c] + k - 1 = db.start[c] + (k - 1)
                              /\ db.start[c] + k - 1 \in 0 .. db.size - 1
  BY <1>1
<1>3. CellsOf(c) = [k \in 1 .. Used(c) |-> db.mem[db.start[c] + k - 1]]
  BY DEF CellsOf
<1>4. CellsOf(c) \in Text /\ Len(CellsOf(c)) = Used(c)
  BY <1>1, <1>2, <1>3 DEF Text
<1> QED
  BY <1>1, <1>2, <1>3, <1>4

\* Making room moves no cell within its block.
LEMMA RoomKeepsCells ==
  ASSUME RoomInv, NEW c \in Classes, NEW d \in Docs, NEW b \in Classes,
         NEW k \in Nat, k < db.alloc[b]
  PROVE  RoomFor(c, d).mem[RoomFor(c, d).start[b] + k] = db.mem[db.start[b] + k]
<1>1. CASE ~ MustGrow(c, d)
  BY <1>1 DEF RoomFor
<1>2. CASE MustGrow(c, d)
  <2> DEFINE n == GrownSize(c, d)
  <2>1. /\ Len(d) \in Nat /\ db.alloc[c] \in Nat /\ b \in Blocks /\ c \in Blocks
        /\ IsBlockTable(db) /\ WellLaidOut(db)
    BY DocLength DEF RoomInv, IsBlockTable, BlocksApart, Classes
  <2>2. n \in Nat /\ n >= db.alloc[c]
    BY <2>1 DEF GrownSize
  <2>3. RoomFor(c, d) = Resize(db, c, n)
    BY <1>2 DEF RoomFor
  <2> HIDE DEF n
  <2> QED
    BY <2>1, <2>2, <2>3, ResizeKeepsCells
<1> QED
  BY <1>1, <1>2

LEMMA PromotedIsEntry ==
  ASSUME NEW d \in Docs
  PROVE  Promoted(d) \in Entry /\ Len(Promoted(d)) = Len(d) /\ Len(d) \in Nat
<1>1. d \in Seq(Cells \cap Nat) /\ Len(d) \in Nat
  BY DocsAssumption
<1>2. \A j \in 1 .. Len(d) : Promote(d[j]) \in Cells \ {0}
  BY <1>1, PromotedAssumption DEF Promote
<1> QED
  BY <1>1, <1>2 DEF Promoted, Entry

\* Learning puts the document behind the cells of its class and leaves those
\* of the other classes.
LEMMA LearnAppends ==
  ASSUME RoomInv, NEW c \in Classes, NEW d \in Docs, Learn(c, d)
  PROVE  /\ IsAppended(CellsOf(c)', CellsOf(c), Promoted(d))
         /\ \A b \in Classes : b # c => CellsOf(b)' = CellsOf(b)
<1> DEFINE room == RoomFor(c, d)
           s == Append(Promoted(d), 0)
           at == room.start[c] + Used(c)
<1>1. /\ IsBlockTable(room) /\ WellLaidOut(room)
      /\ \A b \in Classes : room.alloc[b] >= db.alloc[b]
      /\ Used(c) + Len(d) + 1 <= room.alloc[c]
  BY RoomForFits
<1>2. /\ Promoted(d) \in Entry /\ Len(Promoted(d)) = Len(d) /\ Len(d) \in Nat
      /\ Len(s) = Len(d) + 1 /\ s[Len(d) + 1] = 0
      /\ \A j \in 1 .. Len(d) : s[j] = Promoted(d)[j]
  BY PromotedIsEntry DEF Entry
<1>3. /\ db'.start = room.start /\ db'.mem = Written(room.mem, at, s)
      /\ features' = [features EXCEPT ![c] = @ + Len(d)]
      /\ documents' = [documents EXCEPT ![c] = @ + 1]
  BY DEF Learn
<1>4. \A b \in Classes, k \in Nat : k < db.alloc[b] =>
        room.mem[room.start[b] + k] = db.mem[db.start[b] + k]
  BY RoomKeepsCells
<1> HIDE DEF room
<1>5. room.size \in Nat /\ room.mem \in [0 .. room.size - 1 -> Cells \cup {Junk}]
  BY <1>1 DEF IsBlockTable
<1>6. ASSUME NEW b \in Classes
      PROVE  /\ room.start[b] \in Nat /\ room.alloc[b] \in Nat /\ b \in Nat /\ b \in Blocks
             /\ room.start[b] + room.alloc[b] <= room.size
             /\ db.start[b] \in Nat /\ db.alloc[b] \in Nat
             /\ Used(b) <= db.alloc[b] /\ Used(b) \in Nat
             /\ documents[b] \in Nat /\ features[b] \in Nat
             /\ room.alloc[b] >= db.alloc[b]
  <2>1. b \in Blocks /\ b \in Nat
    BY NumBlocksAssumption DEF Classes, Blocks
  <2>2. room.start[b] \in Nat /\ room.alloc[b] \in Nat /\ room.start[b] + room.alloc[b] <= room.size
    BY <1>1, <2>1 DEF IsBlockTable, WellLaidOut
  <2>3. db.start[b] \in Nat /\ db.alloc[b] \in Nat
    BY <2>1 DEF RoomInv, IsBlockTable
  <2>4. Used(b) <= db.alloc[b]
    BY DEF RoomInv, EnoughSpace
  <2>5. documents[b] \in Nat /\ features[b] \in Nat
    BY DEF RoomInv
  <2>6. Used(b) \in Nat
    BY <2>5 DEF Used
  <2>7. room.alloc[b] >= db.alloc[b]
    BY <1>1
  <2> QED
    BY <2>1, <2>2, <2>3, <2>4, <2>5, <2>6, <2>7
<1>7. /\ Used(c)' = Used(c) + Len(d) + 1
      /\ \A b \in Classes : b # c => Used(b)' = Used(b)
  <2>1. documents \in [Classes -> Nat] /\ features \in [Classes -> Nat]
    BY DEF RoomInv
  <2>2. documents'[c] = documents[c] + 1 /\ features'[c] = features[c] + Len(d)
    BY <1>3, <2>1
  <2>3. Used(c)' = Used(c) + Len(d) + 1
    BY <1>2, <1>6, <2>2 DEF Used
  <2>4. ASSUME NEW b \in Classes, b # c PROVE Used(b)' = Used(b)
    BY <1>3, <2>1, <2>4 DEF Used
  <2> QED
    BY <2>3, <2>4
<1>8. at \in Nat /\ Len(s) = Len(d) + 1 /\ at + Len(s) <= room.size
  BY <1>1, <1>2, <1>5, <1>6
<1> HIDE DEF s
<1> HIDE DEF at
<1>9. \A a \in 0 .. room.size - 1 :
        db'.mem[a] = IF a \in at .. at + Len(s) - 1 THEN s[a - at + 1] ELSE room.mem[a]
  BY <1>3, <1>5 DEF Written
<1>10. ASSUME NEW b \in Classes, NEW a \in Int,
              room.start[b] <= a, a < room.start[b] + Used(b)
       PROVE  ~ (at <= a /\ a < at + Len(s))
  <2> DEFINE sb == room.start[b]
             ub == Used(b)
             ab == room.alloc[b]
             sc == room.start[c]
             uc == Used(c)
             ac == room.alloc[c]
  <2>1. /\ sb \in Nat /\ ub \in Nat /\ ab \in Nat /\ ub <= ab
        /\ sc \in Nat /\ uc \in Nat /\ ac \in Nat /\ uc + Len(s) <= ac
        /\ at = sc + uc /\ Len(s) \in Nat
    <3>1. ub <= ab
      BY <1>6
    <3> QED
      BY <1>1, <1>2, <1>6, <1>8, <3>1 DEF at
  <2>2. b # c => sb + ab <= sc \/ sc + ac <= sb
    <3>1. b \in Nat /\ c \in Nat /\ b \in Blocks /\ c \in Blocks
      BY <1>6
    <3>2. CASE b < c
      BY <1>1, <3>1, <3>2 DEF WellLaidOut
    <3>3. CASE c < b
      BY <1>1, <3>1, <3>3 DEF WellLaidOut
    <3> QED
      BY <3>1, <3>2, <3>3
  <2>3. sb <= a /\ a < sb + ub
    BY <1>10
  <2>4. b = c => sb = sc /\ ub = uc
    OBVIOUS
  <2> HIDE DEF sb, ub, ab, sc, uc, ac
  <2> QED
    BY <2>1, <2>2, <2>3, <2>4
<1>11. ASSUME NEW b \in Classes, NEW k \in 1 .. Used(b)
       PROVE  db'.mem[room.start[b] + k - 1] = db.mem[db.start[b] + k - 1]
  <2> DEFINE sb == room.start[b]
             ob == db.start[b]
  <2>1. sb \in Nat /\ ob \in Nat /\ k \in Nat /\ k >= 1 /\ k <= Used(b) /\ Used(b) \in Nat
    BY <1>6
  <2>2. k - 1 \in Nat /\ k - 1 < db.alloc[b] /\ sb + k - 1 \in 0 .. room.size - 1
    <3>1. /\ db.alloc[b] \in Nat /\ Used(b) <= db.alloc[b] /\ room.alloc[b] \in Nat
          /\ room.alloc[b] >= db.alloc[b] /\ sb + room.alloc[b] <= room.size
      BY <1>6
    <3> HIDE DEF sb, ob
    <3> QED
      BY <1>5, <2>1, <3>1
  <2>3. room.mem[sb + (k - 1)] = db.mem[ob + (k - 1)]
    BY <1>4, <2>2
  <2>4. ~ (at <= sb + k - 1 /\ sb + k - 1 < at + Len(s))
    <3>1. sb + k - 1 \in Int /\ sb <= sb + k - 1 /\ sb + k - 1 < sb + Used(b)
      <4> HIDE DEF sb
      <4> QED
        BY <2>1
    <3> QED
      BY <1>10, <3>1
  <2> HIDE DEF sb, ob
  <2>5. sb + k - 1 \notin at .. at + Len(s) - 1
    BY <1>2, <1>8, <2>1, <2>4
  <2>6. db'.mem[sb + k - 1] = room.mem[sb + k - 1]
    BY <1>9, <2>2, <2>5
  <2>7. sb + k - 1 = sb + (k - 1) /\ ob + k - 1 = ob + (k - 1)
    BY <2>1
  <2>8. db'.mem[sb + k - 1] = db.mem[ob + k - 1]
    BY <2>3, <2>6, <2>7
  <2> QED
    BY <2>8 DEF sb, ob
<1>12. \A b \in Classes : CellsOf(b)' =
         [k \in 1 .. Used(b)' |-> db'.mem[room.start[b] + k - 1]]
  BY <1>3 DEF CellsOf
<1>13. \A b \in Classes : CellsOf(b) = [k \in 1 .. Used(b) |-> db.mem[db.start[b] + k - 1]]
  BY DEF CellsOf
<1>14. ASSUME NEW b \in Classes, b # c
       PROVE  CellsOf(b)' = CellsOf(b)
  <2>1. Used(b)' = Used(b)
    BY <1>7, <1>14
  <2>2. CellsOf(b)' = [k \in 1 .. Used(b) |-> db'.mem[room.start[b] + k - 1]]
    BY <1>12, <2>1
  <2>3. CellsOf(b) = [k \in 1 .. Used(b) |-> db.mem[db.start[b] + k - 1]]
    BY <1>13
  <2> QED
    BY <1>11, <2>2, <2>3
<1>15. Used(c) \in Nat /\ Len(d) \in Nat /\ Used(c) + Len(d) + 1 \in Nat
  BY <1>2, <1>6
<1>16. CellsOf(c)' = [k \in 1 .. Used(c) + Len(d) + 1 |-> db'.mem[room.start[c] + k - 1]]
  BY <1>7, <1>12
<1>17. Len(CellsOf(c)) = Used(c) /\ CellsOf(c) \in Text
  BY CellsAreText
<1>18. \A k \in 1 .. Used(c) : CellsOf(c)'[k] = CellsOf(c)[k]
  <2> TAKE k \in 1 .. Used(c)
  <2>1. k \in 1 .. Used(c) + Len(d) + 1
    BY <1>15
  <2>2. CellsOf(c)'[k] = db'.mem[room.start[c] + k - 1]
    BY <1>16, <2>1
  <2>3. CellsOf(c)[k] = db.mem[db.start[c] + k - 1]
    BY <1>13
  <2> QED
    BY <1>11, <2>2, <2>3
<1>19. ASSUME NEW j \in 1 .. Len(d) + 1
       PROVE  CellsOf(c)'[Used(c) + j] = s[j]
  <2> DEFINE sc == room.start[c]
             uc == Used(c)
  <2>1. sc \in Nat /\ uc \in Nat /\ at = sc + uc
    BY <1>6 DEF at
  <2>2. CellsOf(c)'[uc + j] = db'.mem[sc + (uc + j) - 1]
    <3>1. uc + j \in 1 .. uc + Len(d) + 1
      <4> HIDE DEF uc
      <4> QED
        BY <1>2, <2>1
    <3> QED
      BY <1>16, <3>1
  <2> HIDE DEF sc, uc
  <2>3. sc + (uc + j) - 1 = at + j - 1
    BY <1>2, <2>1
  <2>4. /\ at + j - 1 \in 0 .. room.size - 1 /\ at + j - 1 \in at .. at + Len(s) - 1
        /\ at + j - 1 - at + 1 = j
    BY <1>2, <1>5, <1>8
  <2> DEFINE p == at + j - 1
  <2>5. db'.mem[p] = s[p - at + 1]
    <3>1. p \in 0 .. room.size - 1 /\ p \in at .. at + Len(s) - 1
      BY <2>4
    <3> HIDE DEF p
    <3> QED
      BY <1>9, <3>1
  <2>6. CellsOf(c)'[uc + j] = s[j]
    <3>1. sc \in Nat /\ uc \in Nat /\ at = sc + uc /\ at \in Nat /\ j \in Nat
      BY <1>2, <1>8, <2>1
    <3>2. sc + (uc + j) - 1 = p
      BY <3>1
    <3>3. p - at + 1 = j
      BY <3>1
    <3> HIDE DEF p
    <3> QED
      BY <2>2, <2>5, <3>2, <3>3
  <2> QED
    BY <2>6 DEF uc
<1>20. \A j \in 1 .. Len(d) + 1 : s[j] \in Cells
  <2>1. Promoted(d) \in Entry /\ Len(Promoted(d)) = Len(d) /\ 0 \in Cells
    BY <1>2, CellsAssumption
  <2> QED
    BY <1>2, <2>1 DEF s, Entry
<1>21. CellsOf(c)' \in Text /\ Len(CellsOf(c)') = Used(c) + Len(d) + 1
  <2>1. ASSUME NEW k \in 1 .. Used(c) + Len(d) + 1
        PROVE  CellsOf(c)'[k] \in Cells \cup {Junk}
    <3>1. CASE k <= Used(c)
      <4>1. k \in 1 .. Used(c)
        BY <1>15, <3>1
      <4> QED
        BY <1>17, <1>18, <4>1 DEF Text
    <3>2. CASE k > Used(c)
      <4>1. k - Used(c) \in 1 .. Len(d) + 1 /\ Used(c) + (k - Used(c)) = k
        BY <1>15, <3>2
      <4> QED
        BY <1>19, <1>20, <4>1
    <3> QED
      BY <1>15, <3>1, <3>2
  <2> DEFINE n == Used(c) + Len(d) + 1
             t == CellsOf(c)'
  <2>2. n \in Nat /\ t \in [1 .. n -> Cells \cup {Junk}]
    BY <1>15, <1>16, <2>1
  <2> HIDE DEF n, t
  <2>3. t \in Text /\ Len(t) = n
    BY <2>2 DEF Text
  <2> QED
    BY <2>3 DEF n, t
<1>22. \A j \in 1 .. Len(d) : CellsOf(c)'[Used(c) + j] = Promoted(d)[j]
  <2> TAKE j \in 1 .. Len(d)
  <2>1. j \in 1 .. Len(d) + 1
    BY <1>2
  <2>2. s[j] = Promoted(d)[j]
    BY <1>2 DEF s
  <2> QED
    BY <1>19, <2>1, <2>2
<1>23. CellsOf(c)'[Used(c) + Len(d) + 1] = 0
  <2>1. Len(d) + 1 \in 1 .. Len(d) + 1 /\ Used(c) + (Len(d) + 1) = Used(c) + Len(d) + 1
    BY <1>15
  <2>2. s[Len(d) + 1] = 0
    BY <1>2 DEF s
  <2>3. CellsOf(c)'[Used(c) + (Len(d) + 1)] = s[Len(d) + 1]
    BY <1>19, <2>1
  <2> QED
    BY <2>1, <2>2, <2>3
<1> QED
  <2>1. IsAppended(CellsOf(c)', CellsOf(c), Promoted(d))
    BY <1>2, <1>17, <1>18, <1>21, <1>22, <1>23 DEF IsAppended
  <2> QED
    BY <1>14, <2>1

\* Initially there is no cell in use, so no text.
LEMMA TextInvInit ==
  ASSUME Init, DataSize >= NumBlocks
  PROVE  TextInv /\ \A c \in Classes : DocsIn(CellsOf(c)) = <<>>
<1>1. RoomInv
  BY RoomInvInit
<1>2. ASSUME NEW c \in Classes
      PROVE  Len(CellsOf(c)) = 0 /\ CellsOf(c) = <<>>
  <2>1. Used(c) = 0
    BY DEF Init, Used
  <2> QED
    BY <2>1 DEF CellsOf
<1>3. DocsIn(<<>>) = <<>>
  <2>1. {k \in 1 .. Len(<<>>) : <<>>[k] = 0} = {}
    OBVIOUS
  <2>2. Cardinality({}) = 0
    BY FS_EmptySet
  <2> QED
    BY <2>1, <2>2 DEF DocsIn
<1> QED
  BY <1>1, <1>2, <1>3 DEF TextInv, EndsInSentinel

\* Going through the text form leaves the cells in use as they were.
LEMMA SaveRestoreKeepsCells ==
  ASSUME RoomInv, SaveRestore, NEW b \in Classes
  PROVE  CellsOf(b)' = CellsOf(b)
<1>1. db'.start = db.start /\ db'.mem = Restored /\ Used(b)' = Used(b)
  BY DEF SaveRestore, Used
<1>2. /\ Used(b) \in Nat /\ db.start[b] \in Nat /\ db.alloc[b] \in Nat /\ db.size \in Nat
      /\ Used(b) <= db.alloc[b] /\ db.start[b] + db.alloc[b] <= db.size
      /\ DOMAIN db.mem = 0 .. db.size - 1
  BY DEF RoomInv, Used, EnoughSpace, BlocksApart, WellLaidOut, IsBlockTable, Classes
<1>3. ASSUME NEW k \in 1 .. Used(b)
      PROVE  Restored[db.start[b] + k - 1] = db.mem[db.start[b] + k - 1]
  <2> DEFINE a == db.start[b] + k - 1
  <2>1. a \in 0 .. db.size - 1 /\ a \in db.start[b] .. db.start[b] + Used(b) - 1
    BY <1>2
  <2> HIDE DEF a
  <2>2. InUse(a)
    BY <2>1 DEF InUse
  <2>3. Restored[a] = db.mem[a]
    BY <1>2, <2>1, <2>2 DEF Restored
  <2> QED
    BY <2>3 DEF a
<1> QED
  BY <1>1, <1>3 DEF CellsOf

\* What a step does to the documents: appends one, or nothing.
LEMMA StepOfDocs ==
  ASSUME TextInv, [Next]_vars
  PROVE  /\ TextInv'
         /\ \/ \E c \in Classes, d \in Docs :
                 /\ DocsIn(CellsOf(c))' = Append(DocsIn(CellsOf(c)), Promoted(d))
                 /\ \A b \in Classes : b # c => CellsOf(b)' = CellsOf(b)
            \/ \A b \in Classes : CellsOf(b)' = CellsOf(b)
<1>1. RoomInv'
  BY RoomInvStep DEF TextInv
<1>2. ASSUME \A b \in Classes : CellsOf(b)' = CellsOf(b)
      PROVE  TextInv'
  BY <1>1, <1>2 DEF TextInv, EndsInSentinel
<1>3. ASSUME NEW c \in Classes, NEW d \in Docs, Learn(c, d)
      PROVE  /\ TextInv'
             /\ DocsIn(CellsOf(c))' = Append(DocsIn(CellsOf(c)), Promoted(d))
             /\ \A b \in Classes : b # c => CellsOf(b)' = CellsOf(b)
  <2>1. /\ IsAppended(CellsOf(c)', CellsOf(c), Promoted(d))
        /\ \A b \in Classes : b # c => CellsOf(b)' = CellsOf(b)
    BY <1>3, LearnAppends DEF TextInv
  <2>2. /\ CellsOf(c) \in Text /\ EndsInSentinel(CellsOf(c)) /\ Promoted(d) \in Entry
        /\ Len(CellsOf(c)) \in Nat /\ Len(Promoted(d)) \in Nat
    BY CellsAreText, PromotedIsEntry DEF TextInv
  <2>3. DocsIn(CellsOf(c)') = Append(DocsIn(CellsOf(c)), Promoted(d))
    BY <2>1, <2>2, DocsOfAppended
  <2>4. EndsInSentinel(CellsOf(c)')
    BY <2>1, <2>2 DEF IsAppended, EndsInSentinel
  <2>5. ASSUME NEW b \in Classes
        PROVE  EndsInSentinel(CellsOf(b)')
    <3>1. CASE b = c
      BY <2>4, <3>1
    <3>2. CASE b # c
      BY <2>1, <3>2 DEF TextInv
    <3> QED
      BY <3>1, <3>2
  <2> QED
    BY <1>1, <2>1, <2>3, <2>5 DEF TextInv
<1>4. ASSUME NEW c \in Classes, NEW d \in Docs, LearnNoMemory(c, d)
      PROVE  \A b \in Classes : CellsOf(b)' = CellsOf(b)
  BY <1>4 DEF LearnNoMemory, CellsOf, Used
<1>5. ASSUME NEW c \in -1 .. NumBlocks, NEW fl \in {{}, {"ERASE"}, {"REFUTE"}}, LearnRefused(c, fl)
      PROVE  \A b \in Classes : CellsOf(b)' = CellsOf(b)
  BY <1>5 DEF LearnRefused, CellsOf, Used
<1>6. ASSUME SaveRestore, NEW b \in Classes
      PROVE  CellsOf(b)' = CellsOf(b)
  BY <1>6, SaveRestoreKeepsCells DEF TextInv
<1>7. ASSUME UNCHANGED vars
      PROVE  \A b \in Classes : CellsOf(b)' = CellsOf(b)
  BY <1>7 DEF vars, CellsOf, Used
<1>8. CASE \E c \in Classes, d \in Docs : Learn(c, d)
  BY <1>3, <1>8
<1>9. CASE \A b \in Classes : CellsOf(b)' = CellsOf(b)
  BY <1>2, <1>9
<1> QED
  BY <1>4, <1>5, <1>6, <1>7, <1>8, <1>9 DEF Next

(***************************************************************************)
(* In a database created with at least one cell for each block, learning   *)
(* appends the document to its class and leaves every other document, of   *)
(* every class, as it was; nothing else changes a document: not the blocks *)
(* that move, not a refused call or a failed realloc, not the text form.   *)
(***************************************************************************)
THEOREM LearningAppends ==
  DataSize >= NumBlocks => (Spec => ImplementsStore)
<1> SUFFICES ASSUME DataSize >= NumBlocks
             PROVE  Spec => ImplementsStore
  OBVIOUS
<1> DEFINE learned == [c \in Classes |-> DocsIn(CellsOf(c))]
<1>1. Init => TextInv /\ Store!Init
  <2> SUFFICES ASSUME Init PROVE TextInv /\ Store!Init
    OBVIOUS
  <2> QED
    BY TextInvInit DEF Store!Init
<1>2. TextInv /\ [Next]_vars => TextInv' /\ [Store!Next]_learned
  <2> SUFFICES ASSUME TextInv, [Next]_vars
               PROVE  TextInv' /\ [Store!Next]_learned
    OBVIOUS
  <2>1. CASE \A b \in Classes : CellsOf(b)' = CellsOf(b)
    <3>1. learned' = learned
      BY <2>1
    <3> QED
      BY <3>1, StepOfDocs
  <2>2. ASSUME NEW c \in Classes, NEW d \in Docs,
               DocsIn(CellsOf(c))' = Append(DocsIn(CellsOf(c)), Promoted(d)),
               \A b \in Classes : b # c => CellsOf(b)' = CellsOf(b)
        PROVE  Store!Next
    <3>1. \A b \in Classes : b # c => DocsIn(CellsOf(b))' = DocsIn(CellsOf(b))
      BY <2>2
    <3>2. learned' = [learned EXCEPT ![c] = Append(@, Promoted(d))]
      BY <2>2, <3>1
    <3>3. Store!Learn(c, Promoted(d))
      BY <3>2 DEF Store!Learn
    <3> QED
      BY <3>3 DEF Store!Next
  <2> QED
    BY <2>1, <2>2, StepOfDocs
<1> QED
  BY <1>1, <1>2, PTL DEF Spec, ImplementsStore, Store!Spec

-----------------------------------------------------------------------------
(* Comparing documents: the two fingers.                                   *)

\* A document as the walk needs it: its features in order, none of them 0.
SortedRows == {d \in Seq(Nat) : \A i, j \in 1 .. Len(d) : i <= j => d[i] <= d[j]}

\* The positions of a feature from one on, and what two documents share from
\* there.
Ahead(f, d, i) == {m \in i .. Len(d) : d[m] = f}

CommonFrom(d, i, u, j) ==
  {p \in Cells \X (1 .. Len(d)) :
     p[2] <= Cardinality(Ahead(p[1], d, i)) /\ p[2] <= Cardinality(Ahead(p[1], u, j))}

LEMMA AheadCount ==
  ASSUME NEW d \in Seq(Nat), NEW i \in Nat \ {0}, NEW f
  PROVE  /\ IsFiniteSet(Ahead(f, d, i)) /\ Cardinality(Ahead(f, d, i)) \in Nat
         /\ Cardinality(Ahead(f, d, i)) <= Len(d)
<1> DEFINE n == Len(d)
<1>1. IsFiniteSet(1 .. n) /\ Cardinality(1 .. n) = n
  <2>1. n \in Nat /\ n \in Int /\ 1 \in Int
    OBVIOUS
  <2> HIDE DEF n
  <2>2. IsFiniteSet(1 .. n) /\ Cardinality(1 .. n) = IF 1 > n THEN 0 ELSE n - 1 + 1
    BY <2>1, FS_Interval
  <2> QED BY <2>1, <2>2
<1>2. Ahead(f, d, i) \subseteq 1 .. Len(d)
  BY DEF Ahead
<1> QED BY <1>1, <1>2, FS_Subset, FS_CardinalityType

\* Going on by one position leaves that one behind.
LEMMA AheadStep ==
  ASSUME NEW d \in Seq(Nat), NEW i \in 1 .. Len(d), NEW f
  PROVE  Cardinality(Ahead(f, d, i)) =
           IF d[i] = f THEN Cardinality(Ahead(f, d, i + 1)) + 1 ELSE Cardinality(Ahead(f, d, i + 1))
<1>0. i \in Nat /\ i >= 1 /\ i <= Len(d) /\ Len(d) \in Nat
  OBVIOUS
<1>1. CASE d[i] # f
  <2>1. Ahead(f, d, i) = Ahead(f, d, i + 1)
    BY <1>0, <1>1 DEF Ahead
  <2> QED BY <1>1, <2>1
<1>2. CASE d[i] = f
  <2>1. Ahead(f, d, i) = Ahead(f, d, i + 1) \cup {i} /\ i \notin Ahead(f, d, i + 1)
    BY <1>0, <1>2 DEF Ahead
  <2>2. i + 1 \in Nat \ {0}
    BY <1>0
  <2>3. IsFiniteSet(Ahead(f, d, i + 1))
    BY <2>2, AheadCount
  <2> QED BY <1>2, <2>1, <2>3, FS_AddElement
<1> QED BY <1>1, <1>2

\* In a sorted document nothing smaller comes later.
LEMMA NothingSmallerAhead ==
  ASSUME NEW d \in SortedRows, NEW i \in 1 .. Len(d), NEW f \in Nat, f < d[i]
  PROVE  Cardinality(Ahead(f, d, i)) = 0
<1>1. Ahead(f, d, i) = {}
  <2> SUFFICES ASSUME NEW m \in i .. Len(d), d[m] = f PROVE FALSE
    BY DEF Ahead
  <2>1. m \in 1 .. Len(d) /\ i <= m /\ d[i] \in Nat /\ d[m] \in Nat
    BY DEF SortedRows
  <2> QED BY <2>1 DEF SortedRows
<1> QED BY <1>1, FS_EmptySet

LEMMA NothingBehindEnd ==
  ASSUME NEW d \in Seq(Nat), NEW i \in Nat, i > Len(d), NEW f
  PROVE  Cardinality(Ahead(f, d, i)) = 0
<1>1. Ahead(f, d, i) = {}
  BY DEF Ahead
<1> QED BY <1>1, FS_EmptySet

\* What is common is finite, and counts what Shared counts.
LEMMA CommonCount ==
  ASSUME NEW d \in Seq(Nat), NEW i \in Nat \ {0}, NEW u \in Seq(Nat), NEW j \in Nat \ {0}
  PROVE  IsFiniteSet(CommonFrom(d, i, u, j)) /\ Cardinality(CommonFrom(d, i, u, j)) \in Nat
<1> DEFINE F == {d[k] : k \in 1 .. Len(d)}
           P == F \X (1 .. Len(d))
<1>1. IsFiniteSet(1 .. Len(d))
  <2>1. Len(d) \in Nat
    OBVIOUS
  <2> QED BY <2>1, FS_Interval
<1>2. IsFiniteSet(F)
  <2> DEFINE g == [k \in 1 .. Len(d) |-> d[k]]
  <2>1. g \in Surjection(1 .. Len(d), F)
    BY DEF Surjection
  <2> HIDE DEF g, F
  <2> QED BY <1>1, <2>1, FS_Surjection
<1>3. IsFiniteSet(P)
  <2> HIDE DEF F
  <2> QED BY <1>1, <1>2, FS_Product
<1>4. CommonFrom(d, i, u, j) \subseteq P
  <2> SUFFICES ASSUME NEW p \in CommonFrom(d, i, u, j) PROVE p \in P
    OBVIOUS
  <2>1. p = <<p[1], p[2]>> /\ p[2] \in 1 .. Len(d) /\ p[2] <= Cardinality(Ahead(p[1], d, i))
    BY DEF CommonFrom
  <2>2. Cardinality(Ahead(p[1], d, i)) # 0
    BY <2>1, AheadCount
  <2>3. PICK m \in i .. Len(d) : d[m] = p[1]
    BY <2>2, FS_EmptySet DEF Ahead
  <2>4. m \in 1 .. Len(d)
    OBVIOUS
  <2> QED BY <2>1, <2>3, <2>4
<1> HIDE DEF P
<1> QED BY <1>3, <1>4, FS_Subset, FS_CardinalityType

\* A feature of the unknown document that is smaller than what the known one
\* goes on with is in neither.
LEMMA SmallerUnknown ==
  ASSUME NEW d \in SortedRows, NEW i \in 1 .. Len(d), NEW u \in Seq(Nat), NEW j \in 1 .. Len(u), d[i] > u[j]
  PROVE  CommonFrom(d, i, u, j) = CommonFrom(d, i, u, j + 1)
<1>1. i \in Nat \ {0} /\ j \in Nat \ {0} /\ j + 1 \in Nat \ {0} /\ d \in Seq(Nat) /\ u[j] \in Nat
  BY DEF SortedRows
<1>2. ASSUME NEW p \in Cells \X (1 .. Len(d))
      PROVE  p[2] <= Cardinality(Ahead(p[1], d, i)) =>
               (p[2] <= Cardinality(Ahead(p[1], u, j)) <=> p[2] <= Cardinality(Ahead(p[1], u, j + 1)))
  <2>1. CASE p[1] # u[j]
    BY <1>1, <2>1, AheadStep
  <2>2. CASE p[1] = u[j]
    BY <1>1, <2>2, NothingSmallerAhead
  <2> QED BY <2>1, <2>2
<1> QED BY <1>2 DEF CommonFrom

\* The same the other way round.
LEMMA SmallerKnown ==
  ASSUME NEW d \in Seq(Nat), NEW i \in 1 .. Len(d), NEW u \in SortedRows, NEW j \in 1 .. Len(u), d[i] < u[j]
  PROVE  CommonFrom(d, i, u, j) = CommonFrom(d, i + 1, u, j)
<1>1. i \in Nat \ {0} /\ j \in Nat \ {0} /\ i + 1 \in Nat \ {0} /\ u \in Seq(Nat) /\ d[i] \in Nat
  BY DEF SortedRows
<1>2. ASSUME NEW p \in Cells \X (1 .. Len(d))
      PROVE  p[2] <= Cardinality(Ahead(p[1], u, j)) =>
               (p[2] <= Cardinality(Ahead(p[1], d, i)) <=> p[2] <= Cardinality(Ahead(p[1], d, i + 1)))
  <2>1. CASE p[1] # d[i]
    BY <1>1, <2>1, AheadStep
  <2>2. CASE p[1] = d[i]
    BY <1>1, <2>2, NothingSmallerAhead
  <2> QED BY <2>1, <2>2
<1> QED BY <1>2 DEF CommonFrom

\* A match is one feature in common, and the rest is behind it.
LEMMA Match ==
  ASSUME NEW d \in Seq(Nat \cap Cells), NEW i \in 1 .. Len(d), NEW u \in Seq(Nat), NEW j \in 1 .. Len(u), d[i] = u[j]
  PROVE  Cardinality(CommonFrom(d, i, u, j)) = Cardinality(CommonFrom(d, i + 1, u, j + 1)) + 1
<1> DEFINE f == d[i]
           a == Cardinality(Ahead(f, d, i + 1))
           b == Cardinality(Ahead(f, u, j + 1))
           m == IF a <= b THEN a ELSE b
           q == <<f, m + 1>>
<1>1. /\ i \in Nat \ {0} /\ j \in Nat \ {0} /\ i + 1 \in Nat \ {0} /\ j + 1 \in Nat \ {0}
      /\ d \in Seq(Nat) /\ f \in Nat \cap Cells
  OBVIOUS
<1>2. a \in Nat /\ b \in Nat
  BY <1>1, AheadCount
<1>3. Cardinality(Ahead(f, d, i)) = a + 1 /\ Cardinality(Ahead(f, u, j)) = b + 1
  BY <1>1, AheadStep
<1>4. a + 1 <= Len(d)
  BY <1>1, <1>3, AheadCount
<1>5. ASSUME NEW p \in Cells \X (1 .. Len(d)), p[1] # f
      PROVE  /\ Cardinality(Ahead(p[1], d, i)) = Cardinality(Ahead(p[1], d, i + 1))
             /\ Cardinality(Ahead(p[1], u, j)) = Cardinality(Ahead(p[1], u, j + 1))
  BY <1>1, <1>5, AheadStep
<1> DEFINE R == CommonFrom(d, i + 1, u, j + 1)
<1> HIDE DEF a, b
<1>6. q \in Cells \X (1 .. Len(d)) /\ q[1] = f /\ q[2] = m + 1
  BY <1>1, <1>2, <1>4
<1>7. q \notin R
  <2> SUFFICES ASSUME q \in R PROVE FALSE
    OBVIOUS
  <2>1. m + 1 <= a /\ m + 1 <= b
    BY <1>6 DEF CommonFrom, a, b
  <2> QED BY <1>2, <2>1
<1>8. CommonFrom(d, i, u, j) = R \cup {q}
  <2>1. ASSUME NEW p \in Cells \X (1 .. Len(d))
        PROVE  p \in CommonFrom(d, i, u, j) <=> p \in R \/ p = q
    <3>1. CASE p[1] # f
      BY <1>5, <1>6, <3>1 DEF CommonFrom
    <3>2. CASE p[1] = f
      <4>1. p \in CommonFrom(d, i, u, j) <=> p[2] <= a + 1 /\ p[2] <= b + 1
        BY <1>3, <3>2 DEF CommonFrom
      <4>2. p \in R <=> p[2] <= a /\ p[2] <= b
        BY <3>2 DEF CommonFrom, a, b
      <4>3. p = q <=> p[2] = m + 1
        BY <3>2
      <4>4. p[2] \in Nat
        OBVIOUS
      <4> DEFINE k == p[2]
      <4>5. (k <= a + 1 /\ k <= b + 1) <=> ((k <= a /\ k <= b) \/ k = m + 1)
        <5>1. k \in Nat
          BY <4>4
        <5> HIDE DEF k
        <5> QED BY <1>2, <5>1
      <4> HIDE DEF R, q, m
      <4> QED BY <4>1, <4>2, <4>3, <4>5
    <3> QED BY <3>1, <3>2
  <2>2. CommonFrom(d, i, u, j) \subseteq Cells \X (1 .. Len(d)) /\ R \subseteq Cells \X (1 .. Len(d))
    BY DEF CommonFrom
  <2> HIDE DEF R, q
  <2> QED BY <1>6, <2>1, <2>2
<1>9. IsFiniteSet(R)
  BY <1>1, CommonCount
<1> HIDE DEF R, q
<1> QED BY <1>7, <1>8, <1>9, FS_AddElement DEF R

\* Where one of them ends nothing is common any more.
LEMMA NothingCommon ==
  ASSUME NEW d \in Seq(Nat), NEW i \in Nat \ {0}, NEW u \in Seq(Nat), NEW j \in Nat \ {0},
         i > Len(d) \/ j > Len(u)
  PROVE  Cardinality(CommonFrom(d, i, u, j)) = 0
<1>1. CommonFrom(d, i, u, j) = {}
  <2> SUFFICES ASSUME NEW p \in CommonFrom(d, i, u, j) PROVE FALSE
    OBVIOUS
  <2>1. p[2] \in 1 .. Len(d) /\ p[2] <= Cardinality(Ahead(p[1], d, i)) /\ p[2] <= Cardinality(Ahead(p[1], u, j))
    BY DEF CommonFrom
  <2>2. Cardinality(Ahead(p[1], d, i)) = 0 \/ Cardinality(Ahead(p[1], u, j)) = 0
    BY NothingBehindEnd
  <2> QED BY <2>1, <2>2
<1> QED BY <1>1, FS_EmptySet

-----------------------------------------------------------------------------

\* The documents of a class and where the next one starts.
Ends(known) == Cardinality(Zeros(known, Len(known)))
Base(known, n) == IF n = 0 THEN 1 ELSE EndOf(known, n) + 1

\* Where the document behind the first n lies.
LEMMA DocPlace ==
  ASSUME NEW known \in Text, EndsInSentinel(known), NEW n \in Nat, n < Ends(known)
  PROVE  /\ Base(known, n) \in 1 .. Len(known) /\ EndOf(known, n + 1) \in 1 .. Len(known)
         /\ Base(known, n) <= EndOf(known, n + 1)
         /\ known[EndOf(known, n + 1)] = 0
         /\ \A k \in Base(known, n) .. EndOf(known, n + 1) - 1 : known[k] # 0
         /\ n + 1 = Ends(known) => EndOf(known, n + 1) = Len(known)
         /\ n + 1 < Ends(known) => EndOf(known, n + 1) < Len(known)
<1> DEFINE L == Len(known)
           z == Ends(known)
           e == EndOf(known, n + 1)
           b == Base(known, n)
           C(k) == Cardinality(Zeros(known, k))
<1>1. L \in Nat /\ z \in Nat /\ z = C(L) /\ n + 1 \in 1 .. z
  BY ZerosCount DEF Text, Ends
<1>2. /\ e \in 1 .. L /\ known[e] = 0 /\ C(e) = n + 1
      /\ \A k \in 1 .. L : known[k] = 0 /\ C(k) = n + 1 => k = e
  BY <1>1, EndOfIsEnd DEF Ends
<1>3. \A k \in Nat : C(k) \in Nat /\ (known[k] = 0 /\ k > 0 => C(k) > 0)
  <2> TAKE k \in Nat
  <2>1. C(k) \in Nat /\ (C(k) = 0 => Zeros(known, k) = {})
    BY ZerosCount
  <2>2. known[k] = 0 /\ k > 0 => k \in Zeros(known, k)
    BY DEF Zeros
  <2> QED BY <2>1, <2>2
<1>4. \A j, k \in Nat : j < k => C(j) <= C(k) /\ (known[k] = 0 => C(j) < C(k))
  BY ZerosGrow
<1>5. L > 0 /\ known[L] = 0
  BY <1>1, <1>2 DEF EndsInSentinel
<1>6. n + 1 = z => e = L
  BY <1>1, <1>2, <1>5
<1>7. n + 1 < z => e < L
  BY <1>1, <1>2
<1> HIDE DEF C, e, L, z
<1>8. /\ b \in 1 .. L /\ b <= e
      /\ \A k \in b .. e - 1 : known[k] # 0
  <2>1. CASE n = 0
    <3>1. b = 1
      BY <2>1 DEF Base
    <3>2. ASSUME NEW k \in 1 .. e - 1, known[k] = 0 PROVE FALSE
      <4>1. k \in Nat /\ e \in Nat /\ k < e /\ k > 0
        BY <1>1, <1>2
      <4>2. C(k) > 0 /\ C(k) < C(e) /\ C(k) \in Nat
        BY <1>2, <1>3, <1>4, <3>2, <4>1
      <4> QED BY <1>2, <2>1, <4>2
    <3> QED BY <1>1, <1>2, <3>1, <3>2
  <2>2. CASE n # 0
    <3> DEFINE p == EndOf(known, n)
    <3>1. n \in 1 .. z
      BY <1>1, <2>2
    <3>2. p \in 1 .. L /\ C(p) = n
      BY <1>1, <3>1, EndOfIsEnd DEF L, z, C, Ends
    <3>3. b = p + 1
      BY <2>2 DEF Base
    <3> HIDE DEF p
    <3>4. p < e
      <4>1. p \in Nat /\ e \in Nat
        BY <1>1, <1>2, <3>2
      <4>2. ~(e < p) /\ e # p
        BY <1>2, <1>4, <3>2, <4>1
      <4> QED BY <4>1, <4>2
    <3>5. ASSUME NEW k \in p + 1 .. e - 1, known[k] = 0 PROVE FALSE
      <4>1. k \in Nat /\ p \in Nat /\ e \in Nat /\ p < k /\ k < e
        BY <1>1, <1>2, <3>2
      <4>2. C(p) < C(k) /\ C(k) < C(e) /\ C(k) \in Nat
        BY <1>2, <1>3, <1>4, <3>5, <4>1
      <4> QED BY <1>2, <3>2, <4>2
    <3> HIDE DEF b
    <3> QED BY <1>1, <1>2, <3>2, <3>3, <3>4, <3>5
  <2> QED BY <2>1, <2>2
<1> QED BY <1>2, <1>6, <1>7, <1>8 DEF e, L, z

\* The document that lies there.
LEMMA DocAt ==
  ASSUME NEW known \in Text, EndsInSentinel(known), NEW n \in Nat, n < Ends(known)
  PROVE  /\ Len(DocsIn(known)) = Ends(known) /\ Ends(known) \in Nat
         /\ Len(DocsIn(known)[n + 1]) = EndOf(known, n + 1) - Base(known, n)
         /\ \A j \in 1 .. EndOf(known, n + 1) - Base(known, n) :
              DocsIn(known)[n + 1][j] = known[Base(known, n) + (j - 1)]
<1> DEFINE e == EndOf(known, n + 1)
           b == Base(known, n)
           z == Ends(known)
<1>1. b \in 1 .. Len(known) /\ e \in 1 .. Len(known) /\ b <= e /\ Len(known) \in Nat /\ z \in Nat
  BY DocPlace, ZerosCount DEF Text, Ends
<1>2. DocsIn(known) = [m \in 1 .. z |-> SubSeq(known, IF m = 1 THEN 1 ELSE EndOf(known, m - 1) + 1, EndOf(known, m) - 1)]
  BY DEF DocsIn, Ends, Zeros
<1>3. DocsIn(known)[n + 1] = SubSeq(known, b, e - 1)
  <2>1. PICK m \in 1 .. z : m = n + 1 /\ m - 1 = n /\ (m = 1 <=> n = 0)
    BY <1>1
  <2>2. DocsIn(known)[m] = SubSeq(known, IF m = 1 THEN 1 ELSE EndOf(known, m - 1) + 1, EndOf(known, m) - 1)
    BY <1>2
  <2>3. b = IF m = 1 THEN 1 ELSE EndOf(known, m - 1) + 1
    BY <2>1 DEF Base
  <2> QED BY <2>1, <2>2, <2>3
<1>4. Len(DocsIn(known)) = z
  BY <1>1, <1>2
<1> HIDE DEF b, e, z
<1>5. /\ Len(SubSeq(known, b, e - 1)) = e - b
      /\ \A j \in 1 .. e - b : SubSeq(known, b, e - 1)[j] = known[b + (j - 1)]
  BY <1>1 DEF Text
<1> QED BY <1>1, <1>3, <1>4, <1>5 DEF b, e, z

\* Without documents there is no cell.
LEMMA NoEndNoCell ==
  ASSUME NEW known \in Text, EndsInSentinel(known)
  PROVE  Ends(known) \in Nat /\ (Ends(known) = 0 <=> Len(known) = 0)
<1>1. Len(known) \in Nat
  BY DEF Text
<1>2. Ends(known) \in Nat /\ (Ends(known) = 0 <=> Zeros(known, Len(known)) = {})
  BY <1>1, ZerosCount DEF Ends
<1>3. Len(known) > 0 => Len(known) \in Zeros(known, Len(known))
  BY <1>1 DEF EndsInSentinel, Zeros
<1>4. Len(known) = 0 => Zeros(known, Len(known)) = {}
  BY DEF Zeros
<1> QED BY <1>1, <1>2, <1>3, <1>4

\* The skip ends at the sentinel of the document it is in.
LEMMA SkipEnds ==
  ASSUME NEW known, Len(known) \in Nat, NEW e \in 1 .. Len(known), known[e] = 0, NEW k \in 1 .. e,
         \A m \in k .. e - 1 : known[m] # 0
  PROVE  SkipToSentinel(known, k) = e
<1> DEFINE Is(n) == /\ n > Len(known) \/ known[n] = 0
                    /\ \A m \in k .. n - 1 : known[m] # 0
<1>1. e \in k .. Len(known) + 1 /\ Is(e)
  OBVIOUS
<1>2. \A n \in k .. Len(known) + 1 : Is(n) => n = e
  <2> SUFFICES ASSUME NEW n \in k .. Len(known) + 1, Is(n), n # e PROVE FALSE
    OBVIOUS
  <2>1. CASE n < e
    <3>1. n \in k .. e - 1 /\ ~(n > Len(known))
      BY <2>1
    <3> QED BY <3>1
  <2>2. CASE n > e
    <3>1. e \in k .. n - 1
      BY <2>2
    <3> QED BY <3>1
  <2> QED BY <2>1, <2>2
<1>3. SkipToSentinel(known, k) = CHOOSE n \in k .. Len(known) + 1 : Is(n)
  BY DEF SkipToSentinel
<1> HIDE DEF Is
<1> QED BY <1>1, <1>2, <1>3

\* What is known of a class: its documents are sorted and hold no 0.
OfSortedRows(known) ==
  /\ known \in Text /\ EndsInSentinel(known)
  /\ \A n \in 1 .. Ends(known) : DocsIn(known)[n] \in SortedRows /\ DocsIn(known)[n] \in Seq(Nat \cap Cells)

\* A score says what a document and the unknown one have in common.
Exact(score, d, u) ==
  /\ score.kandu = Shared(d, u)
  /\ score.kandu + score.knotu - 1 = Len(d)

\* The counters so far, with the fingers at cell k and position j, in the
\* document that starts at cell b.
Counts(d, b, u, now, k, j) ==
  /\ now.kandu + Cardinality(CommonFrom(d, k - b + 1, u, j)) = Shared(d, u)
  /\ now.kandu + now.knotu - 1 = k - b

Scores == [kandu : Nat, knotu : Nat, unotk : Nat]

(***************************************************************************)
(* Where the walk can stand between two rounds: the documents behind it    *)
(* have their scores; in the one it is in, what it has counted and what is *)
(* still in common make up the score.                                      *)
(***************************************************************************)
Walking(known, u, s) ==
  LET n == Len(s.done)
  IN  /\ s \in [kpt : Nat, upt : Nat, now : Scores, done : Seq(Scores)]
      /\ n <= Ends(known) /\ s.upt \in 1 .. Len(u) + 1
      /\ \A m \in 1 .. n : Exact(s.done[m], DocsIn(known)[m], u)
      /\ IF n = Ends(known) THEN s.kpt = Len(known) + 1
         ELSE /\ s.kpt \in Base(known, n) .. EndOf(known, n + 1)
              /\ s.upt > Len(u) => s.kpt = EndOf(known, n + 1)
              /\ Counts(DocsIn(known)[n + 1], Base(known, n), u, s.now, s.kpt, s.upt)

\* How far the fingers have come.
Passed(u, s) == (s.kpt - 1) * (Len(u) + 1) + (s.upt - 1)

LEMMA SharedIsCommon ==
  ASSUME NEW d \in Seq(Nat), NEW u \in Seq(Nat)
  PROVE  Shared(d, u) = Cardinality(CommonFrom(d, 1, u, 1))
<1>1. \A f : Times(f, d) = Cardinality(Ahead(f, d, 1)) /\ Times(f, u) = Cardinality(Ahead(f, u, 1))
  BY DEF Times, Ahead
<1> QED BY <1>1 DEF Shared, CommonFrom

\* A comparison of two features, in the document d that lies from cell b on.
LEMMA StepCounts ==
  ASSUME NEW d, d \in SortedRows, d \in Seq(Nat \cap Cells), NEW u \in SortedRows, NEW now \in Scores,
         NEW b \in Nat, NEW k \in Nat, b <= k, k - b < Len(d), NEW j \in 1 .. Len(u),
         Counts(d, b, u, now, k, j)
  PROVE  LET f == d[k - b + 1]
         IN  /\ f \in Nat /\ u[j] \in Nat
             /\ f > u[j] => Counts(d, b, u, [now EXCEPT !.unotk = @ + 1], k, j + 1)
             /\ f < u[j] => Counts(d, b, u, [now EXCEPT !.knotu = @ + 1], k + 1, j)
             /\ f = u[j] => Counts(d, b, u, [now EXCEPT !.kandu = @ + 1], k + 1, j + 1)
<1> DEFINE i == k - b + 1
           f == d[i]
<1>1. /\ i \in 1 .. Len(d) /\ i \in Nat \ {0} /\ i + 1 \in Nat \ {0} /\ j \in Nat \ {0} /\ j + 1 \in Nat \ {0}
      /\ k + 1 - b + 1 = i + 1
      /\ now.kandu \in Nat /\ now.knotu \in Nat
      /\ d \in Seq(Nat) /\ u \in Seq(Nat)
  BY DEF Scores, SortedRows
<1>2. f \in Nat /\ u[j] \in Nat
  BY <1>1
<1>7. now.kandu + now.knotu - 1 = k - b /\ now.kandu + Cardinality(CommonFrom(d, i, u, j)) = Shared(d, u)
  BY DEF Counts
<1>3. /\ Cardinality(CommonFrom(d, i, u, j)) \in Nat /\ Cardinality(CommonFrom(d, i + 1, u, j + 1)) \in Nat
  BY <1>1, CommonCount
<1> HIDE DEF f
<1>4. CASE f > u[j]
  <2>1. CommonFrom(d, i, u, j + 1) = CommonFrom(d, i, u, j)
    BY <1>1, <1>4, SmallerUnknown DEF f
  <2>2. Counts(d, b, u, [now EXCEPT !.unotk = @ + 1], k, j + 1)
    BY <2>1 DEF Counts, Scores
  <2> QED BY <1>2, <1>4, <2>2 DEF f
<1>5. CASE f < u[j]
  <2>1. CommonFrom(d, i + 1, u, j) = CommonFrom(d, i, u, j)
    BY <1>1, <1>5, SmallerKnown DEF f
  <2>2. PICK after : after = [now EXCEPT !.knotu = @ + 1]
    OBVIOUS
  <2>3. after.kandu = now.kandu /\ after.knotu = now.knotu + 1
    BY <2>2 DEF Scores
  <2> DEFINE x == now.kandu
             y == now.knotu
  <2>6. x \in Nat /\ y \in Nat /\ x + y - 1 = k - b
    BY <1>1, <1>7
  <2>7. after.kandu = x /\ after.knotu = y + 1
    BY <2>3
  <2> HIDE DEF x, y
  <2>8. x + (y + 1) - 1 = k + 1 - b
    BY <2>6
  <2>4. after.kandu + after.knotu - 1 = k + 1 - b
    BY <2>7, <2>8
  <2>9. after.kandu + Cardinality(CommonFrom(d, i + 1, u, j)) = Shared(d, u)
    BY <1>7, <2>1, <2>3
  <2>5. Counts(d, b, u, after, k + 1, j)
    BY <1>1, <2>4, <2>9 DEF Counts
  <2> QED BY <1>2, <1>5, <2>2, <2>5 DEF f
<1>6. CASE f = u[j]
  <2>1. Cardinality(CommonFrom(d, i, u, j)) = Cardinality(CommonFrom(d, i + 1, u, j + 1)) + 1
    BY <1>1, <1>6, Match DEF f
  <2>2. PICK after : after = [now EXCEPT !.kandu = @ + 1]
    OBVIOUS
  <2>3. after.kandu = now.kandu + 1 /\ after.knotu = now.knotu
    BY <2>2 DEF Scores
  <2> DEFINE x == now.kandu
             y == now.knotu
             c == Cardinality(CommonFrom(d, i + 1, u, j + 1))
             e == Cardinality(CommonFrom(d, i, u, j))
  <2>7. x \in Nat /\ y \in Nat /\ c \in Nat /\ e = c + 1 /\ x + y - 1 = k - b /\ x + e = Shared(d, u)
    BY <1>1, <1>3, <1>7, <2>1
  <2>8. after.kandu = x + 1 /\ after.knotu = y
    BY <2>3
  <2> HIDE DEF x, y, c, e
  <2>9. (x + 1) + y - 1 = k + 1 - b /\ (x + 1) + c = x + e
    BY <2>7
  <2>4. after.kandu + after.knotu - 1 = k + 1 - b
    BY <2>8, <2>9
  <2>5. after.kandu + Cardinality(CommonFrom(d, i + 1, u, j + 1)) = Shared(d, u)
    BY <2>7, <2>8, <2>9 DEF c
  <2>6. Counts(d, b, u, after, k + 1, j + 1)
    BY <1>1, <2>4, <2>5 DEF Counts
  <2> QED BY <1>2, <1>6, <2>2, <2>6 DEF f
<1> QED BY <1>2, <1>4, <1>5, <1>6 DEF f

\* At the end of either document the score is complete.
LEMMA CountsComplete ==
  ASSUME NEW d \in Seq(Nat), NEW u \in Seq(Nat), NEW now \in Scores,
         NEW b \in Nat, NEW k \in Nat, b <= k, NEW j \in 1 .. Len(u) + 1, Counts(d, b, u, now, k, j)
  PROVE  /\ k = b + Len(d) => Exact(now, d, u)
         /\ j > Len(u) => \A e \in Nat : e >= k => Counts(d, b, u, [now EXCEPT !.knotu = @ + (e - k)], e, j)
<1> DEFINE i == k - b + 1
<1>1. i \in Nat \ {0} /\ j \in Nat \ {0} /\ Len(d) \in Nat /\ now.kandu \in Nat /\ now.knotu \in Nat
  BY DEF Scores
<1>7. now.kandu + now.knotu - 1 = k - b
  BY DEF Counts
<1>2. ASSUME k = b + Len(d) PROVE Exact(now, d, u)
  <2>1. i > Len(d)
    BY <1>1, <1>2
  <2>2. Cardinality(CommonFrom(d, i, u, j)) = 0
    BY <1>1, <2>1, NothingCommon
  <2> QED BY <1>1, <1>2, <2>2 DEF Counts, Exact
<1>3. ASSUME j > Len(u), NEW e \in Nat, e >= k
      PROVE  Counts(d, b, u, [now EXCEPT !.knotu = @ + (e - k)], e, j)
  <2>1. Cardinality(CommonFrom(d, i, u, j)) = 0
    BY <1>1, <1>3, NothingCommon
  <2>2. e - b + 1 \in Nat \ {0}
    BY <1>3
  <2>3. Cardinality(CommonFrom(d, e - b + 1, u, j)) = 0
    BY <1>1, <1>3, <2>2, NothingCommon
  <2>4. PICK after : after = [now EXCEPT !.knotu = @ + (e - k)]
    OBVIOUS
  <2>5. after.kandu = now.kandu /\ after.knotu = now.knotu + (e - k)
    BY <2>4 DEF Scores
  <2> DEFINE x == now.kandu
             y == now.knotu
  <2>8. after.kandu = x /\ after.knotu = y + (e - k) /\ x \in Nat /\ y \in Nat /\ x + y - 1 = k - b
    BY <1>1, <1>7, <2>5
  <2> HIDE DEF x, y
  <2>9. x + (y + (e - k)) - 1 = e - b
    BY <2>8
  <2>6. after.kandu + after.knotu - 1 = e - b
    BY <2>8, <2>9
  <2>7. after.kandu + Cardinality(CommonFrom(d, e - b + 1, u, j)) = Shared(d, u)
    BY <2>1, <2>3, <2>5 DEF Counts
  <2> QED BY <2>4, <2>6, <2>7 DEF Counts
<1> QED BY <1>2, <1>3

\* At the first cell of a document nothing is counted and everything is ahead.
LEMMA FreshCounts ==
  ASSUME NEW d \in Seq(Nat), NEW u \in Seq(Nat), NEW b \in Nat
  PROVE  Counts(d, b, u, Zeroed, b, 1)
<1>1. Cardinality(CommonFrom(d, 1, u, 1)) = Shared(d, u)
  BY SharedIsCommon
<1>3. Cardinality(CommonFrom(d, 1, u, 1)) \in Nat
  <2>1. 1 \in Nat \ {0}
    OBVIOUS
  <2> QED BY <2>1, CommonCount
<1>2. b - b + 1 = 1 /\ b - b = 0
  OBVIOUS
<1> QED BY <1>1, <1>2, <1>3 DEF Counts, Zeroed

\* The walk begins where it can stand.
LEMMA BeginWalks ==
  ASSUME NEW known, OfSortedRows(known), NEW u \in Seq(Nat), u # <<>>
  PROVE  Walking(known, u, Begin)
<1>1. known \in Text /\ EndsInSentinel(known) /\ Ends(known) \in Nat /\ (Ends(known) = 0 <=> Len(known) = 0)
  BY NoEndNoCell DEF OfSortedRows
<1>2. /\ Begin.kpt = 1 /\ Begin.upt = 1 /\ Begin.now = Zeroed /\ Begin.done = <<>> /\ Len(Begin.done) = 0
      /\ Begin \in [kpt : Nat, upt : Nat, now : Scores, done : Seq(Scores)]
  BY DEF Begin, Zeroed, Scores
<1>3. ASSUME Ends(known) # 0
      PROVE  /\ 1 \in Base(known, 0) .. EndOf(known, 1)
             /\ Counts(DocsIn(known)[1], Base(known, 0), u, Zeroed, 1, 1)
  <2>1. Base(known, 0) = 1 /\ EndOf(known, 0 + 1) \in Nat /\ Base(known, 0) <= EndOf(known, 0 + 1) /\ 0 + 1 = 1
    BY <1>1, <1>3, DocPlace DEF Base, Text
  <2>2. DocsIn(known)[1] \in Seq(Nat)
    BY <1>1, <1>3 DEF OfSortedRows, SortedRows
  <2>3. Counts(DocsIn(known)[1], 1, u, Zeroed, 1, 1)
    BY <2>2, FreshCounts
  <2> QED BY <2>1, <2>3
<1>4. Len(u) \in Nat /\ Len(u) # 0
  OBVIOUS
<1>5. 1 \in 1 .. Len(u) + 1 /\ 0 <= Ends(known)
  BY <1>1, <1>4
<1> HIDE DEF OfSortedRows
<1>6. CASE Ends(known) = 0
  BY <1>1, <1>2, <1>5, <1>6 DEF Walking
<1>7. CASE Ends(known) # 0
  BY <1>1, <1>2, <1>3, <1>4, <1>5, <1>7 DEF Walking
<1> QED BY <1>6, <1>7

\* A round takes the fingers further.
Later(s, r) == r.kpt > s.kpt \/ (r.kpt = s.kpt /\ r.upt > s.upt)

\* What the walk knows of the document it is in.
LEMMA InDocument ==
  ASSUME NEW known, OfSortedRows(known), NEW u \in SortedRows,
         NEW s, Walking(known, u, s), s.kpt <= Len(known)
  PROVE  LET n == Len(s.done)
             b == Base(known, n)
             e == EndOf(known, n + 1)
             d == DocsIn(known)[n + 1]
         IN  /\ n \in Nat /\ n < Ends(known) /\ Ends(known) \in Nat /\ Len(known) \in Nat /\ Len(u) \in Nat
             /\ s \in [kpt : Nat, upt : Nat, now : Scores, done : Seq(Scores)]
             /\ b \in 1 .. Len(known) /\ e \in 1 .. Len(known) /\ s.kpt \in b .. e
             /\ known[e] = 0 /\ \A k \in b .. e - 1 : known[k] # 0
             /\ d \in SortedRows /\ d \in Seq(Nat) /\ d \in Seq(Nat \cap Cells) /\ Len(d) = e - b
             /\ \A j \in 1 .. e - b : d[j] = known[b + (j - 1)]
             /\ s.upt \in 1 .. Len(u) + 1
             /\ s.upt > Len(u) => s.kpt = e
             /\ Counts(d, b, u, s.now, s.kpt, s.upt)
<1> DEFINE n == Len(s.done)
           b == Base(known, n)
           e == EndOf(known, n + 1)
           d == DocsIn(known)[n + 1]
<1>1. /\ known \in Text /\ EndsInSentinel(known) /\ Len(known) \in Nat /\ Ends(known) \in Nat
      /\ \A m \in 1 .. Ends(known) : DocsIn(known)[m] \in SortedRows /\ DocsIn(known)[m] \in Seq(Nat \cap Cells)
  BY NoEndNoCell DEF OfSortedRows, Text
<1>2. s \in [kpt : Nat, upt : Nat, now : Scores, done : Seq(Scores)]
  BY DEF Walking
<1>3. n \in Nat /\ s.kpt \in Nat /\ s.upt \in Nat
  BY <1>2
<1>4. n <= Ends(known) /\ s.upt \in 1 .. Len(u) + 1
  BY DEF Walking
<1>5. n # Ends(known)
  <2>1. n = Ends(known) => s.kpt = Len(known) + 1
    BY DEF Walking
  <2> QED BY <1>1, <1>3, <2>1
<1>6. /\ s.kpt \in b .. e
      /\ s.upt > Len(u) => s.kpt = e
      /\ Counts(d, b, u, s.now, s.kpt, s.upt)
  BY <1>5 DEF Walking
<1>7. n < Ends(known) /\ n + 1 \in 1 .. Ends(known)
  BY <1>1, <1>3, <1>4, <1>5
<1>8. /\ b \in 1 .. Len(known) /\ e \in 1 .. Len(known)
      /\ known[e] = 0 /\ \A k \in b .. e - 1 : known[k] # 0
      /\ Len(d) = e - b /\ \A j \in 1 .. e - b : d[j] = known[b + (j - 1)]
  BY <1>1, <1>3, <1>7, DocPlace, DocAt
<1>9. d \in SortedRows /\ d \in Seq(Nat) /\ d \in Seq(Nat \cap Cells)
  BY <1>1, <1>7 DEF SortedRows
<1>10. Len(u) \in Nat
  BY DEF SortedRows
<1> HIDE DEF n, b, e, d
<1> QED BY <1>1, <1>2, <1>3, <1>4, <1>6, <1>7, <1>8, <1>9, <1>10 DEF n, b, e, d

\* The end of a document: its score is taken.
LEMMA EndOfDocument ==
  ASSUME NEW known, OfSortedRows(known), NEW u \in SortedRows, u # <<>>,
         NEW s, Walking(known, u, s), s.kpt <= Len(known),
         known[s.kpt] = 0 \/ s.upt > Len(u)
  PROVE  Walking(known, u, Round(known, u, s)) /\ Later(s, Round(known, u, s))
<1> DEFINE n == Len(s.done)
           b == Base(known, n)
           e == EndOf(known, n + 1)
           d == DocsIn(known)[n + 1]
           r == Round(known, u, s)
<1>1. /\ n \in Nat /\ n < Ends(known) /\ Ends(known) \in Nat /\ Len(known) \in Nat /\ Len(u) \in Nat
      /\ s \in [kpt : Nat, upt : Nat, now : Scores, done : Seq(Scores)]
      /\ b \in 1 .. Len(known) /\ e \in 1 .. Len(known) /\ s.kpt \in b .. e
      /\ known[e] = 0 /\ \A k \in b .. e - 1 : known[k] # 0
      /\ d \in SortedRows /\ d \in Seq(Nat) /\ d \in Seq(Nat \cap Cells) /\ Len(d) = e - b
      /\ s.upt \in 1 .. Len(u) + 1
      /\ s.upt > Len(u) => s.kpt = e
      /\ Counts(d, b, u, s.now, s.kpt, s.upt)
  BY InDocument
<1>2. r = [kpt |-> s.kpt + 1, upt |-> 1, now |-> Zeroed, done |-> Append(s.done, s.now)]
  BY DEF Round
<1>3. known \in Text /\ EndsInSentinel(known) /\ u \in Seq(Nat) /\ Len(u) # 0
  BY DEF OfSortedRows, SortedRows
<1>4. s.now \in Scores /\ s.done \in Seq(Scores) /\ s.kpt \in Nat
  BY <1>1
<1>5. \A m \in 1 .. n : Exact(s.done[m], DocsIn(known)[m], u)
  BY DEF Walking
<1> HIDE DEF n, b, e, d, r
<1>6. s.kpt = e
  BY <1>1
<1>7. Exact(s.now, d, u)
  <2>1. e = b + Len(d) /\ b \in Nat /\ e \in Nat /\ b <= e
    BY <1>1
  <2> QED BY <1>1, <1>3, <1>4, <1>6, <2>1, CountsComplete
<1>8. /\ Len(r.done) = n + 1 /\ r.done[n + 1] = s.now /\ \A m \in 1 .. n : r.done[m] = s.done[m]
      /\ r.kpt = e + 1 /\ r.upt = 1 /\ r.now = Zeroed
  BY <1>2, <1>4, <1>6 DEF n
<1>9. r \in [kpt : Nat, upt : Nat, now : Scores, done : Seq(Scores)]
  <2>1. Zeroed \in Scores /\ Append(s.done, s.now) \in Seq(Scores) /\ s.kpt + 1 \in Nat
    BY <1>4 DEF Zeroed, Scores
  <2> QED BY <1>2, <2>1
<1>10. \A m \in 1 .. n + 1 : Exact(r.done[m], DocsIn(known)[m], u)
  <2> TAKE m \in 1 .. n + 1
  <2>1. CASE m = n + 1
    BY <1>7, <1>8, <2>1 DEF d
  <2>2. CASE m # n + 1
    <3>1. m \in 1 .. n
      BY <1>1, <2>2
    <3> QED BY <1>5, <1>8, <3>1
  <2> QED BY <2>1, <2>2
<1>16. n \in Nat /\ Ends(known) \in Nat /\ n < Ends(known) /\ Len(u) \in Nat /\ Len(u) # 0
  BY <1>1, <1>3
<1>11. n + 1 <= Ends(known) /\ 1 \in 1 .. Len(u) + 1 /\ ~(1 > Len(u))
  BY <1>16
<1>12. n + 1 = Ends(known) => e + 1 = Len(known) + 1
  BY <1>1, <1>3, DocPlace DEF e
<1>13. ASSUME n + 1 # Ends(known)
       PROVE  /\ e + 1 \in Base(known, n + 1) .. EndOf(known, n + 1 + 1)
              /\ Counts(DocsIn(known)[n + 1 + 1], Base(known, n + 1), u, Zeroed, e + 1, 1)
  <2>1. n + 1 \in Nat /\ n + 1 < Ends(known) /\ n + 1 + 1 \in 1 .. Ends(known) /\ n + 1 # 0
    BY <1>13, <1>16
  <2>2. Base(known, n + 1) = e + 1
    BY <2>1 DEF Base, e
  <2>3. Base(known, n + 1) <= EndOf(known, n + 1 + 1) /\ EndOf(known, n + 1 + 1) \in 1 .. Len(known)
    BY <1>3, <2>1, DocPlace
  <2>4. e + 1 \in Nat /\ e + 1 \in Base(known, n + 1) .. EndOf(known, n + 1 + 1)
    BY <1>1, <2>2, <2>3
  <2>5. DocsIn(known)[n + 1 + 1] \in Seq(Nat)
    BY <2>1 DEF OfSortedRows, SortedRows
  <2> QED BY <1>3, <2>2, <2>4, <2>5, FreshCounts
<1>14. Walking(known, u, r)
  <2>1. CASE n + 1 = Ends(known)
    BY <1>8, <1>9, <1>10, <1>11, <1>12, <2>1 DEF Walking
  <2>2. CASE n + 1 # Ends(known)
    <3>1. PICK m \in Nat : m = n + 1
      BY <1>1
    <3> QED BY <1>8, <1>9, <1>10, <1>11, <1>13, <2>2, <3>1 DEF Walking
  <2> QED BY <2>1, <2>2
<1>15. Later(s, r)
  BY <1>1, <1>6, <1>8 DEF Later
<1> QED BY <1>14, <1>15 DEF r

\* After a comparison the rest of the known document is skipped if the unknown
\* one is used up.
LEMMA SkipWalks ==
  ASSUME NEW known, OfSortedRows(known), NEW u \in SortedRows,
         NEW s, Walking(known, u, s), s.kpt <= Len(known),
         NEW t \in [kpt : Nat, upt : Nat, now : Scores, done : Seq(Scores)], t.done = s.done,
         t.kpt \in s.kpt .. EndOf(known, Len(s.done) + 1), t.upt \in 1 .. Len(u) + 1,
         Counts(DocsIn(known)[Len(s.done) + 1], Base(known, Len(s.done)), u, t.now, t.kpt, t.upt),
         Later(s, t)
  PROVE  Walking(known, u, AtUnknownEnd(known, u, t)) /\ Later(s, AtUnknownEnd(known, u, t))
<1> DEFINE n == Len(s.done)
           b == Base(known, n)
           e == EndOf(known, n + 1)
           d == DocsIn(known)[n + 1]
           r == AtUnknownEnd(known, u, t)
<1>1. /\ n \in Nat /\ n < Ends(known) /\ Ends(known) \in Nat /\ Len(known) \in Nat /\ Len(u) \in Nat
      /\ b \in 1 .. Len(known) /\ e \in 1 .. Len(known) /\ s.kpt \in b .. e
      /\ known[e] = 0 /\ \A k \in b .. e - 1 : known[k] # 0
      /\ d \in Seq(Nat)
  BY InDocument
<1>2. \A m \in 1 .. n : Exact(t.done[m], DocsIn(known)[m], u)
  BY DEF Walking
<1>3. t.kpt \in b .. e /\ t.upt \in 1 .. Len(u) + 1 /\ t.kpt \in Nat /\ Counts(d, b, u, t.now, t.kpt, t.upt)
      /\ t.now \in Scores /\ s.kpt \in Nat /\ s.kpt <= t.kpt
  BY <1>1
<1>4. CASE t.upt <= Len(u)
  <2>1. r = t
    BY <1>4 DEF AtUnknownEnd
  <2>2. Walking(known, u, t)
    BY <1>1, <1>2, <1>3, <1>4 DEF Walking
  <2> QED BY <2>1, <2>2
<1>5. CASE ~(t.upt <= Len(u))
  <2>1. SkipToSentinel(known, t.kpt) = e
    <3>1. t.kpt \in 1 .. e /\ \A m \in t.kpt .. e - 1 : known[m] # 0
      <4> HIDE DEF b, e
      <4> QED BY <1>1, <1>3
    <3> HIDE DEF b, e
    <3> QED BY <1>1, <3>1, SkipEnds
  <2>2. r = [t EXCEPT !.kpt = e, !.now.knotu = @ + (e - t.kpt)]
    BY <1>5, <2>1 DEF AtUnknownEnd
  <2>3. PICK now : now = [t.now EXCEPT !.knotu = @ + (e - t.kpt)]
    OBVIOUS
  <2> HIDE DEF n, b, e, d, r
  <2>4. e \in Nat /\ e >= t.kpt /\ b \in Nat /\ b <= t.kpt
    BY <1>1, <1>3
  <2>5. now \in Scores
    BY <1>3, <2>3, <2>4 DEF Scores
  <2>6. r.kpt = e /\ r.upt = t.upt /\ r.done = t.done /\ r.now = now
    BY <2>2, <2>3
  <2>7. r \in [kpt : Nat, upt : Nat, now : Scores, done : Seq(Scores)]
    BY <2>2, <2>3, <2>4, <2>5
  <2>8. Counts(d, b, u, now, e, t.upt)
    <3>1. t.upt > Len(u) /\ u \in Seq(Nat)
      BY <1>1, <1>3, <1>5 DEF SortedRows
    <3> QED BY <1>1, <1>3, <2>3, <2>4, <3>1, CountsComplete
  <2>9. Len(r.done) = n /\ e \in b .. e
    BY <1>1, <2>4, <2>6 DEF n
  <2>10. Walking(known, u, r)
    BY <1>1, <1>2, <1>3, <2>6, <2>7, <2>8, <2>9 DEF Walking, b, d, e
  <2>11. Later(s, r)
    BY <1>3, <2>4, <2>6 DEF Later
  <2> QED BY <2>10, <2>11 DEF r
<1> QED BY <1>4, <1>5

\* A comparison yields a record of the same type.
LEMMA StepType ==
  ASSUME NEW S, NEW D, NEW s \in [kpt : Nat, upt : Nat, now : S, done : D]
  PROVE  /\ [s.now EXCEPT !.unotk = @ + 1] \in S =>
              [s EXCEPT !.upt = @ + 1, !.now.unotk = @ + 1] \in [kpt : Nat, upt : Nat, now : S, done : D]
         /\ [s.now EXCEPT !.knotu = @ + 1] \in S =>
              [s EXCEPT !.kpt = @ + 1, !.now.knotu = @ + 1] \in [kpt : Nat, upt : Nat, now : S, done : D]
         /\ [s.now EXCEPT !.kandu = @ + 1] \in S =>
              [s EXCEPT !.upt = @ + 1, !.kpt = @ + 1, !.now.kandu = @ + 1]
                \in [kpt : Nat, upt : Nat, now : S, done : D]
<1>1. s.upt + 1 \in Nat /\ s.kpt + 1 \in Nat
  OBVIOUS
<1> QED BY <1>1

\* Every round leads from where the walk can stand to where it can stand.
LEMMA RoundWalks ==
  ASSUME NEW known, OfSortedRows(known), NEW u \in SortedRows, u # <<>>,
         NEW s, Walking(known, u, s), s.kpt <= Len(known)
  PROVE  Walking(known, u, Round(known, u, s)) /\ Later(s, Round(known, u, s))
<1> DEFINE n == Len(s.done)
           b == Base(known, n)
           e == EndOf(known, n + 1)
           d == DocsIn(known)[n + 1]
           k == s.kpt
           j == s.upt
<1>1. CASE known[s.kpt] = 0 \/ s.upt > Len(u)
  BY <1>1, EndOfDocument
<1>2. CASE ~(known[s.kpt] = 0 \/ s.upt > Len(u))
  <2>1. /\ n \in Nat /\ Len(known) \in Nat /\ Len(u) \in Nat
        /\ s \in [kpt : Nat, upt : Nat, now : Scores, done : Seq(Scores)]
        /\ b \in 1 .. Len(known) /\ e \in 1 .. Len(known) /\ k \in b .. e
        /\ known[e] = 0
        /\ d \in SortedRows /\ d \in Seq(Nat \cap Cells) /\ Len(d) = e - b
        /\ \A m \in 1 .. e - b : d[m] = known[b + (m - 1)]
        /\ j \in 1 .. Len(u) + 1
        /\ Counts(d, b, u, s.now, k, j)
    BY InDocument
  <2>2. s.now \in Scores /\ k \in Nat /\ j \in Nat
    BY <2>1
  <2>3. /\ b \in Nat /\ b <= k /\ k < e /\ k - b < Len(d) /\ j \in 1 .. Len(u)
        /\ d[k - b + 1] = known[k]
    <3>1. k # e
      BY <1>2, <2>1
    <3> HIDE DEF b, e, d, k
    <3>2. k - b + 1 \in 1 .. e - b /\ b + (k - b + 1 - 1) = k /\ b \in Nat /\ b <= k /\ k < e
      BY <2>1, <2>2, <3>1
    <3>3. d[k - b + 1] = known[k]
      <4>1. d[k - b + 1] = known[b + (k - b + 1 - 1)]
        BY ONLY <2>1, <3>2
      <4> QED BY <3>2, <4>1
    <3> QED BY <1>2, <2>1, <2>2, <3>2, <3>3
  <2> DEFINE f == known[k]
  <2>4. /\ f \in Nat /\ u[j] \in Nat
        /\ f > u[j] => Counts(d, b, u, [s.now EXCEPT !.unotk = @ + 1], k, j + 1)
        /\ f < u[j] => Counts(d, b, u, [s.now EXCEPT !.knotu = @ + 1], k + 1, j)
        /\ f = u[j] => Counts(d, b, u, [s.now EXCEPT !.kandu = @ + 1], k + 1, j + 1)
    <3> HIDE DEF n, b, e, d, k, j
    <3>1. /\ d[k - b + 1] \in Nat /\ u[j] \in Nat
          /\ d[k - b + 1] > u[j] => Counts(d, b, u, [s.now EXCEPT !.unotk = @ + 1], k, j + 1)
          /\ d[k - b + 1] < u[j] => Counts(d, b, u, [s.now EXCEPT !.knotu = @ + 1], k + 1, j)
          /\ d[k - b + 1] = u[j] => Counts(d, b, u, [s.now EXCEPT !.kandu = @ + 1], k + 1, j + 1)
      BY <2>1, <2>2, <2>3, StepCounts
    <3> QED BY <2>3, <3>1
  <2>5. CASE f > u[j]
    <3> DEFINE t == [s EXCEPT !.upt = @ + 1, !.now.unotk = @ + 1]
    <3>1. Round(known, u, s) = AtUnknownEnd(known, u, t)
      BY <1>2, <2>4, <2>5 DEF Round
    <3>2. [s.now EXCEPT !.unotk = @ + 1] \in Scores
      BY <2>2 DEF Scores
    <3>3. /\ t.kpt = k /\ t.upt = j + 1 /\ t.done = s.done /\ t.now = [s.now EXCEPT !.unotk = @ + 1]
      BY <2>1
    <3>6. t \in [kpt : Nat, upt : Nat, now : Scores, done : Seq(Scores)]
      BY <2>1, <3>2, StepType
    <3> HIDE DEF t, k, j, f, b, d, e
    <3>4. t.kpt \in k .. e /\ t.upt \in 1 .. Len(u) + 1 /\ Counts(d, b, u, t.now, t.kpt, t.upt)
      <4>1. k \in k .. e /\ k + 1 \in k .. e /\ j \in 1 .. Len(u) + 1 /\ j + 1 \in 1 .. Len(u) + 1
        BY <2>1, <2>2, <2>3
      <4> QED BY <2>4, <2>5, <3>3, <4>1
    <3>5. Later(s, t)
      BY <2>2, <3>3 DEF Later, k, j
    <3> QED BY <3>1, <3>3, <3>4, <3>5, <3>6, SkipWalks DEF k, b, d, e
  <2>6. CASE f < u[j]
    <3> DEFINE t == [s EXCEPT !.kpt = @ + 1, !.now.knotu = @ + 1]
    <3>1. Round(known, u, s) = AtUnknownEnd(known, u, t)
      BY <1>2, <2>4, <2>6 DEF Round
    <3>2. [s.now EXCEPT !.knotu = @ + 1] \in Scores
      BY <2>2 DEF Scores
    <3>3. /\ t.kpt = k + 1 /\ t.upt = j /\ t.done = s.done /\ t.now = [s.now EXCEPT !.knotu = @ + 1]
      BY <2>1
    <3>6. t \in [kpt : Nat, upt : Nat, now : Scores, done : Seq(Scores)]
      BY <2>1, <3>2, StepType
    <3> HIDE DEF t, k, j, f, b, d, e
    <3>4. t.kpt \in k .. e /\ t.upt \in 1 .. Len(u) + 1 /\ Counts(d, b, u, t.now, t.kpt, t.upt)
      <4>1. k \in k .. e /\ k + 1 \in k .. e /\ j \in 1 .. Len(u) + 1 /\ j + 1 \in 1 .. Len(u) + 1
        BY <2>1, <2>2, <2>3
      <4> QED BY <2>4, <2>6, <3>3, <4>1
    <3>5. Later(s, t)
      BY <2>2, <3>3 DEF Later, k, j
    <3> QED BY <3>1, <3>3, <3>4, <3>5, <3>6, SkipWalks DEF k, b, d, e
  <2>7. CASE f = u[j]
    <3> DEFINE t == [s EXCEPT !.upt = @ + 1, !.kpt = @ + 1, !.now.kandu = @ + 1]
    <3>1. Round(known, u, s) = AtUnknownEnd(known, u, t)
      BY <1>2, <2>4, <2>7 DEF Round
    <3>2. [s.now EXCEPT !.kandu = @ + 1] \in Scores
      BY <2>2 DEF Scores
    <3>3. /\ t.kpt = k + 1 /\ t.upt = j + 1 /\ t.done = s.done /\ t.now = [s.now EXCEPT !.kandu = @ + 1]
      BY <2>1
    <3>6. t \in [kpt : Nat, upt : Nat, now : Scores, done : Seq(Scores)]
      BY <2>1, <3>2, StepType
    <3> HIDE DEF t, k, j, f, b, d, e
    <3>4. t.kpt \in k .. e /\ t.upt \in 1 .. Len(u) + 1 /\ Counts(d, b, u, t.now, t.kpt, t.upt)
      <4>1. k \in k .. e /\ k + 1 \in k .. e /\ j \in 1 .. Len(u) + 1 /\ j + 1 \in 1 .. Len(u) + 1
        BY <2>1, <2>2, <2>3
      <4> QED BY <2>4, <2>7, <3>3, <4>1
    <3>5. Later(s, t)
      BY <2>2, <3>3 DEF Later, k, j
    <3> QED BY <3>1, <3>3, <3>4, <3>5, <3>6, SkipWalks DEF k, b, d, e
  <2> QED BY <2>4, <2>5, <2>6, <2>7
<1> QED BY <1>1, <1>2

\* g is the first n applications of F to start.
IsIteration(g, S, start, F, n) ==
  g \in [0 .. n -> S] /\ g[0] = start /\ \A k \in 1 .. n : g[k] = F[g[k - 1]]

\* A function can be applied any number of times.
LEMMA IterationExists ==
  ASSUME NEW S, NEW start \in S, NEW F \in [S -> S], NEW n \in Nat
  PROVE  \E g : IsIteration(g, S, start, F, n)
<1> DEFINE Is(m, g) == g \in [0 .. m -> S] /\ g[0] = start /\ \A k \in 1 .. m : g[k] = F[g[k - 1]]
           Bad == {m \in Nat : ~ \E g : Is(m, g)}
<1>1. ASSUME Bad # {} PROVE FALSE
  <2>1. PICK m \in Bad : \A l \in Bad : m <= l
    <3>1. Bad \subseteq Nat
      OBVIOUS
    <3> HIDE DEF Bad
    <3> QED BY <1>1, <3>1, LeastOfSet
  <2>2. m \in Nat /\ ~ \E g : Is(m, g)
    OBVIOUS
  <2>3. m # 0
    <3>1. Is(0, [k \in 0 .. 0 |-> start])
      OBVIOUS
    <3> HIDE DEF Is
    <3> QED BY <2>2, <3>1
  <2>4. m - 1 \in Nat /\ m - 1 \notin Bad
    <3> HIDE DEF Bad
    <3> QED BY <2>1, <2>2, <2>3
  <2>5. PICK g : Is(m - 1, g)
    <3> HIDE DEF Is
    <3> QED BY <2>4
  <2> DEFINE h == [k \in 0 .. m |-> IF k = m THEN F[g[m - 1]] ELSE g[k]]
  <2>6. Is(m, h)
    <3>1. \A k \in 0 .. m : k # m => k \in 0 .. m - 1 /\ h[k] = g[k]
      BY <2>2
    <3>2. h[m] = F[g[m - 1]] /\ m - 1 \in 0 .. m - 1 /\ 0 \in 0 .. m - 1
      BY <2>2, <2>4
    <3>3. g[m - 1] \in S /\ F[g[m - 1]] \in S
      BY <2>5, <3>2
    <3>4. \A k \in 0 .. m : h[k] \in S
      BY <2>5, <3>1, <3>2, <3>3
    <3>5. h \in [0 .. m -> S]
      <4>1. h = [k \in 0 .. m |-> h[k]]
        OBVIOUS
      <4> HIDE DEF h
      <4> QED BY <3>4, <4>1
    <3>6. h[0] = start
      BY <2>2, <2>3, <2>5, <3>1
    <3>7. ASSUME NEW k \in 1 .. m PROVE h[k] = F[h[k - 1]]
      <4>1. k - 1 \in 0 .. m /\ k - 1 # m /\ k \in 0 .. m /\ h[k - 1] = g[k - 1]
        BY <2>2, <3>1
      <4>2. CASE k = m
        BY <3>2, <4>1, <4>2
      <4>3. CASE k # m
        <5>1. k \in 1 .. m - 1 /\ h[k] = g[k]
          BY <2>2, <3>1, <4>1, <4>3
        <5> QED BY <2>5, <4>1, <5>1
      <4> QED BY <4>2, <4>3
    <3> HIDE DEF h
    <3> QED BY <3>5, <3>6, <3>7
  <2> HIDE DEF Is, h
  <2> QED BY <2>2, <2>6
<1>2. \E g : Is(n, g)
  <2> HIDE DEF Is
  <2> QED BY <1>1
<1> QED BY <1>2 DEF IsIteration

\* The fingers come further by at least one, counted in the length of the
\* unknown document.
LEMMA PassedGrows ==
  ASSUME NEW u \in Seq(Nat), NEW s, NEW r, s.kpt \in Nat \ {0}, r.kpt \in Nat \ {0},
         s.upt \in 1 .. Len(u) + 1, r.upt \in 1 .. Len(u) + 1, Later(s, r)
  PROVE  Passed(u, s) \in Nat /\ Passed(u, r) \in Nat /\ Passed(u, r) >= Passed(u, s) + 1
<1> DEFINE w == Len(u) + 1
           a == s.kpt - 1
           c == r.kpt - 1
           i == s.upt - 1
           j == r.upt - 1
<1>1. w \in Nat \ {0} /\ a \in Nat /\ c \in Nat /\ i \in Nat /\ j \in Nat /\ i < w /\ j < w
  OBVIOUS
<1>2. c > a \/ (c = a /\ j > i)
  BY DEF Later
<1>3. Passed(u, s) = a * w + i /\ Passed(u, r) = c * w + j
  BY DEF Passed
<1> HIDE DEF w, a, c, i, j
<1>4. a * w \in Nat /\ c * w \in Nat /\ (a + 1) * w = a * w + w
  BY <1>1
<1>5. c > a => (a + 1) * w <= c * w
  <2>1. a + 1 \in Nat /\ (c > a => a + 1 <= c)
    BY <1>1
  <2> QED BY <1>1, <2>1, TimesMonotone
<1>6. CASE c > a
  <2>1. PICK x \in Nat, y \in Nat : x = a * w /\ y = c * w /\ x + w <= y
    BY <1>4, <1>5, <1>6
  <2>2. x + i \in Nat /\ y + j \in Nat /\ y + j >= x + i + 1
    BY <1>1, <2>1
  <2> QED BY <1>3, <2>1, <2>2
<1>7. CASE c = a /\ j > i
  <2>1. PICK x \in Nat : x = a * w /\ x = c * w
    BY <1>4, <1>7
  <2>2. x + i \in Nat /\ x + j \in Nat /\ x + j >= x + i + 1
    BY <1>1, <1>7, <2>1
  <2> QED BY <1>3, <2>1, <2>2
<1> QED BY <1>2, <1>6, <1>7

\* The walk ends behind the last document, and every one has its score.
LEMMA TwoFingerIsExact ==
  ASSUME NEW known, OfSortedRows(known), NEW u \in SortedRows, u # <<>>
  PROVE  /\ Len(TwoFinger(known, u)) = Len(DocsIn(known))
         /\ \A n \in 1 .. Len(DocsIn(known)) : Exact(TwoFinger(known, u)[n], DocsIn(known)[n], u)
<1> DEFINE Ty == [kpt : Nat, upt : Nat, now : Scores, done : Seq(Scores)]
           S == {s \in Ty : Walking(known, u, s)}
           F == [s \in S |-> IF s.kpt > Len(known) THEN s ELSE Round(known, u, s)]
           N == Rounds(known, u)
           D == 0 .. N
           Body(g) == [k \in D |-> IF k = 0 THEN Begin
                                   ELSE LET s == g[k - 1]
                                        IN  IF s.kpt > Len(known) THEN s ELSE Round(known, u, s)]
           at == CHOOSE h : h = Body(h)
<1>1. u \in Seq(Nat) /\ Len(u) \in Nat /\ Len(known) \in Nat /\ known \in Text /\ EndsInSentinel(known)
  BY DEF SortedRows, OfSortedRows, Text
<1>2. N \in Nat /\ N = Len(known) * (Len(u) + 1)
  BY <1>1 DEF Rounds
<1>3. \A s : Walking(known, u, s) => s \in Ty
  BY DEF Walking
<1>4. Begin \in S
  BY <1>1, <1>3, BeginWalks
<1>5. F \in [S -> S]
  <2> SUFFICES ASSUME NEW s \in S PROVE F[s] \in S
    OBVIOUS
  <2>1. s.kpt \in Nat
    OBVIOUS
  <2>2. CASE s.kpt > Len(known)
    BY <2>2
  <2>3. CASE ~(s.kpt > Len(known))
    <3>1. s.kpt <= Len(known)
      BY <1>1, <2>1, <2>3
    <3>2. Walking(known, u, Round(known, u, s))
      BY <3>1, RoundWalks
    <3>3. Round(known, u, s) \in S
      BY <1>3, <3>2
    <3> HIDE DEF S
    <3> QED BY <2>3, <3>3
  <2> QED BY <2>2, <2>3
<1> HIDE DEF S, Ty, N
<1>6. PICK g \in [D -> S] : g[0] = Begin /\ \A k \in 1 .. N : g[k] = F[g[k - 1]]
  <2> HIDE DEF F
  <2>1. PICK g : IsIteration(g, S, Begin, F, N)
    BY <1>2, <1>4, <1>5, IterationExists
  <2> QED BY <2>1 DEF IsIteration
<1>7. \A k \in 1 .. N : /\ k \in D /\ k - 1 \in D /\ g[k - 1] \in S /\ g[k] \in S
                        /\ g[k] = IF g[k - 1].kpt > Len(known) THEN g[k - 1] ELSE Round(known, u, g[k - 1])
  <2> TAKE k \in 1 .. N
  <2>1. k \in D /\ k - 1 \in D
    BY <1>2
  <2>2. g[k - 1] \in S /\ g[k] \in S /\ g[k] = F[g[k - 1]]
    <3> HIDE DEF F
    <3> QED BY <1>6, <2>1
  <2> QED BY <2>1, <2>2
<1>8. g = Body(g)
  <2>1. ASSUME NEW k \in D PROVE Body(g)[k] = g[k]
    <3>1. CASE k = 0
      BY <1>6, <3>1
    <3>2. CASE k # 0
      <4>1. k \in 1 .. N
        BY <1>2, <3>2
      <4> QED BY <1>7, <3>2, <4>1
    <3> QED BY <3>1, <3>2
  <2>2. Body(g) = [k \in D |-> Body(g)[k]] /\ g = [k \in D |-> g[k]]
    BY <1>6
  <2> HIDE DEF Body
  <2> QED BY <2>1, <2>2
<1>9. at = Body(at)
  <2> HIDE DEF Body
  <2> QED BY <1>8
<1>10. TwoFinger(known, u) = at[N].done
  BY DEF TwoFinger, N
<1>11. at \in [D -> S] /\ at[0] = Begin
       /\ \A k \in 1 .. N : at[k] = IF at[k - 1].kpt > Len(known) THEN at[k - 1] ELSE Round(known, u, at[k - 1])
  <2> HIDE DEF at
  <2>1. at[0] = Begin
    BY <1>2, <1>9
  <2>2. \A k \in 1 .. N : at[k] = IF at[k - 1].kpt > Len(known) THEN at[k - 1] ELSE Round(known, u, at[k - 1])
    BY <1>2, <1>9
  <2> DEFINE Bad == {k \in D : at[k] # g[k]}
  <2>3. ASSUME Bad # {} PROVE FALSE
    <3>1. PICK m \in Bad : \A l \in Bad : m <= l
      <4>1. Bad \subseteq Nat
        BY <1>2
      <4> HIDE DEF Bad
      <4> QED BY <2>3, <4>1, LeastOfSet
    <3>2. m \in D /\ at[m] # g[m]
      OBVIOUS
    <3>3. m # 0
      BY <1>6, <2>1, <3>2
    <3>4. m \in 1 .. N /\ m - 1 \in D /\ ~(m <= m - 1)
      BY <1>2, <3>2, <3>3
    <3>5. at[m - 1] = g[m - 1]
      BY <3>1, <3>4
    <3> QED BY <1>7, <2>2, <3>2, <3>4, <3>5
  <2>4. at = [k \in D |-> at[k]]
    <3>1. DOMAIN Body(at) = D /\ Body(at) = [k \in D |-> Body(at)[k]]
      OBVIOUS
    <3> HIDE DEF Body
    <3> QED BY <1>9, <3>1
  <2>5. \A k \in D : at[k] = g[k]
    BY <2>3
  <2> QED BY <1>6, <2>1, <2>2, <2>4, <2>5
<1> HIDE DEF at
<1>12. \A s \in S : /\ Walking(known, u, s) /\ s \in [kpt : Nat, upt : Nat, now : Scores, done : Seq(Scores)]
                    /\ s.kpt \in Nat \ {0} /\ s.upt \in 1 .. Len(u) + 1
  <2> SUFFICES ASSUME NEW s \in S
               PROVE  /\ Walking(known, u, s) /\ s \in Ty
                      /\ s.kpt \in Nat \ {0} /\ s.upt \in 1 .. Len(u) + 1
    BY DEF Ty
  <2>1. Walking(known, u, s) /\ s \in Ty
    BY DEF S
  <2>2. s.upt \in 1 .. Len(u) + 1 /\ s.kpt \in Nat
    BY <2>1 DEF Walking, Ty
  <2>3. s.kpt # 0
    <3>1. CASE s.kpt <= Len(known)
      <4>1. s.kpt \in Base(known, Len(s.done)) .. EndOf(known, Len(s.done) + 1)
            /\ Base(known, Len(s.done)) \in 1 .. Len(known)
        BY <2>1, <3>1, InDocument
      <4> QED BY <2>2, <4>1
    <3>2. CASE ~(s.kpt <= Len(known))
      BY <1>1, <2>2, <3>2
    <3> QED BY <3>1, <3>2
  <2> QED BY <2>1, <2>2, <2>3
<1>13. \A k \in D : at[k].kpt > Len(known) \/ Passed(u, at[k]) >= k
  <2> DEFINE Bad == {k \in D : ~(at[k].kpt > Len(known) \/ Passed(u, at[k]) >= k)}
  <2>1. ASSUME Bad # {} PROVE FALSE
    <3>1. PICK m \in Bad : \A l \in Bad : m <= l
      <4>1. Bad \subseteq Nat
        BY <1>2
      <4> HIDE DEF Bad
      <4> QED BY <2>1, <4>1, LeastOfSet
    <3>2. m \in D /\ ~(at[m].kpt > Len(known)) /\ ~(Passed(u, at[m]) >= m)
      OBVIOUS
    <3>3. m # 0
      <4>1. Passed(u, Begin) = 0
        <5>1. (1 - 1) * (Len(u) + 1) = 0
          BY <1>1
        <5> QED BY <5>1 DEF Passed, Begin
      <4> QED BY <1>11, <3>2, <4>1
    <3>4. m \in 1 .. N /\ m - 1 \in D /\ m \in D /\ ~(m <= m - 1) /\ m \in Nat
      BY <1>2, <3>2, <3>3
    <3>5. at[m - 1].kpt > Len(known) \/ Passed(u, at[m - 1]) >= m - 1
      BY <3>1, <3>4
    <3>6. ~(at[m - 1].kpt > Len(known)) /\ at[m] = Round(known, u, at[m - 1])
      BY <1>11, <3>2, <3>4
    <3>7. at[m - 1] \in S /\ at[m] \in S
      BY <1>11, <3>4
    <3>8. Later(at[m - 1], at[m])
      <4>1. at[m - 1].kpt <= Len(known) /\ Walking(known, u, at[m - 1])
        BY <1>1, <1>12, <3>6, <3>7
      <4> QED BY <3>6, <4>1, RoundWalks
    <3>9. Passed(u, at[m - 1]) \in Nat /\ Passed(u, at[m]) >= Passed(u, at[m - 1]) + 1
          /\ Passed(u, at[m]) \in Nat
      <4>1. /\ at[m - 1].kpt \in Nat \ {0} /\ at[m - 1].upt \in 1 .. Len(u) + 1
            /\ at[m].kpt \in Nat \ {0} /\ at[m].upt \in 1 .. Len(u) + 1
        BY <1>12, <3>7
      <4> QED BY <1>1, <3>8, <4>1, PassedGrows
    <3> QED BY <3>2, <3>4, <3>5, <3>6, <3>9
  <2> QED BY <2>1
<1> DEFINE s == at[N]
<1>14. s \in S /\ N \in D
  BY <1>2, <1>11
<1>15. s.kpt > Len(known)
  <2> SUFFICES ASSUME ~(s.kpt > Len(known)) PROVE FALSE
    OBVIOUS
  <2>1. Passed(u, s) >= N
    BY <1>13, <1>14
  <2> HIDE DEF s
  <2>2. s.kpt \in Nat \ {0} /\ s.upt \in 1 .. Len(u) + 1 /\ s.kpt <= Len(known)
    BY <1>1, <1>12, <1>14
  <2> DEFINE w == Len(u) + 1
             a == s.kpt - 1
             i == s.upt - 1
             l == Len(known)
  <2>3. w \in Nat /\ a \in Nat /\ a + 1 \in Nat /\ i \in Nat /\ i < w /\ l \in Nat /\ a + 1 <= l
    BY <1>1, <2>2
  <2>4. Passed(u, s) = a * w + i /\ N = l * w
    BY <1>2 DEF Passed
  <2> HIDE DEF w, a, i, l
  <2>5. (a + 1) * w <= l * w /\ (a + 1) * w = a * w + w /\ a * w \in Nat /\ l * w \in Nat
    BY <2>3, TimesMonotone
  <2>6. PICK x \in Nat, y \in Nat : x = a * w /\ y = l * w
    BY <2>5
  <2>7. x + w <= y /\ x + i >= y
    BY <2>1, <2>4, <2>5, <2>6
  <2> QED BY <2>3, <2>6, <2>7
<1>16. Len(s.done) = Ends(known)
  <2> HIDE DEF s
  <2>1. Walking(known, u, s) /\ Ends(known) \in Nat /\ s.kpt \in Nat /\ Len(s.done) \in Nat
    BY <1>1, <1>12, <1>14, NoEndNoCell
  <2>2. ASSUME Len(s.done) # Ends(known) PROVE FALSE
    <3>1. Len(s.done) < Ends(known) /\ s.kpt \in Base(known, Len(s.done)) .. EndOf(known, Len(s.done) + 1)
      BY <2>1, <2>2 DEF Walking
    <3>2. EndOf(known, Len(s.done) + 1) \in 1 .. Len(known)
      BY <1>1, <2>1, <3>1, DocPlace
    <3> QED BY <1>1, <1>15, <2>1, <3>1, <3>2
  <2> QED BY <2>2
<1>17. Len(DocsIn(known)) = Ends(known)
  BY <1>1, NoEndNoCell DEF DocsIn, Ends, Zeros
<1> QED
  <2>1. TwoFinger(known, u) = s.done
    BY <1>10
  <2> HIDE DEF s
  <2>2. \A n \in 1 .. Len(s.done) : Exact(s.done[n], DocsIn(known)[n], u)
    BY <1>12, <1>14 DEF Walking
  <2> QED BY <1>16, <1>17, <2>1, <2>2

\* What is in order step by step is in order.
LEMMA DocsAreRows ==
  ASSUME NEW d \in Docs
  PROVE  /\ d \in SortedRows
         /\ Promoted(d) \in SortedRows /\ Promoted(d) \in Seq(Nat \cap Cells)
<1>1. d \in Seq(Nat) /\ d \in Seq(Cells \cap Nat) /\ Len(d) \in Nat /\ \A i \in 1 .. Len(d) : d[i] \in Nat \cap Cells
  BY DocsAssumption
<1>2. \A j \in 1 .. Len(d) - 1 : d[j] <= d[j + 1]
  BY SortedAssumption
<1>3. ASSUME NEW i \in 1 .. Len(d), NEW k \in 1 .. Len(d), i <= k, ~(d[i] <= d[k]) PROVE FALSE
  <2> DEFINE Bad == {j \in i .. Len(d) : ~(d[i] <= d[j])}
  <2>1. PICK m \in Bad : \A l \in Bad : m <= l
    <3>1. Bad \subseteq Nat /\ Bad # {}
      BY <1>3
    <3> HIDE DEF Bad
    <3> QED BY <3>1, LeastOfSet
  <2>2. m \in i .. Len(d) /\ ~(d[i] <= d[m])
    OBVIOUS
  <2>3. m # i
    BY <1>1, <2>2
  <2>4. m - 1 \in i .. Len(d) /\ m - 1 \in 1 .. Len(d) - 1 /\ m - 1 + 1 = m /\ m \in 1 .. Len(d)
    BY <1>1, <2>2, <2>3
  <2>5. d[i] <= d[m - 1]
    BY <2>1, <2>4
  <2>6. d[m - 1] <= d[m]
    BY <1>2, <2>4
  <2>7. d[i] \in Nat /\ d[m - 1] \in Nat /\ d[m] \in Nat
    BY <1>1, <2>4
  <2> QED BY <2>2, <2>5, <2>6, <2>7
<1>4. d \in SortedRows
  BY <1>1, <1>3 DEF SortedRows
<1>5. Promoted(d) = [j \in 1 .. Len(d) |-> Promote(d[j])]
  BY DEF Promoted
<1>6. \A j \in 1 .. Len(d) : Promote(d[j]) \in Nat \cap Cells
  BY <1>1, PromotedAssumption DEF Promote
<1>7. Promoted(d) \in Seq(Nat \cap Cells) /\ Promoted(d) \in Seq(Nat) /\ Len(Promoted(d)) = Len(d)
  BY <1>1, <1>5, <1>6
<1>8. \A i, j \in 1 .. Len(d) : i <= j => Promoted(d)[i] <= Promoted(d)[j]
  <2> SUFFICES ASSUME NEW i \in 1 .. Len(d), NEW j \in 1 .. Len(d), i <= j
               PROVE  Promote(d[i]) <= Promote(d[j])
    BY <1>5
  <2>1. d[i] <= d[j] /\ d[i] \in Nat /\ d[j] \in Nat
    BY <1>1, <1>3
  <2> QED BY <2>1 DEF Promote
<1> QED BY <1>4, <1>7, <1>8 DEF SortedRows

\* Every document in a class was learned.
KnownDocs == \A c \in Classes : \A n \in 1 .. Len(DocsIn(CellsOf(c))) :
  DocsIn(CellsOf(c))[n] \in {Promoted(d) : d \in Docs}

LEMMA DocsAreSeq ==
  ASSUME TextInv, NEW c \in Classes
  PROVE  /\ CellsOf(c) \in Text /\ EndsInSentinel(CellsOf(c))
         /\ Len(DocsIn(CellsOf(c))) = Ends(CellsOf(c)) /\ Ends(CellsOf(c)) \in Nat
         /\ DocsIn(CellsOf(c)) = [n \in 1 .. Ends(CellsOf(c)) |-> DocsIn(CellsOf(c))[n]]
<1>1. CellsOf(c) \in Text /\ EndsInSentinel(CellsOf(c))
  BY CellsAreText DEF TextInv
<1>2. Ends(CellsOf(c)) \in Nat
  BY <1>1, NoEndNoCell
<1> DEFINE known == CellsOf(c)
           Piece(n) == SubSeq(known, IF n = 1 THEN 1 ELSE EndOf(known, n - 1) + 1, EndOf(known, n) - 1)
<1>3. DocsIn(known) = [n \in 1 .. Ends(known) |-> Piece(n)]
  BY DEF DocsIn, Ends, Zeros
<1>4. /\ DocsIn(known) = [n \in 1 .. Ends(known) |-> DocsIn(known)[n]]
      /\ Len(DocsIn(known)) = Ends(known)
  <2> HIDE DEF known, Piece
  <2> QED BY <1>2, <1>3 DEF known
<1> QED BY <1>1, <1>2, <1>4

LEMMA KnownDocsStep == TextInv /\ KnownDocs /\ [Next]_vars => KnownDocs'
<1> SUFFICES ASSUME TextInv, KnownDocs, [Next]_vars PROVE KnownDocs'
  OBVIOUS
<1>1. CASE \A b \in Classes : CellsOf(b)' = CellsOf(b)
  BY <1>1 DEF KnownDocs
<1>2. ASSUME NEW c \in Classes, NEW d \in Docs,
             DocsIn(CellsOf(c))' = Append(DocsIn(CellsOf(c)), Promoted(d)),
             \A b \in Classes : b # c => CellsOf(b)' = CellsOf(b)
      PROVE  KnownDocs'
  <2>1. ASSUME NEW b \in Classes, NEW n \in 1 .. Len(DocsIn(CellsOf(b))')
        PROVE  DocsIn(CellsOf(b))'[n] \in {Promoted(e) : e \in Docs}
    <3>1. CASE b # c
      <4>1. DocsIn(CellsOf(b))' = DocsIn(CellsOf(b))
        BY <1>2, <3>1
      <4> QED BY <2>1, <4>1 DEF KnownDocs
    <3>2. CASE b = c
      <4> DEFINE s == DocsIn(CellsOf(c))
                 t == DocsIn(CellsOf(c))'
                 p == Promoted(d)
                 z == Ends(CellsOf(c))
                 P == {Promoted(e) : e \in Docs}
      <4>1. s = [m \in 1 .. z |-> s[m]] /\ z \in Nat /\ Len(s) = z
        BY DocsAreSeq
      <4>2. \A m \in 1 .. z : s[m] \in P
        BY <4>1 DEF KnownDocs
      <4>3. t = Append(s, p) /\ p \in P /\ n \in 1 .. Len(t)
        BY <1>2, <2>1, <3>2
      <4> HIDE DEF s, t, p, z, P
      <4>4. s \in Seq(P)
        BY <4>1, <4>2
      <4>5. t[n] \in P
        BY <4>3, <4>4
      <4> QED BY <3>2, <4>5 DEF P, t
    <3> QED BY <3>1, <3>2
  <2> QED BY <2>1 DEF KnownDocs
<1> QED BY <1>1, <1>2, StepOfDocs

\* In a class of learned documents no match is missed.
LEMMA KnownDocsScoreExactly ==
  ASSUME TextInv, KnownDocs
  PROVE  ScoresAreExact
<1> SUFFICES ASSUME NEW c \in Classes, NEW u \in Unknowns
             PROVE  LET known == CellsOf(c)
                        docs == DocsIn(known)
                        scores == TwoFinger(known, u)
                    IN  /\ Len(scores) = Len(docs)
                        /\ \A n \in 1 .. Len(docs) :
                             /\ scores[n].kandu = Shared(docs[n], u)
                             /\ scores[n].kandu + scores[n].knotu - 1 = Len(docs[n])
  BY DEF ScoresAreExact
<1>1. u \in SortedRows /\ u # <<>>
  BY DocsAreRows DEF Unknowns
<1>2. OfSortedRows(CellsOf(c))
  BY DocsAreSeq, DocsAreRows DEF OfSortedRows, KnownDocs
<1> QED BY <1>1, <1>2, TwoFingerIsExact DEF Exact

(***************************************************************************)
(* Comparing an unknown document with a class gives one score for each of  *)
(* its documents: exactly the features they share, repeats counted, and    *)
(* every other feature of the known document as a miss. It holds of every  *)
(* class that can be learned and of every unknown document with a feature. *)
(***************************************************************************)
THEOREM TwoFingersMissNothing ==
  DataSize >= NumBlocks => (Spec => []ScoresAreExact)
<1> SUFFICES ASSUME DataSize >= NumBlocks
             PROVE  Spec => []ScoresAreExact
  OBVIOUS
<1>1. Init => TextInv /\ KnownDocs
  <2> SUFFICES ASSUME Init PROVE TextInv /\ KnownDocs
    OBVIOUS
  <2>1. TextInv /\ \A c \in Classes : DocsIn(CellsOf(c)) = <<>>
    BY TextInvInit
  <2> QED BY <2>1 DEF KnownDocs
<1>2. TextInv /\ KnownDocs /\ [Next]_vars => TextInv' /\ KnownDocs'
  BY StepOfDocs, KnownDocsStep
<1>3. TextInv /\ KnownDocs => ScoresAreExact
  BY KnownDocsScoreExactly
<1> QED BY <1>1, <1>2, <1>3, PTL DEF Spec

-----------------------------------------------------------------------------
(* Arithmetic modulo 2^w.                                                  *)

\* Reducing a summand first changes nothing in the sum.
LEMMA SumModulo ==
  ASSUME NEW a \in Nat, NEW b \in Nat, NEW m \in Nat \ {0}
  PROVE  a % m \in 0 .. m - 1 /\ ((a % m) + b) % m = (a + b) % m
<1>1. a % m \in 0 .. m - 1 /\ a = m * (a \div m) + (a % m) /\ a \div m \in Int
  OBVIOUS
<1> DEFINE q == a \div m
           s == (a % m) + b
           t == s \div m
<1>2. s \in Int /\ s % m \in 0 .. m - 1 /\ s = m * t + (s % m) /\ t \in Int /\ q \in Int
  <2>1. s \in Int
    BY <1>1
  <2> HIDE DEF s
  <2> QED BY <1>1, <2>1
<1>3. m * q + m * t = m * (q + t) /\ m * q \in Int /\ m * t \in Int
  BY <1>2
<1> DEFINE r == s % m
           p == a % m
<1>4. s = p + b /\ p \in 0 .. m - 1 /\ r \in 0 .. m - 1 /\ a = m * q + p /\ s = m * t + r
  BY <1>1, <1>2
<1> HIDE DEF s, t, q, r, p
<1>5. a + b = m * (q + t) + r
  <2>1. PICK x \in Int, y \in Int, z \in Int : x = m * q /\ y = m * t /\ z = m * (q + t) /\ x + y = z
    BY <1>2, <1>3
  <2>2. a = x + p /\ s = y + r /\ s = p + b
    BY <1>4, <2>1
  <2>3. a + b = z + r
    BY <1>4, <2>1, <2>2
  <2> QED BY <2>1, <2>3
<1>6. (m * (q + t) + r) % m = r
  <2>1. PICK x \in Int : x = q + t
    BY <1>2
  <2>2. (m * x + r) % m = r
    BY <1>4
  <2> QED BY <2>1, <2>2
<1>7. (a + b) % m = r
  BY <1>5, <1>6
<1> QED BY <1>1, <1>7 DEF r, s, p

-----------------------------------------------------------------------------
(* Words.                                                                  *)

\* The place that is looked for exists, so it is what it should be.
LEMMA FirstFromIs ==
  ASSUME NEW text, Len(text) \in Nat, NEW at \in 0 .. Len(text), NEW graphic \in BOOLEAN
  PROVE  /\ FirstFrom(text, at, graphic) \in at .. Len(text)
         /\ FirstFrom(text, at, graphic) = Len(text)
              \/ (text[FirstFrom(text, at, graphic) + 1] \in Graphic <=> graphic)
         /\ \A m \in at .. FirstFrom(text, at, graphic) - 1 : ~(text[m + 1] \in Graphic <=> graphic)
<1> DEFINE Is(n) == n = Len(text) \/ (text[n + 1] \in Graphic) = graphic
           S == {n \in at .. Len(text) : Is(n)}
<1>1. S \subseteq Nat /\ Len(text) \in S
  OBVIOUS
<1>2. PICK n \in S : \A m \in S : n <= m
  <2> HIDE DEF S
  <2> QED BY <1>1, LeastOfSet
<1>3. n \in at .. Len(text) /\ Is(n)
  OBVIOUS
<1>4. \A m \in at .. n - 1 : m \in at .. Len(text) /\ ~(n <= m)
  BY <1>3
<1>5. \A m \in at .. n - 1 : (text[m + 1] \in Graphic) # graphic
  <2> SUFFICES ASSUME NEW m \in at .. n - 1, (text[m + 1] \in Graphic) = graphic PROVE FALSE
    OBVIOUS
  <2>1. m \in S
    BY <1>4
  <2> HIDE DEF S
  <2> QED BY <1>2, <1>4, <2>1
<1> DEFINE P(k) == Is(k) /\ \A m \in at .. k - 1 : (text[m + 1] \in Graphic) # graphic
<1>6. P(n)
  BY <1>3, <1>5
<1>7. FirstFrom(text, at, graphic) = CHOOSE k \in at .. Len(text) : P(k)
  BY DEF FirstFrom
<1> HIDE DEF P
<1>8. P(FirstFrom(text, at, graphic)) /\ FirstFrom(text, at, graphic) \in at .. Len(text)
  BY <1>3, <1>6, <1>7
<1> QED BY <1>8 DEF P

\* A place where no word goes on: the start, the end, or before a gap.
Between(text, at) == at \in 0 .. Len(text) /\ (at = 0 \/ at = Len(text) \/ text[at + 1] \notin Graphic)

\* The starts up to a place.
StartsTo(text, at) == {q \in Starts(text) : q <= at}

\* A text has finitely many words, and no more start up to a place than it has
\* characters up to there.
LEMMA StartsCount ==
  ASSUME NEW text, Len(text) \in Nat, NEW a \in Int
  PROVE  /\ IsFiniteSet(Starts(text)) /\ Cardinality(Starts(text)) \in Nat
         /\ IsFiniteSet(StartsTo(text, a)) /\ Cardinality(StartsTo(text, a)) \in Nat
         /\ a \in Nat => Cardinality(StartsTo(text, a)) <= a
         /\ Cardinality(StartsTo(text, a)) <= Cardinality(Starts(text))
<1>1. IsFiniteSet(1 .. Len(text))
  BY FS_Interval
<1>2. Starts(text) \in SUBSET (1 .. Len(text)) /\ StartsTo(text, a) \in SUBSET Starts(text)
  BY DEF Starts, StartsTo
<1>3. IsFiniteSet(Starts(text)) /\ IsFiniteSet(StartsTo(text, a))
  BY <1>1, <1>2, FS_Subset
<1>4. a \in Nat => Cardinality(StartsTo(text, a)) <= a
  <2> SUFFICES ASSUME a \in Nat PROVE Cardinality(StartsTo(text, a)) <= a
    OBVIOUS
  <2>1. IsFiniteSet(1 .. a) /\ Cardinality(1 .. a) = a
    BY FS_Interval
  <2>2. StartsTo(text, a) \in SUBSET (1 .. a)
    BY <1>2 DEF StartsTo
  <2> QED BY <2>1, <2>2, FS_Subset
<1> QED BY <1>2, <1>3, <1>4, FS_Subset, FS_CardinalityType

\* The n-th start is the one with n starts up to it.
LEMMA StartIs ==
  ASSUME NEW text, Len(text) \in Nat, NEW s \in Starts(text)
  PROVE  Start(text, Cardinality(StartsTo(text, s))) = s
<1> DEFINE n == Cardinality(StartsTo(text, s))
<1>1. s \in Nat /\ s \in Int
  BY DEF Starts
<1>2. ASSUME NEW q \in Starts(text), q # s, Cardinality(StartsTo(text, q)) = n
      PROVE  FALSE
  <2>1. q \in Nat /\ q \in Int
    BY DEF Starts
  <2>2. ASSUME NEW a \in Starts(text), NEW b \in Starts(text), a \in Int, b \in Int, a < b
        PROVE  Cardinality(StartsTo(text, a)) # Cardinality(StartsTo(text, b))
    <3>1. StartsTo(text, a) \in SUBSET StartsTo(text, b)
      BY <2>2 DEF StartsTo, Starts
    <3>2. b \in StartsTo(text, b) /\ b \notin StartsTo(text, a)
      BY <2>2 DEF StartsTo
    <3> QED BY <2>2, <3>1, <3>2, StartsCount, FS_Subset
  <2>3. q < s \/ s < q
    BY <1>1, <1>2, <2>1
  <2> QED BY <1>1, <1>2, <2>1, <2>2, <2>3
<1>3. \A q \in Starts(text) : Cardinality({p \in Starts(text) : p <= q}) = n <=> q = s
  BY <1>2 DEF StartsTo
<1> HIDE DEF n
<1>4. Start(text, n) = CHOOSE q \in Starts(text) : q = s
  BY <1>3 DEF Start
<1> QED BY <1>4 DEF n

\* From a place between words, either there is no word any more, or there is
\* exactly one start up to the end of the next word, which is that word's.
LEMMA NextWord ==
  ASSUME NEW text, Len(text) \in Nat, NEW at, Between(text, at)
  PROVE  LET n == Cardinality(StartsTo(text, at))
             e == WordEnd(text, at)
         IN  /\ Word(text, at) = <<>> => n = Cardinality(Starts(text))
             /\ Word(text, at) # <<>> =>
                  /\ Between(text, e) /\ e > at
                  /\ Cardinality(StartsTo(text, e)) = n + 1
                  /\ Word(text, at) = WordAt(text, Start(text, n + 1))
                  /\ \E a, b \in 1 .. Len(text) : Word(text, at) = SubSeq(text, a, b)
<1> DEFINE n == Cardinality(StartsTo(text, at))
           L == Len(text)
           s == WordStart(text, at)
           e == WordEnd(text, at)
<1>1. /\ at \in 0 .. L /\ at \in Nat
      /\ at = 0 \/ at = L \/ text[at + 1] \notin Graphic
      /\ n \in Nat
  BY StartsCount DEF Between
<1>2. /\ s \in at .. L
      /\ s = L \/ text[s + 1] \in Graphic
      /\ \A m \in at .. s - 1 : text[m + 1] \notin Graphic
  <2> HIDE DEF L
  <2> QED BY <1>1, FirstFromIs DEF WordStart, L
<1>3. /\ e \in s .. L
      /\ e = L \/ text[e + 1] \notin Graphic
      /\ \A m \in s .. e - 1 : text[m + 1] \in Graphic
  <2>1. s \in 0 .. Len(text)
    BY <1>1, <1>2
  <2>2. WordEnd(text, at) = FirstFrom(text, s, FALSE)
    BY DEF WordEnd
  <2> HIDE DEF L, s, e
  <2>3. /\ FirstFrom(text, s, FALSE) \in s .. Len(text)
        /\ FirstFrom(text, s, FALSE) = Len(text) \/ (text[FirstFrom(text, s, FALSE) + 1] \in Graphic <=> FALSE)
        /\ \A m \in s .. FirstFrom(text, s, FALSE) - 1 : ~(text[m + 1] \in Graphic <=> FALSE)
    BY <2>1, FirstFromIs
  <2> QED BY <2>2, <2>3 DEF L, e
<1>4. Word(text, at) = SubSeq(text, s + 1, e)
  BY DEF Word
<1> HIDE DEF s, e, n
<1>5. Word(text, at) = <<>> <=> s = e
  <2>1. s \in 0 .. Len(text) /\ e \in s .. Len(text)
    BY <1>1, <1>2, <1>3
  <2> QED BY <1>4, <2>1
<1>6. \A m \in at + 1 .. s : m \notin Starts(text)
  <2> SUFFICES ASSUME NEW m \in at + 1 .. s PROVE text[m] \notin Graphic
    BY DEF Starts
  <2>1. m - 1 \in at .. s - 1 /\ m - 1 + 1 = m
    BY <1>1, <1>2
  <2> QED BY <1>2, <2>1
<1>7. CASE s = e
  <2>1. s = L
    BY <1>2, <1>3, <1>7
  <2>2. StartsTo(text, at) = Starts(text)
    BY <1>1, <1>6, <2>1 DEF StartsTo, Starts
  <2> QED BY <1>5, <1>7, <2>2 DEF n
<1>8. CASE s # e
  <2>1. s \in 0 .. L - 1 /\ s + 1 \in 1 .. L /\ e \in s + 1 .. L /\ text[s + 1] \in Graphic
    BY <1>1, <1>2, <1>3, <1>8
  <2>2. s + 1 \in Starts(text)
    <3>1. s + 1 > 1 => text[s] \notin Graphic
      <4> SUFFICES ASSUME s > 0 PROVE text[s] \notin Graphic
        BY <2>1
      <4>1. CASE s = at
        BY <1>1, <2>1, <4>1
      <4>2. CASE s # at
        <5>1. s - 1 \in at .. s - 1 /\ s - 1 + 1 = s
          BY <1>1, <1>2, <4>2
        <5> QED BY <1>2, <5>1
      <4> QED BY <4>1, <4>2
    <3>2. s + 1 - 1 = s
      BY <2>1
    <3> QED BY <2>1, <3>1, <3>2 DEF Starts
  <2>3. ASSUME NEW m \in s + 2 .. e PROVE m \notin Starts(text)
    <3>1. m - 2 \in s .. e - 1 /\ m - 2 + 1 = m - 1 /\ m > 1
      BY <1>1, <1>2, <2>1
    <3>2. text[m - 1] \in Graphic
      BY <1>3, <3>1
    <3> QED BY <3>1, <3>2 DEF Starts
  <2>4. /\ StartsTo(text, e) = StartsTo(text, at) \cup {s + 1}
        /\ StartsTo(text, s + 1) = StartsTo(text, at) \cup {s + 1}
        /\ s + 1 \notin StartsTo(text, at)
    <3>1. \A m \in Starts(text) : m \in Int
      BY DEF Starts
    <3>2. ASSUME NEW m \in Starts(text) PROVE (m <= e <=> m <= at \/ m = s + 1) /\ (m <= s + 1 <=> m <= at \/ m = s + 1)
      <4>1. m \in Int /\ m \notin at + 1 .. s /\ m \notin s + 2 .. e
        BY <1>6, <2>3, <3>1
      <4> QED BY <1>1, <1>2, <2>1, <4>1
    <3> QED BY <1>1, <1>2, <2>1, <2>2, <3>2 DEF StartsTo
  <2>5. Cardinality(StartsTo(text, e)) = n + 1 /\ Cardinality(StartsTo(text, s + 1)) = n + 1
    <3>1. IsFiniteSet(StartsTo(text, at))
      BY <1>1, StartsCount
    <3> QED BY <2>4, <3>1, FS_AddElement DEF n
  <2>6. Start(text, n + 1) = s + 1
    BY <2>2, <2>5, StartIs
  <2>7. WordAt(text, s + 1) = SubSeq(text, s + 1, e)
    <3> DEFINE Is(k) == /\ \A m \in s + 1 .. k : text[m] \in Graphic
                        /\ k = Len(text) \/ text[k + 1] \notin Graphic
    <3>1. ASSUME NEW m \in s + 1 .. e PROVE text[m] \in Graphic
      <4>1. m - 1 \in s .. e - 1 /\ m - 1 + 1 = m
        BY <1>1, <1>2, <2>1
      <4> QED BY <1>3, <4>1
    <3>2. e \in s + 1 .. Len(text) /\ Is(e)
      BY <1>3, <2>1, <3>1
    <3>3. ASSUME NEW k \in s + 1 .. Len(text), Is(k) PROVE k = e
      <4>1. k \in Int /\ e \in Int /\ s \in Int /\ L \in Int
        BY <1>1, <1>2, <2>1
      <4>2. CASE k < e
        <5>1. k + 1 \in s + 1 .. e /\ k # Len(text)
          BY <2>1, <4>1, <4>2
        <5> QED BY <3>1, <3>3, <5>1
      <4>3. CASE e < k
        <5>1. e + 1 \in s + 1 .. k /\ e # L
          BY <2>1, <4>1, <4>3
        <5> QED BY <1>3, <3>3, <5>1
      <4> QED BY <4>1, <4>2, <4>3
    <3>4. WordAt(text, s + 1) = SubSeq(text, s + 1, CHOOSE k \in s + 1 .. Len(text) : Is(k))
      BY DEF WordAt
    <3> HIDE DEF Is
    <3>5. (CHOOSE k \in s + 1 .. Len(text) : Is(k)) = e
      BY <3>2, <3>3
    <3> QED BY <3>4, <3>5
  <2>8. Between(text, e) /\ e > at
    BY <1>1, <1>2, <1>3, <2>1 DEF Between
  <2>9. s + 1 \in 1 .. Len(text) /\ e \in 1 .. Len(text)
    BY <1>1, <1>2, <2>1
  <2> QED BY <1>4, <1>5, <1>8, <2>5, <2>6, <2>7, <2>8, <2>9 DEF n, e
<1> QED BY <1>7, <1>8

-----------------------------------------------------------------------------
(* Counting.                                                               *)

\* Sets whose members go one to one are equally large.
LEMMA OneToOne ==
  ASSUME NEW S, NEW T, IsFiniteSet(S), NEW g \in [S -> T],
         \A a, b \in S : g[a] = g[b] => a = b, \A t \in T : \E a \in S : g[a] = t
  PROVE  IsFiniteSet(T) /\ Cardinality(T) = Cardinality(S)
<1>1. g \in Bijection(S, T)
  BY DEF Bijection, Injection, Surjection, IsInjective
<1>2. ExistsBijection(S, T)
  BY <1>1 DEF ExistsBijection
<1> QED BY <1>2, FS_Bijection

\* A feature is in a row finitely often.
LEMMA TimesCount ==
  ASSUME NEW d, Len(d) \in Nat, NEW f
  PROVE  IsFiniteSet({k \in 1 .. Len(d) : d[k] = f}) /\ Times(f, d) \in Nat
<1>1. IsFiniteSet(1 .. Len(d))
  BY FS_Interval
<1>2. {k \in 1 .. Len(d) : d[k] = f} \in SUBSET (1 .. Len(d))
  OBVIOUS
<1>3. IsFiniteSet({k \in 1 .. Len(d) : d[k] = f})
  BY <1>1, <1>2, FS_Subset
<1> QED BY <1>3, FS_CardinalityType DEF Times

\* A feature is in one row and the next as often as in both.
LEMMA TimesOfBoth ==
  ASSUME NEW R, NEW a \in Seq(R), NEW b \in Seq(R), NEW f
  PROVE  Times(f, a \o b) = Times(f, a) + Times(f, b)
<1> DEFINE A == {k \in 1 .. Len(a) : a[k] = f}
           B == {k \in 1 .. Len(b) : b[k] = f}
           C == {k \in Len(a) + 1 .. Len(a) + Len(b) : b[k - Len(a)] = f}
           g == [k \in B |-> k + Len(a)]
<1>1. Len(a) \in Nat /\ Len(b) \in Nat
  OBVIOUS
<1>2. Times(f, a) = Cardinality(A) /\ Times(f, b) = Cardinality(B) /\ IsFiniteSet(A) /\ IsFiniteSet(B)
  BY <1>1, TimesCount DEF Times
<1>3. IsFiniteSet(C) /\ Cardinality(C) = Cardinality(B)
  <2>1. \A k \in B : k + Len(a) \in C
    BY <1>1
  <2>2. g \in [B -> C] /\ \A k, l \in B : g[k] = g[l] => k = l
    BY <1>1, <2>1
  <2>3. ASSUME NEW t \in C PROVE \E k \in B : g[k] = t
    <3>1. t - Len(a) \in B /\ g[t - Len(a)] = t
      BY <1>1
    <3> QED BY <3>1
  <2> HIDE DEF B, C, g
  <2> QED BY <1>2, <2>2, <2>3, OneToOne
<1>4. {k \in 1 .. Len(a \o b) : (a \o b)[k] = f} = A \cup C /\ A \cap C = {}
  <2>1. Len(a \o b) = Len(a) + Len(b)
    OBVIOUS
  <2>2. \A k \in 1 .. Len(a) + Len(b) : (a \o b)[k] = IF k <= Len(a) THEN a[k] ELSE b[k - Len(a)]
    OBVIOUS
  <2> QED BY <1>1, <2>1, <2>2
<1>5. Cardinality(A \cup C) = Cardinality(A) + Cardinality(C)
  <2>1. Cardinality(A \cap C) = 0
    BY <1>4, FS_EmptySet
  <2>2. Cardinality(A) \in Nat /\ Cardinality(C) \in Nat
    BY <1>2, <1>3, FS_CardinalityType
  <2> HIDE DEF A, C
  <2>3. Cardinality(A \cup C) = Cardinality(A) + Cardinality(C) - Cardinality(A \cap C)
    BY <1>2, <1>3, FS_Union
  <2> QED BY <2>1, <2>2, <2>3
<1> HIDE DEF A, B, C
<1> QED BY <1>2, <1>3, <1>4, <1>5 DEF Times

-----------------------------------------------------------------------------
(* A loop over 1 .. n: what its body makes of a state and a number.        *)

IsLoop(g, S, start, F, n) ==
  g \in [0 .. n -> S] /\ g[0] = start /\ \A k \in 1 .. n : g[k] = F[<<k, g[k - 1]>>]

\* Every loop has such a function of its turns.
LEMMA LoopExists ==
  ASSUME NEW S, NEW start \in S, NEW n \in Nat, NEW F \in [(1 .. n) \X S -> S]
  PROVE  \E g : IsLoop(g, S, start, F, n)
<1> DEFINE Is(m, g) == g \in [0 .. m -> S] /\ g[0] = start /\ \A k \in 1 .. m : g[k] = F[<<k, g[k - 1]>>]
           Bad == {m \in 0 .. n : ~ \E g : Is(m, g)}
<1>1. ASSUME Bad # {} PROVE FALSE
  <2>1. PICK m \in Bad : \A l \in Bad : m <= l
    <3>1. Bad \subseteq Nat
      OBVIOUS
    <3> HIDE DEF Bad
    <3> QED BY <1>1, <3>1, LeastOfSet
  <2>2. m \in Nat /\ m <= n /\ ~ \E g : Is(m, g)
    OBVIOUS
  <2>3. m # 0
    <3>1. Is(0, [k \in 0 .. 0 |-> start])
      OBVIOUS
    <3> HIDE DEF Is
    <3> QED BY <2>2, <3>1
  <2>4. m - 1 \in 0 .. n /\ m - 1 \in Nat /\ m - 1 \notin Bad
    <3>1. m - 1 \in 0 .. n /\ m - 1 \in Nat /\ ~(m <= m - 1)
      BY <2>2, <2>3
    <3> HIDE DEF Bad
    <3> QED BY <2>1, <3>1
  <2>5. PICK g : Is(m - 1, g)
    <3> HIDE DEF Is
    <3> QED BY <2>4
  <2> DEFINE h == [k \in 0 .. m |-> IF k = m THEN F[<<m, g[m - 1]>>] ELSE g[k]]
  <2>6. Is(m, h)
    <3>1. \A k \in 0 .. m : k # m => k \in 0 .. m - 1 /\ h[k] = g[k]
      BY <2>2
    <3>2. h[m] = F[<<m, g[m - 1]>>] /\ m - 1 \in 0 .. m - 1 /\ 0 \in 0 .. m - 1 /\ m \in 1 .. n
      BY <2>2, <2>3, <2>4
    <3>3. g[m - 1] \in S /\ F[<<m, g[m - 1]>>] \in S
      BY <2>5, <3>2
    <3>4. \A k \in 0 .. m : h[k] \in S
      BY <2>5, <3>1, <3>2, <3>3
    <3>5. h \in [0 .. m -> S]
      <4>1. h = [k \in 0 .. m |-> h[k]]
        OBVIOUS
      <4> HIDE DEF h
      <4> QED BY <3>4, <4>1
    <3>6. h[0] = start
      BY <2>2, <2>3, <2>5, <3>1
    <3>7. ASSUME NEW k \in 1 .. m PROVE h[k] = F[<<k, h[k - 1]>>]
      <4>1. k - 1 \in 0 .. m /\ k - 1 # m /\ k \in 0 .. m /\ h[k - 1] = g[k - 1]
        BY <2>2, <3>1
      <4>2. CASE k = m
        BY <3>2, <4>1, <4>2
      <4>3. CASE k # m
        <5>1. k \in 1 .. m - 1 /\ h[k] = g[k]
          BY <2>2, <3>1, <4>1, <4>3
        <5> QED BY <2>5, <4>1, <5>1
      <4> QED BY <4>2, <4>3
    <3> HIDE DEF h
    <3> QED BY <3>5, <3>6, <3>7
  <2> HIDE DEF Is, h
  <2> QED BY <2>2, <2>6
<1>2. \E g : Is(n, g)
  <2> HIDE DEF Is
  <2> QED BY <1>1
<1> QED BY <1>2 DEF IsLoop

-----------------------------------------------------------------------------
(* The features of a word.                                                 *)

\* What the pipeline makes of a row is its dot product with the hashes.
LEMMA HashedIsDot ==
  ASSUME PipeLen \in Nat, NEW h, NEW n, NEW row, NEW pipe,
         \A k \in 1 .. PipeLen : pipe[k] \in Nat /\ pipe[k] = Back(h, n, k) /\ row[k] \in Nat
  PROVE  Hashed(pipe, row) = Dot(h, n, row) % TwoToTheW /\ Hashed(pipe, row) \in 0 .. TwoToTheW - 1
<1> DEFINE N == PipeLen
           W == TwoToTheW
           p == [k \in 1 .. N |-> pipe[k] * row[k]]
           BodyI(g) == [k \in 0 .. N |-> IF k = 0 THEN 0 ELSE (g[k - 1] + pipe[k] * row[k]) % W]
           BodyS(g) == [k \in 0 .. N |-> IF k = 0 THEN 0 ELSE g[k - 1] + Back(h, n, k) * row[k]]
           ihash == CHOOSE g : g = BodyI(g)
           sum == CHOOSE g : g = BodyS(g)
<1>1. N \in Nat /\ W \in Nat \ {0}
  BY HashAssumption
<1>2. \A k \in 1 .. N : p[k] \in Nat /\ p[k] = pipe[k] * row[k] /\ p[k] = Back(h, n, k) * row[k]
  OBVIOUS
<1>3. Hashed(pipe, row) = ihash[N] /\ Dot(h, n, row) = sum[N]
  BY DEF Hashed, Dot
<1> DEFINE FI == [x \in (1 .. N) \X Nat |-> (x[2] + p[x[1]]) % W]
           FS == [x \in (1 .. N) \X Nat |-> x[2] + p[x[1]]]
<1>4. \A k \in 0 .. N : k # 0 => k \in 1 .. N /\ k - 1 \in 0 .. N
  BY <1>1
<1>5. ihash = BodyI(ihash)
  <2>1. FI \in [(1 .. N) \X Nat -> Nat]
    <3> HIDE DEF p, N, W
    <3>1. ASSUME NEW x \in (1 .. N) \X Nat PROVE (x[2] + p[x[1]]) % W \in Nat
      <4>1. x[1] \in 1 .. N /\ x[2] \in Nat /\ p[x[1]] \in Nat
        BY <1>2
      <4> QED BY <1>1, <4>1
    <3> QED BY <3>1
  <2>2. PICK g : IsLoop(g, Nat, 0, FI, N)
    <3> HIDE DEF FI, N
    <3> QED BY <1>1, <2>1, LoopExists
  <2>3. g \in [0 .. N -> Nat] /\ g[0] = 0 /\ \A k \in 1 .. N : g[k] = FI[<<k, g[k - 1]>>]
    <3> HIDE DEF FI, N
    <3> QED BY <2>2 DEF IsLoop
  <2>4. \A k \in 1 .. N : g[k] = (g[k - 1] + pipe[k] * row[k]) % W
    <3> SUFFICES ASSUME NEW k \in 1 .. N PROVE g[k] = (g[k - 1] + pipe[k] * row[k]) % W
      OBVIOUS
    <3>1. g[k - 1] \in Nat /\ g[k] = FI[<<k, g[k - 1]>>]
      <4>1. k - 1 \in 0 .. N
        BY <1>1
      <4> HIDE DEF FI, N
      <4> QED BY <2>3, <4>1
    <3>2. FI[<<k, g[k - 1]>>] = (g[k - 1] + p[k]) % W
      <4> HIDE DEF p, N, W
      <4> QED BY <3>1
    <3>3. p[k] = pipe[k] * row[k]
      BY <1>2
    <3> HIDE DEF FI, p
    <3> QED BY <3>1, <3>2, <3>3
  <2>5. \A k \in 0 .. N : g[k] = IF k = 0 THEN 0 ELSE (g[k - 1] + pipe[k] * row[k]) % W
    BY <1>4, <2>3, <2>4
  <2>6. g = BodyI(g)
    <3>1. g = [k \in 0 .. N |-> g[k]]
      BY <2>3
    <3> QED BY <2>5, <3>1
  <2> HIDE DEF BodyI
  <2> QED BY <2>6
<1>6. sum = BodyS(sum)
  <2>1. FS \in [(1 .. N) \X Nat -> Nat]
    <3> HIDE DEF p, N, W
    <3>1. ASSUME NEW x \in (1 .. N) \X Nat PROVE x[2] + p[x[1]] \in Nat
      <4>1. x[1] \in 1 .. N /\ x[2] \in Nat /\ p[x[1]] \in Nat
        BY <1>2
      <4> QED BY <1>1, <4>1
    <3> QED BY <3>1
  <2>2. PICK g : IsLoop(g, Nat, 0, FS, N)
    <3> HIDE DEF FS, N
    <3> QED BY <1>1, <2>1, LoopExists
  <2>3. g \in [0 .. N -> Nat] /\ g[0] = 0 /\ \A k \in 1 .. N : g[k] = FS[<<k, g[k - 1]>>]
    <3> HIDE DEF FS, N
    <3> QED BY <2>2 DEF IsLoop
  <2>4. \A k \in 1 .. N : g[k] = g[k - 1] + Back(h, n, k) * row[k]
    <3> SUFFICES ASSUME NEW k \in 1 .. N PROVE g[k] = g[k - 1] + Back(h, n, k) * row[k]
      OBVIOUS
    <3>1. g[k - 1] \in Nat /\ g[k] = FS[<<k, g[k - 1]>>]
      <4>1. k - 1 \in 0 .. N
        BY <1>1
      <4> HIDE DEF FS, N
      <4> QED BY <2>3, <4>1
    <3>2. FS[<<k, g[k - 1]>>] = g[k - 1] + p[k]
      <4> HIDE DEF p, N, W
      <4> QED BY <3>1
    <3>3. p[k] = Back(h, n, k) * row[k]
      BY <1>2
    <3> HIDE DEF FS, p
    <3> QED BY <3>1, <3>2, <3>3
  <2>5. \A k \in 0 .. N : g[k] = IF k = 0 THEN 0 ELSE g[k - 1] + Back(h, n, k) * row[k]
    BY <1>4, <2>3, <2>4
  <2>6. g = BodyS(g)
    <3>1. g = [k \in 0 .. N |-> g[k]]
      BY <2>3
    <3> QED BY <2>5, <3>1
  <2> HIDE DEF BodyS
  <2> QED BY <2>6
<1> HIDE DEF ihash, sum
<1>7. /\ ihash[0] = 0 /\ sum[0] = 0
      /\ \A k \in 1 .. N : /\ ihash[k] = (ihash[k - 1] + p[k]) % W
                           /\ sum[k] = sum[k - 1] + p[k]
  <2>1. \A k \in 0 .. N : /\ ihash[k] = IF k = 0 THEN 0 ELSE (ihash[k - 1] + pipe[k] * row[k]) % W
                          /\ sum[k] = IF k = 0 THEN 0 ELSE sum[k - 1] + Back(h, n, k) * row[k]
    BY <1>5, <1>6
  <2>2. 0 \in 0 .. N /\ \A k \in 1 .. N : k \in 0 .. N /\ k # 0
    BY <1>1
  <2> HIDE DEF p
  <2> QED BY <1>2, <2>1, <2>2
<1> DEFINE Good(k) == sum[k] \in Nat /\ ihash[k] = sum[k] % W
           Bad == {k \in 0 .. N : ~ Good(k)}
<1> HIDE DEF p, N, W
<1>8. Bad = {}
  <2> SUFFICES ASSUME Bad # {} PROVE FALSE
    OBVIOUS
  <2>1. PICK k \in Bad : \A l \in Bad : k <= l
    <3>1. Bad \subseteq Nat
      BY <1>1
    <3> HIDE DEF Bad
    <3> QED BY <3>1, LeastOfSet
  <2>2. k \in 0 .. N /\ ~ Good(k)
    OBVIOUS
  <2>3. k # 0
    <3>1. 0 % W = 0
      BY <1>1
    <3> QED BY <1>7, <2>2, <3>1
  <2>4. k \in 1 .. N /\ k - 1 \in 0 .. N /\ k - 1 \notin Bad
    <3>1. k \in 1 .. N /\ k - 1 \in 0 .. N /\ ~(k <= k - 1)
      BY <1>1, <2>2, <2>3
    <3> HIDE DEF Bad
    <3> QED BY <2>1, <3>1
  <2>5. sum[k - 1] \in Nat /\ ihash[k - 1] = sum[k - 1] % W
    BY <2>4
  <2>6. ihash[k] = (ihash[k - 1] + p[k]) % W /\ sum[k] = sum[k - 1] + p[k] /\ p[k] \in Nat
    BY <1>2, <1>7, <2>4
  <2>7. ((sum[k - 1] % W) + p[k]) % W = (sum[k - 1] + p[k]) % W
    BY <1>1, <2>5, <2>6, SumModulo
  <2> QED BY <2>2, <2>5, <2>6, <2>7
<1>9. Good(N)
  BY <1>1, <1>8
<1> QED BY <1>1, <1>3, <1>9 DEF N, W

-----------------------------------------------------------------------------
(* The walk over a text.                                                   *)

Words(text) == Cardinality(Starts(text))
Values == 0 .. TwoToTheW - 1
WordsHashed(text) == \A a, b \in 1 .. Len(text) : strnhash(SubSeq(text, a, b)) \in Values

\* The first k words of a text, each with each row, as far as they make f.
ProductsOf(text, k, f) ==
  {p \in (1 .. k) \X (1 .. Phases) : Dot(HashesOf(text), p[1], Coeffs[p[2]]) % TwoToTheW = f}

\* What holds when the walk has k words behind it.
Walked(text, k, s) ==
  /\ Between(text, s.at) /\ Cardinality(StartsTo(text, s.at)) = k
  /\ \A j \in 1 .. PipeLen : s.pipe[j] = Back(HashesOf(text), k, j)
  /\ Len(s.frs) = k * Phases
  /\ \A f : Times(f, s.frs) = Cardinality(ProductsOf(text, k, f))

WalkStates == [at : Nat, pipe : [1 .. PipeLen -> Values], frs : Seq(Values), err : {"MORE", "OK", "FULL"}]

\* What the assumptions say of the matrix and of the word size.
LEMMA Coefficients ==
  /\ Phases \in Nat \ {0} /\ PipeLen \in Nat \ {0} /\ TwoToTheW \in Nat \ {0} /\ Filler \in Values
  /\ \A r \in 1 .. Phases, j \in 1 .. PipeLen : Coeffs[r][j] \in Nat
<1>1. Coeffs \in Seq(Seq(Nat)) /\ Len(Coeffs) >= 1 /\ Len(Coeffs) \in Nat /\ Phases = Len(Coeffs)
  BY CoeffsAssumption DEF Phases
<1>2. \A r \in 1 .. Phases : Coeffs[r] \in Seq(Nat) /\ Len(Coeffs[r]) = PipeLen
  BY <1>1, CoeffsAssumption DEF PipeLen
<1>3. 1 \in 1 .. Phases
  BY <1>1
<1>4. PipeLen \in Nat \ {0}
  BY <1>1, <1>2, <1>3, CoeffsAssumption DEF PipeLen
<1> QED BY <1>1, <1>2, <1>4, HashAssumption DEF Values

\* Another word adds its products, one for each row that makes f of it.
LEMMA ProductsGrow ==
  ASSUME NEW text, NEW k \in Nat, NEW f
  PROVE  /\ IsFiniteSet(ProductsOf(text, k, f)) /\ Cardinality(ProductsOf(text, k, f)) \in Nat
         /\ Cardinality(ProductsOf(text, k + 1, f)) = Cardinality(ProductsOf(text, k, f))
              + Cardinality({r \in 1 .. Phases : Dot(HashesOf(text), k + 1, Coeffs[r]) % TwoToTheW = f})
<1> DEFINE Makes(n, r) == Dot(HashesOf(text), n, Coeffs[r]) % TwoToTheW = f
           P == Phases
           A == {p \in (1 .. k) \X (1 .. P) : Makes(p[1], p[2])}
           R == {r \in 1 .. P : Makes(k + 1, r)}
           B == {p \in {k + 1} \X (1 .. P) : Makes(p[1], p[2])}
           g == [r \in R |-> <<k + 1, r>>]
<1>1. P \in Nat
  BY Coefficients
<1>2. ProductsOf(text, k, f) = A /\ ProductsOf(text, k + 1, f) = {p \in (1 .. k + 1) \X (1 .. P) : Makes(p[1], p[2])}
  BY DEF ProductsOf
<1> HIDE DEF Makes, P
<1>3. {p \in (1 .. k + 1) \X (1 .. P) : Makes(p[1], p[2])} = A \cup B /\ A \cap B = {}
  OBVIOUS
<1>4. IsFiniteSet(A)
  <2>1. IsFiniteSet(1 .. k) /\ IsFiniteSet(1 .. P)
    BY <1>1, FS_Interval
  <2>2. IsFiniteSet((1 .. k) \X (1 .. P))
    BY <2>1, FS_Product
  <2>3. A \in SUBSET ((1 .. k) \X (1 .. P))
    OBVIOUS
  <2> HIDE DEF A
  <2> QED BY <2>2, <2>3, FS_Subset
<1>5. IsFiniteSet(R)
  <2>1. IsFiniteSet(1 .. P) /\ R \in SUBSET (1 .. P)
    BY <1>1, FS_Interval
  <2> HIDE DEF R
  <2> QED BY <2>1, FS_Subset
<1>6. IsFiniteSet(B) /\ Cardinality(B) = Cardinality(R)
  <2>1. g \in [R -> B] /\ \A a, b \in R : g[a] = g[b] => a = b
    OBVIOUS
  <2>2. ASSUME NEW t \in B PROVE \E a \in R : g[a] = t
    <3>1. t[1] = k + 1 /\ t[2] \in 1 .. P /\ t = <<k + 1, t[2]>> /\ Makes(k + 1, t[2])
      OBVIOUS
    <3>2. t[2] \in R /\ g[t[2]] = t
      BY <3>1
    <3> QED BY <3>2
  <2> HIDE DEF R, B, g
  <2> QED BY <1>5, <2>1, <2>2, OneToOne
<1> HIDE DEF A, B, R
<1>7. Cardinality(A \cup B) = Cardinality(A) + Cardinality(B) - Cardinality(A \cap B)
  BY <1>4, <1>6, FS_Union
<1>8. Cardinality(A \cap B) = 0 /\ Cardinality(A) \in Nat /\ Cardinality(B) \in Nat
  BY <1>3, <1>4, <1>6, FS_EmptySet, FS_CardinalityType
<1>9. Cardinality(A \cup B) = Cardinality(A) + Cardinality(R)
  BY <1>6, <1>7, <1>8
<1> QED BY <1>2, <1>3, <1>4, <1>8, <1>9 DEF R, Makes, P

\* The walk begins with no word behind it.
LEMMA OutsetWalked ==
  ASSUME NEW text, Len(text) \in Nat
  PROVE  Outset \in WalkStates /\ Outset.err = "MORE" /\ Walked(text, 0, Outset)
<1>1. /\ Outset.at = 0 /\ Outset.pipe = [j \in 1 .. PipeLen |-> Filler]
      /\ Outset.frs = <<>> /\ Outset.err = "MORE"
  BY DEF Outset, EmptyPipe
<1>2. Outset \in WalkStates
  BY Coefficients DEF Outset, WalkStates, EmptyPipe
<1>3. Between(text, 0) /\ Cardinality(StartsTo(text, 0)) = 0
  <2>1. StartsTo(text, 0) = {}
    BY DEF StartsTo, Starts
  <2> QED BY <2>1, FS_EmptySet DEF Between
<1>4. \A j \in 1 .. PipeLen : Outset.pipe[j] = Back(HashesOf(text), 0, j)
  BY <1>1, Coefficients DEF Back
<1>5. Len(Outset.frs) = 0 * Phases
  BY <1>1, Coefficients
<1>6. ASSUME NEW f PROVE Times(f, Outset.frs) = Cardinality(ProductsOf(text, 0, f))
  <2>1. ProductsOf(text, 0, f) = {} /\ {n \in 1 .. Len(Outset.frs) : Outset.frs[n] = f} = {}
    BY <1>1 DEF ProductsOf
  <2> QED BY <2>1 DEF Times
<1> QED BY <1>1, <1>2, <1>3, <1>4, <1>5, <1>6 DEF Walked

\* A turn of the loop takes another word, for which there is room, or finds
\* that there is none.
LEMMA TurnWalks ==
  ASSUME NEW text, Len(text) \in Nat, WordsHashed(text), NEW k \in Nat,
         NEW s \in WalkStates, s.err = "MORE", Walked(text, k, s)
  PROVE  LET r == Turn(text, Len(text) * Phases, s)
         IN  /\ r \in WalkStates
             /\ \/ r.err = "OK" /\ Walked(text, Words(text), r)
                \/ r.err = "MORE" /\ Walked(text, k + 1, r)
<1> DEFINE w == Word(text, s.at)
           e == WordEnd(text, s.at)
           h == HashesOf(text)
           now == Pushed(s.pipe, strnhash(w))
           new == FeaturesOf(now)
           r == Turn(text, Len(text) * Phases, s)
<1>1. /\ s.at \in Nat /\ s.pipe \in [1 .. PipeLen -> Values] /\ s.frs \in Seq(Values)
      /\ s = [at |-> s.at, pipe |-> s.pipe, frs |-> s.frs, err |-> s.err]
  BY DEF WalkStates
<1>2. /\ Between(text, s.at) /\ Cardinality(StartsTo(text, s.at)) = k
      /\ \A j \in 1 .. PipeLen : s.pipe[j] = Back(h, k, j)
      /\ Len(s.frs) = k * Phases
      /\ \A f : Times(f, s.frs) = Cardinality(ProductsOf(text, k, f))
  BY DEF Walked
<1>3. CASE w = <<>>
  <2>1. k = Words(text)
    BY <1>2, <1>3, NextWord DEF Words
  <2>2. r = [s EXCEPT !.err = "OK"]
    BY <1>3 DEF Turn
  <2>3. r.at = s.at /\ r.pipe = s.pipe /\ r.frs = s.frs /\ r.err = "OK"
    BY <1>1, <2>2
  <2>4. r \in WalkStates
    BY <1>1, <2>2 DEF WalkStates
  <2> HIDE DEF r, h
  <2>5. Walked(text, k, r)
    BY <1>2, <2>3 DEF Walked, h
  <2> QED BY <2>1, <2>3, <2>4, <2>5 DEF r
<1>4. CASE w # <<>>
  <2>1. /\ Between(text, e) /\ e > s.at
        /\ Cardinality(StartsTo(text, e)) = k + 1
        /\ w = WordAt(text, Start(text, k + 1))
        /\ \E a, b \in 1 .. Len(text) : w = SubSeq(text, a, b)
    BY <1>2, <1>4, NextWord
  <2>2. strnhash(w) \in Values
    <3> HIDE DEF w
    <3> QED BY <2>1 DEF WordsHashed
  <2>3. e \in Nat /\ e <= Len(text) /\ k + 1 <= e /\ k + 1 <= Words(text) /\ Words(text) \in Nat
    <3>1. e \in 0 .. Len(text)
      BY <2>1 DEF Between
    <3> HIDE DEF e
    <3> QED BY <2>1, <3>1, StartsCount DEF Words
  <2>4. k + 1 \in 1 .. Words(text) /\ h[k + 1] = strnhash(w)
    <3>1. k + 1 \in 1 .. Words(text)
      BY <2>3
    <3>2. h[k + 1] = strnhash(WordAt(text, Start(text, k + 1)))
      BY <3>1 DEF HashesOf, Words
    <3> QED BY <2>1, <3>1, <3>2
  <2> HIDE DEF w, e, h
  <2>5. now \in [1 .. PipeLen -> Values] /\ \A j \in 1 .. PipeLen : now[j] = Back(h, k + 1, j)
    <3>1. now = [j \in 1 .. PipeLen |-> IF j = 1 THEN strnhash(w) ELSE s.pipe[j - 1]]
      BY <1>1 DEF Pushed
    <3>2. \A j \in 1 .. PipeLen : j # 1 => j - 1 \in 1 .. PipeLen
      BY Coefficients
    <3> HIDE DEF now
    <3>3. ASSUME NEW j \in 1 .. PipeLen PROVE now[j] \in Values /\ now[j] = Back(h, k + 1, j)
      <4>1. CASE j = 1
        BY <2>2, <2>4, <3>1, <4>1 DEF Back
      <4>2. CASE j # 1
        <5>1. j - 1 \in 1 .. PipeLen /\ now[j] = s.pipe[j - 1] /\ s.pipe[j - 1] \in Values
          BY <1>1, <3>1, <3>2, <4>2
        <5>2. s.pipe[j - 1] = Back(h, k, j - 1)
          BY <1>2, <5>1
        <5>3. k - (j - 1) + 1 = k + 1 - j + 1
          BY <4>2, Coefficients
        <5> QED BY <5>1, <5>2, <5>3 DEF Back
      <4> QED BY <4>1, <4>2
    <3> QED BY <3>1, <3>3
  <2> HIDE DEF now
  <2>6. \A i \in 1 .. Phases : new[i] \in Values /\ new[i] = Dot(h, k + 1, Coeffs[i]) % TwoToTheW
    <3> SUFFICES ASSUME NEW i \in 1 .. Phases
                 PROVE  new[i] \in Values /\ new[i] = Dot(h, k + 1, Coeffs[i]) % TwoToTheW
      OBVIOUS
    <3>1. \A j \in 1 .. PipeLen : now[j] \in Nat /\ now[j] = Back(h, k + 1, j) /\ Coeffs[i][j] \in Nat
      BY <2>5, Coefficients DEF Values
    <3>2. new[i] = Hashed(now, Coeffs[i])
      BY DEF FeaturesOf
    <3>3. PipeLen \in Nat
      BY Coefficients
    <3>4. Hashed(now, Coeffs[i]) = Dot(h, k + 1, Coeffs[i]) % TwoToTheW /\ Hashed(now, Coeffs[i]) \in 0 .. TwoToTheW - 1
      BY ONLY <3>1, <3>3, HashedIsDot
    <3> QED BY <3>2, <3>4 DEF Values
  <2>7. new \in Seq(Values) /\ Len(new) = Phases
    <3>1. new = [i \in 1 .. Phases |-> new[i]]
      BY DEF FeaturesOf
    <3>2. Phases \in Nat
      BY Coefficients
    <3> HIDE DEF new
    <3> QED BY <2>6, <3>1, <3>2
  <2> HIDE DEF new
  <2>8. Len(s.frs \o new) = (k + 1) * Phases /\ s.frs \o new \in Seq(Values)
        /\ ~(Len(s.frs) + Phases > Len(text) * Phases)
    <3>1. Phases \in Nat /\ k * Phases \in Nat /\ Len(text) * Phases \in Nat /\ (k + 1) * Phases = k * Phases + Phases
      BY Coefficients
    <3>2. (k + 1) * Phases <= Len(text) * Phases
      <4>1. k + 1 \in Nat /\ k + 1 <= Len(text)
        BY <2>3
      <4> QED BY <3>1, <4>1, TimesMonotone
    <3>3. Len(s.frs \o new) = Len(s.frs) + Len(new) /\ s.frs \o new \in Seq(Values)
      BY <1>1, <2>7
    <3>4. PICK x \in Nat, y \in Nat : x = k * Phases /\ y = Len(text) * Phases /\ (k + 1) * Phases = x + Phases /\ x + Phases <= y
      BY <3>1, <3>2
    <3> QED BY <1>2, <2>7, <3>1, <3>3, <3>4
  <2>9. r = [at |-> e, pipe |-> now, frs |-> s.frs \o new, err |-> "MORE"]
    BY <1>4, <2>8 DEF Turn, e, now, new, w
  <2>10. r \in WalkStates
    <3> HIDE DEF r
    <3> QED BY <2>3, <2>5, <2>8, <2>9 DEF WalkStates
  <2>11. ASSUME NEW f PROVE Times(f, s.frs \o new) = Cardinality(ProductsOf(text, k + 1, f))
    <3>1. Times(f, s.frs \o new) = Times(f, s.frs) + Times(f, new)
      BY <1>1, <2>7, TimesOfBoth
    <3>2. {i \in 1 .. Len(new) : new[i] = f} = {i \in 1 .. Phases : Dot(h, k + 1, Coeffs[i]) % TwoToTheW = f}
      BY <2>6, <2>7
    <3>3. Times(f, new) = Cardinality({i \in 1 .. Phases : Dot(h, k + 1, Coeffs[i]) % TwoToTheW = f})
      BY <3>2 DEF Times
    <3>4. Cardinality(ProductsOf(text, k + 1, f)) = Cardinality(ProductsOf(text, k, f))
            + Cardinality({i \in 1 .. Phases : Dot(h, k + 1, Coeffs[i]) % TwoToTheW = f})
      <4>1. Cardinality(ProductsOf(text, k + 1, f)) = Cardinality(ProductsOf(text, k, f))
              + Cardinality({i \in 1 .. Phases : Dot(HashesOf(text), k + 1, Coeffs[i]) % TwoToTheW = f})
        BY ONLY k \in Nat, ProductsGrow
      <4> QED BY <4>1 DEF h
    <3> QED BY <1>2, <3>1, <3>3, <3>4
  <2>12. r.at = e /\ r.pipe = now /\ r.frs = s.frs \o new /\ r.err = "MORE"
    BY <2>9
  <2> HIDE DEF r
  <2>13. Walked(text, k + 1, r)
    BY <2>1, <2>5, <2>8, <2>11, <2>12 DEF Walked, h
  <2> QED BY <2>10, <2>12, <2>13 DEF r
<1> QED BY <1>3, <1>4

(***************************************************************************)
(* The walk of crm114_vector_tokenize over a text ends with the text, in   *)
(* the room that is made for it, and the features it leaves are all the    *)
(* products of a word and those before it with a row of the matrix, each   *)
(* as often as it occurs.                                                  *)
(***************************************************************************)
THEOREM TokenizedIsAll ==
  ASSUME NEW text, Len(text) \in Nat, WordsHashed(text)
  PROVE  LET t == Tokenized(text, Len(text) * Phases)
         IN  t.err = "OK" /\ t.frs \in Seq(Values) /\ \A f : Times(f, t.frs) = TimesIn(text, f)
<1> DEFINE N == Turns(text)
           room == Len(text) * Phases
           Fine(s) == IF s.err = "MORE" THEN \E k \in Nat : Walked(text, k, s)
                                        ELSE s.err = "OK" /\ Walked(text, Words(text), s)
           S == {s \in WalkStates : Fine(s)}
           F == [x \in (1 .. N) \X S |-> IF x[2].err = "MORE" THEN Turn(text, room, x[2]) ELSE x[2]]
           Body(g) == [k \in 0 .. N |-> IF k = 0 THEN Outset
                         ELSE LET s == g[k - 1] IN IF s.err = "MORE" THEN Turn(text, room, s) ELSE s]
           after == CHOOSE g : g = Body(g)
<1>1. N \in Nat /\ N = Len(text) + 1 /\ Words(text) \in Nat
  BY StartsCount DEF Turns, Words
<1>2. Outset \in S
  BY OutsetWalked
<1>3. ASSUME NEW s \in S, s.err = "MORE" PROVE Turn(text, room, s) \in S
  <2>1. PICK k \in Nat : Walked(text, k, s)
    BY <1>3
  <2>2. s \in WalkStates
    OBVIOUS
  <2>3. /\ Turn(text, room, s) \in WalkStates
        /\ \/ Turn(text, room, s).err = "OK" /\ Walked(text, Words(text), Turn(text, room, s))
           \/ Turn(text, room, s).err = "MORE" /\ Walked(text, k + 1, Turn(text, room, s))
    BY <1>3, <2>1, <2>2, TurnWalks
  <2> DEFINE r == Turn(text, room, s)
  <2>4. r \in WalkStates /\ ((r.err = "OK" /\ Walked(text, Words(text), r)) \/ (r.err = "MORE" /\ Walked(text, k + 1, r)))
    BY ONLY <2>3
  <2> HIDE DEF r
  <2>5. k + 1 \in Nat /\ "OK" # "MORE"
    OBVIOUS
  <2>6. r \in S
    BY <2>4, <2>5
  <2> QED BY <2>6 DEF r, room
<1>4. F \in [(1 .. N) \X S -> S]
  <2> HIDE DEF S, N, room
  <2>1. ASSUME NEW x \in (1 .. N) \X S
        PROVE  (IF x[2].err = "MORE" THEN Turn(text, room, x[2]) ELSE x[2]) \in S
    BY <1>3
  <2> QED BY <2>1
<1>5. PICK g : IsLoop(g, S, Outset, F, N)
  <2> HIDE DEF S, F, N
  <2> QED BY <1>1, <1>2, <1>4, LoopExists
<1>6. g \in [0 .. N -> S] /\ g[0] = Outset /\ \A k \in 1 .. N : g[k] = F[<<k, g[k - 1]>>]
  <2> HIDE DEF S, F, N
  <2> QED BY <1>5 DEF IsLoop
<1>7. \A k \in 1 .. N : /\ k - 1 \in 0 .. N /\ k \in 0 .. N /\ g[k - 1] \in S
                        /\ g[k] = IF g[k - 1].err = "MORE" THEN Turn(text, room, g[k - 1]) ELSE g[k - 1]
  <2> TAKE k \in 1 .. N
  <2>1. k - 1 \in 0 .. N /\ k \in 0 .. N
    BY <1>1
  <2>2. g[k - 1] \in S /\ g[k] = F[<<k, g[k - 1]>>]
    <3> HIDE DEF S, F, N
    <3> QED BY <1>6, <2>1
  <2> HIDE DEF S, N, room
  <2>3. F[<<k, g[k - 1]>>] = IF g[k - 1].err = "MORE" THEN Turn(text, room, g[k - 1]) ELSE g[k - 1]
    BY <2>2
  <2> HIDE DEF F
  <2> QED BY <2>1, <2>2, <2>3
<1> HIDE DEF S, F, N, room
<1>8. g = Body(g)
  <2>1. g = [k \in 0 .. N |-> g[k]]
    BY <1>6
  <2>2. ASSUME NEW k \in 0 .. N
        PROVE  g[k] = IF k = 0 THEN Outset
                      ELSE IF g[k - 1].err = "MORE" THEN Turn(text, room, g[k - 1]) ELSE g[k - 1]
    <3>1. CASE k = 0
      BY <1>6, <3>1
    <3>2. CASE k # 0
      <4>1. k \in 1 .. N
        BY <1>1, <3>2
      <4> QED BY <1>7, <3>2, <4>1
    <3> QED BY <3>1, <3>2
  <2> QED BY <2>1, <2>2
<1>9. after = Body(after)
  <2> HIDE DEF Body
  <2> QED BY <1>8
<1>10. Tokenized(text, room) = after[N]
  BY DEF Tokenized, N
<1> HIDE DEF after
<1>11. after[0] = Outset
       /\ \A k \in 1 .. N : after[k] = IF after[k - 1].err = "MORE" THEN Turn(text, room, after[k - 1]) ELSE after[k - 1]
  <2>1. \A k \in 0 .. N : after[k] = IF k = 0 THEN Outset
                            ELSE IF after[k - 1].err = "MORE" THEN Turn(text, room, after[k - 1]) ELSE after[k - 1]
    BY <1>9
  <2>2. 0 \in 0 .. N /\ \A k \in 1 .. N : k \in 0 .. N /\ k # 0
    BY <1>1
  <2> QED BY <2>1, <2>2
\* After k turns the walk has k words behind it, or is done.
<1> DEFINE Good(k) == /\ after[k] \in WalkStates
                      /\ IF after[k].err = "MORE" THEN Walked(text, k, after[k])
                         ELSE after[k].err = "OK" /\ Walked(text, Words(text), after[k])
           Bad == {k \in 0 .. N : ~ Good(k)}
<1>12. Bad = {}
  <2> SUFFICES ASSUME Bad # {} PROVE FALSE
    OBVIOUS
  <2>1. PICK k \in Bad : \A l \in Bad : k <= l
    <3>1. Bad \subseteq Nat
      BY <1>1
    <3> HIDE DEF Bad
    <3> QED BY <3>1, LeastOfSet
  <2>2. k \in 0 .. N /\ ~ Good(k)
    OBVIOUS
  <2>3. k # 0
    <3>1. Good(0)
      BY <1>11, OutsetWalked
    <3> HIDE DEF Good
    <3> QED BY <2>2, <3>1
  <2>4. k \in 1 .. N /\ k - 1 \in 0 .. N /\ k - 1 \in Nat /\ k - 1 \notin Bad
    <3>1. k \in 1 .. N /\ k - 1 \in 0 .. N /\ k - 1 \in Nat /\ ~(k <= k - 1)
      BY <1>1, <2>2, <2>3
    <3> HIDE DEF Bad
    <3> QED BY <2>1, <3>1
  <2> DEFINE s == after[k - 1]
  <2>5. s \in WalkStates /\ IF s.err = "MORE" THEN Walked(text, k - 1, s)
                            ELSE s.err = "OK" /\ Walked(text, Words(text), s)
    BY <2>4
  <2>6. after[k] = IF s.err = "MORE" THEN Turn(text, room, s) ELSE s
    BY <1>11, <2>4
  <2> HIDE DEF s
  <2>7. CASE s.err # "MORE"
    BY <2>2, <2>5, <2>6, <2>7
  <2>8. CASE s.err = "MORE"
    <3> DEFINE r == Turn(text, Len(text) * Phases, s)
    <3>1. /\ r \in WalkStates
          /\ \/ r.err = "OK" /\ Walked(text, Words(text), r)
             \/ r.err = "MORE" /\ Walked(text, k - 1 + 1, r)
      BY <2>4, <2>5, <2>8, TurnWalks
    <3>2. k - 1 + 1 = k /\ after[k] = r
      BY <2>2, <2>6, <2>8 DEF room
    <3> HIDE DEF r
    <3>3. Good(k)
      BY <3>1, <3>2
    <3> QED BY <2>2, <3>3
  <2> QED BY <2>7, <2>8
<1> DEFINE t == after[N]
<1>13. t \in WalkStates /\ IF t.err = "MORE" THEN Walked(text, N, t) ELSE t.err = "OK" /\ Walked(text, Words(text), t)
  BY <1>1, <1>12
<1> HIDE DEF t
<1>14. t.err # "MORE"
  <2> SUFFICES ASSUME t.err = "MORE" PROVE FALSE
    OBVIOUS
  <2>1. t.at \in 0 .. Len(text) /\ Cardinality(StartsTo(text, t.at)) = N
    BY <1>13 DEF Walked, Between
  <2>2. Cardinality(StartsTo(text, t.at)) <= t.at
    BY <2>1, StartsCount
  <2> QED BY <1>1, <2>1, <2>2
<1>15. ASSUME NEW f PROVE Times(f, t.frs) = TimesIn(text, f)
  <2>1. Times(f, t.frs) = Cardinality(ProductsOf(text, Words(text), f))
    BY <1>13, <1>14 DEF Walked
  <2>2. Len(HashesOf(text)) = Words(text)
    BY <1>1 DEF HashesOf, Words
  <2>3. TimesIn(text, f) = Cardinality(ProductsOf(text, Words(text), f))
    BY <2>2 DEF TimesIn, ProductsOf
  <2> QED BY <2>1, <2>3
<1>16. t.err = "OK" /\ t.frs \in Seq(Values)
  BY <1>13, <1>14 DEF WalkStates
<1> QED BY <1>10, <1>15, <1>16 DEF t, room

-----------------------------------------------------------------------------
(* Sorting and removing repeats.                                           *)

\* The members of a row of numbers.
LEMMA RowOfNats ==
  ASSUME NEW R, R \subseteq Nat, NEW s \in Seq(R), NEW i \in 1 .. Len(s)
  PROVE  s[i] \in R /\ s[i] \in Nat
<1>1. s[i] \in R
  OBVIOUS
<1> QED BY <1>1

InOrder(d) == \A i, j \in 1 .. Len(d) : i <= j => d[i] <= d[j]

\* How many features stand up to one is its place in the order, and every
\* place is taken once.
LEMMA SortedIs ==
  ASSUME NEW R \in SUBSET Nat, NEW fr \in Seq(R)
  PROVE  /\ Sorted(fr) \in Seq(R) /\ InOrder(Sorted(fr))
         /\ \A f : Times(f, Sorted(fr)) = Times(f, fr)
<1> DEFINE L == Len(fr)
           I == 1 .. L
           rank == [i \in I |-> Cardinality(UpTo(fr, i))]
           inv == [m \in I |-> CHOOSE i \in I : Cardinality(UpTo(fr, i)) = m]
<1>1. L \in Nat /\ IsFiniteSet(I) /\ Cardinality(I) = L /\ \A i \in I : i \in Nat /\ fr[i] \in R /\ fr[i] \in Nat
  <2>1. L \in Nat /\ \A i \in I : i \in Nat /\ fr[i] \in R /\ fr[i] \in Nat
    <3>1. L \in Nat /\ \A i \in I : i \in Nat
      OBVIOUS
    <3>2. \A i \in I : fr[i] \in R
      BY RowOfNats
    <3>3. \A x \in R : x \in Nat
      OBVIOUS
    <3> HIDE DEF I, L
    <3> QED BY <3>1, <3>2, <3>3
  <2> HIDE DEF L
  <2>2. IsFiniteSet(1 .. L) /\ Cardinality(1 .. L) = L
    BY <2>1, FS_Interval
  <2> QED BY <2>1, <2>2
<1>2. \A i \in I : IsFiniteSet(UpTo(fr, i)) /\ Cardinality(UpTo(fr, i)) \in 1 .. L
  <2> SUFFICES ASSUME NEW i \in I PROVE IsFiniteSet(UpTo(fr, i)) /\ Cardinality(UpTo(fr, i)) \in 1 .. L
    OBVIOUS
  <2>1. UpTo(fr, i) \in SUBSET I /\ i \in UpTo(fr, i)
    BY <1>1 DEF UpTo
  <2> HIDE DEF I
  <2>2. IsFiniteSet(UpTo(fr, i)) /\ Cardinality(UpTo(fr, i)) <= L
    BY <1>1, <2>1, FS_Subset
  <2>3. Cardinality(UpTo(fr, i)) \in Nat /\ Cardinality(UpTo(fr, i)) # 0
    BY <2>1, <2>2, FS_EmptySet, FS_CardinalityType
  <2> QED BY <1>1, <2>2, <2>3
<1>3. ASSUME NEW i \in I, NEW j \in I, fr[i] < fr[j] \/ (fr[i] = fr[j] /\ i < j)
      PROVE  Cardinality(UpTo(fr, i)) < Cardinality(UpTo(fr, j))
  <2>1. UpTo(fr, i) \in SUBSET UpTo(fr, j)
    <3> SUFFICES ASSUME NEW m \in UpTo(fr, i) PROVE m \in UpTo(fr, j)
      OBVIOUS
    <3>1. m \in I /\ (fr[m] < fr[i] \/ (fr[m] = fr[i] /\ m <= i))
      BY DEF UpTo
    <3>2. m \in Nat /\ i \in Nat /\ j \in Nat /\ fr[m] \in Nat /\ fr[i] \in Nat /\ fr[j] \in Nat
      BY <1>1, <3>1
    <3>3. fr[m] < fr[j] \/ (fr[m] = fr[j] /\ m <= j)
      BY <1>3, <3>1, <3>2
    <3> QED BY <3>1, <3>3 DEF UpTo
  <2>2. j \in UpTo(fr, j) /\ j \notin UpTo(fr, i)
    BY <1>1, <1>3 DEF UpTo
  <2> QED BY <1>2, <2>1, <2>2, FS_Subset
<1>4. ASSUME NEW i \in I, NEW j \in I, i # j PROVE Cardinality(UpTo(fr, i)) # Cardinality(UpTo(fr, j))
  <2>1. \/ fr[i] < fr[j] \/ (fr[i] = fr[j] /\ i < j)
        \/ fr[j] < fr[i] \/ (fr[j] = fr[i] /\ j < i)
    BY <1>1, <1>4
  <2> QED BY <1>2, <1>3, <2>1
<1> HIDE DEF L
<1>5. rank \in [I -> I] /\ \A i, j \in I : rank[i] = rank[j] => i = j
  BY <1>2, <1>4
<1>6. \A m \in I : \E i \in I : rank[i] = m
  <2> HIDE DEF rank, I
  <2>1. rank \in Injection(I, I)
    BY <1>5 DEF Injection, IsInjective
  <2>2. rank \in Surjection(I, I)
    BY <1>1, <2>1, FS_Injection
  <2> QED BY <2>2 DEF Surjection
<1>7. \A m \in I : inv[m] \in I /\ rank[inv[m]] = m
  <2> SUFFICES ASSUME NEW m \in I PROVE inv[m] \in I /\ rank[inv[m]] = m
    OBVIOUS
  <2>1. \E i \in I : Cardinality(UpTo(fr, i)) = m
    BY <1>6
  <2>2. inv[m] \in I /\ Cardinality(UpTo(fr, inv[m])) = m
    BY <2>1
  <2> HIDE DEF inv
  <2> QED BY <2>2
<1>8. inv \in [I -> I] /\ \A m, n \in I : inv[m] = inv[n] => m = n
  <2>1. inv \in [I -> I]
    <3>1. inv = [m \in I |-> inv[m]]
      OBVIOUS
    <3> HIDE DEF inv, rank, I
    <3> QED BY <1>7, <3>1
  <2> HIDE DEF inv, rank, I
  <2> QED BY <1>7, <2>1
<1>9. Sorted(fr) = [m \in I |-> fr[inv[m]]]
  BY DEF Sorted, L
<1> DEFINE out == Sorted(fr)
<1>10. out \in Seq(R) /\ Len(out) = L /\ \A m \in I : out[m] = fr[inv[m]]
  <2> HIDE DEF inv
  <2>1. \A m \in I : fr[inv[m]] \in R
    BY <1>1, <1>8
  <2> QED BY <1>1, <1>9, <2>1
<1> HIDE DEF inv, out
<1>11. InOrder(out)
  <2> SUFFICES ASSUME NEW m \in I, NEW n \in I, m <= n PROVE out[m] <= out[n]
    BY <1>10 DEF InOrder
  <2>1. inv[m] \in I /\ inv[n] \in I /\ rank[inv[m]] = m /\ rank[inv[n]] = n
    BY <1>7
  <2>2. rank[inv[m]] = Cardinality(UpTo(fr, inv[m])) /\ rank[inv[n]] = Cardinality(UpTo(fr, inv[n]))
    BY <2>1
  <2>3. m \in Nat /\ n \in Nat /\ fr[inv[m]] \in Nat /\ fr[inv[n]] \in Nat
    BY <1>1, <2>1
  <2> HIDE DEF rank
  <2>4. ~(fr[inv[n]] < fr[inv[m]])
    <3> SUFFICES ASSUME fr[inv[n]] < fr[inv[m]] PROVE FALSE
      OBVIOUS
    <3>1. Cardinality(UpTo(fr, inv[n])) < Cardinality(UpTo(fr, inv[m]))
      BY <1>3, <2>1
    <3>2. n < m
      BY <2>1, <2>2, <3>1
    <3> QED BY <2>3, <3>2
  <2> QED BY <1>10, <2>3, <2>4
<1>12. ASSUME NEW f PROVE Times(f, out) = Times(f, fr)
  <2> DEFINE A == {m \in I : out[m] = f}
             B == {i \in I : fr[i] = f}
             g == [m \in A |-> inv[m]]
  <2>1. Times(f, out) = Cardinality(A) /\ Times(f, fr) = Cardinality(B)
    BY <1>10 DEF Times, L
  <2>2. IsFiniteSet(A)
    <3>1. A \in SUBSET I
      OBVIOUS
    <3> HIDE DEF A, I
    <3> QED BY <1>1, <3>1, FS_Subset
  <2>3. g \in [A -> B] /\ \A a, b \in A : g[a] = g[b] => a = b
    <3>1. \A m \in A : m \in I /\ inv[m] \in B
      BY <1>7, <1>10
    <3> HIDE DEF A, B, I
    <3> QED BY <1>8, <3>1
  <2>4. ASSUME NEW i \in B PROVE \E a \in A : g[a] = i
    <3> DEFINE m == rank[i]
    <3>1. i \in I /\ fr[i] = f /\ m \in I
      BY <1>5
    <3> HIDE DEF m
    <3>2. inv[m] = i
      <4>1. inv[m] \in I /\ rank[inv[m]] = m
        BY <1>7, <3>1
      <4> HIDE DEF rank, I
      <4> QED BY <1>5, <3>1, <4>1 DEF m
    <3>3. m \in A
      BY <1>10, <3>1, <3>2
    <3>4. g[m] = i
      BY <3>2, <3>3
    <3> QED BY <3>3, <3>4
  <2> HIDE DEF A, B, g
  <2> QED BY <2>1, <2>2, <2>3, <2>4, OneToOne
<1> QED BY <1>10, <1>11, <1>12 DEF out

\* One more feature at the end of a row.
LEMMA TimesAppended ==
  ASSUME NEW R, NEW d \in Seq(R), NEW x \in R, NEW f
  PROVE  Times(f, Append(d, x)) = IF x = f THEN Times(f, d) + 1 ELSE Times(f, d)
<1> DEFINE L == Len(d)
           t == Append(d, x)
           A == {k \in 1 .. L : d[k] = f}
<1>1. L \in Nat /\ Len(t) = L + 1 /\ \A k \in 1 .. L + 1 : t[k] = IF k = L + 1 THEN x ELSE d[k]
  OBVIOUS
<1>2. IsFiniteSet(A) /\ Times(f, d) = Cardinality(A)
  BY <1>1, TimesCount DEF Times
<1>3. Times(f, t) = Cardinality({k \in 1 .. L + 1 : t[k] = f})
  BY <1>1 DEF Times
<1> HIDE DEF t, L
<1>4. {k \in 1 .. L + 1 : t[k] = f} = (IF x = f THEN A \cup {L + 1} ELSE A) /\ L + 1 \notin A
  BY <1>1
<1> HIDE DEF A
<1> QED BY <1>2, <1>3, <1>4, FS_AddElement DEF t

\* In a row in order equal features are neighbours, so that comparing each
\* with the last one that stayed keeps one of every feature.
LEMMA WithoutRepeatsIs ==
  ASSUME NEW R \in SUBSET Nat, NEW fr \in Seq(R), InOrder(fr)
  PROVE  /\ WithoutRepeats(fr) \in Seq(R) /\ InOrder(WithoutRepeats(fr))
         /\ \A f : Times(f, WithoutRepeats(fr)) = IF Times(f, fr) = 0 THEN 0 ELSE 1
<1> DEFINE N == Len(fr)
           Next1(q, x) == IF q # <<>> /\ q[Len(q)] = x THEN q ELSE Append(q, x)
           F == [y \in (1 .. N) \X Seq(R) |-> Next1(y[2], fr[y[1]])]
           Body(g) == [n \in 0 .. N |->
                         IF n = 0 THEN <<>>
                         ELSE IF g[n - 1] # <<>> /\ g[n - 1][Len(g[n - 1])] = fr[n] THEN g[n - 1]
                         ELSE Append(g[n - 1], fr[n])]
           kept == CHOOSE g : g = Body(g)
<1>1. N \in Nat /\ \A n \in 1 .. N : n \in Nat /\ fr[n] \in R /\ fr[n] \in Nat
  <2>1. N \in Nat /\ \A n \in 1 .. N : n \in Nat
    OBVIOUS
  <2>2. \A n \in 1 .. N : fr[n] \in R
    BY RowOfNats
  <2>3. \A x \in R : x \in Nat
    OBVIOUS
  <2> HIDE DEF N
  <2> QED BY <2>1, <2>2, <2>3
<1> HIDE DEF N
<1>2. F \in [(1 .. N) \X Seq(R) -> Seq(R)]
  <2>1. ASSUME NEW y \in (1 .. N) \X Seq(R) PROVE Next1(y[2], fr[y[1]]) \in Seq(R)
    <3>1. y[2] \in Seq(R) /\ fr[y[1]] \in R
      BY <1>1
    <3> QED BY <3>1
  <2> HIDE DEF Next1
  <2> QED BY <2>1
<1>3. PICK g : IsLoop(g, Seq(R), <<>>, F, N)
  <2>1. <<>> \in Seq(R)
    OBVIOUS
  <2> HIDE DEF F
  <2> QED BY <1>1, <1>2, <2>1, LoopExists
<1>4. g \in [0 .. N -> Seq(R)] /\ g[0] = <<>> /\ \A n \in 1 .. N : g[n] = Next1(g[n - 1], fr[n])
  <2>1. g \in [0 .. N -> Seq(R)] /\ g[0] = <<>> /\ \A n \in 1 .. N : g[n] = F[<<n, g[n - 1]>>]
    <3> HIDE DEF F
    <3> QED BY <1>3 DEF IsLoop
  <2>2. ASSUME NEW n \in 1 .. N PROVE g[n] = Next1(g[n - 1], fr[n])
    <3>1. n - 1 \in 0 .. N
      BY <1>1
    <3>2. g[n - 1] \in Seq(R) /\ g[n] = F[<<n, g[n - 1]>>]
      <4> HIDE DEF F
      <4> QED BY <2>1, <3>1
    <3> HIDE DEF Next1
    <3> QED BY <3>2
  <2> HIDE DEF F, Next1
  <2> QED BY <2>1, <2>2
<1>5. g = Body(g)
  <2>1. g = [n \in 0 .. N |-> g[n]]
    BY <1>4
  <2>2. \A n \in 0 .. N : g[n] = IF n = 0 THEN <<>> ELSE Next1(g[n - 1], fr[n])
    <3>1. \A n \in 0 .. N : n # 0 => n \in 1 .. N
      BY <1>1
    <3> HIDE DEF Next1
    <3> QED BY <1>4, <3>1
  <2> QED BY <2>1, <2>2
<1>6. kept = Body(kept)
  <2> HIDE DEF Body
  <2> QED BY <1>5
<1>7. WithoutRepeats(fr) = kept[N]
  BY DEF WithoutRepeats, N
<1> HIDE DEF kept
<1>8. kept[0] = <<>> /\ \A n \in 1 .. N : kept[n] = Next1(kept[n - 1], fr[n])
  <2>1. \A n \in 0 .. N : kept[n] = IF n = 0 THEN <<>> ELSE Next1(kept[n - 1], fr[n])
    BY <1>6
  <2>2. 0 \in 0 .. N /\ \A n \in 1 .. N : n \in 0 .. N /\ n # 0
    BY <1>1
  <2> HIDE DEF Next1
  <2> QED BY <2>1, <2>2
<1> DEFINE Good(n) == /\ kept[n] \in Seq(R) /\ InOrder(kept[n])
                      /\ n # 0 => kept[n] # <<>> /\ kept[n][Len(kept[n])] = fr[n]
                      /\ n = 0 => kept[n] = <<>>
                      /\ \A f : Times(f, kept[n]) = IF \E i \in 1 .. n : fr[i] = f THEN 1 ELSE 0
           Bad == {n \in 0 .. N : ~ Good(n)}
<1>9. Bad = {}
  <2> SUFFICES ASSUME Bad # {} PROVE FALSE
    OBVIOUS
  <2>1. PICK n \in Bad : \A l \in Bad : n <= l
    <3>1. Bad \subseteq Nat
      BY <1>1
    <3> HIDE DEF Bad
    <3> QED BY <3>1, LeastOfSet
  <2>2. n \in 0 .. N /\ ~ Good(n)
    OBVIOUS
  <2>3. n # 0
    <3>1. Good(0)
      <4>1. \A f : Times(f, <<>>) = 0
        <5> TAKE f
        <5>1. {k \in 1 .. Len(<<>>) : <<>>[k] = f} = {}
          OBVIOUS
        <5> QED BY <5>1, FS_EmptySet DEF Times
      <4>2. <<>> \in Seq(R) /\ InOrder(<<>>)
        BY DEF InOrder
      <4> QED BY <1>8, <4>1, <4>2
    <3> HIDE DEF Good
    <3> QED BY <2>2, <3>1
  <2>4. n \in 1 .. N /\ n - 1 \in 0 .. N /\ n - 1 \in Nat /\ n \in Nat /\ n - 1 \notin Bad
    <3>1. n \in 1 .. N /\ n - 1 \in 0 .. N /\ n - 1 \in Nat /\ n \in Nat /\ ~(n <= n - 1)
      BY <1>1, <2>2, <2>3
    <3> HIDE DEF Bad
    <3> QED BY <2>1, <3>1
  <2>5. PICK q : q = kept[n - 1]
    OBVIOUS
  <2>6. PICK x : x = fr[n]
    OBVIOUS
  <2>7. /\ q \in Seq(R) /\ InOrder(q) /\ x \in R /\ x \in Nat
        /\ n # 1 => q # <<>> /\ q[Len(q)] = fr[n - 1] /\ n - 1 \in 1 .. N
        /\ n = 1 => q = <<>>
        /\ \A f : Times(f, q) = IF \E i \in 1 .. n - 1 : fr[i] = f THEN 1 ELSE 0
    <3>1. Good(n - 1)
      BY <2>4
    <3>2. x \in R /\ x \in Nat /\ (n # 1 => n - 1 # 0 /\ n - 1 \in 1 .. N) /\ (n = 1 => n - 1 = 0)
      BY <1>1, <2>4, <2>6
    <3> QED BY <2>5, <3>1, <3>2
  <2>8. kept[n] = IF q # <<>> /\ q[Len(q)] = x THEN q ELSE Append(q, x)
    BY <1>8, <2>4, <2>5, <2>6
  <2>9. \A f : (\E i \in 1 .. n : fr[i] = f) <=> (x = f \/ \E i \in 1 .. n - 1 : fr[i] = f)
    <3>1. \A i \in 1 .. n : i = n \/ i \in 1 .. n - 1
      BY <2>4
    <3>2. n \in 1 .. n /\ \A i \in 1 .. n - 1 : i \in 1 .. n
      BY <2>4
    <3> QED BY <2>6, <3>1, <3>2
  <2>10. CASE q # <<>> /\ q[Len(q)] = x
    <3>1. n # 1 /\ fr[n - 1] = x /\ n - 1 \in 1 .. n - 1
      BY <2>4, <2>7, <2>10
    <3>2. \A f : x = f => \E i \in 1 .. n - 1 : fr[i] = f
      BY <3>1
    <3>3. kept[n] = q
      BY <2>8, <2>10
    <3>4. Good(n)
      BY <2>3, <2>6, <2>7, <2>9, <2>10, <3>2, <3>3
    <3> QED BY <2>2, <3>4
  <2>11. CASE ~(q # <<>> /\ q[Len(q)] = x)
    <3> DEFINE t == Append(q, x)
    <3>1. kept[n] = t
      BY <2>8, <2>11
    <3>2. /\ t \in Seq(R) /\ t # <<>> /\ Len(q) \in Nat /\ Len(t) = Len(q) + 1 /\ t[Len(t)] = x
          /\ \A k \in 1 .. Len(t) : t[k] = IF k = Len(t) THEN x ELSE q[k]
      BY <2>7
    <3>3. \A k \in 1 .. Len(q) : q[k] \in Nat /\ q[k] <= x
      <4> SUFFICES ASSUME NEW k \in 1 .. Len(q) PROVE q[k] \in Nat /\ q[k] <= x
        OBVIOUS
      <4>0. q[k] \in Nat
        BY <2>7, RowOfNats
      <4>1. q # <<>> /\ q[k] \in Nat /\ Len(q) \in 1 .. Len(q) /\ k <= Len(q)
        BY <2>7, <3>2, <4>0
      <4>2. n # 1 /\ q[Len(q)] = fr[n - 1] /\ n - 1 \in 1 .. N /\ n - 1 <= n
        BY <2>4, <2>7, <4>1
      <4>3. fr[n - 1] <= x /\ fr[n - 1] \in Nat
        <5>1. N = Len(fr)
          BY DEF N
        <5> QED BY <1>1, <2>4, <2>6, <4>2, <5>1 DEF InOrder
      <4>4. q[k] <= q[Len(q)]
        BY <2>7, <4>1 DEF InOrder
      <4> QED BY <2>7, <4>1, <4>2, <4>3, <4>4
    <3> HIDE DEF t
    <3>4. InOrder(t)
      <4> SUFFICES ASSUME NEW i \in 1 .. Len(t), NEW j \in 1 .. Len(t), i <= j PROVE t[i] <= t[j]
        BY DEF InOrder
      <4>1. CASE j = Len(t)
        <5>1. t[j] = x
          BY <3>2, <4>1
        <5>2. i # Len(t) => i \in 1 .. Len(q) /\ t[i] = q[i]
          BY <3>2
        <5>3. i = Len(t) => t[i] = x
          BY <3>2
        <5> QED BY <2>7, <3>3, <5>1, <5>2, <5>3
      <4>2. CASE j # Len(t)
        <5>1. i \in 1 .. Len(q) /\ j \in 1 .. Len(q) /\ t[i] = q[i] /\ t[j] = q[j]
          BY <3>2, <4>2
        <5> QED BY <2>7, <5>1 DEF InOrder
      <4> QED BY <4>1, <4>2
    <3>5. \A i \in 1 .. n - 1 : fr[i] # x
      <4> SUFFICES ASSUME NEW i \in 1 .. n - 1, fr[i] = x PROVE FALSE
        OBVIOUS
      <4>1. n # 1 /\ q # <<>> /\ q[Len(q)] = fr[n - 1] /\ n - 1 \in 1 .. N /\ i \in 1 .. N /\ i <= n - 1 /\ n - 1 <= n
        BY <1>1, <2>4, <2>7
      <4>2. fr[n - 1] # x
        BY <2>11, <4>1
      <4>3. fr[i] <= fr[n - 1] /\ fr[n - 1] <= fr[n]
        <5>1. N = Len(fr)
          BY DEF N
        <5> QED BY <2>4, <4>1, <5>1 DEF InOrder
      <4>4. fr[n - 1] \in Nat
        BY <1>1, <4>1
      <4> QED BY <2>6, <2>7, <4>2, <4>3, <4>4
    <3>6. ASSUME NEW f PROVE Times(f, t) = IF \E i \in 1 .. n : fr[i] = f THEN 1 ELSE 0
      <4>1. Times(f, t) = IF x = f THEN Times(f, q) + 1 ELSE Times(f, q)
        BY <2>7, TimesAppended DEF t
      <4>2. x = f => Times(f, q) = 0
        BY <2>7, <3>5
      <4>3. x # f => Times(f, q) = IF \E i \in 1 .. n : fr[i] = f THEN 1 ELSE 0
        BY <2>7, <2>9
      <4>4. x = f => \E i \in 1 .. n : fr[i] = f
        BY <2>9
      <4> QED BY <4>1, <4>2, <4>3, <4>4
    <3>7. Good(n)
      BY <2>3, <2>6, <3>1, <3>2, <3>4, <3>6
    <3> QED BY <2>2, <3>7
  <2> QED BY <2>10, <2>11
<1>10. Good(N)
  <2>1. N \in 0 .. N /\ N \notin Bad
    <3> HIDE DEF Bad, Good
    <3> QED BY <1>1, <1>9
  <2> HIDE DEF Good
  <2> QED BY <2>1
<1>11. ASSUME NEW f PROVE (\E i \in 1 .. N : fr[i] = f) <=> Times(f, fr) # 0
  <2>1. IsFiniteSet({k \in 1 .. Len(fr) : fr[k] = f}) /\ Times(f, fr) = Cardinality({k \in 1 .. Len(fr) : fr[k] = f})
    BY <1>1, TimesCount DEF Times, N
  <2>2. Times(f, fr) = 0 <=> {k \in 1 .. Len(fr) : fr[k] = f} = {}
    BY <2>1, FS_EmptySet
  <2> QED BY <2>2 DEF N
<1> QED BY <1>7, <1>10, <1>11

-----------------------------------------------------------------------------
(* The rows that are learned.                                              *)

\* A feature 0 goes into a document as a 1.
LEMMA PromotedTimes ==
  ASSUME NEW d \in Seq(Nat)
  PROVE  /\ InOrder(d) => InOrder(Promoted(d))
         /\ \A f : f # 0 =>
              Times(f, Promoted(d)) = IF f = 1 THEN Times(0, d) + Times(1, d) ELSE Times(f, d)
<1> DEFINE L == Len(d)
           p == Promoted(d)
           At(f) == {k \in 1 .. L : d[k] = f}
<1>1. /\ L \in Nat /\ p = [k \in 1 .. L |-> Promote(d[k])] /\ Len(p) = L
      /\ \A k \in 1 .. L : d[k] \in Nat
  BY DEF Promoted
<1>2. \A f : IsFiniteSet(At(f)) /\ Times(f, d) = Cardinality(At(f))
  BY <1>1, TimesCount DEF Times
<1>3. \A f : Times(f, p) = Cardinality({k \in 1 .. L : p[k] = f})
  <2> HIDE DEF L, p
  <2> QED BY <1>1 DEF Times
<1>4. ASSUME InOrder(d) PROVE InOrder(p)
  <2> SUFFICES ASSUME NEW i \in 1 .. L, NEW j \in 1 .. L, i <= j PROVE p[i] <= p[j]
    BY <1>1 DEF InOrder
  <2>1. d[i] <= d[j] /\ d[i] \in Nat /\ d[j] \in Nat /\ p[i] = Promote(d[i]) /\ p[j] = Promote(d[j])
    BY <1>1, <1>4 DEF InOrder
  <2> QED BY <2>1 DEF Promote
<1>5. ASSUME NEW f, f # 0
      PROVE  Times(f, p) = IF f = 1 THEN Times(0, d) + Times(1, d) ELSE Times(f, d)
  <2>1. \A k \in 1 .. L : p[k] = f <=> (d[k] = f \/ (f = 1 /\ d[k] = 0))
    BY <1>1, <1>5 DEF Promote
  <2> HIDE DEF L, p
  <2>2. CASE f # 1
    <3>1. {k \in 1 .. L : p[k] = f} = At(f)
      BY <2>1, <2>2
    <3> HIDE DEF At
    <3> QED BY <1>2, <1>3, <2>2, <3>1
  <2>3. CASE f = 1
    <3>1. {k \in 1 .. L : p[k] = f} = At(0) \cup At(1) /\ At(0) \cap At(1) = {}
      BY <2>1, <2>3
    <3> HIDE DEF At
    <3>2. Cardinality(At(0) \cup At(1)) = Cardinality(At(0)) + Cardinality(At(1)) - Cardinality(At(0) \cap At(1))
      BY <1>2, FS_Union
    <3>3. Cardinality(At(0)) \in Nat /\ Cardinality(At(1)) \in Nat /\ Cardinality({}) = 0
      BY <1>2, FS_CardinalityType, FS_EmptySet
    <3>4. Cardinality(At(0) \cap At(1)) = 0
      BY <3>1, <3>3
    <3>5. Times(f, p) = Cardinality(At(0) \cup At(1))
      BY <1>3, <3>1
    <3>6. Times(f, p) = Cardinality(At(0)) + Cardinality(At(1))
      BY <3>2, <3>3, <3>4, <3>5
    <3>7. Times(0, d) = Cardinality(At(0)) /\ Times(1, d) = Cardinality(At(1))
      BY <1>2
    <3> QED BY <2>3, <3>6, <3>7
  <2> QED BY <2>2, <2>3
<1> QED BY <1>4, <1>5

\* The row of a text: in order, every product of a word with a row of the
\* matrix in it, once for each time or, with the flag UNIQUE, just once.
LEMMA RowIs ==
  ASSUME NEW t \in Texts, NEW fl \in FlagSets
  PROVE  /\ Fits[t]
         /\ Row[t][fl] \in Seq(Values) /\ InOrder(Row[t][fl])
         /\ \A f : /\ TimesIn(t, f) \in Nat
                   /\ Times(f, Row[t][fl]) =
                        IF "UNIQUE" \in fl /\ TimesIn(t, f) > 1 THEN 1 ELSE TimesIn(t, f)
<1> DEFINE tok == Tokenized(t, Len(t) * Phases)
           fr == tok.frs
           unique == "UNIQUE" \in fl
           row == Row[t][fl]
<1>1. /\ tok.err = "OK" /\ fr \in Seq(Values)
      /\ \A f : Times(f, fr) = TimesIn(t, f)
  <2>1. Len(t) \in Nat /\ WordsHashed(t)
    BY WordsAssumption DEF WordsHashed, Values
  <2> QED BY <2>1, TokenizedIsAll
<1>2. Fits[t]
  BY <1>1 DEF Fits
<1>3. Values \in SUBSET Nat
  BY Coefficients DEF Values
<1>4. \A f : Times(f, fr) \in Nat
  <2>1. Len(fr) \in Nat
    BY <1>1
  <2> HIDE DEF fr
  <2> QED BY <2>1, TimesCount
<1>5. row = IF unique THEN WithoutRepeats(Sorted(fr)) ELSE Sorted(fr)
  <2>1. row = RowOf("HYPERSPACE", fl, t)
    BY DEF Row
  <2>2. when_su["HYPERSPACE"].sort = "A" /\ when_su["HYPERSPACE"].unique = "U"
    BY DEF when_su
  <2>3. Wanted("A", fl) = TRUE /\ Wanted("U", fl) = unique
    BY DEF Wanted
  <2> QED BY <2>1, <2>2, <2>3 DEF RowOf, feature_sort_unique
<1> HIDE DEF fr, row, unique
<1>6. /\ Sorted(fr) \in Seq(Values) /\ InOrder(Sorted(fr))
      /\ \A f : Times(f, Sorted(fr)) = TimesIn(t, f)
  BY <1>1, <1>3, SortedIs
<1>7. /\ WithoutRepeats(Sorted(fr)) \in Seq(Values) /\ InOrder(WithoutRepeats(Sorted(fr)))
      /\ \A f : Times(f, WithoutRepeats(Sorted(fr))) = IF TimesIn(t, f) = 0 THEN 0 ELSE 1
  BY <1>3, <1>6, WithoutRepeatsIs
<1>8. row \in Seq(Values) /\ InOrder(row)
  BY <1>5, <1>6, <1>7
<1>9. ASSUME NEW f
      PROVE  /\ TimesIn(t, f) \in Nat
             /\ Times(f, row) = IF unique /\ TimesIn(t, f) > 1 THEN 1 ELSE TimesIn(t, f)
  <2> DEFINE n == TimesIn(t, f)
  <2>1. n \in Nat
    BY <1>1, <1>4
  <2>2. Times(f, row) = IF unique THEN (IF n = 0 THEN 0 ELSE 1) ELSE n
    BY <1>5, <1>6, <1>7
  <2> HIDE DEF n
  <2>3. Times(f, row) = IF unique /\ n > 1 THEN 1 ELSE n
    BY <2>1, <2>2
  <2> QED BY <2>1, <2>3 DEF n
<1> QED BY <1>2, <1>8, <1>9 DEF row, unique

\* What is appended for a text is what the pipeline promises of it.
LEMMA PromotedRowIsRow ==
  ASSUME flags \in FlagSets, NEW t \in Texts
  PROVE  IsRowOf(Promoted(Row[t][flags]), t)
<1> DEFINE r == Row[t][flags]
           p == Promoted(r)
<1>1. /\ r \in Seq(Values) /\ InOrder(r)
      /\ \A f : Times(f, r) = IF "UNIQUE" \in flags /\ TimesIn(t, f) > 1 THEN 1 ELSE TimesIn(t, f)
  BY RowIs
<1>2. \A f \in Cells : Times(f, r) = Counted(t, f)
  BY <1>1 DEF Counted, TimesInText
<1> HIDE DEF r
<1>3. r \in Seq(Nat) /\ Len(p) \in Nat
  <2>1. Values \subseteq Nat
    BY Coefficients DEF Values
  <2>2. r \in Seq(Nat)
    <3>1. \A k \in 1 .. Len(r) : r[k] \in Nat
      BY <1>1, <2>1, RowOfNats
    <3>2. Len(r) \in Nat /\ r = [k \in 1 .. Len(r) |-> r[k]]
      BY <1>1
    <3> QED BY <3>1, <3>2
  <2> QED BY <2>2 DEF Promoted
<1>4. InOrder(p) /\ \A f : f # 0 => Times(f, p) = IF f = 1 THEN Times(0, r) + Times(1, r) ELSE Times(f, r)
  BY <1>1, <1>3, PromotedTimes
<1>5. 0 \in Cells /\ 1 \in Cells
  BY CellsAssumption, PromotedAssumption
<1> HIDE DEF p
<1>6. \A j \in 1 .. Len(p) - 1 : p[j] <= p[j + 1]
  BY <1>3, <1>4 DEF InOrder
<1>7. \A f \in Cells \ {0} : Times(f, p) = IF f = 1 THEN Counted(t, 0) + Counted(t, 1) ELSE Counted(t, f)
  BY <1>2, <1>4, <1>5
<1> QED BY <1>6, <1>7 DEF IsRowOf, p, r

-----------------------------------------------------------------------------
(* The documents of a class.                                               *)

\* The documents of a class are the rows of the texts it was taught.
Taught ==
  /\ flags \in FlagSets /\ taught \in [Classes -> Seq(Texts)]
  /\ \A c \in Classes :
       /\ Len(DocsIn(CellsOf(c))) = Len(taught[c])
       /\ \A n \in 1 .. Len(taught[c]) : DocsIn(CellsOf(c))[n] = Promoted(Row[taught[c][n]][flags])

\* The rows of the texts are the documents.
LEMMA RowsAreDocs ==
  ASSUME NEW t \in Texts, NEW fl \in FlagSets
  PROVE  Row[t][fl] \in Docs
BY TextsAssumption

\* A step that leaves the cells of every class alone changes no document.
LEMMA TaughtStays ==
  ASSUME Taught, UNCHANGED <<flags, taught>>, \A b \in Classes : CellsOf(b)' = CellsOf(b)
  PROVE  Taught'
<1>1. \A b \in Classes : DocsIn(CellsOf(b))' = DocsIn(CellsOf(b))
  OBVIOUS
<1> QED BY <1>1 DEF Taught

\* Learning a text puts its row behind the documents of its class.
LEMMA LearnTextAppends ==
  ASSUME TextInv, Taught, NEW c \in Classes, NEW t \in Texts, LearnText(c, t)
  PROVE  /\ TextInv' /\ Taught'
         /\ \E d \in Docs : DocsIn(CellsOf(c))' = Append(DocsIn(CellsOf(c)), Promoted(d))
         /\ \A b \in Classes : b # c => CellsOf(b)' = CellsOf(b)
<1> DEFINE d == Row[t][flags]
           s == DocsIn(CellsOf(c))
           q == taught[c]
           R == [x \in Texts |-> Promoted(Row[x][flags])]
<1>1. d \in Docs /\ Learn(c, d) /\ taught' = [taught EXCEPT ![c] = Append(@, t)] /\ flags' = flags
  BY RowsAreDocs DEF LearnText, Taught
<1>2. Next
  BY <1>1 DEF Next
<1>3. TextInv'
  BY <1>2, StepOfDocs
<1>4. /\ IsAppended(CellsOf(c)', CellsOf(c), Promoted(d))
      /\ \A b \in Classes : b # c => CellsOf(b)' = CellsOf(b)
  BY <1>1, LearnAppends DEF TextInv
<1>5. DocsIn(CellsOf(c)') = Append(s, Promoted(d))
  BY <1>1, <1>4, CellsAreText, PromotedIsEntry, DocsOfAppended DEF TextInv
<1>6. s = [n \in 1 .. Len(s) |-> s[n]] /\ Len(s) \in Nat
  BY DocsAreSeq
<1>7. q \in Seq(Texts) /\ Len(s) = Len(q) /\ \A n \in 1 .. Len(q) : s[n] = R[q[n]]
  BY DEF Taught
<1>8. Promoted(d) = R[t]
  OBVIOUS
<1>9. taught' \in [Classes -> Seq(Texts)] /\ taught'[c] = Append(q, t)
      /\ \A b \in Classes : b # c => taught'[b] = taught[b]
  BY <1>1 DEF Taught
<1> DEFINE s1 == Append(s, Promoted(d))
           q1 == Append(q, t)
<1>10. Len(s1) = Len(q1) /\ \A n \in 1 .. Len(q1) : s1[n] = R[q1[n]]
  <2> HIDE DEF s, q, d, R
  <2>1. Len(q1) = Len(q) + 1 /\ Len(q) \in Nat /\ \A n \in 1 .. Len(q1) : q1[n] = IF n = Len(q) + 1 THEN t ELSE q[n]
    BY <1>7
  <2>2. s \in Seq({s[n] : n \in 1 .. Len(s)})
    BY <1>6
  <2>3. Len(s1) = Len(s) + 1 /\ \A n \in 1 .. Len(s) + 1 : s1[n] = IF n = Len(s) + 1 THEN Promoted(d) ELSE s[n]
    <3> DEFINE S == {s[n] : n \in 1 .. Len(s)} \cup {Promoted(d)}
    <3>1. s \in Seq(S) /\ Promoted(d) \in S
      BY <1>6
    <3> HIDE DEF S
    <3> QED BY <3>1
  <2> QED BY <1>7, <1>8, <2>1, <2>3
<1>11. ASSUME NEW b \in Classes
       PROVE  /\ Len(DocsIn(CellsOf(b)')) = Len(taught'[b])
              /\ \A n \in 1 .. Len(taught'[b]) : DocsIn(CellsOf(b)')[n] = Promoted(Row[taught'[b][n]][flags])
  <2>1. CASE b = c
    <3>1. \A n \in 1 .. Len(q1) : q1[n] \in Texts
      BY <1>7
    <3> QED BY <1>5, <1>9, <1>10, <2>1, <3>1
  <2>2. CASE b # c
    BY <1>4, <1>9, <2>2 DEF Taught
  <2> QED BY <2>1, <2>2
<1>12. Taught'
  BY <1>1, <1>9, <1>11 DEF Taught
<1> QED BY <1>1, <1>3, <1>4, <1>5, <1>12

\* A class gets a document more, and no other class changes.
OneMore(c) ==
  /\ \E d \in Docs : DocsIn(CellsOf(c))' = Append(DocsIn(CellsOf(c)), Promoted(d))
  /\ \A b \in Classes : b # c => CellsOf(b)' = CellsOf(b)

\* The invariant of the classes and their texts, and what a step does.
LEMMA TaughtStep ==
  ASSUME TextInv, Taught, [TextNext]_textVars
  PROVE  /\ TextInv' /\ Taught'
         /\ \/ \E c \in Classes : OneMore(c)
            \/ \A b \in Classes : CellsOf(b)' = CellsOf(b)
<1> DEFINE Done == /\ TextInv' /\ Taught'
                   /\ \/ \E c \in Classes : OneMore(c)
                      \/ \A b \in Classes : CellsOf(b)' = CellsOf(b)
<1>1. ASSUME NEW c \in Classes, NEW t \in Texts, LearnText(c, t) PROVE Done
  BY <1>1, LearnTextAppends DEF OneMore
<1>2. ASSUME UNCHANGED <<flags, taught>>, \A b \in Classes : CellsOf(b)' = CellsOf(b), [Next]_vars
      PROVE  Done
  BY <1>2, StepOfDocs, TaughtStays
<1>3. CASE LearnTextNoMemory
  <2>1. UNCHANGED <<db, sizeUsed, documents, features, flags, taught>>
    BY <1>3 DEF LearnTextNoMemory
  <2>2. \A b \in Classes : CellsOf(b)' = CellsOf(b)
    BY <2>1 DEF CellsOf, Used
  <2>3. TextInv'
    BY <2>1, <2>2 DEF TextInv, RoomInv, IsBlockTable, BlocksApart, EnoughSpace, Used, EndsInSentinel
  <2> QED BY <2>1, <2>2, <2>3, TaughtStays
<1>4. CASE SaveRestore /\ UNCHANGED <<flags, taught>>
  <2>1. \A b \in Classes : CellsOf(b)' = CellsOf(b)
    BY <1>4, SaveRestoreKeepsCells DEF TextInv
  <2> QED BY <1>2, <1>4, <2>1 DEF Next
<1>5. ASSUME NEW c \in -1 .. NumBlocks, NEW fl \in {{}, {"ERASE"}, {"REFUTE"}},
             LearnRefused(c, fl), UNCHANGED <<flags, taught>>
      PROVE  Done
  <2>1. \A b \in Classes : CellsOf(b)' = CellsOf(b)
    BY <1>5 DEF LearnRefused, CellsOf, Used
  <2>2. Next
    BY <1>5 DEF Next
  <2> QED BY <1>2, <1>5, <2>1, <2>2
<1>6. CASE UNCHANGED textVars
  <2>1. UNCHANGED vars /\ UNCHANGED <<flags, taught>>
    BY <1>6 DEF textVars
  <2>2. \A b \in Classes : CellsOf(b)' = CellsOf(b)
    BY <2>1 DEF vars, CellsOf, Used
  <2> QED BY <1>2, <2>1, <2>2
<1> QED BY <1>1, <1>3, <1>4, <1>5, <1>6 DEF TextNext

\* A database that has learned no text holds no document.
LEMMA TaughtInit ==
  ASSUME TextInit, DataSize >= NumBlocks
  PROVE  TextInv /\ Taught
<1>1. Init /\ flags \in FlagSets /\ taught = [c \in Classes |-> <<>>]
  BY DEF TextInit
<1>2. TextInv /\ \A c \in Classes : DocsIn(CellsOf(c)) = <<>>
  BY <1>1, TextInvInit
<1> QED BY <1>1, <1>2 DEF Taught

(***************************************************************************)
(* Every text fits the room made for its features, and a class holds the   *)
(* texts it was taught, in order: each word, with each row of the          *)
(* pipeline's matrix and the words before it, has made its feature, as     *)
(* often as the flags want it, and neither the growth of a block, a failed *)
(* allocation, a refused call nor the text form changes one of them. It    *)
(* holds of every hash, matrix, word size and set of texts.                *)
(***************************************************************************)
THEOREM TextsBecomeDocuments ==
  DataSize >= NumBlocks => (TextSpec => []DocumentsAreTexts)
<1> SUFFICES ASSUME DataSize >= NumBlocks
             PROVE  TextSpec => []DocumentsAreTexts
  OBVIOUS
<1>1. TextInit => TextInv /\ Taught
  BY TaughtInit
<1>2. TextInv /\ Taught /\ [TextNext]_textVars => TextInv' /\ Taught'
  BY TaughtStep
<1>3. TextInv /\ Taught => DocumentsAreTexts
  <2> SUFFICES ASSUME TextInv, Taught PROVE DocumentsAreTexts
    OBVIOUS
  <2>1. \A t \in Texts : Fits[t]
    <3>1. {} \in FlagSets
      BY DEF FlagSets
    <3> QED BY <3>1, RowIs
  <2>2. ASSUME NEW c \in Classes
        PROVE  LET docs == DocsIn(CellsOf(c))
               IN  /\ Len(docs) = Len(taught[c])
                   /\ \A n \in 1 .. Len(docs) : IsRowOf(docs[n], taught[c][n])
    <3>1. /\ Len(DocsIn(CellsOf(c))) = Len(taught[c])
          /\ \A n \in 1 .. Len(taught[c]) : DocsIn(CellsOf(c))[n] = Promoted(Row[taught[c][n]][flags])
      BY DEF Taught
    <3>2. \A n \in 1 .. Len(taught[c]) : taught[c][n] \in Texts
      BY DEF Taught
    <3>3. \A n \in 1 .. Len(taught[c]) : IsRowOf(Promoted(Row[taught[c][n]][flags]), taught[c][n])
      BY <3>2, PromotedRowIsRow DEF Taught
    <3> QED BY <3>1, <3>3
  <2> QED BY <2>1, <2>2 DEF DocumentsAreTexts
<1> QED BY <1>1, <1>2, <1>3, PTL DEF TextSpec

(***************************************************************************)
(* What is proved of a database that learns rows holds of one that learns  *)
(* texts: the blocks stay apart and have the room they need, every known   *)
(* document gets one exact score, and a class is a list of documents to    *)
(* which learning appends.                                                 *)
(***************************************************************************)
THEOREM TextsAreStored ==
  DataSize >= NumBlocks =>
    (TextSpec => /\ []SpaceIsKept
                 /\ []ScoresAreExact
                 /\ ImplementsStore)
<1> SUFFICES ASSUME DataSize >= NumBlocks
             PROVE  TextSpec => /\ []SpaceIsKept
                                /\ []ScoresAreExact
                                /\ ImplementsStore
  OBVIOUS
<1> DEFINE learned == [c \in Classes |-> DocsIn(CellsOf(c))]
<1>1. TextInit => TextInv /\ Taught /\ Store!Init
  <2> SUFFICES ASSUME TextInit PROVE TextInv /\ Taught /\ Store!Init
    OBVIOUS
  <2>1. \A c \in Classes : DocsIn(CellsOf(c)) = <<>>
    BY TextInvInit DEF TextInit
  <2> QED BY <2>1, TaughtInit DEF Store!Init
<1>2. TextInv /\ Taught /\ [TextNext]_textVars => TextInv' /\ Taught' /\ [Store!Next]_learned
  <2> SUFFICES ASSUME TextInv, Taught, [TextNext]_textVars
               PROVE  TextInv' /\ Taught' /\ [Store!Next]_learned
    OBVIOUS
  <2>1. CASE \A b \in Classes : CellsOf(b)' = CellsOf(b)
    <3>1. learned' = learned
      BY <2>1
    <3> QED BY <3>1, TaughtStep
  <2>2. ASSUME NEW c \in Classes, OneMore(c) PROVE Store!Next
    <3>1. PICK d \in Docs : DocsIn(CellsOf(c))' = Append(DocsIn(CellsOf(c)), Promoted(d))
      BY <2>2 DEF OneMore
    <3>2. \A b \in Classes : b # c => DocsIn(CellsOf(b))' = DocsIn(CellsOf(b))
      BY <2>2 DEF OneMore
    <3>3. learned' = [learned EXCEPT ![c] = Append(@, Promoted(d))]
      BY <3>1, <3>2
    <3>4. Store!Learn(c, Promoted(d))
      BY <3>3 DEF Store!Learn
    <3> QED BY <3>4 DEF Store!Next
  <2> QED BY <2>1, <2>2, TaughtStep
<1>3. TextInv => SpaceIsKept
  BY DEF TextInv, RoomInv, SpaceIsKept
<1>4. TextInv /\ Taught => ScoresAreExact
  <2> SUFFICES ASSUME TextInv, Taught PROVE ScoresAreExact
    OBVIOUS
  <2>1. ASSUME NEW c \in Classes, NEW n \in 1 .. Len(DocsIn(CellsOf(c)))
        PROVE  DocsIn(CellsOf(c))[n] \in {Promoted(d) : d \in Docs}
    <3>1. taught[c][n] \in Texts /\ DocsIn(CellsOf(c))[n] = Promoted(Row[taught[c][n]][flags])
      BY DEF Taught
    <3>2. Row[taught[c][n]][flags] \in Docs
      BY <3>1, RowsAreDocs DEF Taught
    <3> QED BY <3>1, <3>2
  <2> QED BY <2>1, KnownDocsScoreExactly DEF KnownDocs
<1> QED BY <1>1, <1>2, <1>3, <1>4, PTL DEF TextSpec, ImplementsStore, Store!Spec
=============================================================================
