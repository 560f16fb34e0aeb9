----------------------------- MODULE DataStream -----------------------------
(***************************************************************************)
(* A block of a database used as a file (crm114_datalib.c): a stream with  *)
(* a position and an end, that reads and writes what fits and raises eof   *)
(* when something did not; and what both classifiers that keep their       *)
(* examples in such a block do with it (crm114_svm.c, crm114_pca.c).       *)
(*                                                                         *)
(* A database is [alloc, data, cb]: alloc is allocated_size, data gives    *)
(* for each offset where something begins what it is, and cb the counts    *)
(* the control block shows for each class.  One unit stands for a header,  *)
(* a number or an element of a vector.  What lies behind the size in the   *)
(* file's header is dropped from data.                                     *)
(*                                                                         *)
(* Definitions named Wrong... are variants with a plausible slip in them.  *)
(***************************************************************************)
EXTENDS Integers, Sequences, FiniteSets, Bags, SequencesExt

CONSTANTS
  Examples,    \* what is learned: [class, doc], doc its feature numbers in order
  DefaultSize  \* MATR_DEFAULT_VECTOR_SIZE * sizeof(double)

Garbage == [kind |-> "garbage", size |-> 1]
None == [kind |-> "none", size |-> 0]

ASSUME DataStreamAssumption ==
  /\ None \notin Examples
  /\ \A e \in Examples :
       /\ e.class \in {0, 1} /\ e.doc \in Seq(Nat \ {0}) /\ e.doc # <<>>
       /\ \A i, j \in DOMAIN e.doc : i < j => e.doc[i] <= e.doc[j]
  /\ DefaultSize \in Nat \ {0}

Classes == {0, 1}

Greater(m, n) == IF m > n THEN m ELSE n
Smaller(m, n) == IF m < n THEN m ELSE n

-----------------------------------------------------------------------------
dbopen(db) == [data |-> db.data, size |-> db.alloc, position |-> 0, eof |-> FALSE]

dbseek(ds, offset) ==
  IF offset \in 0 .. ds.size
  THEN [ds EXCEPT !.position = offset, !.eof = FALSE]
  ELSE ds

Fits(ds, n) == ds.position + n <= ds.size

\* What the stream stands at.
Here(ds) ==
  IF ~ Fits(ds, 1) THEN None
  ELSE IF ds.position \in DOMAIN ds.data THEN ds.data[ds.position]
  ELSE Garbage

\* Past a thing of n units, or as far as the file goes.
Past(ds, n) ==
  IF Fits(ds, n) THEN [ds EXCEPT !.position = @ + n]
  ELSE [ds EXCEPT !.position = ds.size, !.eof = TRUE]

dbread(ds) == Past(ds, Here(ds).size)

\* A thing written over what was there; one that does not fit is cut off.
Over(data, from, size, thing) ==
  LET kept == {p \in DOMAIN data : p + data[p].size <= from \/ p >= from + size}
  IN  [p \in kept \cup {from} |-> IF p = from THEN thing ELSE data[p]]

dbwrite(ds, thing) ==
  IF thing.size = 0 THEN ds
  ELSE IF ~ Fits(ds, 1) THEN [ds EXCEPT !.eof = TRUE]
  ELSE LET written == IF Fits(ds, thing.size) THEN thing
                      ELSE [Garbage EXCEPT !.size = ds.size - ds.position]
       IN  [Past(ds, thing.size) EXCEPT
              !.data = Over(@, ds.position, written.size, written)]

\* Things written one after the other; rows and matrices collect where each
\* of them is.
Written1(w, t) ==
  [ds       |-> dbwrite(w.ds, t),
   rows     |-> IF t.kind = "row" THEN Append(w.rows, w.ds.position) ELSE w.rows,
   matrices |-> IF t.kind = "matrix" THEN Append(w.matrices, w.ds.position) ELSE w.matrices]
WriteAll(ds, things) ==
  LET after[k \in 0 .. Len(things)] ==
        IF k = 0 THEN [ds |-> ds, rows |-> <<>>, matrices |-> <<>>]
        ELSE Written1(after[k - 1], things[k])
  IN  after[Len(things)]

-----------------------------------------------------------------------------
(***************************************************************************)
(* An example as a vector: the class in column 0, and in the column of     *)
(* every feature how often it occurs (convert_document), with the sign of  *)
(* the class for the support vector machine.  A feature that occurs again  *)
(* takes no more room.                                                     *)
(***************************************************************************)
Width(e) == e.doc[Len(e.doc)] + 1

Columns(e) == Range(e.doc)

Times(e, f) == Cardinality({i \in DOMAIN e.doc : e.doc[i] = f})

RowThing(e) == [kind |-> "row", size |-> 1 + Cardinality(Columns(e)), row |-> e]

IsRow(thing) == thing.kind = "row"

\* vector_equals: as far as both vectors are wide.
vector_equals(a, b) ==
  LET both == 1 .. Smaller(Width(a), Width(b)) - 1
  IN  a.class = b.class /\ \A f \in both : Times(a, f) = Times(b, f)

RowThings(rows) == [i \in DOMAIN rows |-> RowThing(rows[i])]

RowsSize(rows) ==
  LET size[k \in 0 .. Len(rows)] == IF k = 0 THEN 0 ELSE size[k - 1] + RowThing(rows[k]).size
  IN  size[Len(rows)]

\* The rows that follow from where the stream stands, up to the file's end: a
\* file of n units has no more than n.
RowRead(s, end) ==
  LET here == Here(s.ds)
  IN  IF s.ds.position < end /\ IsRow(here)
      THEN [ds |-> Past(s.ds, here.size), rows |-> Append(s.rows, here.row)]
      ELSE s
RowsFrom(ds, end) ==
  LET after[k \in 0 .. ds.size] == IF k = 0 THEN [ds |-> ds, rows |-> <<>>] ELSE RowRead(after[k - 1], end)
  IN  after[ds.size].rows

\* matr_append_matr takes the rows from the end of the other matrix.
matr_append_matr(to, from) == to \o Reverse(from)

\* The rows whose place is in S, in order.
Keep(rows, S) ==
  LET kept[k \in 0 .. Len(rows)] ==
        IF k = 0 THEN <<>> ELSE IF k \in S THEN Append(kept[k - 1], rows[k]) ELSE kept[k - 1]
  IN  kept[Len(rows)]

WrongWithoutEqual(rows, e) ==
  LET same == {i \in DOMAIN rows : vector_equals(e, rows[i])}
  IN  Keep(rows, {i \in DOMAIN rows : i \in same => \E j \in same : j < i})
WithoutEqual(rows, e) == Keep(rows, {i \in DOMAIN rows : ~ vector_equals(e, rows[i])})

\* Microgrooming keeps nine rows in ten; the others are those furthest
\* from the boundary, which the numbers left out here decide.
Groomed(rows) ==
  {Keep(rows, S) : S \in {T \in SUBSET DOMAIN rows :
                            Cardinality(T) = (Len(rows) * 9) \div 10}}

BagOf(rows) ==
  [e \in Range(rows) |-> Cardinality({i \in DOMAIN rows : rows[i] = e})]

-----------------------------------------------------------------------------
(***************************************************************************)
(* The counts of a class: documents, and features with every occurrence    *)
(* (nfeat).                                                                *)
(***************************************************************************)
NoCounts == [c \in Classes |-> [documents |-> 0, features |-> 0]]

Count(counts, e, times) ==
  [counts EXCEPT ![e.class] =
     [documents |-> @.documents + times,
      features  |-> @.features + times * Len(e.doc)]]

CountAll(counts, rows) ==
  LET counted[k \in 0 .. Len(rows)] == IF k = 0 THEN counts ELSE Count(counted[k - 1], rows[k], 1)
  IN  counted[Len(rows)]

(***************************************************************************)
(* The weight vector, known by the examples it was made from, and the room *)
(* it is given in the file: a vector, the number of bytes left free, and   *)
(* those bytes.  theta_room says how much block_size sets aside for it.    *)
(***************************************************************************)
\* start, doubled until it is n or more.
DoubledTo(start, n) ==
  LET room[k \in 0 .. n] ==
        IF k = 0 THEN start ELSE IF room[k - 1] < n THEN 2 * room[k - 1] ELSE room[k - 1]
  IN  room[n]

RoomFor(n)   == DoubledTo(DefaultSize, n)
RoomAbove(n) == DoubledTo(DefaultSize, n + 1)

ThetaThings(theta) ==
  LET free == (IF theta = None THEN DefaultSize ELSE RoomAbove(theta.size)) - theta.size
  IN  <<theta, [kind |-> "fill", size |-> 1, free |-> free], [kind |-> "zeroes", size |-> free]>>

\* Behind the weight vector and its free room: what follows it.
AfterTheta(ds, theta) ==
  LET atFill == Past(ds, theta.size)
      fill   == Here(atFill)
  IN  IF fill.kind = "fill" THEN dbseek(Past(atFill, 1), atFill.position + 1 + fill.free)
      ELSE [ds EXCEPT !.eof = TRUE]

(***************************************************************************)
(* maybe_expand_db: the whole database moved to a larger piece of memory,  *)
(* unless the block is large enough already.                               *)
(***************************************************************************)
MustExpand(db, needed) == needed > db.alloc

maybe_expand_db(db, needed, expansion) ==
  IF MustExpand(db, needed) THEN [db EXCEPT !.alloc = expansion] ELSE db

\* What lies behind the end is never read.
UpTo(data, end) == [p \in {q \in DOMAIN data : q < end} |-> data[p]]

FileHeader(db) ==
  LET here == Here(dbopen(db))
  IN  IF here.kind = "header" THEN here ELSE None

(***************************************************************************)
(* append_vector_to_svm_db, append_vector_to_pca_db: a new example behind  *)
(* the end of the file.  Nothing happens without a header to go by.        *)
(***************************************************************************)
WrongAppended(db, fh, e) ==
  LET thing == RowThing(e)
      room  == maybe_expand_db(db, fh.end + thing.size, (db.alloc * 11) \div 10)
  IN  [room EXCEPT !.data = Over(Over(@, fh.end, thing.size, thing), 0, 1,
                                 [fh EXCEPT !.end = @ + thing.size])]
Appended(db, fh, e) ==
  LET thing == RowThing(e)
      room  == maybe_expand_db(db, fh.end + thing.size,
                 Greater((db.alloc * 11) \div 10, db.alloc + thing.size))
  IN  [room EXCEPT !.data = Over(Over(@, fh.end, thing.size, thing), 0, 1,
                                 [fh EXCEPT !.end = @ + thing.size])]
=============================================================================
