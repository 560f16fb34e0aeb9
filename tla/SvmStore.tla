------------------------------ MODULE SvmStore ------------------------------
(***************************************************************************)
(* The support vector machine's examples in the one block of its database  *)
(* (crm114_svm.c, crm114_svm_lib_fncts.c): those that hold the boundary up *)
(* (sv), those learned that do not (old), those not learned yet (new) -    *)
(* and behind the end of what was last written, those that learning only   *)
(* appended.  Every call that changes more than that reads the whole file, *)
(* moves the examples about and writes it anew.                            *)
(*                                                                         *)
(* Which examples hold the boundary up, and how far from it the others     *)
(* lie, is arithmetic: any choice the solver can make is a step.           *)
(*                                                                         *)
(* Definitions named Wrong... are variants with a plausible slip in them.  *)
(***************************************************************************)
EXTENDS DataStream

CONSTANTS
  MapSize,     \* SVM_DEFAULT_MAP_SIZE
  GroomOld,    \* SVM_GROOM_OLD
  ThetaSize,   \* how long a weight vector over n features is
  Allocs,      \* what a new database may allot to the block
  Memory,      \* {TRUE}, or BOOLEAN where realloc may also fail
  Gives,       \* {TRUE}, or BOOLEAN where the solver may also fail
  FlagSets,    \* the combinations of flags used
  Careful,     \* whether the text form is used only where it says all
  MaxExamples, \* bound on the examples in a database
  MaxCount     \* bound on the counts, which forgetting does not lower

ASSUME SvmStoreAssumption ==
  /\ MapSize \in Nat \ {0}
  /\ \A knows \in SUBSET Examples :
       knows # {} => ThetaSize[Cardinality(UNION {Columns(e) : e \in knows})] \in Nat \ {0}
  /\ Allocs \subseteq Nat /\ Memory \in {{TRUE}, BOOLEAN} /\ Gives \in {{TRUE}, BOOLEAN}

VARIABLES
  db,   \* the database
  kept, \* the bag of examples that read back from it
  last, \* history: what the last call was to do, and how it went
  above \* history: what may have left the counts above those of the examples

vars == <<db, kept, last, above>>

\* Examples groomed away are not taken off the counts, and an example with a
\* feature more than once not wholly.
Repeats(e) == Cardinality(Columns(e)) # Len(e.doc)

-----------------------------------------------------------------------------
svm_block_init ==
  [theta |-> None, num |-> 0, sv |-> <<>>, old |-> <<>>, new |-> <<>>,
   n_old |-> 0, counts |-> NoCounts, map_size |-> MapSize]

Rows(b) == b.sv \o b.old \o b.new

\* The map of vectors, doubled until every row has a place.
MapFor(b) == DoubledTo(b.map_size, Len(Rows(b)))

block_size(b) ==
  1 + MapFor(b) + (1 + RoomFor(IF b.theta = None THEN 1 ELSE b.theta.size))
    + 1 + 1 + RowsSize(b.sv) + 1 + RowsSize(b.old) + RowsSize(b.new)

(***************************************************************************)
(* write_svm_db_dsp: header, map, weight vector, number of examples, then  *)
(* the rows; header and map once more when the places are known.           *)
(***************************************************************************)
HeaderOf(b) ==
  [kind |-> "header", size |-> 1, end |-> 0, old |-> 0, new |-> 0,
   n_new |-> Len(b.new), n_old |-> b.n_old, has_solution |-> b.theta # None,
   counts |-> b.counts, map_size |-> MapFor(b)]

MapThing(b, at) == [kind |-> "map", size |-> MapFor(b), at |-> at]

MatrixThing(rows) == [kind |-> "matrix", size |-> 1, rows |-> Len(rows)]

Things(b) ==
  <<HeaderOf(b), MapThing(b, <<>>)>> \o ThetaThings(b.theta)
    \o <<[kind |-> "number", size |-> 1, n |-> b.num], MatrixThing(b.sv)>> \o RowThings(b.sv)
    \o <<MatrixThing(b.old)>> \o RowThings(b.old) \o RowThings(b.new)

Written(b, into) ==
  LET w     == WriteAll(dbopen(into), Things(b))
      end   == w.ds.position
      final == [HeaderOf(b) EXCEPT !.end = end, !.new = end, !.old = w.matrices[2]]
      again == WriteAll(dbseek(w.ds, 0), <<final, MapThing(b, w.rows)>>)
  IN  [into EXCEPT !.data = UpTo(again.ds.data, end)]

(***************************************************************************)
(* read_svm_db_dsp.  The rows of the matrices are where the map says, the  *)
(* old ones only if the header counts any; what was appended follows the   *)
(* end of what was written.                                                *)
(***************************************************************************)
Header(d) ==
  LET fh == FileHeader(d)
  IN  IF fh = None THEN None ELSE IF fh.end < 1 + fh.map_size THEN None ELSE fh

Numbered(d, fh) ==
  LET theta == Here(dbseek(dbopen(d), 1 + fh.map_size))
  IN  AfterTheta(dbseek(dbopen(d), 1 + fh.map_size), theta)

ThetaOf(d, fh) == Here(dbseek(dbopen(d), 1 + fh.map_size))

MatrixRows(thing) == IF thing.kind = "matrix" THEN thing.rows ELSE 0

\* The places the map gives for the sv, old and new rows.
PlacesOf(d, fh) ==
  LET at  == Here(dbseek(dbopen(d), 1)).at
      sv  == IF fh.has_solution THEN MatrixRows(Here(Past(Numbered(d, fh), 1))) ELSE 0
      old == IF fh.n_old # 0 THEN MatrixRows(Here(dbseek(dbopen(d), fh.old))) ELSE 0
  IN  [sv  |-> SubSeq(at, 1, sv),
       old |-> SubSeq(at, sv + 1, sv + old),
       new |-> SubSeq(at, sv + old + 1, sv + old + fh.n_new)]

RowsAt(d, places) == [i \in DOMAIN places |-> Here(dbseek(dbopen(d), places[i]))]

Readable(d) ==
  /\ Header(d) # None
  /\ LET fh == Header(d)
         places == PlacesOf(d, fh)
     IN  /\ fh.has_solution => /\ ThetaOf(d, fh).kind = "theta"
                               /\ ~ Numbered(d, fh).eof
                               /\ Here(Numbered(d, fh)).kind = "number"
         /\ \A thing \in Range(RowsAt(d, places.sv \o places.old \o places.new)) : IsRow(thing)

read_svm_db(d) ==
  LET fh     == Header(d)
      places == PlacesOf(d, fh)
      rows(p) == [i \in DOMAIN p |-> RowsAt(d, p)[i].row]
      appended == RowsFrom(dbseek(dbopen(d), fh.new), fh.end)
  IN  [theta |-> IF fh.has_solution THEN ThetaOf(d, fh) ELSE None,
       num   |-> IF fh.has_solution THEN Here(Numbered(d, fh)).n ELSE 0,
       sv |-> rows(places.sv), old |-> rows(places.old), new |-> rows(places.new) \o appended,
       n_old |-> fh.n_old, counts |-> fh.counts, map_size |-> fh.map_size]

\* What reads back from the file.
Kept(d) == IF Readable(d) THEN Rows(read_svm_db(d)) ELSE <<>>

WrongHasNewVectors(d) == Header(d) # None /\ Header(d).n_new > 0
has_new_vectors(d) ==
  LET fh == Header(d)
  IN  fh # None /\ (fh.n_new > 0 \/ RowsFrom(dbseek(dbopen(d), fh.new), fh.end) # <<>>)

get_theta_from_svm_db(d) ==
  LET fh == Header(d)
  IN  IF fh = None THEN None ELSE IF fh.has_solution THEN ThetaOf(d, fh) ELSE None

init_block_svm(d) ==
  IF block_size(svm_block_init) <= d.alloc THEN Written(svm_block_init, d) ELSE d

-----------------------------------------------------------------------------
(***************************************************************************)
(* svm_solve: the support vectors join the new rows; the solver picks, out *)
(* of them all, those that hold the new boundary up.                       *)
(***************************************************************************)
Joined(b) == IF b.theta = None THEN b.new ELSE matr_append_matr(b.new, b.sv)

OldExamples(b) == IF b.theta = None THEN 0 ELSE b.num - Len(b.sv)

Solvable(b) ==
  /\ OldExamples(b) >= 0
  /\ Joined(b) # <<>>

Seen(b) == Range(Joined(b)) \cup (IF b.theta = None THEN {} ELSE b.theta.knows)

ThetaFrom(knows) ==
  [kind  |-> "theta",
   size  |-> ThetaSize[Cardinality(UNION {Columns(e) : e \in knows})],
   knows |-> knows]

svm_solve(b) ==
  LET xy == Joined(b)
  IN  {[b EXCEPT !.theta = ThetaFrom(Seen(b)),
                 !.num   = Len(xy) + OldExamples(b),
                 !.sv    = Keep(xy, S),
                 !.new   = Keep(xy, DOMAIN xy \ S)] :
         S \in SUBSET DOMAIN xy \ {{}}}

(***************************************************************************)
(* What svm_learn_new_examples does after solving: old rows that have come *)
(* to the boundary join the support vectors, too many of the others are    *)
(* groomed, and what was new is old.                                       *)
(***************************************************************************)
AtBoundary(b) ==
  {[b EXCEPT !.sv = @ \o Keep(b.old, S), !.old = Keep(b.old, DOMAIN b.old \ S)] :
     S \in SUBSET DOMAIN b.old}

GroomsOld(before, b, microgroom) ==
  microgroom /\ Len(before.old) >= GroomOld /\ Len(b.old) >= GroomOld

NewIsOld(b) ==
  LET old == matr_append_matr(b.old, b.new)
  IN  [b EXCEPT !.old = old, !.new = <<>>, !.n_old = Len(old)]

Counted(b) == [b EXCEPT !.counts = CountAll(@, b.new)]

Done(b, how) == [blk |-> b, how |-> how]

svm_learn_new_examples(b, microgroom) ==
  (IF Solvable(b)
   THEN UNION {{Done(NewIsOld(c), "ok") :
                  c \in {a \in AtBoundary(s) : ~ GroomsOld(b, a, microgroom)}}
               \cup
               UNION {{Done(NewIsOld([a EXCEPT !.old = g]), "groomed") : g \in Groomed(a.old)} :
                  a \in {x \in AtBoundary(s) : GroomsOld(b, x, microgroom)}} :
               s \in svm_solve(Counted(b))}
   ELSE {Done(svm_block_init, IF Rows(b) = <<>> THEN "ok" ELSE "gave up")})
  \cup
  {Done(svm_block_init, "gave up") : fails \in Gives \ {TRUE}}

-----------------------------------------------------------------------------
(***************************************************************************)
(* crm114_learn_features_svm, step by step on a call: the block as read    *)
(* (blk), whether it was (read), whether to learn.                         *)
(***************************************************************************)
Unread == [blk |-> svm_block_init, read |-> FALSE, learn |-> TRUE, fromstart |-> FALSE]

Erases(e, flags) == e # None /\ "erase" \in flags

\* Appending alone is done without reading.
Reads(e, flags) == Erases(e, flags) \/ "fromstart" \in flags \/ "append" \notin flags

Start(e, flags, d) ==
  IF Reads(e, flags) /\ Readable(d)
  THEN [Unread EXCEPT !.blk = read_svm_db(d), !.read = TRUE]
  ELSE Unread

\* Erasing: every row equal to the example goes; if it held the boundary up
\* everything is learned again.
Equal(rows, e) == Len(rows) - Len(WithoutEqual(rows, e))

\* The sum of a vector's numbers, which have the sign of the class.
nfeat(e) == IF e.class = 1 THEN -Len(e.doc) ELSE Len(e.doc)

\* For a row that held the boundary up nfeat is taken off (and zeroed with all
\* counts in FromStart); for another, the number of its columns.
TakenOff(counts, e, sv, old) ==
  [counts EXCEPT ![e.class] =
     [documents |-> @.documents - (sv + old),
      features  |-> @.features - sv * nfeat(e) - old * Cardinality(Columns(e))]]

WrongErasing(c, e) ==
  LET b == c.blk
  IN  [c EXCEPT !.learn = Equal(b.sv, e) > 0, !.fromstart = Equal(b.sv, e) > 0,
                !.blk = [b EXCEPT !.sv = WithoutEqual(@, e), !.old = WithoutEqual(@, e),
                                  !.new = WithoutEqual(@, e)]]
Erasing(c, e) ==
  LET b == c.blk
  IN  [c EXCEPT
         !.learn = Equal(b.sv, e) > 0, !.fromstart = Equal(b.sv, e) > 0,
         !.blk = [b EXCEPT !.sv  = WithoutEqual(@, e),
                           !.old = WithoutEqual(@, e),
                           !.new = WithoutEqual(@, e),
                           !.counts = TakenOff(@, e, Equal(b.sv, e), Equal(b.old, e))]]

\* From the start: all rows are new, nothing is counted.
WrongFromStart(c) ==
  [c EXCEPT !.learn = TRUE,
            !.blk = [@ EXCEPT !.new = matr_append_matr(@, c.blk.old), !.old = <<>>, !.n_old = 0,
                              !.sv = <<>>, !.theta = None, !.num = 0, !.counts = NoCounts]]
FromStart(c) ==
  LET b == c.blk
      new == matr_append_matr(b.new, b.old)
  IN  [c EXCEPT
         !.learn = TRUE,
         !.blk = [b EXCEPT !.new = IF b.theta = None THEN new ELSE matr_append_matr(new, b.sv),
                           !.old = <<>>, !.n_old = 0,
                           !.sv = <<>>, !.theta = None, !.num = 0, !.counts = NoCounts]]

\* The call up to the point where it learns.
Prepared(e, flags, d) ==
  {IF c.fromstart \/ "fromstart" \in flags THEN FromStart(c) ELSE c :
     c \in {IF Erases(e, flags) THEN Erasing(s, e) ELSE s : s \in {Start(e, flags, d)}}}

MayDeny(d, needed) == FALSE \in Memory /\ MustExpand(d, needed)

append_vector_to_svm_db(e, fh) ==
  IF fh = None THEN {[db |-> db, how |-> "ok"]}
  ELSE {[db |-> Appended(db, fh, e), how |-> "ok"]}
       \cup (IF MayDeny(db, fh.end + RowThing(e).size) THEN {[db |-> db, how |-> "denied"]} ELSE {})

\* write_svm_db: what was read is written back, into a larger block if it
\* needs one and there is memory for it.
WriteBack(d, b) ==
  LET needed == block_size(b)
  IN  Written(b, maybe_expand_db(d, needed, (needed * 3) \div 2))

Leaving(did, how) ==
  (IF how = "groomed" THEN {"groomed"} ELSE {})
    \cup (IF did.op = "erase" /\ Repeats(did.e) THEN {"repeated"} ELSE {})

Finish(d, did, how) ==
  /\ db' = d
  /\ kept' = BagOf(Kept(d))
  /\ last' = [did |-> did, how |-> how]
  /\ above' = above \cup Leaving(did, how)

Save(d, b, did, how) ==
  \/ Finish(WriteBack(d, b), did, how)
  \/ MayDeny(d, block_size(b)) /\ Finish(d, did, "denied")

Adds(e, flags) == e # None /\ "erase" \notin flags

Did(e, flags) ==
  [op |-> IF Adds(e, flags) THEN "add" ELSE IF e # None THEN "erase" ELSE "relearn", e |-> e]

Worse(how, other) == IF other = "ok" THEN how ELSE other

Learn(e, flags) ==
  \E a \in IF Adds(e, flags) THEN append_vector_to_svm_db(e, Header(db))
           ELSE {[db |-> db, how |-> "ok"]} :
  \E c \in Prepared(e, flags, a.db) :
    IF c.read /\ c.learn /\ "append" \notin flags
    THEN \E r \in svm_learn_new_examples(c.blk, "microgroom" \in flags) :
           Save([a.db EXCEPT !.cb = r.blk.counts], r.blk, Did(e, flags), Worse(a.how, r.how))
    ELSE IF c.read THEN Save(a.db, c.blk, Did(e, flags), a.how)
    ELSE Finish(a.db, Did(e, flags), a.how)

-----------------------------------------------------------------------------
(***************************************************************************)
(* The written form: counts, which matrices there are, the matrices, the   *)
(* solution.  What the form does not say is as in a new block.             *)
(***************************************************************************)
svm_learned_read_text_fp(b, d) ==
  WriteBack(d, [b EXCEPT !.n_old = 0, !.map_size = MapSize])

NewDatabase(alloc) == init_block_svm([alloc |-> alloc, data |-> <<>>, cb |-> NoCounts])

\* Written out as text and read into a new database.
ThroughText(alloc) ==
  /\ Readable(db)
  /\ \E b \in {read_svm_db(db)}, new \in {NewDatabase(alloc)} :
       Finish([svm_learned_read_text_fp(b, new) EXCEPT !.cb = db.cb],
              [op |-> "text", e |-> None], "ok")

-----------------------------------------------------------------------------
(***************************************************************************)
(* What crm114_classify_features_svm weighs a text with: the weight vector *)
(* in the file, or, if there are examples it does not know yet, one found  *)
(* for this call only.                                                     *)
(***************************************************************************)
Weighing(d) ==
  IF ~ has_new_vectors(d) THEN {get_theta_from_svm_db(d)}
  ELSE IF ~ Readable(d) THEN {None}
  ELSE {r.blk.theta : r \in {s \in UNION {svm_learn_new_examples(b, FALSE) : b \in {read_svm_db(d)}} :
                               s.how # "gave up"}}

-----------------------------------------------------------------------------
Init ==
  /\ \E alloc \in Allocs : db = NewDatabase(alloc)
  /\ kept = BagOf(Kept(db))
  /\ last = [did |-> [op |-> "new", e |-> None], how |-> "ok"]
  /\ above = {}

Room ==
  /\ BagCardinality(kept) < MaxExamples
  /\ Readable(db) =>
       LET b == read_svm_db(db)
       IN  /\ b.num + Len(b.new) < MaxCount
           /\ \A c \in Classes : b.counts[c].documents + Len(b.new) < MaxCount

TextSaysAll == Readable(db) => read_svm_db(db).old = <<>>

Next ==
  \/ \E e \in Examples, flags \in FlagSets : (Adds(e, flags) => Room) /\ Learn(e, flags)
  \/ \E flags \in FlagSets : "erase" \notin flags /\ Learn(None, flags)
  \/ \E alloc \in Allocs : (Careful => TextSaysAll) /\ ThroughText(alloc)

Spec == Init /\ [][Next]_vars

-----------------------------------------------------------------------------
(***************************************************************************)
(* The file holds what it says, and nothing else: written and appended to, *)
(* it lies within the block, reads back whole, has every row exactly once, *)
(* at the place the map gives for it or behind the end, and a solution of  *)
(* at least as many examples as sv and old hold: svm_solve takes fewer for *)
(* a damaged file and drops everything.                                    *)
(***************************************************************************)
FileIsWhole ==
  Header(db) # None =>
    LET fh == Header(db)
        places == PlacesOf(db, fh)
        rows == {p \in DOMAIN db.data : IsRow(db.data[p])}
        b == read_svm_db(db)
    IN  /\ Readable(db)
        /\ fh.end <= db.alloc
        /\ \A p \in DOMAIN db.data : p + db.data[p].size <= fh.end
        /\ Range(places.sv \o places.old \o places.new) = {p \in rows : p < fh.new}
        /\ Cardinality(rows) = Len(Kept(db))
        /\ b.theta # None => b.num >= Len(b.sv) + Len(b.old)

(***************************************************************************)
(* The documents and features counted for a class, every occurrence of a   *)
(* feature for itself, are at least those of the examples learned, through *)
(* appending, erasing, starting over and reading.  The documents are       *)
(* exactly those unless examples were groomed away, and the features       *)
(* unless besides an example was erased that has a feature more than once: *)
(* learning counts it as often as it occurs (nfeat), and erasing takes the *)
(* number of its columns off (nz).                                         *)
(***************************************************************************)
CountsAreLearned ==
  Header(db) # None =>
    LET b == read_svm_db(db)
        real == CountAll(NoCounts, b.sv \o b.old)
    IN  \A c \in Classes :
          /\ Header(db).counts[c].documents >= real[c].documents
          /\ Header(db).counts[c].features >= real[c].features
          /\ "groomed" \notin above => Header(db).counts[c].documents = real[c].documents
          /\ above = {} => Header(db).counts[c].features = real[c].features

(***************************************************************************)
(* "IF WE LEARN, WE LEARN ON ALL EXAMPLES PRESENT": a classify that weighs *)
(* a text weighs it with a vector that knows every example present.        *)
(***************************************************************************)
AnswersFromAll ==
  \A theta \in Weighing(db) :
    IF theta = None THEN kept = EmptyBag ELSE BagToSet(kept) \subseteq theta.knows

(***************************************************************************)
(* Read back from the file, the examples are those learned and not erased: *)
(* the store implements the set of examples.                               *)
(***************************************************************************)
Set == INSTANCE ExampleSet WITH able <- 0 \in DOMAIN db.data, examples <- kept

ImplementsSet == Set!Spec

(***************************************************************************)
(* "It calculates the size that write_svm_db_dsp() would write, which      *)
(* includes some room to grow" (crm114_svm.c:1096): what is in the file    *)
(* takes no more than that.                                                *)
(***************************************************************************)
SizeIsCalculated ==
  Header(db) # None /\ Readable(db) => Header(db).end <= block_size(read_svm_db(db))
=============================================================================
