------------------------------ MODULE PcaStore ------------------------------
(***************************************************************************)
(* The examples of the principal component classifier in the one block of  *)
(* its database (crm114_pca.c, crm114_pca_lib_fncts.c): one matrix, and a  *)
(* flag saying that the weight vector has not seen all of it.  Learning    *)
(* always looks at every example; a weight vector that tells too few of    *)
(* them apart is not accepted, which is arithmetic, and left open here.    *)
(*                                                                         *)
(* Definitions named Wrong... are variants with a plausible slip in them.  *)
(***************************************************************************)
EXTENDS DataStream

CONSTANTS
  GroomOld,    \* PCA_GROOM_OLD
  ThetaSize,   \* how long a weight vector over n features is
  Allocs,      \* what a new database may allot to the block
  Memory,      \* {TRUE}, or BOOLEAN where realloc may also fail
  Gives,       \* {TRUE}, or BOOLEAN where the solver may also fail
  FlagSets,    \* the combinations of flags used
  MaxExamples  \* bound on the examples in a database

ASSUME PcaStoreAssumption ==
  /\ \A knows \in SUBSET Examples :
       knows # {} => ThetaSize[Cardinality(UNION {Columns(e) : e \in knows})] \in Nat \ {0}
  /\ Allocs \subseteq Nat /\ Memory \in {{TRUE}, BOOLEAN} /\ Gives \in {{TRUE}, BOOLEAN}

VARIABLES
  db,      \* the database
  kept,    \* the bag of examples that read back from it
  last,    \* history: what the last call was to do, and how it went
  thinned, \* history: whether examples have been groomed away
  lapse    \* history: how examples came to be neither learned nor marked as new

vars == <<db, kept, last, thinned, lapse>>

-----------------------------------------------------------------------------
pca_block_init == [theta |-> None, x |-> <<>>, has_new |-> FALSE, counts |-> NoCounts]

\* A quarter more than it takes is set aside (PCA_HOLE_FRAC).
WithHole(n) == n + n \div 4

block_size(b) ==
  WithHole(1 + (1 + (IF b.theta = None THEN DefaultSize ELSE RoomAbove(b.theta.size)))
             + 1 + RowsSize(b.x))

(***************************************************************************)
(* pca_write_db_dsp: header, weight vector, the offset that goes with it,  *)
(* the examples; and the header once more.                                 *)
(***************************************************************************)
HeaderOf(b, end) ==
  [kind |-> "header", size |-> 1, end |-> end, has_new |-> b.has_new,
   has_solution |-> b.theta # None, counts |-> b.counts]

Things(b) ==
  <<HeaderOf(b, 0)>> \o ThetaThings(b.theta) \o <<[kind |-> "number", size |-> 1]>>
    \o RowThings(b.x)

Written(b, into) ==
  LET w   == WriteAll(dbopen(into), Things(b))
      end == w.ds.position
  IN  [into EXCEPT !.data = UpTo(dbwrite(dbseek(w.ds, 0), HeaderOf(b, end)).data, end)]

(***************************************************************************)
(* pca_read_db_dsp.  A file with neither a weight vector nor an example    *)
(* does not read: what should follow the room for the vector is its end.   *)
(***************************************************************************)
Header(d) == FileHeader(d)

ThetaOf(d) == Here(dbseek(dbopen(d), 1))

FirstRow(d) ==
  LET fh == Header(d)
  IN  Past(AfterTheta(dbseek(dbopen(d), 1), IF fh.has_solution THEN ThetaOf(d) ELSE None), 1)

Readable(d) ==
  /\ Header(d) # None
  /\ ~ FirstRow(d).eof
  /\ IF Header(d).has_solution
     THEN ThetaOf(d).kind = "theta" /\ FirstRow(d).position <= Header(d).end
     ELSE FirstRow(d).position < Header(d).end

pca_read_db(d) ==
  LET fh == Header(d)
  IN  [theta |-> IF fh.has_solution THEN ThetaOf(d) ELSE None,
       x |-> RowsFrom(FirstRow(d), fh.end), has_new |-> fh.has_new, counts |-> fh.counts]

\* What reads back from the file.
Kept(d) == IF Readable(d) THEN pca_read_db(d).x ELSE <<>>

has_new_vectors(d) == Header(d) # None /\ Header(d).has_new

get_solution_from_pca_db(d) ==
  IF Header(d) # None /\ Header(d).has_solution THEN ThetaOf(d) ELSE None

init_block_pca(d) ==
  IF block_size(pca_block_init) <= d.alloc THEN Written(pca_block_init, d) ELSE d

-----------------------------------------------------------------------------
(***************************************************************************)
(* pca_learn_new_examples: everything is counted anew and one vector found *)
(* for all of it; then too many examples are groomed.                      *)
(***************************************************************************)
pca_solve(b) ==
  LET knows == Range(b.x)
  IN  [b EXCEPT !.theta = [kind |-> "theta",
                           size |-> ThetaSize[Cardinality(UNION {Columns(e) : e \in knows})],
                           knows |-> knows]]

Done(b, how) == [blk |-> b, how |-> how]

pca_learn_new_examples(b, microgroom) ==
  IF b.x = <<>> THEN {Done(pca_block_init, "ok")}
  ELSE LET solved == [pca_solve(b) EXCEPT !.counts = CountAll(NoCounts, b.x), !.has_new = FALSE]
       IN  (IF microgroom /\ Len(b.x) >= GroomOld
            THEN {Done([solved EXCEPT !.x = g], "groomed") : g \in Groomed(b.x)}
            ELSE {Done(solved, "ok")})
           \cup {Done(pca_block_init, "gave up") : fails \in Gives \ {TRUE}}

-----------------------------------------------------------------------------
(***************************************************************************)
(* crm114_learn_features_pca, step by step on a call: the block as read    *)
(* (blk), whether it was (read), whether to learn.                         *)
(***************************************************************************)
Unread == [blk |-> pca_block_init, read |-> FALSE, learn |-> TRUE, fromstart |-> FALSE]

Erases(e, flags) == e # None /\ "erase" \in flags

\* Appending alone is done without reading.
Reads(e, flags) == Erases(e, flags) \/ "fromstart" \in flags \/ "append" \notin flags

Start(e, flags, d) ==
  IF Reads(e, flags) /\ Readable(d)
  THEN [Unread EXCEPT !.blk = pca_read_db(d), !.read = TRUE]
  ELSE Unread

WrongErasing(c, e) ==
  LET left == WithoutEqual(c.blk.x, e)
      found == Len(c.blk.x) - Len(left)
  IN  [c EXCEPT !.learn = found > 0, !.fromstart = found > 0,
                !.blk.x = left,
                !.blk.counts = Count(@, e, -1)]
Erasing(c, e) ==
  LET left == WithoutEqual(c.blk.x, e)
      found == Len(c.blk.x) - Len(left)
  IN  [c EXCEPT !.learn = found > 0, !.fromstart = found > 0,
                !.blk.x = left,
                !.blk.counts = Count(@, e, -found)]

FromStart(c) == [c EXCEPT !.learn = TRUE, !.blk.theta = None, !.blk.counts = NoCounts]

\* The call up to the point where it learns.
Prepared(e, flags, d) ==
  {IF c.fromstart \/ "fromstart" \in flags THEN FromStart(c) ELSE c :
     c \in {IF Erases(e, flags) THEN Erasing(s, e) ELSE s : s \in {Start(e, flags, d)}}}

MayDeny(d, needed) == FALSE \in Memory /\ MustExpand(d, needed)

WrongAppendVector(e, fh) ==
  IF fh = None THEN {[db |-> db, how |-> "ok"]} ELSE {[db |-> Appended(db, fh, e), how |-> "ok"]}
append_vector_to_pca_db(e, fh) ==
  IF fh = None THEN {[db |-> db, how |-> "ok"]}
  ELSE {[db |-> Appended(db, [fh EXCEPT !.has_new = TRUE], e), how |-> "ok"]}
       \cup (IF MayDeny(db, fh.end + RowThing(e).size) THEN {[db |-> db, how |-> "denied"]} ELSE {})

WriteBack(d, b) ==
  LET needed == block_size(b)
  IN  Written(b, maybe_expand_db(d, needed, (needed * 3) \div 2))

Finish(d, did, how, lapsed) ==
  /\ db' = d
  /\ kept' = BagOf(Kept(d))
  /\ last' = [did |-> did, how |-> how]
  /\ thinned' = (thinned \/ how = "groomed")
  /\ lapse' = lapsed

Save(d, b, did, how, lapsed) ==
  \/ Finish(WriteBack(d, b), did, how, lapsed)
  \/ MayDeny(d, block_size(b)) /\ Finish(d, did, "denied", lapse)

Adds(e, flags) == e # None /\ "erase" \notin flags

Did(e, flags) ==
  [op |-> IF Adds(e, flags) THEN "add" ELSE IF e # None THEN "erase" ELSE "relearn", e |-> e]

Worse(how, other) == IF other = "ok" THEN how ELSE other

\* A start over that append puts off has dropped the weight vector.
PutOff(c) == IF c.learn THEN "dropped" ELSE lapse

Learn(e, flags) ==
  \E a \in IF Adds(e, flags) THEN append_vector_to_pca_db(e, Header(db))
           ELSE {[db |-> db, how |-> "ok"]} :
  \E c \in Prepared(e, flags, a.db) :
    IF c.read /\ c.learn /\ "append" \notin flags
    THEN \E r \in pca_learn_new_examples(c.blk, "microgroom" \in flags) :
           Save([a.db EXCEPT !.cb = r.blk.counts], r.blk, Did(e, flags), Worse(a.how, r.how), "none")
    ELSE IF c.read THEN Save(a.db, c.blk, Did(e, flags), a.how, PutOff(c))
    ELSE Finish(a.db, Did(e, flags), a.how, lapse)

(***************************************************************************)
(* Erasing goes through the matrix without looking whether there is one,   *)
(* and an empty matrix has no column for the solver's map to end with: the *)
(* example erased is never the only one.                                   *)
(***************************************************************************)
Erasable(e, flags) ==
  "erase" \in flags =>
    LET left == WithoutEqual(Kept(db), e)
    IN  Kept(db) # <<>> /\ (left # <<>> \/ "append" \in flags)

-----------------------------------------------------------------------------
(***************************************************************************)
(* The written form: counts, the examples, the solution, but not has_new.  *)
(***************************************************************************)
pca_learned_read_text_fp(b, d) == WriteBack(d, [b EXCEPT !.has_new = FALSE])

NewDatabase(alloc) == init_block_pca([alloc |-> alloc, data |-> <<>>, cb |-> NoCounts])

ThroughText(alloc) ==
  /\ Readable(db)
  /\ \E b \in {pca_read_db(db)}, new \in {NewDatabase(alloc)} :
       Finish([pca_learned_read_text_fp(b, new) EXCEPT !.cb = db.cb],
              [op |-> "text", e |-> None], "ok",
              IF has_new_vectors(db) /\ lapse = "none" THEN "unmarked" ELSE lapse)

-----------------------------------------------------------------------------
\* What crm114_classify_features_pca weighs a text with.
Weighing(d) ==
  IF ~ has_new_vectors(d) THEN {get_solution_from_pca_db(d)}
  ELSE IF ~ Readable(d) THEN {None}
  ELSE {r.blk.theta : r \in {s \in UNION {pca_learn_new_examples(b, FALSE) : b \in {pca_read_db(d)}} :
                               s.how # "gave up"}}

-----------------------------------------------------------------------------
Init ==
  /\ \E alloc \in Allocs : db = NewDatabase(alloc)
  /\ kept = BagOf(Kept(db))
  /\ last = [did |-> [op |-> "new", e |-> None], how |-> "ok"]
  /\ thinned = FALSE /\ lapse = "none"

Room == BagCardinality(kept) < MaxExamples

Next ==
  \/ \E e \in Examples, flags \in FlagSets :
       (Adds(e, flags) => Room) /\ Erasable(e, flags) /\ Learn(e, flags)
  \/ \E flags \in FlagSets : "erase" \notin flags /\ Learn(None, flags)
  \/ \E alloc \in Allocs : ThroughText(alloc)

Spec == Init /\ [][Next]_vars

-----------------------------------------------------------------------------
(***************************************************************************)
(* The file holds what it says, and nothing else: written and appended to, *)
(* it lies within the block, reads back if it has an example, and has      *)
(* every row once.                                                         *)
(***************************************************************************)
FileIsWhole ==
  Header(db) # None =>
    LET end == Header(db).end
        rows == {p \in DOMAIN db.data : IsRow(db.data[p])}
    IN  /\ end <= db.alloc
        /\ \A p \in DOMAIN db.data : p + db.data[p].size <= end
        /\ rows # {} => Readable(db)
        /\ Cardinality(rows) = Len(Kept(db))

(***************************************************************************)
(* Unless examples wait to be learned, the documents and features counted  *)
(* for a class are those of all examples; after grooming, at least those.  *)
(* A start over that was put off (APPEND with FROMSTART, or with an ERASE  *)
(* that finds its example) leaves them at zero until the next learn.       *)
(***************************************************************************)
CountsAreLearned ==
  Header(db) # None =>
    LET counts == Header(db).counts
        real == CountAll(NoCounts, Kept(db))
    IN  /\ lapse = "dropped" => counts = NoCounts
        /\ Readable(db) /\ ~ has_new_vectors(db) /\ lapse = "none" =>
             \A c \in Classes : /\ counts[c].documents >= real[c].documents
                                /\ counts[c].features >= real[c].features
                                /\ ~ thinned => counts[c] = real[c]

(***************************************************************************)
(* A classify that weighs a text weighs it with a vector that knows every  *)
(* example present, if examples are marked as new, or if since the last    *)
(* learn no start over was put off and no text form written while they     *)
(* were.  "If CRM114_FROMSTART and CRM114_APPEND are both flagged, the     *)
(* FROMSTART learn will be done the next time there is a learn without     *)
(* APPEND or ERASE or a classify" (crm114_pca.c:1609) is not what happens: *)
(* the weight vector is dropped, nothing is marked as new, and every       *)
(* classify until the next learn or append weighs its text with no vector  *)
(* at all, whatever the examples.                                          *)
(***************************************************************************)
AnswersFromAll ==
  \A theta \in Weighing(db) :
    /\ has_new_vectors(db) \/ lapse = "none" =>
         IF theta = None THEN kept = EmptyBag ELSE BagToSet(kept) \subseteq theta.knows
    /\ ~ has_new_vectors(db) /\ lapse = "dropped" => theta = None

(***************************************************************************)
(* Read back from the file, the examples are those learned and not erased: *)
(* the store implements the set of examples.                               *)
(***************************************************************************)
Set == INSTANCE ExampleSet WITH able <- 0 \in DOMAIN db.data, examples <- kept

ImplementsSet == Set!Spec
=============================================================================
