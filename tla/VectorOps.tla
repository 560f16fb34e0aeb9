----------------------------- MODULE VectorOps ------------------------------
(***************************************************************************)
(* The functions of crm114_matrix.c on whole vectors: they walk one, two   *)
(* or three vectors with iterators, and the vector they fill may be one of *)
(* those they read.                                                        *)
(*                                                                         *)
(* Definitions named Wrong... are variants with a plausible slip in them.  *)
(***************************************************************************)
EXTENDS SparseVector

Step(it, v) == vectorit_next(it, v)
Col(it, v) == vectorit_curr_col(it, v)
Val(it, v) == vectorit_curr_val(it, v)
Over(it, v) == vectorit_past_end(it, v)

\* A sum over the elements of v, in their order.
SumOver(Term(_), v) ==
  While(LAMBDA s : ~Over(s.it, v),
        LAMBDA s : [it |-> Step(s.it, v), sum |-> s.sum + Term(s.it)],
        [it |-> vectorit_set_at_beg(v), sum |-> 0]).sum

----------------------------------------------------------------------------
\* What a walk does to the vector it fills, s.v, at its iterator s.it.
Now(z, s) == [s EXCEPT !.v = z.v, !.it = z.it]
ZeroHere(s) == Now(vectorit_zero_elt(s.it, s.v), s)
PutHere(c, d, s) == Now(vectorit_insert(s.it, c, d, s.v), s)
StepOn(s) == [s EXCEPT !.it = Step(@, s.v)]
StepPast(c, s) == While(LAMBDA t : Col(t.it, t.v) <= c, StepOn, s)
EmptyFirst(v, fresh) == IF IsArray(v) /\ fresh THEN vector_zero(v) ELSE v
FromBeg(v) == [v |-> v, it |-> vectorit_set_at_beg(v)]

\* to := from, as far as to is wide; what to holds besides goes.
WrongCopyTurn(from, s) ==
  [PutHere(Col(s.f, from), Val(s.f, from), s) EXCEPT !.f = Step(@, from)]
CopyTurn(from, s) ==
  LET c == Col(s.f, from)
  IN  IF Col(s.it, s.v) < c THEN ZeroHere(s)
      ELSE [StepPast(c, PutHere(c, Val(s.f, from), s)) EXCEPT !.f = Step(@, from)]
CopyStart(from, v) == [f |-> vectorit_set_at_beg(from), v |-> v, it |-> vectorit_set_at_beg(v)]
vector_copy(from, to) ==
  While(LAMBDA s : ~Over(s.it, s.v), ZeroHere,
        While(LAMBDA s : ~Over(s.f, from) /\ Col(s.f, from) < to.dim, LAMBDA s : CopyTurn(from, s),
              CopyStart(from, EmptyFirst(to, TRUE)))).v

----------------------------------------------------------------------------
\* A walk that is still under way when no turn is left has no end.
NoEnd == [type |-> "NO_END"]
Result(More(_), s) == IF More(s) THEN NoEnd ELSE s.v

\* ret := v1 + factor * v2, walking the three of them at once; "same" says
\* which of the two ret is, and then it shares that one's iterator.  When it is
\* both, the iterator of v1 is never moved.
V1(s) == IF s.same \in {"v1", "both"} THEN s.v ELSE s.v1
V2(s) == IF s.same \in {"v2", "both"} THEN s.v ELSE s.v2
I1(s) == IF s.same = "v1" THEN s.it ELSE s.i1
I2(s) == IF s.same \in {"v2", "both"} THEN s.it ELSE s.i2
Col1(s) == Col(I1(s), V1(s))
Col2(s) == Col(I2(s), V2(s))

WrongAddPut(c, d, s) == IF d = 0 THEN StepOn(s) ELSE StepOn(PutHere(c, d, s))
AddPut(c, d, s) == IF d = 0 THEN ZeroHere(s) ELSE StepOn(PutHere(c, d, s))
AddTurn(factor, s) ==
  LET both == Col1(s) = Col2(s) /\ Col1(s) < s.v1.dim /\ Col2(s) < s.v2.dim
      one == both \/ Col1(s) < Col2(s) \/ Col2(s) = s.v2.dim
      two == both \/ ~one
      term1 == IF one THEN Val(I1(s), V1(s)) ELSE 0
      term2 == IF two THEN factor * Val(I2(s), V2(s)) ELSE 0
      walked == [s EXCEPT !.i1 = IF one /\ s.same # "both" THEN Step(@, s.v1) ELSE @, !.i2 = IF two THEN Step(@, s.v2) ELSE @]
  IN  IF /\ Col(s.it, s.v) < Col1(s) \/ Col1(s) >= s.v1.dim
         /\ Col(s.it, s.v) < Col2(s) \/ Col2(s) >= s.v2.dim
      THEN ZeroHere(s)
      ELSE AddPut(IF one THEN Col1(s) ELSE Col2(s), term1 + term2, walked)
MoreToAdd(s) ==
  \/ ~Over(s.it, s.v)
  \/ ~Over(I1(s), V1(s)) /\ Col1(s) < s.v.dim
  \/ ~Over(I2(s), V2(s)) /\ Col2(s) < s.v.dim
Merge(v1, v2, factor, ret, same) ==
  Result(MoreToAdd,
         While(MoreToAdd, LAMBDA s : AddTurn(factor, s),
               [v1 |-> v1, v2 |-> v2, same |-> same, i1 |-> vectorit_set_at_beg(v1), i2 |-> vectorit_set_at_beg(v2)]
                 @@ FromBeg(EmptyFirst(ret, same = "neither"))))

\* A sparse vector added to a full one, element by element.
AddEach(sp, factor, full) ==
  While(LAMBDA s : ~Over(s.it, sp),
        LAMBDA s : [it |-> Step(s.it, sp),
                    v |-> vector_set(s.v, Col(s.it, sp), vector_get(s.v, Col(s.it, sp)) + (factor * Val(s.it, sp)))],
        [it |-> vectorit_set_at_beg(sp), v |-> full]).v

vector_add(v1, v2, ret, same) ==
  IF (~IsFull(v1) /\ IsFull(v2) /\ same = "v2") \/ (IsFull(v1) /\ ~IsFull(v2) /\ same = "v1")
  THEN AddEach(IF same = "v2" THEN v1 ELSE v2, 1, ret)
  ELSE Merge(v1, v2, 1, ret, same)

vector_add_multiple(base, toadd, factor, ret, same) ==
  IF factor = 0 THEN (IF same = "v1" THEN ret ELSE vector_copy(base, ret))
  ELSE IF IsFull(base) /\ same = "v1" THEN AddEach(toadd, factor, base)
  ELSE Merge(base, toadd, factor, ret, same)

\* ret := s * v.  Whether the walk along ret is over is asked of v, as if the
\* iterator were one of v's: the address of a node is past the end of any array.
MultiplyTurn(factor, s) ==
  LET c == Col1(s)
      put == StepPast(c, PutHere(c, factor * Val(I1(s), V1(s)), s))
  IN  IF Col(s.it, s.v) < c \/ c = s.v1.dim THEN ZeroHere(s)
      ELSE [put EXCEPT !.i1 = Step(@, s.v1)]
SeemsOver(s) == (IsList(s.v) /\ ~IsList(V1(s)) /\ s.it # 0) \/ Over(s.it, V1(s))
MoreToMultiply(s) == ~SeemsOver(s) \/ (~Over(I1(s), V1(s)) /\ Col1(s) < s.v.dim)
vector_multiply(v, factor, ret, same) ==
  IF factor = 0 \/ vector_iszero(v) THEN vector_zero(ret)
  ELSE Result(MoreToMultiply,
              While(MoreToMultiply, LAMBDA s : MultiplyTurn(factor, s),
                    [v1 |-> v, same |-> IF same THEN "v1" ELSE "neither", i1 |-> vectorit_set_at_beg(v)]
                      @@ FromBeg(EmptyFirst(ret, ~same))))

----------------------------------------------------------------------------
\* Reading two vectors side by side.
dot_fast(sp, full) == SumOver(LAMBDA it : Val(it, sp) * vector_get(full, Col(it, sp)), sp)

\* Far fewer elements in sp than in the array: look each one up there, from
\* where the one before was found.
dot_log(sp, A) ==
  LET look(s) ==
        LET at == vectorit_find(s.nit, Col(s.it, sp), A)
        IN  [it |-> Step(s.it, sp), nit |-> at,
             sum |-> s.sum + IF Col(at, A) = Col(s.it, sp) THEN Val(s.it, sp) * Val(at, A) ELSE 0]
  IN  IF IsFull(sp) THEN dot_fast(A, sp)
      ELSE While(LAMBDA s : ~Over(s.it, sp), look,
                 [it |-> vectorit_set_at_beg(sp), nit |-> vectorit_set_at_beg(A), sum |-> 0]).sum

DotMerge(v1, v2) ==
  LET turn(s) ==
        LET col1 == Col(s.i1, v1)
            col2 == Col(s.i2, v2)
        IN  [i1 |-> IF col2 < col1 THEN s.i1 ELSE Step(s.i1, v1),
             i2 |-> IF col1 < col2 THEN s.i2 ELSE Step(s.i2, v2),
             sum |-> s.sum + IF col1 = col2 THEN Val(s.i1, v1) * Val(s.i2, v2) ELSE 0]
  IN  While(LAMBDA s : ~Over(s.i1, v1) /\ ~Over(s.i2, v2), turn,
            [i1 |-> vectorit_set_at_beg(v1), i2 |-> vectorit_set_at_beg(v2), sum |-> 0]).sum

dot(v1, v2) ==
  CASE ~IsFull(v1) /\ IsFull(v2) -> dot_fast(v1, v2)
    [] IsFull(v1) /\ ~IsFull(v2) -> dot_fast(v2, v1)
    [] OTHER -> IF IsArray(v1) /\ 10 * v2.nz <= v1.nz THEN dot_log(v2, v1)
                ELSE IF IsArray(v2) /\ 10 * v1.nz <= v2.nz THEN dot_log(v1, v2)
                ELSE DotMerge(v1, v2)

\* Equal as far as both are wide; a full vector may step over its zeros.
vector_equals(v1, v2) ==
  LET more(s) == /\ s.same
                 /\ \/ ~Over(s.i1, v1) /\ Col(s.i1, v1) < v2.dim
                    \/ ~Over(s.i2, v2) /\ Col(s.i2, v2) < v1.dim
      turn(s) ==
        LET col1 == Col(s.i1, v1)
            col2 == Col(s.i2, v2)
            x == Val(s.i1, v1)
            y == Val(s.i2, v2)
        IN  CASE col1 = col2 -> [i1 |-> Step(s.i1, v1), i2 |-> Step(s.i2, v2), same |-> x = y]
              [] col1 < col2 -> IF IsFull(v1) /\ x = 0 THEN [s EXCEPT !.i1 = Step(@, v1)] ELSE [s EXCEPT !.same = FALSE]
              [] col2 < col1 -> IF IsFull(v2) /\ y = 0 THEN [s EXCEPT !.i2 = Step(@, v2)] ELSE [s EXCEPT !.same = FALSE]
  IN  While(more, turn, [i1 |-> vectorit_set_at_beg(v1), i2 |-> vectorit_set_at_beg(v2), same |-> TRUE]).same

vector_dist2(v1, v2) ==
  LET turn(s) ==
        LET col1 == Col(s.i1, v1)
            col2 == Col(s.i2, v2)
            d == (IF col1 <= col2 THEN Val(s.i1, v1) ELSE 0) - (IF col2 <= col1 THEN Val(s.i2, v2) ELSE 0)
        IN  [i1 |-> IF col1 <= col2 THEN Step(s.i1, v1) ELSE s.i1,
             i2 |-> IF col2 <= col1 THEN Step(s.i2, v2) ELSE s.i2, sum |-> s.sum + (d * d)]
  IN  IF v1.dim # v2.dim THEN -1
      ELSE While(LAMBDA s : ~Over(s.i1, v1) \/ ~Over(s.i2, v2), turn,
                 [i1 |-> vectorit_set_at_beg(v1), i2 |-> vectorit_set_at_beg(v2), sum |-> 0]).sum

----------------------------------------------------------------------------
\* Columns added at the end and taken out anywhere.  nz of a full vector stays.
vector_add_ncols(v, n) ==
  [v EXCEPT !.dim = @ + n, !.data = IF IsFull(v) THEN [i \in 0..(v.dim + n - 1) |-> IF i < v.dim THEN @[i] ELSE 0] ELSE @]

vector_add_col(v) == vector_add_ncols(v, 1)

FullWithout(v, c) == [v EXCEPT !.data = [i \in 0..(v.dim - 2) |-> IF i < c THEN @[i] ELSE @[i + 1]]]

\* Give each element from the iterator on the column place[column].
MoveColumn(place, s) == StepOn([s EXCEPT !.v = vectorit_set_col(s.it, place[Col(s.it, s.v)], s.v)])
MoveColumns(place, s) == While(LAMBDA t : ~Over(t.it, t.v), LAMBDA t : MoveColumn(place, t), s).v

\* Take column c out where the search ended, or step past what lies before it.
WithoutColumn(c, s) == IF Col(s.it, s.v) = c THEN ZeroHere(s) ELSE StepPast(c - 1, s)
vector_remove_col(v, c) ==
  IF c >= v.dim THEN v
  ELSE [(IF IsFull(v) THEN FullWithout(v, c)
         ELSE MoveColumns([k \in (c + 1)..(v.dim - 1) |-> k - 1],
                          WithoutColumn(c, [v |-> v, it |-> vectorit_find(vectorit_set_at_beg(v), c, v)])))
        EXCEPT !.dim = @ - 1]

\* A full vector over packed columns, made sparse over the columns colMap names.
vector_convert_nonsparse_to_sparray(v, colMap) ==
  LET wide == vector_make_size(colMap[v.dim] + 1, "SPARSE_ARRAY", v.dim)
      put(s, i) == vectorit_insert(s.it, colMap[i + 1], vector_get(v, i), s.v)
  IN  IF ~IsFull(v) \/ v.dim \notin DOMAIN colMap THEN v
      ELSE Upward(put, 0, v.dim - 1, [v |-> wide, it |-> vectorit_set_at_beg(wide)]).v

----------------------------------------------------------------------------
\* Written to a file and read back, as bytes and as text (the nz of the header
\* says how many elements the reader asks for), and mapped in place.
vector_read_bin_fp(v) == [v EXCEPT !.data = IF IsArray(v) THEN expanding_array_read(@) ELSE @]
vector_read_text_fp(v) ==
  LET stored == Stored(v)
      put(s, e) == vectorit_insert(s.it, e.col, e.data, s.v)
      empty == vector_make_size(v.dim, v.type, 0)
  IN  FoldLeft(put, [v |-> empty, it |-> vectorit_set_at_beg(empty)], SubSeq(stored, 1, v.nz)).v
vector_map(v) == [v EXCEPT !.data = IF IsArray(v) THEN expanding_array_map(@) ELSE @]
=============================================================================
