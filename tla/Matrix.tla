------------------------------- MODULE Matrix -------------------------------
(***************************************************************************)
(* The matrices of crm114_matrix.c: rows of vectors of one type, and a     *)
(* count nz of the elements they store.  One matrix is made and then       *)
(* changed by the calls of the library in every order; beside it "dense"   *)
(* keeps what the calls mean, row by row, as a function of the column.     *)
(*                                                                         *)
(* Definitions named Wrong... are variants with a plausible slip in them.  *)
(***************************************************************************)
EXTENDS VectorOps

CONSTANTS
  Types,       \* types of vector to make the matrix of
  Sizes,       \* spare room a row starts with
  Values,      \* values to store, zero among them
  MaxRows, MaxCols, MaxCells,
               \* bounds of the shape
  LengthMax,   \* bound on the allocation of a row
  CountMax,    \* bound on the count, which drifts in a full matrix
  PairCols     \* bound on the columns of two vectors given to one function

ASSUME MatrixAssumption ==
  /\ Types \subseteq VectorTypes /\ Sizes \subseteq Nat /\ 0 \in Values /\ Values \subseteq Int
  /\ {MaxRows, MaxCols, MaxCells, LengthMax, CountMax} \subseteq Nat

ASSUME PairAssumption == PairCols \in Nat

\* The loops over the rows and the columns, one of them over two vectors at once,
\* come to their end.
ASSUME TurnsSuffice == 2 * MaxCols <= MaxTurns /\ MaxRows <= MaxTurns

VARIABLES M, dense

vars == <<M, dense>>

----------------------------------------------------------------------------
\* Making and filling.
matr_make_size(rows, cols, type, size) ==
  [type |-> type, rows |-> [r \in 1..rows |-> vector_make_size(cols, type, size)], cols |-> cols,
   nz |-> IF type = "NON_SPARSE" THEN rows * cols ELSE 0, size |-> size]

\* A call that changes row r keeps nz in step.
RowChanged(A, r, v) == [A EXCEPT !.rows[r] = v, !.nz = @ + (v.nz - A.rows[r].nz)]

matr_set(A, r, c, d) == RowChanged(A, r, vector_set(A.rows[r], c, d))
matr_set_row(A, r, v) == RowChanged(A, r, vector_copy(v, A.rows[r]))

\* Column c from v: the rows v has no element for are set to zero one by one.
ZeroRows(c, from, to, A) == Upward(LAMBDA B, i : matr_set(B, i + 1, c, 0), from, to, A)
ColumnTurn(c, v, s) ==
  LET row == Col(s.it, v)
  IN  [A |-> matr_set(ZeroRows(c, s.next, row - 1, s.A), row + 1, c, Val(s.it, v)),
       next |-> row + 1, it |-> Step(s.it, v)]
ZeroRest(c, s) == ZeroRows(c, s.next, Len(s.A.rows) - 1, s.A)
matr_set_col(A, c, v) ==
  IF c >= A.cols \/ v.dim # Len(A.rows) THEN A
  ELSE ZeroRest(c, While(LAMBDA s : ~Over(s.it, v), LAMBDA s : ColumnTurn(c, v, s),
                         [A |-> A, next |-> 0, it |-> vectorit_set_at_beg(v)]))

----------------------------------------------------------------------------
\* Rows and columns that come and go.
matr_add_nrows(A, n) ==
  [A EXCEPT !.rows = @ \o [k \in 1..n |-> vector_make_size(A.cols, A.type, A.size)]]

matr_add_ncols(A, n) ==
  IF n = 0 THEN A
  ELSE [A EXCEPT !.rows = [r \in DOMAIN @ |-> vector_add_ncols(@[r], n)], !.cols = @ + n]

matr_add_row(A) == matr_add_nrows(A, 1)
matr_add_col(A) == [A EXCEPT !.rows = [r \in DOMAIN @ |-> vector_add_col(@[r])], !.cols = @ + 1]

\* The count of a matrix that loses its only row stays as it was.
Wrong_matr_decrease_rows(A, r) == [A EXCEPT !.rows = RemoveAt(@, r)]
matr_decrease_rows(A, r) ==
  IF Len(A.rows) = 1 THEN [A EXCEPT !.rows = <<>>]
  ELSE [A EXCEPT !.rows = RemoveAt(@, r), !.nz = @ - A.rows[r].nz]

matr_erase_row(A, r) == matr_decrease_rows(A, r)

matr_remove_col(A, c) ==
  IF A.cols = 0 \/ c >= A.cols \/ A.rows = <<>> THEN A
  ELSE [Upward(LAMBDA B, r : RowChanged(B, r, vector_remove_col(B.rows[r], c)), 1, Len(A.rows), A) EXCEPT !.cols = @ - 1]

\* The vector itself becomes row r; the matrix grows to it, one way or the other.
matr_shallow_row_copy(A, r, v) ==
  LET long == matr_add_nrows(A, IF r > Len(A.rows) THEN r - Len(A.rows) ELSE 0)
      wide == matr_add_ncols(long, IF v.dim > A.cols THEN v.dim - A.cols ELSE 0)
  IN  IF v.type # A.type THEN A
      ELSE [wide EXCEPT !.rows[r] = [v EXCEPT !.dim = wide.cols], !.nz = @ + v.nz]

matr_remove_zero_rows(A) ==
  LET zero(B, r) == IF vector_iszero(B.rows[r]) THEN matr_decrease_rows(B, r) ELSE B
  IN  Downward(zero, Len(A.rows), 1, A)

\* The columns some row stores, in order; each element moves to the place of
\* its column among them.
Ascending(S) == CHOOSE map \in [1..Cardinality(S) -> S] :
  /\ \A j, k \in DOMAIN map : j < k => map[j] < map[k]
  /\ S = Range(map)
ColumnMap(A) == Ascending({c \in 0..(A.cols - 1) :
  \E r \in DOMAIN A.rows : \E k \in DOMAIN Stored(A.rows[r]) : Stored(A.rows[r])[k].col = c})
Packed(map, v) ==
  [MoveColumns([c \in Range(map) |-> (CHOOSE k \in DOMAIN map : map[k] = c) - 1], FromBeg(v)) EXCEPT !.dim = Len(map)]
matr_remove_zero_cols(A) ==
  LET map == ColumnMap(A)
  IN  IF A.cols = 0 \/ A.nz = 0 \/ A.rows = <<>> \/ A.type = "NON_SPARSE" THEN A
      ELSE [A EXCEPT !.rows = [r \in DOMAIN @ |-> Packed(map, @[r])], !.cols = Len(map)]

\* The rows of "from" go over one by one, its last row first.
MoveLast(s, r, last) == [to |-> matr_shallow_row_copy(s.to, r, s.from.rows[last]), from |-> matr_decrease_rows(s.from, last)]
matr_append_matr(to, from) ==
  Upward(LAMBDA s, r : MoveLast(s, r, Len(s.from.rows)), Len(to.rows) + 1, Len(to.rows) + Len(from.rows),
         [to |-> matr_add_nrows(to, Len(from.rows)), from |-> from])

----------------------------------------------------------------------------
\* Products and the transpose, into a vector or a matrix the caller made.
VectorTurn(i, d, s) ==
  IF d = 0 /\ i = Col(s.it, s.v) THEN ZeroHere(s) ELSE StepOn(PutHere(i, d, s))
matr_vector(A, v, ret) ==
  LET rows == IF Len(A.rows) < ret.dim THEN Len(A.rows) ELSE ret.dim
  IN  Upward(LAMBDA s, i : VectorTurn(i, dot(A.rows[i + 1], v), s), 0, rows - 1, FromBeg(EmptyFirst(ret, TRUE))).v

\* The count of T is set to 0 and stays there.
RowOfNone(T) == [T EXCEPT !.rows = [r \in DOMAIN @ |-> vector_zero(@[r])], !.nz = 0]
PutAtEnd(c, d, v) == vectorit_insert(vectorit_set_at_end(v), c, d, v).v
TransposedRow(v, r, T) ==
  While(LAMBDA s : ~Over(s.it, v),
        LAMBDA s : [it |-> Step(s.it, v), T |-> [s.T EXCEPT !.rows[Col(s.it, v) + 1] = PutAtEnd(r - 1, Val(s.it, v), @)]],
        [T |-> T, it |-> vectorit_set_at_beg(v)]).T
matr_transpose(A, T) ==
  Upward(LAMBDA B, r : TransposedRow(A.rows[r], r, B), 1, Len(A.rows),
         IF T.type # "NON_SPARSE" /\ T.nz > 0 THEN RowOfNone(T) ELSE T)

matr_iszero(A) == \A r \in DOMAIN A.rows : vector_iszero(A.rows[r])
matr_convert_nonsparse_to_sparray(A, colMap) ==
  LET rows == [r \in DOMAIN A.rows |-> vector_convert_nonsparse_to_sparray(A.rows[r], colMap)]
  IN  [A EXCEPT !.type = "SPARSE_ARRAY", !.rows = rows]

\* The matrix out of a file, or used where it lies in a data block.
EveryRow(Read(_), A) == [A EXCEPT !.rows = [r \in DOMAIN @ |-> Read(@[r])]]
matr_read_bin_fp(A) == EveryRow(vector_read_bin_fp, A)
matr_map(A) == EveryRow(vector_map, A)

\* The text says nothing of nz and size, and calloc leaves them 0.
matr_read_text_fp(A) == [EveryRow(vector_read_text_fp, A) EXCEPT !.nz = 0, !.size = 0]

----------------------------------------------------------------------------
\* The calls, up to the bounds.  The count of a NON_SPARSE matrix takes no notice
\* of what is added but of what goes.
InBounds(A) ==
  /\ A.nz \in 0..CountMax
  /\ Len(A.rows) <= MaxRows /\ A.cols <= MaxCols /\ Len(A.rows) * A.cols <= MaxCells
  /\ IF A.type = "SPARSE_ARRAY" THEN \A r \in DOMAIN A.rows : A.rows[r].data.length <= LengthMax ELSE TRUE

Rows == DOMAIN M.rows
Cols == 0..(M.cols - 1)
ZeroRow(cols) == [c \in 0..(cols - 1) |-> 0]

\* A vector made and set, one element after the other.
Made(x, type) ==
  Upward(LAMBDA v, c : vector_set(v, c, x[c]), 0, Cardinality(DOMAIN x) - 1,
         vector_make_size(Cardinality(DOMAIN x), type, 0))

\* What a call leaves, and what that means.
Becomes(A, x) == InBounds(A) /\ M' = A /\ dense' = x

Init ==
  \E type \in Types, size \in Sizes, rows \in 1..MaxRows, cols \in 1..MaxCols :
    /\ M = matr_make_size(rows, cols, type, size)
    /\ InBounds(M)
    /\ dense = [r \in 1..rows |-> ZeroRow(cols)]

SetElement == \E r \in Rows, c \in Cols, d \in Values :
  /\ Becomes(matr_set(M, r, c, d),
             [dense EXCEPT ![r][c] = d])

SetRow == \E r \in Rows, s \in Rows, type \in {M.type, "NON_SPARSE"} :
  /\ Becomes(matr_set_row(M, r, Made(dense[s], type)),
             [dense EXCEPT ![r] = dense[s]])

SetColumn == \E c \in Cols, x \in [0..(Len(M.rows) - 1) -> Values], type \in {M.type, "NON_SPARSE"} :
  /\ Becomes(matr_set_col(M, c, Made(x, type)),
             [r \in Rows |-> [dense[r] EXCEPT ![c] = x[r - 1]]])

AddRow ==
  /\ Becomes(matr_add_row(M),
             Append(dense, ZeroRow(M.cols)))

AddColumn ==
  /\ Becomes(matr_add_col(M),
             [r \in Rows |-> [c \in 0..M.cols |-> IF c = M.cols THEN 0 ELSE dense[r][c]]])

\* The last row goes only from a matrix that counts nothing, see there.
RemoveRow == \E r \in Rows :
  /\ Len(M.rows) > 1
  /\ Becomes(matr_erase_row(M, r),
             RemoveAt(dense, r))

RemoveColumn == \E c \in Cols :
  /\ M.cols > 1
  /\ Becomes(matr_remove_col(M, c),
             [r \in Rows |-> [k \in 0..(M.cols - 2) |-> dense[r][IF k < c THEN k ELSE k + 1]]])

RemoveZeroRows ==
  LET kept == Ascending({r \in Rows : dense[r] # ZeroRow(M.cols)})
  IN  /\ kept # <<>>
      /\ Becomes(matr_remove_zero_rows(M),
                 [k \in 1..Len(kept) |-> dense[kept[k]]])

RemoveZeroColumns ==
  LET kept == Ascending({c \in Cols : \E r \in Rows : dense[r][c] # 0})
  IN  /\ M.type # "NON_SPARSE" /\ kept # <<>>
      /\ Becomes(matr_remove_zero_cols(M),
                 [r \in Rows |-> [k \in 0..(Len(kept) - 1) |-> dense[r][kept[k + 1]]]])

\* Rows of another matrix, as wide or wider, come to the end, the last one first.
AppendMatrix == \E cols \in 1..MaxCols, x \in Values :
  LET new == IF cols > M.cols THEN cols ELSE M.cols
      other == matr_set(matr_make_size(1, cols, M.type, 0), 1, cols - 1, x)
      fill(row) == [c \in 0..(new - 1) |-> IF c \in DOMAIN row THEN row[c] ELSE 0]
  IN  /\ M.type # "NON_SPARSE"
      /\ Becomes(matr_append_matr(M, other).to,
                 [r \in Rows |-> fill(dense[r])] \o <<fill([ZeroRow(cols) EXCEPT ![cols - 1] = x])>>)

ReadBack == Becomes(matr_read_bin_fp(M), dense)

Next ==
  \/ SetElement
  \/ SetRow
  \/ SetColumn
  \/ AddRow
  \/ AddColumn
  \/ RemoveRow
  \/ RemoveColumn
  \/ RemoveZeroRows
  \/ RemoveZeroColumns
  \/ AppendMatrix
  \/ ReadBack

Spec == Init /\ [][Next]_vars
----------------------------------------------------------------------------
\* What must hold.

\* The shape of the record: each row as wide as the matrix, and the elements of
\* an array where its header says they are, inside its allocation.
TypeOK ==
  /\ M.type \in Types /\ M.cols \in Nat /\ Len(M.rows) = Len(dense)
  /\ \A r \in Rows :
       /\ M.rows[r].dim = M.cols
       /\ M.rows[r].type = "SPARSE_ARRAY" =>
            LET A == M.rows[r].data
            IN  /\ A.first >= 0 /\ A.last < A.length /\ DOMAIN A.data = 0..(A.length - 1)
                /\ A.n > 0 => A.n = A.last - A.first + 1

\* A sparse row stores its columns in strict order, in range and without zeros:
\* every search, merge and product relies on it.
Ordered(v) ==
  LET stored == Stored(v)
  IN  \A k \in DOMAIN stored :
        /\ stored[k].col \in 0..(v.dim - 1)
        /\ v.type # "NON_SPARSE" => stored[k].data # 0
        /\ k > 1 => stored[k - 1].col < stored[k].col
Stands(v, x) == Meaning(v) = x /\ Ordered(v)

\* No call loses, misplaces or keeps a value it should not, or puts one out of
\* order, whichever end of an array moved and wherever it grew
\* (crm114_matrix_util.c:157-226, 496-621).
MeansDense == \A r \in Rows : Stands(M.rows[r], dense[r])

\* The counts are those of the elements, for each row and for the matrix, so
\* the space asked of a data block for them is what they take.
CountsAreTrue == M.type # "NON_SPARSE" =>
  /\ \A r \in Rows : M.rows[r].nz = Len(Stored(M.rows[r]))
  /\ M.nz = Upward(LAMBDA n, r : n + M.rows[r].nz, 1, Len(M.rows), 0)

\* The functions on vectors, asked of one row and any other vector as wide.  A
\* row left alone by matr_erase_row is stored as it was, so the matrices of one
\* row bring every way a row is stored.
FullVector(x) == [vector_make_size(Cardinality(DOMAIN x), "NON_SPARSE", 0) EXCEPT !.data = x]
Ones(n) == [c \in 0..(n - 1) |-> 1]
Others == IF Len(M.rows) = 1 /\ M.cols <= PairCols THEN [Cols -> Values] ELSE {}
Kept(type, x) == {vector_make_size(M.cols, type, 0), Made(x, type), Made(Ones(M.cols), type)}
Ends(v, x) == v # NoEnd /\ Stands(v, x)
Product(x, y) == FoldFunction(LAMBDA a, b : a + b, 0, [c \in DOMAIN x |-> x[c] * y[c]])

\* The readers give what the rows mean: an element, a product (each of the four
\* ways to compute it), a comparison, a distance; a copy over old contents of any
\* kind, a row behind a file and one mapped in place mean the same, the transpose
\* and the image of a vector have every element.
PairAgrees(v, w, x, y) ==
  /\ dot(v, w) = Product(x, y)
  /\ IsArray(v) => dot_log(w, v) = Product(x, y)
  /\ vector_equals(v, w) = (x = y)
  /\ vector_dist2(v, w) = (Product(x, x) - (2 * Product(x, y))) + Product(y, y)
  /\ Stands(vector_copy(v, w), x) /\ Stands(vector_copy(w, v), y)

\* "ret = s*v.  ret CAN point to the same vector as v" (crm114_matrix.c:2521):
\* in place, or into a vector of the same kind, whatever it held.  Into one of
\* another kind the end of the walk is not ret's: a list that is not zero has
\* none, and of an array what ret held behind the reach of the walk is left.
Scaled(x) == [c \in DOMAIN x |-> 2 * x[c]]
Reach(v, ret) ==
  LET last == v.data.data[v.data.last].col
  IN  IF IsArray(v) /\ IsFull(ret) THEN Max({last, v.data.last})
      ELSE IF IsArray(v) /\ IsList(ret) THEN last ELSE v.dim
ScaleAgrees(v, ret, x, y) ==
  LET z == vector_multiply(v, 2, ret, FALSE)
  IN  IF x = ZeroRow(v.dim) THEN Stands(z, x)
      ELSE IF IsList(v) /\ ~IsList(ret) THEN z = NoEnd
      ELSE Ends(z, [c \in DOMAIN x |-> IF c <= Reach(v, ret) THEN 2 * x[c] ELSE y[c]])

RowAgrees(v, x) ==
  /\ \A c \in DOMAIN x : vector_get(v, c) = x[c]
  /\ vector_iszero(v) = (x = ZeroRow(v.dim))
  /\ Ends(vector_multiply(v, 2, v, TRUE), Scaled(x))
  /\ v.nz > 0 => Stands(vector_map(v), x)
  /\ v.nz = Len(Stored(v)) => Stands(vector_read_text_fp(v), x)
TransposeAgrees(T) == \A c \in Cols : Stands(T.rows[c + 1], [r \in 0..(Len(M.rows) - 1) |-> dense[r + 1][c]])

ReadersAgree ==
  /\ \A y \in Others, type \in VectorTypes : \A w \in {Made(y, type)} :
       PairAgrees(M.rows[1], w, dense[1], y) /\ ScaleAgrees(M.rows[1], w, dense[1], y)
  /\ \A r \in Rows : RowAgrees(M.rows[r], dense[r])
  /\ \A T \in {matr_transpose(M, matr_make_size(M.cols, Len(M.rows), M.type, 0))} : TransposeAgrees(T)
  /\ Stands(matr_vector(M, FullVector(Ones(M.cols)), vector_make_size(Len(M.rows), M.type, 0)),
            [r \in 0..(Len(M.rows) - 1) |-> Product(dense[r + 1], Ones(M.cols))])

\* "ret = v1 + v2.  note that ret CAN point to v1 or v2"
\* (crm114_matrix.c:2403), and the same with a factor.  What the walk makes of
\* ret: a sum that is zero takes the element away on which the walk along ret
\* stands, be it of another column, and past the end of a list the walk begins
\* again, to delete (ret is no operand) or to take what it meets for an operand.
SumWalk(sum, lone, stored, left, list, again) ==
  LET turn(s, c) ==
        LET ahead == {o \in s.left : o >= c}
            d == IF c \in s.left THEN sum[c] ELSE lone[c]
        IN  IF c \notin stored \cup s.left THEN s
            ELSE IF d # 0 THEN [s EXCEPT !.out[c] = d, !.left = ahead \ {c}]
            ELSE IF ahead # {} THEN [s EXCEPT !.left = ahead \ {Min(ahead)}]
            ELSE IF list THEN [s EXCEPT !.out = [o \in DOMAIN @ |-> again * @[o]]] ELSE s
  IN  Upward(turn, 0, M.cols - 1, [out |-> ZeroRow(M.cols), left |-> left]).out

\* Where the walk gives the sum: into a full vector, into an array or a list that
\* is an operand of a sparse one, and into any other array; in the rest where no
\* stored column sums to zero that ret has no element for.
SumAgrees(a, b, x, y, k, ret, same) ==
  LET two == [c \in Cols |-> k * y[c]]
      sum == [c \in Cols |-> x[c] + two[c]]
      held(v) == {Stored(v)[i].col : i \in DOMAIN Stored(v)}
      mine == same # "neither"
      left == IF mine \/ IsList(ret) THEN held(ret) ELSE {}
      stored == IF same = "v1" THEN held(b) ELSE IF same = "v2" THEN held(a) ELSE held(a) \cup held(b)
      lone == IF same = "v1" THEN two ELSE IF same = "v2" THEN x ELSE sum
      again == IF same = "v1" THEN 1 ELSE IF same = "v2" THEN k ELSE 0
      z == IF k = 1 THEN vector_add(a, b, ret, same) ELSE vector_add_multiple(a, b, k, ret, same)
      walked == IF IsFull(ret) THEN sum ELSE SumWalk(sum, lone, stored, left, IsList(ret), again)
      right == \/ IsFull(ret)
               \/ IF mine THEN ~IsFull(a) /\ ~IsFull(b) ELSE IsArray(ret)
               \/ \A c \in stored : sum[c] # 0 \/ (mine /\ c \in left)
  IN  Ends(z, walked) /\ (right => walked = sum)

\* The sum of a vector and itself, into itself, is walked for ever.
Itself(v) == Stored(v) # <<>> => vector_add(v, v, v, "both") = NoEnd

SumsAreExact ==
  /\ \A y \in Others, type \in VectorTypes, k \in {1, -1} : \A v \in {M.rows[1]}, w \in {Made(y, type)} :
       /\ SumAgrees(v, w, dense[1], y, k, v, "v1")
       /\ SumAgrees(w, v, y, dense[1], k, v, "v2")
       /\ \A ret \in Kept(type, y) : SumAgrees(v, w, dense[1], y, k, ret, "neither")
  /\ \A r \in Rows : Itself(M.rows[r])
=============================================================================
