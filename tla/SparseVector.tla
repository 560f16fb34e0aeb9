---------------------------- MODULE SparseVector ----------------------------
(***************************************************************************)
(* The vectors of crm114_matrix.c and the iterators over them.  A vector   *)
(* is NON_SPARSE (every value, in an array of dim), SPARSE_ARRAY (the      *)
(* elements that are not zero in an expanding array, ordered by column) or *)
(* SPARSE_LIST (the same in a linked list).                                *)
(*                                                                         *)
(* An iterator is what the C union holds: an index of the data of an       *)
(* array, or a node of a list.  A list is the sequence of its elements and *)
(* a node is named by its place in it, 0 for no node; removing a node      *)
(* renames those behind it.  Values are integers: MATRIX_EPSILON tells     *)
(* zero from the rest, and (int)d of a compact vector changes nothing.     *)
(*                                                                         *)
(* Definitions named Wrong... are variants with a plausible slip in them.  *)
(***************************************************************************)
EXTENDS ExpandingArray

VectorTypes == {"NON_SPARSE", "SPARSE_ARRAY", "SPARSE_LIST"}
NoValue == -32768

vector_make_size(dim, type, size) ==
  [type |-> type, dim |-> dim,
   nz |-> IF type = "NON_SPARSE" THEN dim ELSE 0,
   data |-> CASE type = "NON_SPARSE" -> [i \in 0..(dim - 1) |-> 0]
              [] type = "SPARSE_ARRAY" -> make_expanding_array(size)
              [] type = "SPARSE_LIST" -> <<>>]

IsArray(v) == v.type = "SPARSE_ARRAY"
IsList(v) == v.type = "SPARSE_LIST"
IsFull(v) == v.type = "NON_SPARSE"

----------------------------------------------------------------------------
\* Iterators: where they are, what they stand on.
vectorit_set_at_beg(v) ==
  IF IsFull(v) THEN 0 ELSE IF IsArray(v) THEN v.data.first ELSE IF v.data = <<>> THEN 0 ELSE 1

vectorit_set_at_end(v) == IF IsFull(v) THEN v.dim - 1 ELSE IF IsArray(v) THEN v.data.last ELSE Len(v.data)

OnElement(it, v) ==
  IF IsFull(v) THEN it \in 0..(v.dim - 1) ELSE IF IsArray(v) THEN it \in v.data.first..v.data.last ELSE it # 0

vectorit_curr_val(it, v) ==
  IF OnElement(it, v) THEN (IF IsFull(v) THEN v.data[it] ELSE IF IsArray(v) THEN v.data.data[it].data ELSE v.data[it].data)
  ELSE NoValue

vectorit_curr_col(it, v) ==
  IF IsFull(v) THEN it
  ELSE IF OnElement(it, v) THEN (IF IsArray(v) THEN v.data.data[it].col ELSE v.data[it].col)
  ELSE v.dim

\* Beyond an end of a list there is no node, and the next move wraps round.
vectorit_prev(it, v) == IF IsList(v) /\ it = 0 THEN Len(v.data) ELSE it - 1
vectorit_next(it, v) == IF ~IsList(v) THEN it + 1 ELSE IF it < Len(v.data) THEN it + 1 ELSE 0

vectorit_past_end(it, v) ==
  IF IsFull(v) THEN it >= v.dim
  ELSE IF IsArray(v) THEN it > v.data.last \/ v.data.first > v.data.last
  ELSE it = 0
vectorit_past_beg(it, v) ==
  IF IsFull(v) THEN it < 0
  ELSE IF IsArray(v) THEN it < v.data.first \/ v.data.first > v.data.last
  ELSE it = 0

----------------------------------------------------------------------------
\* Storing a value where the iterator stands; a zero takes a sparse element out.
vectorit_set(it, d, v) ==
  IF ~OnElement(it, v) THEN v
  ELSE CASE IsFull(v) -> [v EXCEPT !.data[it] = d]
         [] IsArray(v) /\ d # 0 -> [v EXCEPT !.data.data[it].data = d]
         [] IsArray(v) /\ d = 0 -> [v EXCEPT !.data = expanding_array_remove_elt(it - v.data.first, @), !.nz = @ - 1]
         [] IsList(v) /\ d # 0 -> [v EXCEPT !.data[it].data = d]
         [] IsList(v) /\ d = 0 -> [v EXCEPT !.data = RemoveAt(@, it), !.nz = @ - 1]

\* Zero the element and move on to the next one, wherever the removal left it.
Onward(next, col, v) ==
  LET behind == vectorit_prev(next, v)
  IN  [v |-> v, it |-> IF ~vectorit_past_beg(behind, v) /\ vectorit_curr_col(behind, v) > col THEN behind ELSE next]
vectorit_zero_elt(it, v) ==
  LET ahead == vectorit_next(it, v)
      next == IF IsList(v) /\ OnElement(it, v) /\ ahead > it THEN it ELSE ahead
  IN  Onward(next, vectorit_curr_col(it, v), vectorit_set(it, 0, v))

\* Another column for the element, refused when the order would break.
vectorit_set_col(it, c, v) ==
  CASE IsArray(v) ->
         LET A == v.data
         IN  IF /\ it \in A.first..A.last
                /\ it - 1 < A.first \/ A.data[it - 1].col < c
                /\ it + 1 > A.last \/ A.data[it + 1].col > c
             THEN [v EXCEPT !.data.data[it].col = c] ELSE v
    [] IsList(v) ->
         IF /\ it # 0
            /\ it = 1 \/ v.data[it - 1].col < c
            /\ it = Len(v.data) \/ v.data[it + 1].col > c
         THEN [v EXCEPT !.data[it].col = c] ELSE v
    [] IsFull(v) -> v

\* From init to the last node at or before the column, both ways round; no node
\* when init is none and the column lies between the ends.
list_search(c, init, l) ==
  CASE l = <<>> -> 0
    [] l # <<>> /\ c <= l[1].col -> 1
    [] l # <<>> /\ c > l[1].col /\ c >= l[Len(l)].col -> Len(l)
    [] OTHER -> IF init = 0 THEN 0 ELSE Max({p \in 1..Len(l) : l[p].col <= c})

vectorit_find(it, c, v) ==
  CASE IsFull(v) -> c
    [] IsArray(v) -> expanding_array_search(c, it - v.data.first, v.data) + v.data.first
    [] IsList(v) -> LET p == list_search(c, it, v.data) IN IF p = 0 THEN Len(v.data) ELSE p

----------------------------------------------------------------------------
\* Inserting beside the iterator, which then stands on the new element.
PutInArray(put, v) == [v |-> [v EXCEPT !.data = put.A, !.nz = @ + 1], it |-> put.at]
PutInList(p, e, v) == [v |-> [v EXCEPT !.data = InsertAt(@, p, e), !.nz = @ + 1], it |-> p]

vectorit_insert_after(it, c, d, v) ==
  LET e == [col |-> c, data |-> d]
      A == v.data
      l == v.data
  IN  IF IsArray(v)
      THEN PutInArray(IF it < A.first /\ A.n > 0 THEN expanding_array_insert_before(e, 0, A)
                      ELSE expanding_array_insert_after(e, it - A.first, A), v)
      ELSE PutInList(IF l # <<>> /\ c < l[1].col THEN 1 ELSE (IF it = 0 THEN Len(l) ELSE it) + 1, e, v)

vectorit_insert_before(it, c, d, v) ==
  LET e == [col |-> c, data |-> d]
      A == v.data
      l == v.data
  IN  IF IsArray(v)
      THEN PutInArray(IF it > A.last /\ A.n > 0 THEN expanding_array_insert_after(e, A.last - A.first, A)
                      ELSE expanding_array_insert_before(e, it - A.first, A), v)
      ELSE PutInList(IF l # <<>> /\ c > l[Len(l)].col THEN Len(l) + 1 ELSE IF it = 0 THEN 1 ELSE it, e, v)

\* Value d for column c: where it is stored, or beside the neighbour the search
\* found.
PutNear(at, c, d, v) ==
  LET here == vectorit_curr_col(at, v)
      inside == ~vectorit_past_end(at, v) /\ ~vectorit_past_beg(at, v)
  IN  CASE here = c /\ inside /\ d = 0 -> vectorit_zero_elt(at, v)
        [] here = c /\ ~(inside /\ d = 0) -> [v |-> vectorit_set(at, d, v), it |-> at]
        [] here # c /\ d = 0 -> [v |-> v, it |-> at]
        [] here # c /\ d # 0 -> IF vectorit_past_beg(at, v) \/ here < c
                                THEN vectorit_insert_after(at, c, d, v)
                                ELSE vectorit_insert_before(at, c, d, v)

vectorit_insert(it, c, d, v) ==
  IF c >= v.dim THEN [v |-> v, it |-> it]
  ELSE IF IsFull(v) THEN [v |-> [v EXCEPT !.data[c] = d], it |-> c]
  ELSE PutNear(vectorit_find(it, c, v), c, d, v)

----------------------------------------------------------------------------
\* One element, and all of them.
vector_set(v, i, d) ==
  IF i >= v.dim THEN v
  ELSE IF IsFull(v) THEN [v EXCEPT !.data[i] = d]
  ELSE vectorit_insert(vectorit_set_at_beg(v), i, d, v).v

ValueIfAt(it, i, v) == IF vectorit_curr_col(it, v) = i THEN vectorit_curr_val(it, v) ELSE 0
vector_get(v, i) ==
  IF i >= v.dim THEN 0
  ELSE IF IsFull(v) THEN v.data[i]
  ELSE ValueIfAt(vectorit_find(vectorit_set_at_beg(v), i, v), i, v)

vector_zero(v) ==
  CASE IsFull(v) -> [v EXCEPT !.data = [i \in DOMAIN @ |-> 0]]
    [] IsArray(v) -> [v EXCEPT !.data = expanding_array_clear(@), !.nz = 0]
    [] IsList(v) -> [v EXCEPT !.data = <<>>, !.nz = 0]

vector_iszero(v) ==
  CASE IsFull(v) -> \A i \in 0..(v.dim - 1) : vector_get(v, i) = 0
    [] IsArray(v) -> v.data.n = 0
    [] IsList(v) -> v.data = <<>>

\* What the vector stands for, read off the elements it stores.
Stored(v) == IF IsFull(v) THEN [k \in 1..v.dim |-> [col |-> k - 1, data |-> v.data[k - 1]]]
             ELSE IF IsArray(v) THEN Elements(v.data) ELSE v.data
Meaning(v) ==
  LET stored == Stored(v)
      at(i) == {k \in DOMAIN stored : stored[k].col = i}
  IN  [i \in 0..(v.dim - 1) |-> IF at(i) = {} THEN 0 ELSE stored[CHOOSE k \in at(i) : TRUE].data]
=============================================================================
