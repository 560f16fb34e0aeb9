--------------------------- MODULE ExpandingArray ---------------------------
(***************************************************************************)
(* The expanding array of crm114_matrix_util.c: the elements lie in the    *)
(* cells first..last of an allocation of length cells, and the array grows *)
(* at both ends, by doubling the allocation and moving to its middle when  *)
(* an end has no room left.  An array is a record, each operation of the   *)
(* library is an operator on it.                                           *)
(*                                                                         *)
(* An element is a record with a col (the precise and the compact form are *)
(* not told apart).  A cell that was never written holds Junk, and so does *)
(* one an operation gives up.                                              *)
(*                                                                         *)
(* Definitions named Wrong... are variants with a plausible slip in them.  *)
(***************************************************************************)
EXTENDS Integers, Sequences, SequencesExt

CONSTANT
  MaxTurns   \* a loop that takes more turns than this hangs

ASSUME TurnsAssumption == MaxTurns \in Nat

Junk == [col |-> -1, data |-> 0]
NullElement == [col |-> -2, data |-> 0]

\* while (Test) Body, over a state s.
While(Test(_), Body(_), s) ==
  LET after[turns \in 0..MaxTurns] ==
        IF turns = 0 THEN s
        ELSE LET t == after[turns - 1] IN IF Test(t) THEN Body(t) ELSE t
  IN  after[MaxTurns]

\* for (i = from; i <= to; i++) and for (i = from; i >= to; i--).
Upward(Body(_, _), from, to, s) ==
  LET after[k \in 0..(to - from + 1)] == IF k = 0 THEN s ELSE Body(after[k - 1], from + k - 1)
  IN  IF from > to THEN s ELSE after[to - from + 1]
Downward(Body(_, _), from, to, s) ==
  LET after[k \in 0..(from - to + 1)] == IF k = 0 THEN s ELSE Body(after[k - 1], from - k + 1)
  IN  IF from < to THEN s ELSE after[from - to + 1]

make_expanding_array(size) ==
  [data |-> [i \in 0..(size - 1) |-> Junk], length |-> size, first |-> 0, last |-> -1, n |-> 0, mapped |-> FALSE]

\* realloc, or for a mapped array a malloc and a copy of the cells before last:
\* the two callers differ in whether the last element is among them.
expand(A, size) ==
  LET kept == IF A.mapped THEN {i \in A.first..(A.last - 1) : i < size} ELSE {i \in DOMAIN A.data : i < size}
  IN  [A EXCEPT !.length = size, !.mapped = FALSE,
                !.data = [i \in 0..(size - 1) |-> IF i \in kept THEN A.data[i] ELSE Junk]]

RoomAtEnd(A) == IF A.last >= A.length THEN expand(A, IF A.length = 0 THEN 2 ELSE 2 * A.length) ELSE A
PutLast(d, A) == [A EXCEPT !.data[A.last] = d, !.n = @ + 1]
expanding_array_insert(d, A) == PutLast(d, RoomAtEnd([A EXCEPT !.last = @ + 1]))

\* Move the elements to the middle of a new allocation, from the last one down.
Recentred(A) ==
  LET offset == (A.length \div 2) - (A.n \div 2)
      move(B, i) == [B EXCEPT !.data[i - A.first + offset] = B.data[i]]
  IN  [Downward(move, A.last, A.first, A) EXCEPT !.last = @ + (offset - A.first), !.first = offset]

\* Write d at place c, counted from the first element; places -1 and n are new.
SetInRoom(d, c, A) ==
  LET at == A.first + c
  IN  [A EXCEPT !.data[at] = d,
                !.last = IF at > A.last THEN at ELSE @,
                !.first = IF c < 0 THEN at ELSE @,
                !.n = @ + (IF at > A.last THEN 1 ELSE 0) + (IF c < 0 THEN 1 ELSE 0)]

expanding_array_set(d, c, A) ==
  LET at == A.first + c
      size == IF at < 2 * A.length /\ -at < 2 * A.length
              THEN 2 * A.length
              ELSE (IF at < 0 THEN -at ELSE at) + 1
  IN  IF A.first = 0 /\ c = A.n THEN expanding_array_insert(d, A)
      ELSE SetInRoom(d, c, IF at >= A.length \/ at < 0 THEN Recentred(expand(A, size)) ELSE A)

expanding_array_trim(A) == IF A.length = A.last + 1 THEN A ELSE expand(A, A.last + 1)

expanding_array_get(c, A) ==
  IF A.length = 0 \/ c + A.first > A.last \/ c < 0 THEN NullElement ELSE A.data[c + A.first]

\* Copy the element at place "from" to place "to".
Shifted(from, to, A) == expanding_array_set(expanding_array_get(from, A), to, A)

----------------------------------------------------------------------------
\* Searching: the place of column c or, when it is not stored, that of a
\* neighbour of where it would be; -1 in an empty array.
BinarySearch(c, start, A) ==
  LET at(i) == A.data[i].col
      halve(s) == LET i == (s.front + s.back) \div 2
                  IN  [i |-> i, front |-> IF at(i) < c THEN i + 1 ELSE s.front,
                                back |-> IF at(i) > c THEN i - 1 ELSE s.back]
  IN  While(LAMBDA s : at(s.i) # c /\ s.front <= s.back, halve,
            [i |-> start, front |-> A.first, back |-> A.last]).i

expanding_array_search(c, init, A) ==
  LET at(j) == A.data[j].col
      asked == init + A.first
      i == IF asked < A.first THEN A.first ELSE IF asked > A.last THEN A.last ELSE asked
  IN  IF A.last < A.first THEN -1
      ELSE CASE at(i) = c -> i - A.first
             [] at(i) # c /\ c >= at(A.last) -> A.last - A.first
             [] at(i) # c /\ c <= at(A.first) /\ c < at(A.last) -> 0
             [] OTHER -> (IF i > A.first /\ c < at(i) /\ c >= at(i - 1) THEN i - 1
                          ELSE IF i < A.last /\ c > at(i) /\ c <= at(i + 1) THEN i + 1
                          ELSE BinarySearch(c, i, A)) - A.first

----------------------------------------------------------------------------
\* Inserting: the nearer end moves away by one to make room.  The place that
\* comes back is an index of the allocation.
WrongRoomBefore(before, A) ==
  IF before < A.n \div 2
  THEN Upward(LAMBDA B, i : Shifted(i + 1, i, B), 1, before - 1, Shifted(0, -1, A))
  ELSE Downward(LAMBDA B, i : Shifted(i, i + 1, B), A.n - 1, before + 1, A)
RoomBefore(before, A) ==
  IF before < A.n \div 2
  THEN Upward(LAMBDA B, i : Shifted(i + 1, i, B), 1, before - 1, Shifted(0, -1, A))
  ELSE Downward(LAMBDA B, i : Shifted(i, i + 1, B), A.n - 1, before, A)
AtPlace(place, A) == [A |-> A, at |-> place + A.first]
expanding_array_insert_before(ne, asked, A) ==
  LET before == IF asked < 0 THEN 0 ELSE asked
  IN  AtPlace(before, expanding_array_set(ne, before, RoomBefore(before, A)))

expanding_array_insert_after(ne, after, A) == expanding_array_insert_before(ne, after + 1, A)

\* Removing: the nearer end closes the gap.
WithoutFirst(A) == [A EXCEPT !.data[A.first] = Junk, !.first = @ + 1, !.n = @ - 1]
WithoutLast(A) == [A EXCEPT !.data[A.last] = Junk, !.last = @ - 1, !.n = @ - 1]
expanding_array_remove_elt(elt, A) ==
  IF elt < A.n \div 2
  THEN WithoutFirst(Downward(LAMBDA B, i : Shifted(i, i + 1, B), elt - 1, 0, A))
  ELSE WithoutLast(Upward(LAMBDA B, i : Shifted(i, i - 1, B), elt + 1, A.n - 1, A))

expanding_array_clear(A) ==
  [A EXCEPT !.last = -1, !.first = IF @ > 0 THEN A.length \div 2 ELSE @, !.n = 0,
            !.data = [i \in DOMAIN @ |-> Junk]]

----------------------------------------------------------------------------
\* The array written to a file and read again: the header, then the n elements
\* from the first on, put where they were in an allocation of the same length.
NoArray(A) == [A EXCEPT !.length = 0, !.n = 0, !.first = 0, !.last = -1, !.data = <<>>]
expanding_array_read(A) ==
  LET kept == A.first..(A.first + A.n - 1)
  IN  IF A.length >= A.n /\ A.first < A.length
      THEN [A EXCEPT !.mapped = FALSE, !.data = [i \in DOMAIN @ |-> IF i \in kept THEN @[i] ELSE Junk]]
      ELSE [NoArray(A) EXCEPT !.mapped = FALSE]

\* The array laid down in a data block and used in place: no spare cell.
expanding_array_map(A) ==
  LET packed == [A EXCEPT !.length = A.n, !.last = A.n - 1, !.first = 0, !.mapped = TRUE,
                          !.data = [i \in 0..(A.n - 1) |-> A.data[A.first + i]]]
  IN  IF A.n > 0 THEN packed ELSE NoArray(packed)

\* The elements, in their order.
Elements(A) == [k \in 1..A.n |-> A.data[A.first + k - 1]]
=============================================================================
