---------------------------- MODULE MatrixProofs ----------------------------
(***************************************************************************)
(* Whatever kind its rows are of and whatever is done to it, a matrix      *)
(* stands for the numbers that the calls mean.  From the bottom up: loops, *)
(* expanding arrays, the sparse vectors, single operations of an iterator, *)
(* whole walks over one and two vectors, the matrix, and one lemma for     *)
(* each call.  Each walk has an invariant, of the turns taken so far.      *)
(***************************************************************************)
EXTENDS Matrix, SequenceTheorems, FiniteSetTheorems, WellFoundedInduction, TLAPS

-----------------------------------------------------------------------------
(* Induction, as facts about sets, and loops.                              *)

LEMMA LeastOfSet ==
  ASSUME NEW S, S \subseteq Nat, S # {}
  PROVE  \E n \in S : \A m \in S : n <= m
<1> DEFINE Below == {p \in Nat \X Nat : p[1] < p[2]}
<1>1. IsWellFoundedOn(Below, Nat)
  BY NatLessThanWellFounded DEF OpToRel
<1>2. PICK k \in S : \A l \in S : ~ (<<l, k>> \in Below)
  <2> HIDE DEF Below
  <2> QED BY <1>1, WFMin
<1>3. \A l \in S : ~ (l < k)
  BY <1>2
<1> QED BY <1>3

\* What holds of 0, and of a number when of the one before, holds up to n.
LEMMA UpToAll ==
  ASSUME NEW n \in Nat, NEW Q, 0 \in Q, \A k \in 1 .. n : k - 1 \in Q => k \in Q
  PROVE  0 .. n \subseteq Q
<1> DEFINE Bad == {k \in 0 .. n : k \notin Q}
<1>1. ASSUME Bad # {} PROVE FALSE
  <2>1. PICK k \in Bad : \A l \in Bad : k <= l
    <3>1. Bad \subseteq Nat
      OBVIOUS
    <3> HIDE DEF Bad
    <3> QED BY <1>1, <3>1, LeastOfSet
  <2>2. k \in 1 .. n /\ k - 1 \in 0 .. n
    OBVIOUS
  <2>3. k - 1 \in Q
    <3>1. k - 1 \notin Bad
      BY <2>1, <2>2
    <3> QED BY <2>2, <3>1
  <2> QED BY <2>2, <2>3
<1> QED BY <1>1

IsCourse(g, n, s, F, Q) ==
  /\ g = [k \in 0 .. n |-> IF k = 0 THEN s ELSE F[<<k, g[k - 1]>>]]
  /\ \A k \in 0 .. n : g[k] \in Q[k]

\* The turns of a loop: F is what a turn does, by its number and the state it
\* finds, and Q[k] the states there can be after k turns.
LEMMA LoopExists ==
  ASSUME NEW n \in Nat, NEW s, NEW Q, NEW F,
         s \in Q[0], \A k \in 1 .. n : \A t \in Q[k - 1] : F[<<k, t>>] \in Q[k]
  PROVE  \E g : IsCourse(g, n, s, F, Q)
<1> DEFINE Is(m, g) == /\ g = [k \in 0 .. m |-> IF k = 0 THEN s ELSE F[<<k, g[k - 1]>>]]
                       /\ \A k \in 0 .. m : g[k] \in Q[k]
           All == {m \in 0 .. n : \E g : Is(m, g)}
<1>1. 0 \in All
  <2> DEFINE g == [k \in 0 .. 0 |-> s]
  <2>1. g[0] = s /\ DOMAIN g = 0 .. 0 /\ 0 .. 0 = {0}
    OBVIOUS
  <2>2. g = [k \in 0 .. 0 |-> IF k = 0 THEN s ELSE F[<<k, g[k - 1]>>]]
    OBVIOUS
  <2>3. Is(0, g)
    <3> HIDE DEF g
    <3> QED BY <2>1, <2>2
  <2> HIDE DEF g, Is
  <2> QED BY <2>3
<1>2. ASSUME NEW m \in 1 .. n, m - 1 \in All PROVE m \in All
  <2>1. PICK g : Is(m - 1, g)
    <3> HIDE DEF Is
    <3> QED BY <1>2
  <2> DEFINE h == [k \in 0 .. m |-> IF k = m THEN F[<<m, g[m - 1]>>] ELSE g[k]]
  <2>2. /\ m - 1 \in 0 .. m - 1 /\ m - 1 \in 0 .. m /\ m - 1 # m /\ m # 0
        /\ \A k \in 0 .. m : k # m => k \in 0 .. m - 1
        /\ \A k \in 0 .. m : k # 0 => k - 1 \in 0 .. m /\ k - 1 # m
    OBVIOUS
  <2>3. \A k \in 0 .. m : h[k] = IF k = 0 THEN s ELSE F[<<k, h[k - 1]>>]
    <3>1. \A k \in 0 .. m - 1 : g[k] = IF k = 0 THEN s ELSE F[<<k, g[k - 1]>>]
      BY <2>1
    <3>2. \A k \in 0 .. m : h[k] = IF k = m THEN F[<<m, g[m - 1]>>] ELSE g[k]
      OBVIOUS
    <3> HIDE DEF h, Is
    <3> QED BY <2>2, <3>1, <3>2
  <2>4. h = [k \in 0 .. m |-> h[k]]
    OBVIOUS
  <2>5. \A k \in 0 .. m : h[k] \in Q[k]
    <3>1. \A k \in 0 .. m - 1 : g[k] \in Q[k]
      BY <2>1
    <3>2. F[<<m, g[m - 1]>>] \in Q[m]
      BY <2>2, <3>1
    <3>3. \A k \in 0 .. m : h[k] = IF k = m THEN F[<<m, g[m - 1]>>] ELSE g[k]
      OBVIOUS
    <3> HIDE DEF h, Is
    <3> QED BY <2>2, <3>1, <3>2, <3>3
  <2>6. h = [k \in 0 .. m |-> IF k = 0 THEN s ELSE F[<<k, h[k - 1]>>]]
    <3> HIDE DEF h, Is
    <3> QED BY <2>3, <2>4
  <2>7. Is(m, h)
    <3> HIDE DEF h
    <3> QED BY <2>5, <2>6
  <2> HIDE DEF Is, h
  <2> QED BY <1>2, <2>7
<1>3. 0 .. n \subseteq All
  <2> HIDE DEF All
  <2> QED BY <1>1, <1>2, UpToAll
<1>4. n \in All
  <2> HIDE DEF All
  <2> QED BY <1>3
<1>5. PICK g : Is(n, g)
  <2> HIDE DEF Is
  <2> QED BY <1>4
<1>6. IsCourse(g, n, s, F, Q)
  BY <1>5 DEF IsCourse
<1> QED BY <1>6

\* The turns of a loop keep what each of them keeps.
LEMMA CourseStays ==
  ASSUME NEW n \in Nat, NEW Q, NEW h, h[0] \in Q[0], \A k \in 1 .. n : h[k - 1] \in Q[k - 1] => h[k] \in Q[k]
  PROVE  h[n] \in Q[n]
<1> DEFINE P == {k \in 0 .. n : h[k] \in Q[k]}
<1>1. 0 \in P
  OBVIOUS
<1>2. \A k \in 1 .. n : k - 1 \in P => k \in P
  OBVIOUS
<1>3. 0 .. n \subseteq P
  <2> HIDE DEF P
  <2> QED BY <1>1, <1>2, UpToAll
<1> QED BY <1>3

-----------------------------------------------------------------------------
(* The expanding array.                                                    *)

Cell == [col : Int, data : Int]

IsArr(A) == A = [data |-> A.data, length |-> A.length, first |-> A.first, last |-> A.last, n |-> A.n, mapped |-> A.mapped]

\* The elements lie inside the allocation; an array with none is anywhere.
Space(A) ==
  /\ IsArr(A)
  /\ A.length \in Nat /\ A.first \in Nat /\ A.last \in Int /\ A.n \in Nat /\ A.mapped = FALSE
  /\ A.data \in [0 .. (A.length - 1) -> Cell]
  /\ A.last < A.length /\ A.first <= A.length /\ A.last >= -1
  /\ A.n > 0 => A.last = A.first + A.n - 1
  /\ A.n = 0 => A.last < A.first

LEMMA JunkIsCell ==
  Junk \in Cell
BY DEF Junk, Cell

LEMMA MakeSpace ==
  ASSUME NEW size \in Nat, NEW A, A = make_expanding_array(size)
  PROVE  Space(A) /\ A.n = 0 /\ Elements(A) = << >>
<1>1. A = [data |-> [i \in 0 .. (size - 1) |-> Junk], length |-> size, first |-> 0, last |-> -1, n |-> 0, mapped |-> FALSE]
  BY DEF make_expanding_array
<1>2. [i \in 0 .. (size - 1) |-> Junk] \in [0 .. (size - 1) -> Cell]
  BY JunkIsCell
<1> DEFINE D == [i \in 0 .. (size - 1) |-> Junk]
<1> HIDE DEF D
<1>3. A = [data |-> D, length |-> size, first |-> 0, last |-> -1, n |-> 0, mapped |-> FALSE] /\ D \in [0 .. (size - 1) -> Cell]
  BY <1>1, <1>2 DEF D
<1>4. A.data = D /\ A.length = size /\ A.first = 0 /\ A.last = -1 /\ A.n = 0 /\ A.mapped = FALSE
  BY <1>3
<1>5. IsArr(A)
  BY <1>3, <1>4 DEF IsArr
<1>6. Elements(A) = << >>
  BY <1>4 DEF Elements
<1> QED BY <1>3, <1>4, <1>5, <1>6 DEF Space

LEMMA ElementsAre ==
  ASSUME NEW A, Space(A)
  PROVE  /\ Elements(A) \in Seq(Cell) /\ Len(Elements(A)) = A.n /\ DOMAIN Elements(A) = 1 .. A.n
         /\ \A k \in 1 .. A.n : /\ Elements(A)[k] = A.data[A.first + k - 1]
                                /\ A.first + k - 1 \in 0 .. (A.length - 1)
                                /\ A.data[A.first + k - 1] \in Cell
<1>1. A.n \in Nat /\ Elements(A) = [k \in 1 .. A.n |-> A.data[A.first + k - 1]]
  BY DEF Space, Elements
<1>2. ASSUME NEW k \in 1 .. A.n PROVE A.first + k - 1 \in 0 .. (A.length - 1) /\ A.data[A.first + k - 1] \in Cell
  <2>1. A.first + k - 1 \in 0 .. (A.length - 1)
    BY DEF Space
  <2> QED BY <2>1 DEF Space
<1>3. Elements(A) \in [1 .. A.n -> Cell]
  BY <1>1, <1>2
<1>4. Elements(A) \in Seq(Cell)
  BY <1>1, <1>3, SeqDef
<1>5. Len(Elements(A)) = A.n
  BY <1>1, <1>3, <1>4, LenProperties
<1> QED BY <1>1, <1>2, <1>4, <1>5

\* A larger allocation keeps everything.
LEMMA ExpandKeeps ==
  ASSUME NEW A, Space(A), NEW size \in Nat, size >= A.length, NEW r, r = expand(A, size)
  PROVE  /\ Space(r) /\ r.length = size /\ r.first = A.first /\ r.last = A.last /\ r.n = A.n
         /\ \A i \in 0 .. (A.length - 1) : r.data[i] = A.data[i]
<1> DEFINE D == [i \in 0 .. (size - 1) |-> IF i \in {j \in DOMAIN A.data : j < size} THEN A.data[i] ELSE Junk]
<1>1. r = [A EXCEPT !.length = size, !.mapped = FALSE, !.data = D]
  BY DEF expand, Space
<1>2. /\ D \in [0 .. (size - 1) -> Cell]
      /\ \A i \in 0 .. (A.length - 1) : i \in 0 .. (size - 1) /\ D[i] = A.data[i]
  <2>1. DOMAIN A.data = 0 .. (A.length - 1) /\ \A i \in DOMAIN A.data : A.data[i] \in Cell
    BY DEF Space
  <2>2. D \in [0 .. (size - 1) -> Cell]
    BY <2>1, JunkIsCell
  <2>3. \A i \in 0 .. (A.length - 1) : i \in 0 .. (size - 1) /\ i < size
    BY DEF Space
  <2> QED BY <2>1, <2>2, <2>3
<1> HIDE DEF D
<1>3. r = [data |-> D, length |-> size, first |-> A.first, last |-> A.last, n |-> A.n, mapped |-> FALSE]
  BY <1>1 DEF Space, IsArr
<1>4. r.data = D /\ r.length = size /\ r.first = A.first /\ r.last = A.last /\ r.n = A.n /\ r.mapped = FALSE
  BY <1>3
<1>5. IsArr(r)
  BY <1>3, <1>4 DEF IsArr
<1>6. Space(r)
  BY <1>2, <1>4, <1>5 DEF Space
<1> QED BY <1>2, <1>4, <1>6

\* Moving to the middle: the last element first, and never onto one that is
\* still to move.
Moved(first, off, last, A) == Downward(LAMBDA B, i : [B EXCEPT !.data[i - first + off] = B.data[i]], last, first, A)

LEMMA MoveAll ==
  ASSUME NEW A, Space(A), A.n > 0, NEW off \in Nat, off >= A.first, off + A.n <= A.length,
         NEW r, r = Moved(A.first, off, A.last, A)
  PROVE  /\ r = [data |-> r.data, length |-> A.length, first |-> A.first, last |-> A.last, n |-> A.n, mapped |-> A.mapped]
         /\ r.data \in [0 .. (A.length - 1) -> Cell]
         /\ \A i \in A.first .. A.last : r.data[i - A.first + off] = A.data[i]
<1>a. PICK len, first, n, last, C, x :
        /\ len = A.length /\ first = A.first /\ n = A.n /\ last = A.last /\ C = A.data /\ x = A.mapped
  OBVIOUS
<1>b. /\ len \in Nat /\ first \in Nat /\ n \in Nat \ {0} /\ last \in Int /\ last = first + n - 1 /\ last < len
      /\ C \in [0 .. (len - 1) -> Cell] /\ off >= first /\ off + n <= len
      /\ A = [data |-> C, length |-> len, first |-> first, last |-> last, n |-> n, mapped |-> x]
      /\ r = Moved(first, off, last, A)
  BY <1>a DEF Space, IsArr
<1> DEFINE U == [data : [0 .. (len - 1) -> Cell], length : {len}, first : {first}, last : {last}, n : {n}, mapped : {x}]
           Body(B, i) == [B EXCEPT !.data[i - first + off] = B.data[i]]
           F == [p \in (1 .. n) \X U |-> Body(p[2], last - p[1] + 1)]
           Q == [k \in 0 .. n |-> {t \in U : /\ \A i \in first .. (last - k) : t.data[i] = C[i]
                                             /\ \A i \in (last - k + 1) .. last : t.data[i - first + off] = C[i]}]
           h == CHOOSE g : g = [k \in 0 .. (last - first + 1) |-> IF k = 0 THEN A ELSE Body(g[k - 1], last - k + 1)]
<1>1. A \in U /\ A.data = C
  BY <1>b
<1>2. A \in Q[0]
  <2>2. (last - 0 + 1) .. last = {} /\ 0 \in 0 .. n
    BY <1>b
  <2> HIDE DEF U
  <2> QED BY <1>b, <1>1, <2>2
<1>3. ASSUME NEW k \in 1 .. n, NEW t \in Q[k - 1] PROVE F[<<k, t>>] = Body(t, last - k + 1) /\ Body(t, last - k + 1) \in Q[k]
  <2>1. k - 1 \in 0 .. n /\ k \in 0 .. n /\ k \in Int /\ last - (k - 1) = last - k + 1
    BY <1>b, <1>1
  <2>2. /\ t \in U /\ \A i \in first .. (last - k + 1) : t.data[i] = C[i]
        /\ \A i \in (last - k + 1 + 1) .. last : t.data[i - first + off] = C[i]
    <3> HIDE DEF U
    <3> QED BY <1>b, <2>1
  <2>3. F[<<k, t>>] = Body(t, last - k + 1)
    <3>1. <<k, t>> \in (1 .. n) \X U
      <4> HIDE DEF U
      <4> QED BY <1>b, <2>2
    <3> HIDE DEF U
    <3> QED BY <1>b, <3>1
  <2> DEFINE at == last - k + 1
             q == at - first + off
             D == [t.data EXCEPT ![q] = t.data[at]]
             b == Body(t, at)
  <2>4. /\ at \in first .. last /\ at \in 0 .. (len - 1) /\ at \in Int /\ q \in 0 .. (len - 1) /\ q >= at /\ q \in Int
        /\ last - k = at - 1 /\ last - k + 1 = at
    BY <1>b, <1>1
  <2>5. b = [t EXCEPT !.data = D]
    BY <1>b
  <2>6. t.data \in [0 .. (len - 1) -> Cell]
    BY <1>b, <2>2
  <2>7. D \in [0 .. (len - 1) -> Cell] /\ D[q] = t.data[at] /\ \A i \in 0 .. (len - 1) : i # q => D[i] = t.data[i]
    <3> HIDE DEF at, q
    <3> QED BY <1>b, <2>4, <2>6
  <2>8. b \in U /\ b.data = D
    <3> HIDE DEF D
    <3> QED BY <1>b, <2>2, <2>5, <2>7
  <2>9. \A i \in first .. (at - 1) : b.data[i] = C[i]
    <3> SUFFICES ASSUME NEW i \in first .. (at - 1) PROVE D[i] = C[i]
      BY <1>b, <2>8
    <3>1. i \in 0 .. (len - 1) /\ i # q /\ i \in first .. at
      BY <1>b, <1>1, <2>4
    <3> HIDE DEF D, q, at
    <3> QED BY <1>b, <2>2, <2>4, <2>7, <3>1
  <2>10. \A i \in at .. last : b.data[i - first + off] = C[i]
    <3> SUFFICES ASSUME NEW i \in at .. last PROVE D[i - first + off] = C[i]
      BY <1>b, <2>8
    <3>1. CASE i = at
      BY <1>b, <2>2, <2>4, <2>7, <3>1
    <3>2. CASE i # at
      <4>1. i \in (at + 1) .. last /\ i - first + off \in 0 .. (len - 1) /\ i - first + off # q
        BY <1>b, <1>1, <2>4, <3>2
      <4> HIDE DEF D, q, at
      <4> QED BY <1>b, <2>2, <2>4, <2>7, <4>1
    <3> QED BY <1>b, <3>1, <3>2
  <2>11. b \in Q[k]
    <3> HIDE DEF U, b, at
    <3> QED BY <1>b, <2>1, <2>4, <2>8, <2>9, <2>10
  <2> QED BY <1>b, <2>3, <2>11
<1>4. PICK g : IsCourse(g, n, A, F, Q)
  <2>1. \A k \in 1 .. n : \A t \in Q[k - 1] : F[<<k, t>>] \in Q[k]
    <3> HIDE DEF F, Q, Body
    <3> QED BY <1>b, <1>3
  <2> HIDE DEF F, Q
  <2>2. n \in Nat
    BY <1>b
  <2> QED BY ONLY <1>b, <1>2, <2>1, <2>2, LoopExists
<1>5. /\ g = [k \in 0 .. n |-> IF k = 0 THEN A ELSE F[<<k, g[k - 1]>>]]
      /\ \A k \in 0 .. n : g[k] \in Q[k]
  <2> HIDE DEF F, Q
  <2> QED BY <1>b, <1>4 DEF IsCourse
<1>6. g = [k \in 0 .. n |-> IF k = 0 THEN A ELSE Body(g[k - 1], last - k + 1)]
  <2>1. \A k \in 0 .. n : k # 0 => k \in 1 .. n /\ k - 1 \in 0 .. n
    BY <1>b, <1>1
  <2> HIDE DEF F, Q, Body
  <2> QED BY <1>b, <1>3, <1>5, <2>1
<1>7. h = [k \in 0 .. n |-> IF k = 0 THEN A ELSE Body(h[k - 1], last - k + 1)]
  <2>1. g = [k \in 0 .. (last - first + 1) |-> IF k = 0 THEN A ELSE Body(g[k - 1], last - k + 1)]
    <3>1. last - first + 1 = n
      BY <1>b
    <3> HIDE DEF Body
    <3> QED BY <1>b, <1>6, <3>1
  <2>2. h = [k \in 0 .. (last - first + 1) |-> IF k = 0 THEN A ELSE Body(h[k - 1], last - k + 1)]
    <3> HIDE DEF Body
    <3> QED BY <1>b, <2>1
  <2>3. last - first + 1 = n
    BY <1>b
  <2> HIDE DEF Body, h
  <2> QED BY <1>b, <2>2, <2>3
<1>8. n \in {k \in 0 .. n : h[k] \in Q[k]}
  <2> DEFINE P == {k \in 0 .. n : h[k] \in Q[k]}
  <2>1. 0 \in P
    <3> HIDE DEF F, Q, Body, h
    <3> QED BY <1>b, <1>1, <1>2, <1>7
  <2>2. ASSUME NEW k \in 1 .. n, k - 1 \in P PROVE k \in P
    <3>1. k \in 0 .. n /\ k # 0
      BY <1>b, <1>1
    <3> HIDE DEF F, Q, Body, h
    <3> QED BY <1>b, <1>3, <1>7, <2>2, <3>1
  <2>3. 0 .. n \subseteq P
    <3> HIDE DEF P
    <3> QED BY <1>b, <1>1, <2>1, <2>2, UpToAll
  <2> HIDE DEF h, Q
  <2> QED BY <1>b, <1>1, <2>3
<1>9. r = h[n]
  <2>1. last - first + 1 = n /\ ~(last < first)
    BY <1>b
  <2>2. r = h[last - first + 1]
    BY <1>b, <2>1 DEF Downward, Moved
  <2> HIDE DEF h
  <2> QED BY <1>b, <2>1, <2>2
<1>10. r \in Q[n] /\ n \in 0 .. n
  <2> HIDE DEF h, Q
  <2> QED BY <1>b, <1>8, <1>9
<1>11. r \in U /\ \A i \in (last - n + 1) .. last : r.data[i - first + off] = C[i]
  <2> HIDE DEF U
  <2> QED BY <1>b, <1>10
<1>12. last - n + 1 = first
  BY <1>b, <1>1
<1>13. r = [data |-> r.data, length |-> len, first |-> first, last |-> last, n |-> n, mapped |-> x]
  BY <1>b, <1>11
<1>14. r.data \in [0 .. (len - 1) -> Cell]
  BY <1>b, <1>11
<1> QED BY <1>a, <1>11, <1>12, <1>13, <1>14

LEMMA RecentredIs ==
  ASSUME NEW A, Space(A), NEW off \in Nat, off = (A.length \div 2) - (A.n \div 2), off >= A.first, off + A.n <= A.length,
         NEW r, r = Recentred(A)
  PROVE  /\ Space(r) /\ r.length = A.length /\ r.first = off /\ r.n = A.n /\ r.last = A.last + (off - A.first)
         /\ \A k \in 0 .. (A.n - 1) : r.data[off + k] = A.data[A.first + k]
<1> DEFINE len == A.length
           first == A.first
           last == A.last
           n == A.n
           C == A.data
           m == Moved(first, off, last, A)
<1>1. /\ A = [data |-> C, length |-> len, first |-> first, last |-> last, n |-> n, mapped |-> FALSE]
      /\ len \in Nat /\ first \in Nat /\ last \in Int /\ n \in Nat /\ last < len /\ last >= -1
      /\ C \in [0 .. (len - 1) -> Cell]
      /\ (n > 0 => last = first + n - 1) /\ (n = 0 => last < first) /\ off >= first /\ off + n <= len
  BY DEF Space, IsArr
<1>2. r = [m EXCEPT !.last = @ + (off - first), !.first = off]
  BY DEF Recentred, Moved
<1> HIDE DEF len, first, last, n, C, m
<1>3. /\ m = [data |-> m.data, length |-> len, first |-> first, last |-> last, n |-> n, mapped |-> FALSE]
      /\ m.data \in [0 .. (len - 1) -> Cell]
      /\ \A i \in first .. last : m.data[i - first + off] = C[i]
  <2>1. CASE n = 0
    <3>1. last < first
      BY <1>1, <2>1
    <3>2. m = A
      BY <3>1 DEF m, Moved, Downward
    <3>3. m.data = C
      BY <1>1, <3>2
    <3> QED BY <1>1, <3>1, <3>2, <3>3
  <2>2. CASE n # 0
    <3>1. n \in Nat \ {0} /\ last = first + n - 1
      BY <1>1, <2>2
    <3>2. m = Moved(first, off, last, A)
      BY DEF m
    <3>3. A.mapped = FALSE
      BY DEF Space
    <3>4. /\ A.n > 0 /\ off >= A.first /\ off + A.n <= A.length /\ m = Moved(A.first, off, A.last, A)
      BY <1>1, <3>1, <3>2 DEF len, first, n, last
    <3>5. /\ m = [data |-> m.data, length |-> A.length, first |-> A.first, last |-> A.last, n |-> A.n, mapped |-> A.mapped]
          /\ m.data \in [0 .. (A.length - 1) -> Cell]
          /\ \A i \in A.first .. A.last : m.data[i - A.first + off] = A.data[i]
      <4> HIDE DEF m
      <4> QED BY <3>4, MoveAll
    <3> QED BY <3>3, <3>5 DEF len, first, n, last, C
  <2> QED BY <2>1, <2>2
<1> DEFINE D == m.data
<1>4. r = [data |-> D, length |-> len, first |-> off, last |-> last + (off - first), n |-> n, mapped |-> FALSE]
  <2>1. m = [data |-> D, length |-> len, first |-> first, last |-> last, n |-> n, mapped |-> FALSE]
    BY <1>3
  <2> HIDE DEF D
  <2> QED BY <1>2, <2>1
<1>5. r.data = D /\ r.length = len /\ r.first = off /\ r.last = last + (off - first) /\ r.n = n /\ r.mapped = FALSE
  <2> HIDE DEF D
  <2> QED BY <1>4
<1>6. IsArr(r)
  <2> HIDE DEF D
  <2> QED BY <1>4, <1>5 DEF IsArr
<1>7. Space(r)
  <2>1. last + (off - first) >= -1 /\ last + (off - first) < len /\ off <= len
    BY <1>1
  <2>2. last + (off - first) \in Int /\ (n > 0 => last + (off - first) = off + n - 1) /\ (n = 0 => last + (off - first) < off)
    BY <1>1
  <2>3. r.data \in [0 .. (len - 1) -> Cell]
    BY <1>3, <1>5
  <2> HIDE DEF D
  <2> QED BY <1>1, <1>5, <1>6, <2>1, <2>2, <2>3 DEF Space
<1>8. ASSUME NEW k \in 0 .. (n - 1) PROVE r.data[off + k] = C[first + k]
  <2>1. first + k \in first .. last /\ (first + k) - first + off = off + k
    BY <1>1
  <2> QED BY <1>3, <1>5, <2>1
<1> QED BY <1>5, <1>7, <1>8 DEF len, first, last, n, C

WithCell(D, i, d) == [D EXCEPT ![i] = d]

LEMMA SetInRoomIs ==
  ASSUME NEW A, Space(A), NEW c \in Int, NEW d, NEW r, r = SetInRoom(d, c, A)
  PROVE  /\ IsArr(r) /\ r.data = WithCell(A.data, A.first + c, d) /\ r.length = A.length /\ r.mapped = A.mapped
         /\ (c < 0 => r.first = A.first + c) /\ (~(c < 0) => r.first = A.first)
         /\ (A.first + c > A.last => r.last = A.first + c) /\ (~(A.first + c > A.last) => r.last = A.last)
         /\ r.n = A.n + (IF A.first + c > A.last THEN 1 ELSE 0) + (IF c < 0 THEN 1 ELSE 0)
<1> DEFINE len == A.length
           first == A.first
           last == A.last
           n == A.n
           C == A.data
           at == first + c
<1>1. /\ A = [data |-> C, length |-> len, first |-> first, last |-> last, n |-> n, mapped |-> FALSE]
      /\ first \in Int /\ last \in Int /\ n \in Int
  BY DEF Space, IsArr
<1>2. r = [A EXCEPT !.data[at] = d,
                !.last = IF at > last THEN at ELSE @,
                !.first = IF c < 0 THEN at ELSE @,
                !.n = @ + (IF at > last THEN 1 ELSE 0) + (IF c < 0 THEN 1 ELSE 0)]
  BY DEF SetInRoom
<1> HIDE DEF len, first, last, n, C, at
<1> DEFINE D == [C EXCEPT ![at] = d]
           f == IF c < 0 THEN at ELSE first
           e == IF at > last THEN at ELSE last
           s == n + (IF at > last THEN 1 ELSE 0) + (IF c < 0 THEN 1 ELSE 0)
<1>3. r = [data |-> D, length |-> len, first |-> f, last |-> e, n |-> s, mapped |-> FALSE]
  BY <1>1, <1>2
<1>4. r.data = D /\ r.length = len /\ r.first = f /\ r.last = e /\ r.n = s /\ r.mapped = FALSE
  <2> HIDE DEF D, f, e, s
  <2> QED BY <1>3
<1>5. IsArr(r)
  <2> HIDE DEF D, f, e, s
  <2> QED BY <1>3, <1>4 DEF IsArr
<1>6. A.mapped = FALSE
  BY DEF Space
<1> QED BY <1>4, <1>5, <1>6 DEF len, first, last, n, C, at, WithCell

LEMMA InsertLast ==
  ASSUME NEW A, Space(A), A.first = 0, NEW d \in Cell, NEW r, r = expanding_array_insert(d, A)
  PROVE  /\ Space(r) /\ r.n = A.n + 1 /\ r.first = 0
         /\ r.data[A.n] = d /\ \A k \in 0 .. (A.n - 1) : r.data[k] = A.data[k]
<1> DEFINE len == A.length
           n == A.n
           C == A.data
           w == IF len = 0 THEN 2 ELSE 2 * len
           B == [A EXCEPT !.last = @ + 1]
           size == IF n >= len THEN w ELSE len
           D == [i \in 0 .. (size - 1) |-> IF i \in 0 .. (len - 1) THEN C[i] ELSE Junk]
           m == RoomAtEnd(B)
<1>1. /\ A = [data |-> C, length |-> len, first |-> 0, last |-> n - 1, n |-> n, mapped |-> FALSE]
      /\ len \in Nat /\ n \in Nat /\ n - 1 < len
      /\ C \in [0 .. (len - 1) -> Cell]
  BY DEF Space, IsArr
<1> HIDE DEF len, n, C
<1>2. B = [data |-> C, length |-> len, first |-> 0, last |-> n, n |-> n, mapped |-> FALSE]
  <2> DEFINE z == 0
             e == n - 1
             x == FALSE
  <2>1. A = [data |-> C, length |-> len, first |-> z, last |-> e, n |-> n, mapped |-> x] /\ e \in Int /\ e + 1 = n
    BY <1>1
  <2>2. B = [A EXCEPT !.last = @ + 1]
    OBVIOUS
  <2> HIDE DEF z, e, x, B
  <2>3. A.last = e
    BY <2>1
  <2>4. B = [A EXCEPT !.last = n]
    BY <2>1, <2>2, <2>3
  <2>5. B = [data |-> C, length |-> len, first |-> z, last |-> n, n |-> n, mapped |-> x]
    BY <2>1, <2>4
  <2> QED BY <2>5 DEF z, x
<1> HIDE DEF B
<1>3. m = [data |-> D, length |-> size, first |-> 0, last |-> n, n |-> n, mapped |-> FALSE]
  <2>1. B.last = n /\ B.length = len /\ B.data = C /\ B.mapped = FALSE
    BY <1>2
  <2>2. CASE n >= len
    <3> DEFINE E == [i \in 0 .. (w - 1) |-> IF i \in {j \in DOMAIN C : j < w} THEN C[i] ELSE Junk]
    <3>1. m = expand(B, w)
      BY <2>1, <2>2 DEF RoomAtEnd
    <3>2. m = [B EXCEPT !.length = w, !.mapped = FALSE, !.data = E]
      BY <2>1, <3>1 DEF expand
    <3> HIDE DEF E, w, m
    <3>3. m = [data |-> E, length |-> w, first |-> 0, last |-> n, n |-> n, mapped |-> FALSE]
      BY <1>2, <3>2
    <3>4. w = size
      BY <2>2
    <3>5. E = D
      <4>1. DOMAIN C = 0 .. (len - 1) /\ w \in Nat /\ w >= len
        BY <1>1 DEF w
      <4>2. {j \in DOMAIN C : j < w} = 0 .. (len - 1)
        <5>1. \A j \in 0 .. (len - 1) : j < w
          BY <1>1, <4>1
        <5> QED BY <4>1, <5>1
      <4> QED BY <3>4, <4>2 DEF E
    <3> HIDE DEF size, D
    <3> QED BY <3>3, <3>4, <3>5
  <2>3. CASE ~(n >= len)
    <3>1. m = B
      BY <2>1, <2>3 DEF RoomAtEnd
    <3>2. size = len
      BY <2>3
    <3>3. D = C
      BY <1>1, <3>2
    <3> HIDE DEF D, size, m
    <3> QED BY <1>2, <3>1, <3>2, <3>3
  <2> QED BY <2>2, <2>3
<1>4. /\ size \in Nat /\ n < size /\ size >= len
      /\ D \in [0 .. (size - 1) -> Cell] /\ \A i \in 0 .. (len - 1) : D[i] = C[i]
  <2>1. size \in Nat /\ n < size /\ size >= len
    BY <1>1
  <2> HIDE DEF size
  <2>2. D \in [0 .. (size - 1) -> Cell]
    BY <1>1, JunkIsCell
  <2>3. \A i \in 0 .. (len - 1) : i \in 0 .. (size - 1)
    BY <1>1, <2>1
  <2> QED BY <2>1, <2>2, <2>3
<1>5. r = PutLast(d, m)
  BY DEF expanding_array_insert, B
<1> HIDE DEF size, D, m
<1> DEFINE E == [D EXCEPT ![n] = d]
<1>6. r = [data |-> E, length |-> size, first |-> 0, last |-> n, n |-> n + 1, mapped |-> FALSE]
  <2>1. m.last = n
    BY <1>3
  <2>2. r = [m EXCEPT !.data[n] = d, !.n = @ + 1]
    BY <1>5, <2>1 DEF PutLast
  <2> QED BY <1>3, <2>2
<1>7. /\ E \in [0 .. (size - 1) -> Cell] /\ E[n] = d
      /\ \A k \in 0 .. (n - 1) : E[k] = C[k]
  <2>1. n \in 0 .. (size - 1)
    BY <1>1, <1>4
  <2>2. \A k \in 0 .. (n - 1) : k \in 0 .. (size - 1) /\ k \in 0 .. (len - 1) /\ k # n
    BY <1>1, <1>4
  <2> QED BY <1>4, <2>1, <2>2
<1> HIDE DEF E
<1>8. r.data = E /\ r.length = size /\ r.first = 0 /\ r.last = n /\ r.n = n + 1 /\ r.mapped = FALSE
  BY <1>6
<1>9. IsArr(r)
  BY <1>6, <1>8 DEF IsArr
<1>10. Space(r)
  <2>1. n \in Int /\ n + 1 \in Nat /\ n >= -1 /\ n = 0 + (n + 1) - 1 /\ n + 1 # 0 /\ 0 <= size /\ 0 \in Nat
    BY <1>1, <1>4
  <2> QED BY <1>4, <1>7, <1>8, <1>9, <2>1 DEF Space
<1> QED BY <1>7, <1>8, <1>10 DEF n, C

\* The element at a place, counted from 0.
At(A, k) == A.data[A.first + k]

LEMMA AtIsCell ==
  ASSUME NEW A, Space(A), NEW k \in 0 .. (A.n - 1)
  PROVE  /\ At(A, k) \in Cell /\ expanding_array_get(k, A) = At(A, k) /\ Elements(A)[k + 1] = At(A, k)
         /\ A.first + k \in A.first .. A.last /\ A.first + k \in 0 .. (A.length - 1)
<1>1. /\ A.n \in Nat /\ A.first \in Nat /\ A.last \in Int /\ A.length \in Nat /\ A.n > 0
      /\ A.last = A.first + A.n - 1 /\ A.last < A.length
  BY DEF Space
<1>2. A.first + k \in A.first .. A.last /\ A.first + k \in 0 .. (A.length - 1) /\ k + 1 \in 1 .. A.n
      /\ A.first + (k + 1) - 1 = A.first + k /\ A.length # 0 /\ ~(k + A.first > A.last) /\ ~(k < 0)
      /\ k + A.first = A.first + k
  BY <1>1
<1>3. At(A, k) \in Cell
  BY <1>2 DEF At, Space
<1>4. expanding_array_get(k, A) = At(A, k)
  BY <1>2 DEF At, expanding_array_get
<1>5. Elements(A)[k + 1] = At(A, k)
  BY <1>2 DEF At, Elements
<1> QED BY <1>2, <1>3, <1>4, <1>5

LEMMA SetReplaces ==
  ASSUME NEW A, Space(A), NEW c \in 0 .. (A.n - 1), NEW d \in Cell, NEW r, r = expanding_array_set(d, c, A)
  PROVE  /\ Space(r) /\ r.n = A.n /\ r.first = A.first /\ r.last = A.last /\ r.length = A.length
         /\ \A k \in 0 .. (A.n - 1) : At(r, k) = IF k = c THEN d ELSE At(A, k)
<1>1. /\ A.n \in Nat /\ A.first \in Nat /\ A.last \in Int /\ A.length \in Nat /\ A.last < A.length /\ A.n > 0
      /\ A.last = A.first + A.n - 1 /\ c # A.n
      /\ A.data \in [0 .. (A.length - 1) -> Cell]
  BY DEF Space
<1>2. A.first + c \in 0 .. (A.length - 1) /\ ~(A.first + c > A.last) /\ ~(c < 0) /\ ~(A.first + c >= A.length) /\ ~(A.first + c < 0)
      /\ c \in Int
  BY <1>1
<1>3. r = SetInRoom(d, c, A)
  BY <1>1, <1>2 DEF expanding_array_set
<1>4. /\ IsArr(r) /\ r.data = WithCell(A.data, A.first + c, d) /\ r.length = A.length /\ r.mapped = A.mapped
      /\ r.first = A.first /\ r.last = A.last /\ r.n = A.n
  <2>1. /\ IsArr(r) /\ r.data = WithCell(A.data, A.first + c, d) /\ r.length = A.length /\ r.mapped = A.mapped
        /\ (c < 0 => r.first = A.first + c) /\ (~(c < 0) => r.first = A.first)
        /\ (A.first + c > A.last => r.last = A.first + c) /\ (~(A.first + c > A.last) => r.last = A.last)
        /\ r.n = A.n + (IF A.first + c > A.last THEN 1 ELSE 0) + (IF c < 0 THEN 1 ELSE 0)
    <3>1. c \in Int
      BY <1>2
    <3> QED BY ONLY <1>3, <3>1, Space(A), SetInRoomIs
  <2> QED BY <1>1, <1>2, <2>1
<1>5. Space(r)
  <2>1. r.data \in [0 .. (A.length - 1) -> Cell]
    BY <1>1, <1>4 DEF WithCell
  <2> QED BY <1>4, <2>1 DEF Space
<1>6. ASSUME NEW k \in 0 .. (A.n - 1) PROVE At(r, k) = IF k = c THEN d ELSE At(A, k)
  <2>1. A.first + k \in 0 .. (A.length - 1) /\ (A.first + k = A.first + c <=> k = c)
    BY <1>1
  <2> QED BY <1>1, <1>4, <2>1 DEF At, WithCell
<1> QED BY <1>4, <1>5, <1>6

\* An array with room at place c, the one before the first or the one behind
\* the last.
LEMMA SetAtEnd ==
  ASSUME NEW A, Space(A), NEW c \in {-1, A.n}, c = A.n \/ A.n > 0, NEW d \in Cell,
         A.first + c \in 0 .. (A.length - 1), NEW r, r = SetInRoom(d, c, A)
  PROVE  /\ Space(r) /\ r.n = A.n + 1
         /\ c = A.n => At(r, A.n) = d /\ \A k \in 0 .. (A.n - 1) : At(r, k) = At(A, k)
         /\ c = -1 => At(r, 0) = d /\ \A k \in 0 .. (A.n - 1) : At(r, k + 1) = At(A, k)
<1>1. /\ A.n \in Nat /\ A.first \in Nat /\ A.last \in Int /\ A.length \in Nat /\ A.last < A.length /\ c \in Int
      /\ A.data \in [0 .. (A.length - 1) -> Cell] /\ A.last >= -1
      /\ (A.n > 0 => A.last = A.first + A.n - 1) /\ (A.n = 0 => A.last < A.first)
  BY DEF Space
<1>2. /\ IsArr(r) /\ r.data = WithCell(A.data, A.first + c, d) /\ r.length = A.length /\ r.mapped = A.mapped
      /\ (c < 0 => r.first = A.first + c) /\ (~(c < 0) => r.first = A.first)
      /\ (A.first + c > A.last => r.last = A.first + c) /\ (~(A.first + c > A.last) => r.last = A.last)
      /\ r.n = A.n + (IF A.first + c > A.last THEN 1 ELSE 0) + (IF c < 0 THEN 1 ELSE 0)
  <2>1. c \in Int
    BY <1>1
  <2> QED BY ONLY <2>1, Space(A), r = SetInRoom(d, c, A), SetInRoomIs
<1>3. r.data \in [0 .. (A.length - 1) -> Cell] /\ r.data[A.first + c] = d
      /\ \A i \in 0 .. (A.length - 1) : i # A.first + c => r.data[i] = A.data[i]
  BY <1>1, <1>2 DEF WithCell
<1>4. CASE c = A.n
  <2>1. r.first = A.first /\ r.last = A.first + A.n /\ r.n = A.n + 1
    BY <1>1, <1>2, <1>4
  <2>2. Space(r)
    <3>1. A.n + 1 \in Nat /\ A.first + A.n < A.length /\ A.first <= A.length /\ A.first + A.n >= -1
          /\ A.first + A.n = A.first + (A.n + 1) - 1 /\ A.n + 1 # 0 /\ A.first + A.n \in Int
      BY <1>1, <1>4
    <3> QED BY <1>1, <1>2, <1>3, <2>1, <3>1 DEF Space
  <2>3. At(r, A.n) = d
    BY <1>3, <1>4, <2>1 DEF At
  <2>4. ASSUME NEW k \in 0 .. (A.n - 1) PROVE At(r, k) = At(A, k)
    <3>1. A.first + k \in 0 .. (A.length - 1) /\ A.first + k # A.first + c
      BY <1>1, <1>4
    <3> QED BY <1>3, <2>1, <3>1 DEF At
  <2>5. c # -1
    BY <1>1, <1>4
  <2> QED BY <2>1, <2>2, <2>3, <2>4, <2>5
<1>5. CASE c # A.n
  <2>1. c = -1 /\ A.n > 0
    BY <1>5
  <2>2. r.first = A.first - 1 /\ r.last = A.last /\ r.n = A.n + 1 /\ A.first + c = A.first - 1
    BY <1>1, <1>2, <2>1
  <2>3. Space(r)
    <3>1. A.n + 1 \in Nat /\ A.first - 1 \in Nat /\ A.first - 1 <= A.length
          /\ A.last = (A.first - 1) + (A.n + 1) - 1 /\ A.n + 1 # 0
      <4>1. A.first - 1 >= 0
        BY <2>1, <2>2
      <4> QED BY ONLY <1>1, <2>1, <4>1, SMTT(30)
    <3> QED BY <1>1, <1>2, <1>3, <2>2, <3>1 DEF Space
  <2>4. At(r, 0) = d
    <3>1. A.first - 1 + 0 = A.first - 1
      BY <1>1
    <3> QED BY <1>3, <2>2, <3>1 DEF At
  <2>5. ASSUME NEW k \in 0 .. (A.n - 1) PROVE At(r, k + 1) = At(A, k)
    <3>1. A.first + k \in 0 .. (A.length - 1) /\ A.first + k # A.first + c /\ (A.first - 1) + (k + 1) = A.first + k
      <4>1. A.first + k \in 0 .. (A.length - 1) /\ A.first + k # A.first - 1 /\ (A.first - 1) + (k + 1) = A.first + k
        BY ONLY <1>1, <2>1, k \in 0 .. (A.n - 1)
      <4> QED BY ONLY <2>2, <4>1
    <3> QED BY <1>3, <2>2, <3>1 DEF At
  <2> QED BY <1>5, <2>2, <2>3, <2>4, <2>5
<1> QED BY <1>4, <1>5

\* Place -1 or n of any array: when an end has no room, the allocation doubles.
LEMMA SetGrows ==
  ASSUME NEW A, Space(A), NEW c \in {-1, A.n}, c = A.n \/ A.n > 0, NEW d \in Cell,
         NEW r, r = expanding_array_set(d, c, A)
  PROVE  /\ Space(r) /\ r.n = A.n + 1
         /\ c = A.n => At(r, A.n) = d /\ \A k \in 0 .. (A.n - 1) : At(r, k) = At(A, k)
         /\ c = -1 => At(r, 0) = d /\ \A k \in 0 .. (A.n - 1) : At(r, k + 1) = At(A, k)
<1>1. /\ A.n \in Nat /\ A.first \in Nat /\ A.last \in Int /\ A.length \in Nat /\ A.last < A.length /\ c \in Int
      /\ A.first <= A.length
      /\ (A.n > 0 => A.last = A.first + A.n - 1) /\ (A.n = 0 => A.last < A.first)
  BY DEF Space
<1>2. CASE A.first = 0 /\ c = A.n
  <2>1. r = expanding_array_insert(d, A)
    BY <1>2 DEF expanding_array_set
  <2>2. Space(r) /\ r.n = A.n + 1 /\ r.first = 0 /\ r.data[A.n] = d /\ \A k \in 0 .. (A.n - 1) : r.data[k] = A.data[k]
    BY <1>2, <2>1, InsertLast
  <2>3. c # -1 /\ 0 + A.n = A.n /\ \A k \in 0 .. (A.n - 1) : 0 + k = k
    BY <1>1, <1>2
  <2> QED BY <1>2, <2>2, <2>3 DEF At
<1>3. CASE ~(A.first = 0 /\ c = A.n) /\ A.first + c \in 0 .. (A.length - 1)
  <2>1. ~(A.first + c >= A.length) /\ ~(A.first + c < 0)
    BY <1>1, <1>3
  <2>2. r = SetInRoom(d, c, A)
    BY <1>3, <2>1 DEF expanding_array_set
  <2> QED BY <1>3, <2>2, SetAtEnd
<1>4. CASE ~(A.first = 0 /\ c = A.n) /\ A.first + c \notin 0 .. (A.length - 1)
  <2> DEFINE size == 2 * A.length
             B == expand(A, size)
             off == A.length - (A.n \div 2)
             R == Recentred(B)
  <2>1. /\ A.length > 0 /\ A.n <= A.length /\ (c = A.n => A.n < A.length) /\ A.first + c <= A.length
        /\ A.first + c >= A.length \/ A.first + c < 0
        /\ A.first + c < 2 * A.length /\ -(A.first + c) < 2 * A.length
    BY <1>1, <1>4
  <2>2. r = SetInRoom(d, c, R)
    BY <1>4, <2>1 DEF expanding_array_set
  <2>3. size \in Nat /\ size >= A.length
    BY <1>1
  <2>4. /\ Space(B) /\ B.length = size /\ B.first = A.first /\ B.last = A.last /\ B.n = A.n
        /\ \A i \in 0 .. (A.length - 1) : B.data[i] = A.data[i]
    <3> HIDE DEF B, size
    <3> QED BY <2>3, ExpandKeeps DEF B
  <2>5. /\ off \in Nat /\ off = (size \div 2) - (A.n \div 2) /\ off >= A.first /\ off + A.n <= size
        /\ off + c \in 0 .. (size - 1)
    <3> DEFINE half == A.n \div 2
    <3>1. half \in Nat /\ 2 * half <= A.n /\ A.n <= 2 * half + 1 /\ size \div 2 = A.length
      BY <1>1
    <3> HIDE DEF half
    <3>2. off = A.length - half
      BY DEF half
    <3> HIDE DEF off, size
    <3>3. off = (size \div 2) - (A.n \div 2)
      BY <3>1, <3>2 DEF half
    <3>4. off \in Nat /\ off >= A.first /\ off + A.n <= size
      BY <1>1, <2>1, <3>1, <3>2 DEF size
    <3>5. CASE c = A.n
      BY <1>1, <2>1, <3>1, <3>2, <3>5 DEF size
    <3>6. CASE c = -1
      <4>1. off + c = off - 1
        BY <3>4, <3>6
      <4>2. off - 1 >= 0 /\ off - 1 <= size - 1
        BY <1>1, <2>1, <3>1, <3>2, <3>4 DEF size
      <4> QED BY <3>3, <3>4, <4>1, <4>2
    <3> QED BY <3>3, <3>4, <3>5, <3>6
  <2>6. /\ Space(R) /\ R.length = size /\ R.first = off /\ R.n = A.n
        /\ \A k \in 0 .. (A.n - 1) : R.data[off + k] = B.data[A.first + k]
    <3>1. off = (B.length \div 2) - (B.n \div 2) /\ off \in Nat /\ off >= B.first /\ off + B.n <= B.length
      <4> HIDE DEF B, off, size
      <4> QED BY <2>4, <2>5
    <3> HIDE DEF off, B, size, R
    <3> QED BY <2>4, <3>1, RecentredIs DEF R
  <2>7. \A k \in 0 .. (A.n - 1) : At(R, k) = At(A, k)
    <3> SUFFICES ASSUME NEW k \in 0 .. (A.n - 1) PROVE At(R, k) = At(A, k)
      OBVIOUS
    <3>1. A.first + k \in 0 .. (A.length - 1)
      BY <1>1
    <3> HIDE DEF off, B, size, R
    <3> QED BY <2>4, <2>6, <3>1 DEF At
  <2> HIDE DEF off, B, size, R
  <2>8. /\ Space(r) /\ r.n = R.n + 1
        /\ c = R.n => At(r, R.n) = d /\ \A k \in 0 .. (R.n - 1) : At(r, k) = At(R, k)
        /\ c = -1 => At(r, 0) = d /\ \A k \in 0 .. (R.n - 1) : At(r, k + 1) = At(R, k)
    <3>1. c \in {-1, R.n} /\ (c = R.n \/ R.n > 0) /\ R.first + c \in 0 .. (R.length - 1)
      BY <2>5, <2>6
    <3> QED BY <2>2, <2>6, <3>1, SetAtEnd
  <2> QED BY <2>6, <2>7, <2>8
<1> QED BY <1>2, <1>3, <1>4

\* The arrays, as a set.
Spaces == {t \in [data : UNION {[0 .. (l - 1) -> Cell] : l \in Nat}, length : Nat, first : Nat, last : Int, n : Nat, mapped : {FALSE}] : Space(t)}

LEMMA SpacesAreAll ==
  ASSUME NEW A, Space(A)
  PROVE  A \in Spaces
<1>1. A.data \in UNION {[0 .. (l - 1) -> Cell] : l \in Nat}
  BY DEF Space
<1> DEFINE DD == UNION {[0 .. (l - 1) -> Cell] : l \in Nat}
<1> HIDE DEF DD
<1>2. A \in [data : DD, length : Nat, first : Nat, last : Int, n : Nat, mapped : {FALSE}]
  BY <1>1 DEF Space, IsArr, DD
<1> QED BY <1>2 DEF Spaces, DD

LEMMA ShiftedIs ==
  ASSUME NEW A, Space(A), NEW from \in 0 .. (A.n - 1), NEW to \in 0 .. (A.n - 1), NEW r, r = Shifted(from, to, A)
  PROVE  /\ Space(r) /\ r.n = A.n /\ r.first = A.first /\ r.last = A.last /\ r.length = A.length
         /\ \A k \in 0 .. (A.n - 1) : At(r, k) = IF k = to THEN At(A, from) ELSE At(A, k)
<1>1. At(A, from) \in Cell /\ expanding_array_get(from, A) = At(A, from)
  BY AtIsCell
<1>2. r = expanding_array_set(At(A, from), to, A)
  BY <1>1 DEF Shifted
<1> QED BY <1>1, <1>2, SetReplaces

LEMMA ShiftedGrows ==
  ASSUME NEW A, Space(A), A.n > 0, NEW from \in 0 .. (A.n - 1), NEW to \in {-1, A.n}, NEW r, r = Shifted(from, to, A)
  PROVE  /\ Space(r) /\ r.n = A.n + 1
         /\ to = A.n => At(r, A.n) = At(A, from) /\ \A k \in 0 .. (A.n - 1) : At(r, k) = At(A, k)
         /\ to = -1 => At(r, 0) = At(A, from) /\ \A k \in 0 .. (A.n - 1) : At(r, k + 1) = At(A, k)
<1>1. At(A, from) \in Cell /\ expanding_array_get(from, A) = At(A, from)
  BY AtIsCell
<1>2. r = expanding_array_set(At(A, from), to, A)
  BY <1>1 DEF Shifted
<1> QED BY <1>1, <1>2, SetGrows

Same(t, A) == Space(t) /\ t.n = A.n /\ t.first = A.first /\ t.last = A.last /\ t.length = A.length


\* What the loops that close or open a gap have done: each place of lo..hi has
\* the element that was behind it, or before it.
Closing(t, A, lo, hi) ==
  Same(t, A) /\ \A k \in 0 .. (A.n - 1) : At(t, k) = IF k \in lo .. hi THEN At(A, k + 1) ELSE At(A, k)
Opening(t, A, lo, hi) ==
  Same(t, A) /\ \A k \in 0 .. (A.n - 1) : At(t, k) = IF k \in lo .. hi THEN At(A, k - 1) ELSE At(A, k)
Opened(t, A, lo) ==
  /\ Space(t) /\ t.n = A.n + 1
  /\ \A k \in 0 .. A.n : At(t, k) = IF k > lo THEN At(A, k - 1) ELSE At(A, IF k = A.n THEN k - 1 ELSE k)

LEMMA CloseStep ==
  ASSUME NEW A, Space(A), NEW t, NEW lo \in Nat, NEW hi \in Nat, hi >= lo, hi + 1 <= A.n - 1, Closing(t, A, lo, hi - 1),
         NEW r, r = Shifted(hi + 1, hi, t)
  PROVE  Closing(r, A, lo, hi)
<1>n. PICK n \in Nat : n = A.n
  BY DEF Space
<1>1. Space(t) /\ t.n = n /\ hi \in 0 .. (n - 1) /\ hi + 1 \in 0 .. (n - 1)
  BY <1>n DEF Closing, Same
<1>2. /\ Space(r) /\ r.n = t.n /\ r.first = t.first /\ r.last = t.last /\ r.length = t.length
      /\ \A j \in 0 .. (t.n - 1) : At(r, j) = IF j = hi THEN At(t, hi + 1) ELSE At(t, j)
  BY <1>1, ShiftedIs
<1>3. Same(r, A)
  BY <1>2 DEF Closing, Same
<1>4. ASSUME NEW j \in 0 .. (n - 1) PROVE At(r, j) = IF j \in lo .. hi THEN At(A, j + 1) ELSE At(A, j)
  <2>1. CASE j = hi
    <3>1. At(r, j) = At(t, hi + 1) /\ j \in lo .. hi /\ hi + 1 \notin lo .. (hi - 1)
      BY <1>1, <1>2, <2>1
    <3>2. At(t, hi + 1) = At(A, hi + 1)
      BY <1>1, <1>n, <3>1 DEF Closing
    <3> QED BY <2>1, <3>1, <3>2
  <2>2. CASE j # hi
    <3>1. At(r, j) = At(t, j) /\ (j \in lo .. hi <=> j \in lo .. (hi - 1))
      BY <1>1, <1>2, <2>2
    <3> QED BY <1>n, <3>1 DEF Closing
  <2> QED BY <2>1, <2>2
<1> QED BY <1>n, <1>3, <1>4 DEF Closing

LEMMA OpenStep ==
  ASSUME NEW A, Space(A), NEW t, NEW lo \in Nat, NEW hi \in Nat, lo <= hi, hi <= A.n - 1, lo >= 1, Opening(t, A, lo + 1, hi),
         NEW r, r = Shifted(lo - 1, lo, t)
  PROVE  Opening(r, A, lo, hi)
<1>n. PICK n \in Nat : n = A.n
  BY DEF Space
<1>1. Space(t) /\ t.n = n /\ lo \in 0 .. (n - 1) /\ lo - 1 \in 0 .. (n - 1)
  BY <1>n DEF Opening, Same
<1>2. /\ Space(r) /\ r.n = t.n /\ r.first = t.first /\ r.last = t.last /\ r.length = t.length
      /\ \A j \in 0 .. (t.n - 1) : At(r, j) = IF j = lo THEN At(t, lo - 1) ELSE At(t, j)
  BY <1>1, ShiftedIs
<1>3. Same(r, A)
  BY <1>2 DEF Opening, Same
<1>4. ASSUME NEW j \in 0 .. (n - 1) PROVE At(r, j) = IF j \in lo .. hi THEN At(A, j - 1) ELSE At(A, j)
  <2>1. CASE j = lo
    <3>1. At(r, j) = At(t, lo - 1) /\ j \in lo .. hi /\ lo - 1 \notin (lo + 1) .. hi
      BY <1>1, <1>2, <2>1
    <3>2. At(t, lo - 1) = At(A, lo - 1)
      BY <1>1, <1>n, <3>1 DEF Opening
    <3> QED BY <2>1, <3>1, <3>2
  <2>2. CASE j # lo
    <3>1. At(r, j) = At(t, j) /\ (j \in lo .. hi <=> j \in (lo + 1) .. hi)
      BY <1>1, <1>2, <2>2
    <3> QED BY <1>n, <3>1 DEF Opening
  <2> QED BY <2>1, <2>2
<1> QED BY <1>n, <1>3, <1>4 DEF Opening

\* The first step takes the last element to a place of its own.
LEMMA OpenedStep ==
  ASSUME NEW A, Space(A), NEW t, NEW lo \in 0 .. (A.n - 1), IF lo = A.n - 1 THEN t = A ELSE Opened(t, A, lo + 1),
         NEW r, r = Shifted(lo, lo + 1, t)
  PROVE  Opened(r, A, lo)
<1>n. PICK n \in Nat : n = A.n
  BY DEF Space
<1>1. CASE lo = n - 1
  <2>1. t = A /\ A.n > 0 /\ lo \in 0 .. (A.n - 1) /\ lo + 1 = A.n
    BY <1>n, <1>1
  <2>2. r = Shifted(lo, A.n, A)
    BY <2>1
  <2>3. /\ Space(r) /\ r.n = A.n + 1 /\ At(r, A.n) = At(A, lo) /\ \A k \in 0 .. (A.n - 1) : At(r, k) = At(A, k)
    BY <2>1, <2>2, ShiftedGrows
  <2>4. ASSUME NEW k \in 0 .. n PROVE At(r, k) = IF k > lo THEN At(A, k - 1) ELSE At(A, IF k = n THEN k - 1 ELSE k)
    <3>1. CASE k = n
      BY <1>n, <1>1, <2>3, <3>1
    <3>2. CASE k # n
      <4>1. k \in 0 .. (n - 1) /\ ~(k > lo)
        BY <1>1, <3>2
      <4> QED BY <1>n, <2>3, <3>2, <4>1
    <3> QED BY <3>1, <3>2
  <2> QED BY <1>n, <2>3, <2>4 DEF Opened
<1>2. CASE lo # n - 1
  <2>1. Opened(t, A, lo + 1) /\ t.n = n + 1 /\ Space(t)
    BY <1>n, <1>2 DEF Opened
  <2>2. lo \in 0 .. (t.n - 1) /\ lo + 1 \in 0 .. (t.n - 1) /\ lo + 1 < n /\ lo \in Nat
    BY <1>n, <1>2, <2>1
  <2>3. /\ Space(r) /\ r.n = t.n /\ \A k \in 0 .. (t.n - 1) : At(r, k) = IF k = lo + 1 THEN At(t, lo) ELSE At(t, k)
    BY <2>1, <2>2, ShiftedIs
  <2>4. \A k \in 0 .. n : At(t, k) = IF k > lo + 1 THEN At(A, k - 1) ELSE At(A, IF k = n THEN k - 1 ELSE k)
    BY <1>n, <2>1 DEF Opened
  <2>5. ASSUME NEW k \in 0 .. n PROVE At(r, k) = IF k > lo THEN At(A, k - 1) ELSE At(A, IF k = n THEN k - 1 ELSE k)
    <3>0. k \in 0 .. (t.n - 1) /\ lo \in 0 .. n
      BY <2>1, <2>2
    <3>1. CASE k = lo + 1
      <4>1. At(r, k) = At(t, lo) /\ ~(lo > lo + 1) /\ lo # n /\ k > lo /\ k - 1 = lo
        BY <2>2, <2>3, <3>0, <3>1
      <4> QED BY <2>4, <3>0, <4>1
    <3>2. CASE k # lo + 1
      <4>1. At(r, k) = At(t, k) /\ (k > lo <=> k > lo + 1)
        BY <2>2, <2>3, <3>0, <3>2
      <4> QED BY <2>4, <4>1
    <3> QED BY <3>1, <3>2
  <2> QED BY <1>n, <2>1, <2>3, <2>5 DEF Opened
<1> QED BY <1>1, <1>2

\* One place after the other takes the element behind it.
PullDownOf(lo, hi, A) == Upward(LAMBDA B, i : Shifted(i + 1, i, B), lo, hi, A)

LEMMA PullDown ==
  ASSUME NEW A, Space(A), NEW lo \in Nat, NEW hi \in Int, hi >= lo - 1, hi + 1 <= A.n - 1 \/ hi = lo - 1, NEW r, r = PullDownOf(lo, hi, A)
  PROVE  Closing(r, A, lo, hi)
<1>n. PICK n \in Nat : n = A.n
  BY DEF Space
<1>c. PICK m \in Nat : m = hi - lo + 1
  BY <1>n
<1> DEFINE U == Spaces
           Body(t, i) == Shifted(i + 1, i, t)
           F == [p \in (1 .. m) \X U |-> Body(p[2], lo + p[1] - 1)]
           Q == [k \in 0 .. m |-> {t \in U : Closing(t, A, lo, lo + k - 1)}]
           h == CHOOSE g : g = [k \in 0 .. (hi - lo + 1) |-> IF k = 0 THEN A ELSE Body(g[k - 1], lo + k - 1)]
<1>l0. \A k \in 0 .. m : Q[k] \subseteq U
  <2> HIDE DEF U, Body, F, h
  <2> QED OBVIOUS
<1>l1. /\ m \in Nat /\ hi - lo + 1 = m /\ (lo > hi <=> m = 0)
       /\ \A k \in 1 .. m : k - 1 \in 0 .. m /\ k \in 0 .. m /\ k # 0
  BY <1>c, <1>n
<1>l2. A \in Q[0]
  <2>1. A \in Spaces /\ Same(A, A)
    BY SpacesAreAll DEF Same
  <2>2. lo .. (lo + 0 - 1) = {} /\ 0 \in 0 .. m
    OBVIOUS
  <2>3. Closing(A, A, lo, lo + 0 - 1)
    BY <2>1, <2>2 DEF Closing
  <2> QED BY <2>1, <2>2, <2>3
<1>l3. ASSUME NEW k \in 1 .. m, NEW t \in U, t \in Q[k - 1] PROVE Body(t, lo + k - 1) \in Q[k]
  <2>1. k - 1 \in 0 .. m /\ k \in 0 .. m
    BY <1>l1
  <2>2. Closing(t, A, lo, lo + (k - 1) - 1)
    <3> HIDE DEF U, Body, F, h
    <3> QED BY <1>l3, <2>1
  <2> DEFINE to == lo + k - 1
  <2>3. to \in Nat /\ to >= lo /\ to + 1 <= A.n - 1 /\ lo + (k - 1) - 1 = to - 1
    BY <1>n, <1>c
  <2>4. Body(t, lo + k - 1) = Shifted(to + 1, to, t)
    <3>1. (lo + k - 1) + 1 = to + 1 /\ lo + k - 1 = to
      BY <1>c
    <3> HIDE DEF to
    <3> QED BY <3>1
  <2>5. Closing(Body(t, lo + k - 1), A, lo, to)
    <3> HIDE DEF Body, to
    <3> QED BY <2>2, <2>3, <2>4, CloseStep
  <2>6. Body(t, lo + k - 1) \in Spaces
    <3> HIDE DEF Body
    <3> QED BY <2>5, SpacesAreAll DEF Closing, Same
  <2> HIDE DEF Body, F, h
  <2> QED BY <2>1, <2>5, <2>6
<1>l4. \A k \in 1 .. m : \A t \in Q[k - 1] : t \in U /\ F[<<k, t>>] = Body(t, lo + k - 1) /\ F[<<k, t>>] \in Q[k]
  <2> SUFFICES ASSUME NEW k \in 1 .. m, NEW t \in Q[k - 1] PROVE t \in U /\ F[<<k, t>>] = Body(t, lo + k - 1) /\ F[<<k, t>>] \in Q[k]
    OBVIOUS
  <2> HIDE DEF Q, U, Body, h
  <2>1. t \in U
    BY <1>l0, <1>l1
  <2>2. F[<<k, t>>] = Body(t, lo + k - 1)
    BY <2>1
  <2> HIDE DEF F
  <2> QED BY <1>l3, <2>1, <2>2
<1>l5. h = [k \in 0 .. (hi - lo + 1) |-> IF k = 0 THEN A ELSE Body(h[k - 1], lo + k - 1)]
  <2> HIDE DEF F, Q, Body, U
  <2>1. PICK g : IsCourse(g, m, A, F, Q)
    BY ONLY <1>l1, <1>l2, <1>l4, LoopExists
  <2>2. /\ g = [k \in 0 .. m |-> IF k = 0 THEN A ELSE F[<<k, g[k - 1]>>]]
        /\ \A k \in 0 .. m : g[k] \in Q[k]
    BY <2>1 DEF IsCourse
  <2>3. \A k \in 0 .. m : k # 0 => k \in 1 .. m /\ k - 1 \in 0 .. m
    BY <1>l1
  <2>4. g = [k \in 0 .. m |-> IF k = 0 THEN A ELSE Body(g[k - 1], lo + k - 1)]
    BY <1>l4, <2>2, <2>3
  <2> QED BY <1>l1, <2>4
<1>l6. h[m] \in Q[m]
  <2> HIDE DEF F, Q, Body, h, U
  <2>1. h[0] \in Q[0]
    <3>1. 0 \in 0 .. (hi - lo + 1)
      BY <1>l1
    <3> QED BY <1>l2, <1>l5, <3>1
  <2>2. \A k \in 1 .. m : h[k - 1] \in Q[k - 1] => h[k] \in Q[k]
    <3> SUFFICES ASSUME NEW k \in 1 .. m, h[k - 1] \in Q[k - 1] PROVE h[k] \in Q[k]
      OBVIOUS
    <3>1. k \in 0 .. (hi - lo + 1) /\ k # 0
      BY <1>l1
    <3> QED BY <1>l4, <1>l5, <3>1
  <2> QED BY ONLY <1>l1, <2>1, <2>2, CourseStays
<1>l7. r \in Q[m] /\ m \in 0 .. m
  <2>1. r = IF lo > hi THEN A ELSE h[hi - lo + 1]
    BY DEF Upward, PullDownOf
  <2> HIDE DEF Q, h, U, Body
  <2>2. CASE m = 0
    BY <1>l1, <1>l2, <2>1, <2>2
  <2>3. CASE m # 0
    BY <1>l1, <1>l6, <2>1, <2>3
  <2> QED BY <1>l1, <2>2, <2>3
<1>1. Closing(r, A, lo, lo + m - 1)
  <2> HIDE DEF Body, h, U
  <2> QED BY <1>l7
<1>2. lo + m - 1 = hi
  BY <1>c
<1> QED BY <1>1, <1>2

\* The same, counted by the place it comes from.
CloseUpOf(lo, hi, A) == Upward(LAMBDA B, i : Shifted(i, i - 1, B), lo + 1, hi + 1, A)

LEMMA CloseUp ==
  ASSUME NEW A, Space(A), NEW lo \in Nat, NEW hi \in Int, hi >= lo - 1, hi + 1 <= A.n - 1 \/ hi = lo - 1, NEW r, r = CloseUpOf(lo, hi, A)
  PROVE  Closing(r, A, lo, hi)
<1>n. PICK n \in Nat : n = A.n
  BY DEF Space
<1>c. PICK m \in Nat : m = hi - lo + 1
  BY <1>n
<1> DEFINE U == Spaces
           Body(t, i) == Shifted(i, i - 1, t)
           F == [p \in (1 .. m) \X U |-> Body(p[2], (lo + 1) + p[1] - 1)]
           Q == [k \in 0 .. m |-> {t \in U : Closing(t, A, lo, lo + k - 1)}]
           h == CHOOSE g : g = [k \in 0 .. ((hi + 1) - (lo + 1) + 1) |-> IF k = 0 THEN A ELSE Body(g[k - 1], (lo + 1) + k - 1)]
<1>l0. \A k \in 0 .. m : Q[k] \subseteq U
  <2> HIDE DEF U, Body, F, h
  <2> QED OBVIOUS
<1>l1. /\ m \in Nat /\ (hi + 1) - (lo + 1) + 1 = m /\ ((lo + 1) > (hi + 1) <=> m = 0)
       /\ \A k \in 1 .. m : k - 1 \in 0 .. m /\ k \in 0 .. m /\ k # 0
  BY <1>c, <1>n
<1>l2. A \in Q[0]
  <2>1. A \in Spaces /\ Same(A, A)
    BY SpacesAreAll DEF Same
  <2>2. lo .. (lo + 0 - 1) = {} /\ 0 \in 0 .. m
    OBVIOUS
  <2>3. Closing(A, A, lo, lo + 0 - 1)
    BY <2>1, <2>2 DEF Closing
  <2> QED BY <2>1, <2>2, <2>3
<1>l3. ASSUME NEW k \in 1 .. m, NEW t \in U, t \in Q[k - 1] PROVE Body(t, (lo + 1) + k - 1) \in Q[k]
  <2>1. k - 1 \in 0 .. m /\ k \in 0 .. m
    BY <1>l1
  <2>2. Closing(t, A, lo, lo + (k - 1) - 1)
    <3> HIDE DEF U, Body, F, h
    <3> QED BY <1>l3, <2>1
  <2> DEFINE to == lo + k - 1
  <2>3. to \in Nat /\ to >= lo /\ to + 1 <= A.n - 1 /\ lo + (k - 1) - 1 = to - 1
    BY <1>n, <1>c
  <2>4. Body(t, (lo + 1) + k - 1) = Shifted(to + 1, to, t)
    <3>1. (lo + 1) + k - 1 = to + 1 /\ ((lo + 1) + k - 1) - 1 = to
      BY <1>c
    <3> HIDE DEF to
    <3> QED BY <3>1
  <2>5. Closing(Body(t, (lo + 1) + k - 1), A, lo, to)
    <3> HIDE DEF Body, to
    <3> QED BY <2>2, <2>3, <2>4, CloseStep
  <2>6. Body(t, (lo + 1) + k - 1) \in Spaces
    <3> HIDE DEF Body
    <3> QED BY <2>5, SpacesAreAll DEF Closing, Same
  <2> HIDE DEF Body, F, h
  <2> QED BY <2>1, <2>5, <2>6
<1>l4. \A k \in 1 .. m : \A t \in Q[k - 1] : t \in U /\ F[<<k, t>>] = Body(t, (lo + 1) + k - 1) /\ F[<<k, t>>] \in Q[k]
  <2> SUFFICES ASSUME NEW k \in 1 .. m, NEW t \in Q[k - 1] PROVE t \in U /\ F[<<k, t>>] = Body(t, (lo + 1) + k - 1) /\ F[<<k, t>>] \in Q[k]
    OBVIOUS
  <2> HIDE DEF Q, U, Body, h
  <2>1. t \in U
    BY <1>l0, <1>l1
  <2>2. F[<<k, t>>] = Body(t, (lo + 1) + k - 1)
    BY <2>1
  <2> HIDE DEF F
  <2> QED BY <1>l3, <2>1, <2>2
<1>l5. h = [k \in 0 .. ((hi + 1) - (lo + 1) + 1) |-> IF k = 0 THEN A ELSE Body(h[k - 1], (lo + 1) + k - 1)]
  <2> HIDE DEF F, Q, Body, U
  <2>1. PICK g : IsCourse(g, m, A, F, Q)
    BY ONLY <1>l1, <1>l2, <1>l4, LoopExists
  <2>2. /\ g = [k \in 0 .. m |-> IF k = 0 THEN A ELSE F[<<k, g[k - 1]>>]]
        /\ \A k \in 0 .. m : g[k] \in Q[k]
    BY <2>1 DEF IsCourse
  <2>3. \A k \in 0 .. m : k # 0 => k \in 1 .. m /\ k - 1 \in 0 .. m
    BY <1>l1
  <2>4. g = [k \in 0 .. m |-> IF k = 0 THEN A ELSE Body(g[k - 1], (lo + 1) + k - 1)]
    BY <1>l4, <2>2, <2>3
  <2> QED BY <1>l1, <2>4
<1>l6. h[m] \in Q[m]
  <2> HIDE DEF F, Q, Body, h, U
  <2>1. h[0] \in Q[0]
    <3>1. 0 \in 0 .. ((hi + 1) - (lo + 1) + 1)
      BY <1>l1
    <3> QED BY <1>l2, <1>l5, <3>1
  <2>2. \A k \in 1 .. m : h[k - 1] \in Q[k - 1] => h[k] \in Q[k]
    <3> SUFFICES ASSUME NEW k \in 1 .. m, h[k - 1] \in Q[k - 1] PROVE h[k] \in Q[k]
      OBVIOUS
    <3>1. k \in 0 .. ((hi + 1) - (lo + 1) + 1) /\ k # 0
      BY <1>l1
    <3> QED BY <1>l4, <1>l5, <3>1
  <2> QED BY ONLY <1>l1, <2>1, <2>2, CourseStays
<1>l7. r \in Q[m] /\ m \in 0 .. m
  <2>1. r = IF (lo + 1) > (hi + 1) THEN A ELSE h[(hi + 1) - (lo + 1) + 1]
    BY DEF Upward, CloseUpOf
  <2> HIDE DEF Q, h, U, Body
  <2>2. CASE m = 0
    BY <1>l1, <1>l2, <2>1, <2>2
  <2>3. CASE m # 0
    BY <1>l1, <1>l6, <2>1, <2>3
  <2> QED BY <1>l1, <2>2, <2>3
<1>1. Closing(r, A, lo, lo + m - 1)
  <2> HIDE DEF Body, h, U
  <2> QED BY <1>l7
<1>2. lo + m - 1 = hi
  BY <1>c
<1> QED BY <1>1, <1>2

\* Down to the first place, each takes the element before it.
PushUpOf(hi, A) == Downward(LAMBDA B, i : Shifted(i, i + 1, B), hi - 1, 0, A)

LEMMA PushUp ==
  ASSUME NEW A, Space(A), NEW hi \in Nat, hi <= A.n - 1, NEW r, r = PushUpOf(hi, A)
  PROVE  Opening(r, A, 1, hi)
<1>n. PICK n \in Nat : n = A.n
  BY DEF Space
<1>c. PICK m \in Nat : m = hi
  BY <1>n
<1> DEFINE U == Spaces
           Body(t, i) == Shifted(i, i + 1, t)
           F == [p \in (1 .. m) \X U |-> Body(p[2], (hi - 1) - p[1] + 1)]
           Q == [k \in 0 .. m |-> {t \in U : Opening(t, A, hi - k + 1, hi)}]
           h == CHOOSE g : g = [k \in 0 .. ((hi - 1) - 0 + 1) |-> IF k = 0 THEN A ELSE Body(g[k - 1], (hi - 1) - k + 1)]
<1>l0. \A k \in 0 .. m : Q[k] \subseteq U
  <2> HIDE DEF U, Body, F, h
  <2> QED OBVIOUS
<1>l1. /\ m \in Nat /\ (hi - 1) - 0 + 1 = m /\ ((hi - 1) < 0 <=> m = 0)
       /\ \A k \in 1 .. m : k - 1 \in 0 .. m /\ k \in 0 .. m /\ k # 0
  BY <1>c, <1>n
<1>l2. A \in Q[0]
  <2>1. A \in Spaces /\ Same(A, A)
    BY SpacesAreAll DEF Same
  <2>2. (hi - 0 + 1) .. hi = {} /\ 0 \in 0 .. m
    OBVIOUS
  <2>3. Opening(A, A, hi - 0 + 1, hi)
    BY <2>1, <2>2 DEF Opening
  <2> QED BY <2>1, <2>2, <2>3
<1>l3. ASSUME NEW k \in 1 .. m, NEW t \in U, t \in Q[k - 1] PROVE Body(t, (hi - 1) - k + 1) \in Q[k]
  <2>1. k - 1 \in 0 .. m /\ k \in 0 .. m
    BY <1>l1
  <2>2. Opening(t, A, hi - (k - 1) + 1, hi)
    <3> HIDE DEF U, Body, F, h
    <3> QED BY <1>l3, <2>1
  <2> DEFINE lo == hi - k + 1
  <2>3. lo \in Nat /\ lo >= 1 /\ lo <= hi /\ hi - (k - 1) + 1 = lo + 1
    BY <1>n, <1>c
  <2>4. Body(t, (hi - 1) - k + 1) = Shifted(lo - 1, lo, t)
    <3>1. (hi - 1) - k + 1 = lo - 1 /\ (hi - 1) - k + 1 + 1 = lo
      BY <1>c
    <3> HIDE DEF lo
    <3> QED BY <3>1
  <2>5. Opening(Body(t, (hi - 1) - k + 1), A, lo, hi)
    <3> HIDE DEF Body, lo
    <3> QED BY <2>2, <2>3, <2>4, OpenStep
  <2>6. Body(t, (hi - 1) - k + 1) \in Spaces
    <3> HIDE DEF Body
    <3> QED BY <2>5, SpacesAreAll DEF Opening, Same
  <2> HIDE DEF Body, F, h
  <2> QED BY <2>1, <2>5, <2>6
<1>l4. \A k \in 1 .. m : \A t \in Q[k - 1] : t \in U /\ F[<<k, t>>] = Body(t, (hi - 1) - k + 1) /\ F[<<k, t>>] \in Q[k]
  <2> SUFFICES ASSUME NEW k \in 1 .. m, NEW t \in Q[k - 1] PROVE t \in U /\ F[<<k, t>>] = Body(t, (hi - 1) - k + 1) /\ F[<<k, t>>] \in Q[k]
    OBVIOUS
  <2> HIDE DEF Q, U, Body, h
  <2>1. t \in U
    BY <1>l0, <1>l1
  <2>2. F[<<k, t>>] = Body(t, (hi - 1) - k + 1)
    BY <2>1
  <2> HIDE DEF F
  <2> QED BY <1>l3, <2>1, <2>2
<1>l5. h = [k \in 0 .. ((hi - 1) - 0 + 1) |-> IF k = 0 THEN A ELSE Body(h[k - 1], (hi - 1) - k + 1)]
  <2> HIDE DEF F, Q, Body, U
  <2>1. PICK g : IsCourse(g, m, A, F, Q)
    BY ONLY <1>l1, <1>l2, <1>l4, LoopExists
  <2>2. /\ g = [k \in 0 .. m |-> IF k = 0 THEN A ELSE F[<<k, g[k - 1]>>]]
        /\ \A k \in 0 .. m : g[k] \in Q[k]
    BY <2>1 DEF IsCourse
  <2>3. \A k \in 0 .. m : k # 0 => k \in 1 .. m /\ k - 1 \in 0 .. m
    BY <1>l1
  <2>4. g = [k \in 0 .. m |-> IF k = 0 THEN A ELSE Body(g[k - 1], (hi - 1) - k + 1)]
    BY <1>l4, <2>2, <2>3
  <2> QED BY <1>l1, <2>4
<1>l6. h[m] \in Q[m]
  <2> HIDE DEF F, Q, Body, h, U
  <2>1. h[0] \in Q[0]
    <3>1. 0 \in 0 .. ((hi - 1) - 0 + 1)
      BY <1>l1
    <3> QED BY <1>l2, <1>l5, <3>1
  <2>2. \A k \in 1 .. m : h[k - 1] \in Q[k - 1] => h[k] \in Q[k]
    <3> SUFFICES ASSUME NEW k \in 1 .. m, h[k - 1] \in Q[k - 1] PROVE h[k] \in Q[k]
      OBVIOUS
    <3>1. k \in 0 .. ((hi - 1) - 0 + 1) /\ k # 0
      BY <1>l1
    <3> QED BY <1>l4, <1>l5, <3>1
  <2> QED BY ONLY <1>l1, <2>1, <2>2, CourseStays
<1>l7. r \in Q[m] /\ m \in 0 .. m
  <2>1. r = IF (hi - 1) < 0 THEN A ELSE h[(hi - 1) - 0 + 1]
    BY DEF Downward, PushUpOf
  <2> HIDE DEF Q, h, U, Body
  <2>2. CASE m = 0
    BY <1>l1, <1>l2, <2>1, <2>2
  <2>3. CASE m # 0
    BY <1>l1, <1>l6, <2>1, <2>3
  <2> QED BY <1>l1, <2>2, <2>3
<1>1. Opening(r, A, hi - m + 1, hi)
  <2> HIDE DEF Body, h, U
  <2> QED BY <1>l7
<1>2. hi - m + 1 = 1
  BY <1>c
<1> QED BY <1>1, <1>2

\* The elements from lo on move up by one.
GapAtEndOf(lo, A) == Downward(LAMBDA B, i : Shifted(i, i + 1, B), A.n - 1, lo, A)

LEMMA GapAtEnd ==
  ASSUME NEW A, Space(A), NEW lo \in 0 .. A.n, NEW r, r = GapAtEndOf(lo, A)
  PROVE  IF lo = A.n THEN r = A ELSE Opened(r, A, lo)
<1>n. PICK n \in Nat : n = A.n
  BY DEF Space
<1>c. PICK m \in Nat : m = n - lo
  BY <1>n
<1> DEFINE U == Spaces
           Body(t, i) == Shifted(i, i + 1, t)
           F == [p \in (1 .. m) \X U |-> Body(p[2], (A.n - 1) - p[1] + 1)]
           Q == [k \in 0 .. m |-> {t \in U : IF k = 0 THEN t = A ELSE Opened(t, A, n - k)}]
           h == CHOOSE g : g = [k \in 0 .. ((A.n - 1) - lo + 1) |-> IF k = 0 THEN A ELSE Body(g[k - 1], (A.n - 1) - k + 1)]
<1>l0. \A k \in 0 .. m : Q[k] \subseteq U
  <2> HIDE DEF U, Body, F, h
  <2> QED OBVIOUS
<1>l1. /\ m \in Nat /\ (A.n - 1) - lo + 1 = m /\ ((A.n - 1) < lo <=> m = 0)
       /\ \A k \in 1 .. m : k - 1 \in 0 .. m /\ k \in 0 .. m /\ k # 0
  BY <1>c, <1>n
<1>l2. A \in Q[0]
  <2>1. A \in Spaces /\ 0 \in 0 .. m
    BY SpacesAreAll
  <2> QED BY <2>1
<1>l3. ASSUME NEW k \in 1 .. m, NEW t \in U, t \in Q[k - 1] PROVE Body(t, (A.n - 1) - k + 1) \in Q[k]
  <2>1. k - 1 \in 0 .. m /\ k \in 0 .. m /\ k # 0
    BY <1>l1
  <2>2. IF k - 1 = 0 THEN t = A ELSE Opened(t, A, n - (k - 1))
    <3> HIDE DEF U, Body, F, h
    <3> QED BY <1>l3, <2>1
  <2> DEFINE at == n - k
  <2>3. at \in 0 .. (A.n - 1) /\ (at = A.n - 1 <=> k - 1 = 0) /\ n - (k - 1) = at + 1
    BY <1>n, <1>c
  <2>4. Body(t, (A.n - 1) - k + 1) = Shifted(at, at + 1, t)
    <3>1. (A.n - 1) - k + 1 = at
      BY <1>n
    <3> HIDE DEF at
    <3> QED BY <3>1
  <2>5. Opened(Body(t, (A.n - 1) - k + 1), A, n - k)
    <3>1. Opened(Body(t, (A.n - 1) - k + 1), A, at)
      <4> HIDE DEF Body, at
      <4> QED BY <2>2, <2>3, <2>4, OpenedStep
    <3> HIDE DEF Body
    <3> QED BY <3>1
  <2>6. Body(t, (A.n - 1) - k + 1) \in Spaces
    <3> HIDE DEF Body
    <3> QED BY <2>5, SpacesAreAll DEF Opened
  <2> HIDE DEF Body, F, h
  <2> QED BY <2>1, <2>5, <2>6
<1>l4. \A k \in 1 .. m : \A t \in Q[k - 1] : t \in U /\ F[<<k, t>>] = Body(t, (A.n - 1) - k + 1) /\ F[<<k, t>>] \in Q[k]
  <2> SUFFICES ASSUME NEW k \in 1 .. m, NEW t \in Q[k - 1] PROVE t \in U /\ F[<<k, t>>] = Body(t, (A.n - 1) - k + 1) /\ F[<<k, t>>] \in Q[k]
    OBVIOUS
  <2> HIDE DEF Q, U, Body, h
  <2>1. t \in U
    BY <1>l0, <1>l1
  <2>2. F[<<k, t>>] = Body(t, (A.n - 1) - k + 1)
    BY <2>1
  <2> HIDE DEF F
  <2> QED BY <1>l3, <2>1, <2>2
<1>l5. h = [k \in 0 .. ((A.n - 1) - lo + 1) |-> IF k = 0 THEN A ELSE Body(h[k - 1], (A.n - 1) - k + 1)]
  <2> HIDE DEF F, Q, Body, U
  <2>1. PICK g : IsCourse(g, m, A, F, Q)
    BY ONLY <1>l1, <1>l2, <1>l4, LoopExists
  <2>2. /\ g = [k \in 0 .. m |-> IF k = 0 THEN A ELSE F[<<k, g[k - 1]>>]]
        /\ \A k \in 0 .. m : g[k] \in Q[k]
    BY <2>1 DEF IsCourse
  <2>3. \A k \in 0 .. m : k # 0 => k \in 1 .. m /\ k - 1 \in 0 .. m
    BY <1>l1
  <2>4. g = [k \in 0 .. m |-> IF k = 0 THEN A ELSE Body(g[k - 1], (A.n - 1) - k + 1)]
    BY <1>l4, <2>2, <2>3
  <2> QED BY <1>l1, <2>4
<1>l6. h[m] \in Q[m]
  <2> HIDE DEF F, Q, Body, h, U
  <2>1. h[0] \in Q[0]
    <3>1. 0 \in 0 .. ((A.n - 1) - lo + 1)
      BY <1>l1
    <3> QED BY <1>l2, <1>l5, <3>1
  <2>2. \A k \in 1 .. m : h[k - 1] \in Q[k - 1] => h[k] \in Q[k]
    <3> SUFFICES ASSUME NEW k \in 1 .. m, h[k - 1] \in Q[k - 1] PROVE h[k] \in Q[k]
      OBVIOUS
    <3>1. k \in 0 .. ((A.n - 1) - lo + 1) /\ k # 0
      BY <1>l1
    <3> QED BY <1>l4, <1>l5, <3>1
  <2> QED BY ONLY <1>l1, <2>1, <2>2, CourseStays
<1>l7. r \in Q[m] /\ m \in 0 .. m
  <2>1. r = IF (A.n - 1) < lo THEN A ELSE h[(A.n - 1) - lo + 1]
    BY DEF Downward, GapAtEndOf
  <2> HIDE DEF Q, h, U, Body
  <2>2. CASE m = 0
    BY <1>l1, <1>l2, <2>1, <2>2
  <2>3. CASE m # 0
    BY <1>l1, <1>l6, <2>1, <2>3
  <2> QED BY <1>l1, <2>2, <2>3
<1>1. IF m = 0 THEN r = A ELSE Opened(r, A, n - m)
  <2> HIDE DEF Body, h, U
  <2> QED BY <1>l7
<1>2. n - m = lo /\ (m = 0 <=> lo = A.n)
  BY <1>n, <1>c
<1> QED BY <1>1, <1>2

-----------------------------------------------------------------------------
(* Inserting, removing, clearing and reading, by the places of elements.   *)

LEMMA RoomBeforeIs ==
  ASSUME NEW A, Space(A), NEW b \in 0 .. A.n, NEW R, R = RoomBefore(b, A)
  PROVE  IF b = A.n THEN R = A
         ELSE /\ Space(R) /\ R.n = A.n + 1
              /\ \A k \in 0 .. A.n : (k < b => At(R, k) = At(A, k)) /\ (k > b => At(R, k) = At(A, k - 1))
<1>n. PICK n \in Nat : n = A.n
  BY DEF Space
<1>1. CASE b < n \div 2
  <2>1. b # n /\ n > 0 /\ 0 \in 0 .. (n - 1) /\ b < n
    BY <1>n, <1>1
  <2> DEFINE G == Shifted(0, -1, A)
  <2>2. /\ Space(G) /\ G.n = n + 1 /\ At(G, 0) = At(A, 0) /\ \A k \in 0 .. (n - 1) : At(G, k + 1) = At(A, k)
    <3>1. -1 \in {-1, A.n}
      OBVIOUS
    <3> HIDE DEF G
    <3> QED BY <1>n, <2>1, <3>1, ShiftedGrows DEF G
  <2>3. R = PullDownOf(1, b - 1, G)
    BY <1>n, <1>1 DEF RoomBefore, PullDownOf
  <2> HIDE DEF G
  <2>4. /\ Space(R) /\ R.n = n + 1
        /\ \A k \in 0 .. n : At(R, k) = IF k \in 1 .. (b - 1) THEN At(G, k + 1) ELSE At(G, k)
    <3>1. CASE b = 0
      <4>1. R = G
        BY <2>3, <3>1 DEF PullDownOf, Upward
      <4> QED BY <2>2, <3>1, <4>1
    <3>2. CASE b # 0
      <4>1. 1 \in Nat /\ b - 1 \in Int /\ b - 1 >= 1 - 1 /\ (b - 1) + 1 <= G.n - 1
        BY <1>n, <2>1, <2>2, <3>2
      <4>2. Closing(R, G, 1, b - 1)
        BY <2>2, <2>3, <4>1, PullDown
      <4> QED BY <2>2, <4>2 DEF Closing, Same
    <3> QED BY <3>1, <3>2
  <2>5. ASSUME NEW k \in 0 .. n PROVE (k < b => At(R, k) = At(A, k)) /\ (k > b => At(R, k) = At(A, k - 1))
    <3>1. CASE k \in 1 .. (b - 1)
      <4>1. At(R, k) = At(G, k + 1) /\ k \in 0 .. (n - 1) /\ ~(k > b)
        BY <1>n, <2>1, <2>4, <3>1
      <4> QED BY <2>2, <4>1
    <3>2. CASE k \notin 1 .. (b - 1)
      <4>1. At(R, k) = At(G, k)
        BY <2>4, <3>2
      <4>2. CASE k = 0
        BY <1>n, <2>2, <4>1, <4>2
      <4>3. CASE k # 0
        <5>1. k - 1 \in 0 .. (n - 1) /\ (k - 1) + 1 = k /\ ~(k < b)
          BY <1>n, <3>2, <4>3
        <5>2. At(G, (k - 1) + 1) = At(A, k - 1)
          BY <2>2, <5>1
        <5> QED BY <4>1, <5>1, <5>2
      <4> QED BY <4>2, <4>3
    <3> QED BY <3>1, <3>2
  <2> QED BY <1>n, <2>1, <2>4, <2>5
<1>2. CASE ~(b < n \div 2)
  <2>1. R = GapAtEndOf(b, A)
    BY <1>n, <1>2 DEF RoomBefore, GapAtEndOf
  <2>2. IF b = A.n THEN R = A ELSE Opened(R, A, b)
    BY <2>1, GapAtEnd
  <2>3. CASE b = n
    BY <1>n, <2>2, <2>3
  <2>4. CASE b # n
    <3>1. Opened(R, A, b)
      BY <1>n, <2>2, <2>4
    <3>2. \A k \in 0 .. n : k < b => k # n /\ ~(k > b)
      BY <1>n
    <3> QED BY <1>n, <2>4, <3>1, <3>2 DEF Opened
  <2> QED BY <2>3, <2>4
<1> QED BY <1>1, <1>2

LEMMA InsertBeforeIs ==
  ASSUME NEW A, Space(A), NEW e \in Cell, NEW asked \in Int, NEW b \in 0 .. A.n, b = IF asked < 0 THEN 0 ELSE asked,
         NEW z, z = expanding_array_insert_before(e, asked, A)
  PROVE  /\ Space(z.A) /\ z.A.n = A.n + 1 /\ z.at = b + z.A.first
         /\ \A k \in 0 .. A.n : At(z.A, k) = IF k < b THEN At(A, k) ELSE IF k = b THEN e ELSE At(A, k - 1)
         /\ z = [A |-> z.A, at |-> z.at]
<1>n. PICK n \in Nat : n = A.n
  BY DEF Space
<1> DEFINE R == RoomBefore(b, A)
           S == expanding_array_set(e, b, R)
<1>1. z.A = S /\ z.at = b + S.first /\ z = [A |-> S, at |-> b + S.first]
  BY DEF expanding_array_insert_before, AtPlace
<1>2. IF b = A.n THEN R = A
      ELSE /\ Space(R) /\ R.n = A.n + 1
           /\ \A k \in 0 .. A.n : (k < b => At(R, k) = At(A, k)) /\ (k > b => At(R, k) = At(A, k - 1))
  <2> HIDE DEF R, S
  <2> QED BY RoomBeforeIs DEF R
<1> HIDE DEF R
<1>3. /\ Space(S) /\ S.n = n + 1
      /\ \A k \in 0 .. n : At(S, k) = IF k < b THEN At(A, k) ELSE IF k = b THEN e ELSE At(A, k - 1)
  <2>1. CASE b = n
    <3>1. S = expanding_array_set(e, b, A) /\ b \in {-1, A.n} /\ b = A.n
      BY <1>n, <1>2, <2>1
    <3> HIDE DEF S
    <3>2. Space(S) /\ S.n = A.n + 1 /\ At(S, A.n) = e /\ \A k \in 0 .. (A.n - 1) : At(S, k) = At(A, k)
      BY <3>1, SetGrows
    <3> QED BY <1>n, <2>1, <3>2
  <2>2. CASE b # n
    <3>1. /\ Space(R) /\ R.n = n + 1
          /\ \A k \in 0 .. n : (k < b => At(R, k) = At(A, k)) /\ (k > b => At(R, k) = At(A, k - 1))
      BY <1>n, <1>2, <2>2
    <3>2. S = expanding_array_set(e, b, R) /\ b \in 0 .. (R.n - 1)
      BY <1>n, <3>1
    <3> HIDE DEF S
    <3>3. Space(S) /\ S.n = R.n /\ \A k \in 0 .. (R.n - 1) : At(S, k) = IF k = b THEN e ELSE At(R, k)
      BY <3>1, <3>2, SetReplaces
    <3>4. \A k \in 0 .. n : k \in 0 .. (R.n - 1) /\ (~(k < b) /\ k # b => k > b) /\ (k < b => k # b)
      BY <1>n, <3>1
    <3> QED BY <3>1, <3>3, <3>4
  <2> QED BY <2>1, <2>2
<1> HIDE DEF S
<1> QED BY <1>n, <1>1, <1>3

Without(D, i) == [D EXCEPT ![i] = Junk]

LEMMA WithoutFirstIs ==
  ASSUME NEW A, Space(A), A.n > 0, NEW r, r = WithoutFirst(A)
  PROVE  Space(r) /\ r.n = A.n - 1 /\ r.first = A.first + 1 /\ r.last = A.last /\ \A k \in 0 .. (A.n - 2) : At(r, k) = At(A, k + 1)
<1>a. PICK len, first, n, last, C : len = A.length /\ first = A.first /\ n = A.n /\ last = A.last /\ C = A.data
  OBVIOUS
<1>b. /\ len \in Nat /\ first \in Nat /\ n \in Nat \ {0} /\ last \in Int /\ last = first + n - 1 /\ last < len
      /\ C \in [0 .. (len - 1) -> Cell]
  BY <1>a DEF Space
<1> DEFINE x == FALSE
           D == Without(C, first)
           f == first + 1
           s == n - 1
<1>c. A = [data |-> C, length |-> len, first |-> first, last |-> last, n |-> n, mapped |-> x]
  BY <1>a DEF Space, IsArr
<1>1. r = [A EXCEPT !.data = D, !.first = f, !.n = s]
  BY <1>a, <1>c DEF WithoutFirst, Without
<1> HIDE DEF x, D, f, s
<1>2. r = [data |-> D, length |-> len, first |-> f, last |-> last, n |-> s, mapped |-> x]
  BY <1>c, <1>1
<1>3. r.data = D /\ r.length = len /\ r.first = f /\ r.last = last /\ r.n = s /\ r.mapped = x
  BY <1>2
<1>4. IsArr(r)
  BY <1>2, <1>3 DEF IsArr
<1>5. D \in [0 .. (len - 1) -> Cell] /\ \A i \in 0 .. (len - 1) : i # first => D[i] = C[i]
  BY <1>b, JunkIsCell DEF D, Without
<1>6. Space(r)
  <2>1. f \in Nat /\ s \in Nat /\ f <= len /\ last >= -1 /\ (s > 0 => last = f + s - 1) /\ (s = 0 => last < f)
    BY <1>b DEF f, s
  <2> QED BY <1>b, <1>3, <1>4, <1>5, <2>1 DEF Space, x
<1>7. ASSUME NEW k \in 0 .. (n - 2) PROVE At(r, k) = At(A, k + 1)
  <2>1. f + k = first + (k + 1) /\ first + (k + 1) \in 0 .. (len - 1) /\ first + (k + 1) # first
    BY <1>b DEF f
  <2>2. r.data[r.first + k] = C[first + (k + 1)]
    BY <1>3, <1>5, <2>1
  <2> QED BY <1>a, <2>2 DEF At
<1> QED BY <1>a, <1>3, <1>6, <1>7 DEF f, s

LEMMA WithoutLastIs ==
  ASSUME NEW A, Space(A), A.n > 0, NEW r, r = WithoutLast(A)
  PROVE  Space(r) /\ r.n = A.n - 1 /\ r.first = A.first /\ r.last = A.last - 1 /\ \A k \in 0 .. (A.n - 2) : At(r, k) = At(A, k)
<1>a. PICK len, first, n, last, C : len = A.length /\ first = A.first /\ n = A.n /\ last = A.last /\ C = A.data
  OBVIOUS
<1>b. /\ len \in Nat /\ first \in Nat /\ n \in Nat \ {0} /\ last \in Int /\ last = first + n - 1 /\ last < len
      /\ C \in [0 .. (len - 1) -> Cell]
  BY <1>a DEF Space
<1> DEFINE x == FALSE
           D == Without(C, last)
           f == last - 1
           s == n - 1
<1>c. A = [data |-> C, length |-> len, first |-> first, last |-> last, n |-> n, mapped |-> x]
  BY <1>a DEF Space, IsArr
<1>1. r = [A EXCEPT !.data = D, !.last = f, !.n = s]
  BY <1>a, <1>c DEF WithoutLast, Without
<1> HIDE DEF x, D, f, s
<1>2. r = [data |-> D, length |-> len, first |-> first, last |-> f, n |-> s, mapped |-> x]
  BY <1>c, <1>1
<1>3. r.data = D /\ r.length = len /\ r.first = first /\ r.last = f /\ r.n = s /\ r.mapped = x
  BY <1>2
<1>4. IsArr(r)
  BY <1>2, <1>3 DEF IsArr
<1>5. D \in [0 .. (len - 1) -> Cell] /\ \A i \in 0 .. (len - 1) : i # last => D[i] = C[i]
  BY <1>b, JunkIsCell DEF D, Without
<1>6. Space(r)
  <2>1. f \in Int /\ s \in Nat /\ first <= len /\ f >= -1 /\ f < len /\ (s > 0 => f = first + s - 1) /\ (s = 0 => f < first)
    BY <1>b DEF f, s
  <2> QED BY <1>b, <1>3, <1>4, <1>5, <2>1 DEF Space, x
<1>7. ASSUME NEW k \in 0 .. (n - 2) PROVE At(r, k) = At(A, k)
  <2>1. first + k \in 0 .. (len - 1) /\ first + k # last
    BY <1>b
  <2>2. r.data[r.first + k] = C[first + k]
    BY <1>3, <1>5, <2>1
  <2> QED BY <1>a, <2>2 DEF At
<1> QED BY <1>a, <1>3, <1>6, <1>7 DEF f, s

\* The first elements moved up or the last ones down.
LEMMA RemoveEltIs ==
  ASSUME NEW A, Space(A), NEW elt \in 0 .. (A.n - 1), NEW r, r = expanding_array_remove_elt(elt, A)
  PROVE  /\ Space(r) /\ r.n = A.n - 1 /\ r.first \in {A.first, A.first + 1}
         /\ \A k \in 0 .. (A.n - 2) : At(r, k) = IF k < elt THEN At(A, k) ELSE At(A, k + 1)
<1>n. PICK n \in Nat \ {0} : n = A.n
  BY DEF Space
<1>1. CASE elt < n \div 2
  <2> DEFINE P == PushUpOf(elt, A)
  <2>1. r = WithoutFirst(P)
    BY <1>n, <1>1 DEF expanding_array_remove_elt, PushUpOf
  <2> HIDE DEF P
  <2>2. Opening(P, A, 1, elt)
    BY <1>n, PushUp DEF P
  <2>3. Space(P) /\ P.n = n /\ P.n > 0 /\ P.first = A.first
    BY <1>n, <2>2 DEF Opening, Same
  <2>4. Space(r) /\ r.n = P.n - 1 /\ r.first = P.first + 1 /\ \A k \in 0 .. (P.n - 2) : At(r, k) = At(P, k + 1)
    BY <2>1, <2>3, WithoutFirstIs
  <2>5. ASSUME NEW k \in 0 .. (n - 2) PROVE At(r, k) = IF k < elt THEN At(A, k) ELSE At(A, k + 1)
    <3>1. k + 1 \in 0 .. (n - 1) /\ (k + 1 \in 1 .. elt <=> k < elt) /\ (k + 1) - 1 = k
      BY <1>n
    <3>2. At(P, k + 1) = IF k < elt THEN At(A, k) ELSE At(A, k + 1)
      BY <1>n, <2>2, <3>1 DEF Opening
    <3> QED BY <2>3, <2>4, <3>2
  <2> QED BY <1>n, <2>3, <2>4, <2>5
<1>2. CASE ~(elt < n \div 2)
  <2> DEFINE P == CloseUpOf(elt, n - 2, A)
  <2>1. r = WithoutLast(P)
    <3>1. (n - 2) + 1 = n - 1
      BY <1>n
    <3> QED BY <1>n, <1>2, <3>1 DEF expanding_array_remove_elt, CloseUpOf
  <2> HIDE DEF P
  <2>2. Closing(P, A, elt, n - 2)
    <3>1. elt \in Nat /\ n - 2 \in Int /\ n - 2 >= elt - 1 /\ (n - 2) + 1 <= A.n - 1
      BY <1>n
    <3> QED BY <3>1, CloseUp DEF P
  <2>3. Space(P) /\ P.n = n /\ P.n > 0 /\ P.first = A.first
    BY <1>n, <2>2 DEF Closing, Same
  <2>4. Space(r) /\ r.n = P.n - 1 /\ r.first = P.first /\ \A k \in 0 .. (P.n - 2) : At(r, k) = At(P, k)
    BY <2>1, <2>3, WithoutLastIs
  <2>5. ASSUME NEW k \in 0 .. (n - 2) PROVE At(r, k) = IF k < elt THEN At(A, k) ELSE At(A, k + 1)
    <3>1. k \in 0 .. (n - 1) /\ (k \in elt .. (n - 2) <=> ~(k < elt))
      BY <1>n
    <3>2. At(P, k) = IF k < elt THEN At(A, k) ELSE At(A, k + 1)
      BY <1>n, <2>2, <3>1 DEF Closing
    <3> QED BY <2>3, <2>4, <3>2
  <2> QED BY <1>n, <2>3, <2>4, <2>5
<1> QED BY <1>1, <1>2

LEMMA ClearIs ==
  ASSUME NEW A, Space(A), NEW r, r = expanding_array_clear(A)
  PROVE  Space(r) /\ r.n = 0
<1>a. PICK len, first, last, n, C : len = A.length /\ first = A.first /\ last = A.last /\ n = A.n /\ C = A.data
  OBVIOUS
<1>b. len \in Nat /\ first \in Nat /\ first <= len /\ C \in [0 .. (len - 1) -> Cell]
  BY <1>a DEF Space
<1> DEFINE x == FALSE
           D == [i \in DOMAIN C |-> Junk]
           f == IF first > 0 THEN len \div 2 ELSE first
           e == -1
           z == 0
<1>1. A = [data |-> C, length |-> len, first |-> first, last |-> last, n |-> n, mapped |-> x]
  BY <1>a DEF Space, IsArr
<1>2. r = [A EXCEPT !.last = e, !.first = f, !.n = z, !.data = D]
  BY <1>a DEF expanding_array_clear
<1>3. f \in Nat /\ f <= len /\ e \in Int /\ e < f /\ e < len /\ e >= -1 /\ z = 0
  BY <1>b
<1>4. D \in [0 .. (len - 1) -> Cell]
  BY <1>b, JunkIsCell
<1> HIDE DEF x, D, f, e, z
<1>5. r = [data |-> D, length |-> len, first |-> f, last |-> e, n |-> z, mapped |-> x]
  BY <1>1, <1>2
<1>6. r.data = D /\ r.length = len /\ r.first = f /\ r.last = e /\ r.n = z /\ r.mapped = x
  BY <1>5
<1>7. IsArr(r)
  BY <1>5, <1>6 DEF IsArr
<1> QED BY <1>b, <1>3, <1>4, <1>6, <1>7 DEF Space, x

LEMMA ReadIs ==
  ASSUME NEW A, Space(A), NEW r, r = expanding_array_read(A)
  PROVE  Space(r) /\ r.n = A.n /\ \A k \in 0 .. (A.n - 1) : At(r, k) = At(A, k)
<1>a. PICK len, first, n, last, C : len = A.length /\ first = A.first /\ n = A.n /\ last = A.last /\ C = A.data
  OBVIOUS
<1>b. /\ len \in Nat /\ first \in Nat /\ n \in Nat /\ last \in Int /\ last >= -1 /\ last < len /\ first <= len
      /\ (n > 0 => last = first + n - 1) /\ (n = 0 => last < first)
      /\ C \in [0 .. (len - 1) -> Cell]
  BY <1>a DEF Space
<1> DEFINE x == FALSE
<1>c. A = [data |-> C, length |-> len, first |-> first, last |-> last, n |-> n, mapped |-> x]
  BY <1>a DEF Space, IsArr
<1>1. CASE len >= n /\ first < len
  <2> DEFINE D == [i \in DOMAIN C |-> IF i \in first .. (first + n - 1) THEN C[i] ELSE Junk]
  <2>1. r = [A EXCEPT !.mapped = x, !.data = D]
    BY <1>a, <1>1 DEF expanding_array_read
  <2>2. D \in [0 .. (len - 1) -> Cell] /\ \A i \in first .. (first + n - 1) : D[i] = C[i]
    <3>1. \A i \in first .. (first + n - 1) : i \in 0 .. (len - 1)
      BY <1>b
    <3>2. DOMAIN C = 0 .. (len - 1) /\ \A i \in DOMAIN C : C[i] \in Cell
      BY <1>b
    <3> QED BY <3>1, <3>2, JunkIsCell
  <2> HIDE DEF x, D
  <2>3. r = [data |-> D, length |-> len, first |-> first, last |-> last, n |-> n, mapped |-> x]
    BY <1>c, <2>1
  <2>4. r.data = D /\ r.length = len /\ r.first = first /\ r.last = last /\ r.n = n /\ r.mapped = x
    BY <2>3
  <2>5. IsArr(r)
    BY <2>3, <2>4 DEF IsArr
  <2>6. Space(r)
    BY <1>b, <2>2, <2>4, <2>5 DEF Space, x
  <2>7. ASSUME NEW k \in 0 .. (n - 1) PROVE At(r, k) = At(A, k)
    <3>1. first + k \in first .. (first + n - 1)
      BY <1>b
    <3> QED BY <1>a, <2>2, <2>4, <3>1 DEF At
  <2> QED BY <1>a, <2>4, <2>6, <2>7
<1>2. CASE ~(len >= n /\ first < len)
  <2>1. n = 0
    BY <1>b, <1>2
  <2> DEFINE z == 0
             e == -1
             D == << >>
  <2>2. r = [A EXCEPT !.length = z, !.n = z, !.first = z, !.last = e, !.data = D, !.mapped = x]
    BY <1>a, <1>2 DEF expanding_array_read, NoArray
  <2>3. D \in [0 .. (z - 1) -> Cell]
    <3>1. 0 .. (z - 1) = {}
      OBVIOUS
    <3>2. D \in [{} -> Cell]
      OBVIOUS
    <3> HIDE DEF z, D
    <3> QED BY <3>1, <3>2
  <2>4. z = 0 /\ e = -1
    OBVIOUS
  <2> HIDE DEF x, D, e, z
  <2>5. r = [data |-> D, length |-> z, first |-> z, last |-> e, n |-> z, mapped |-> x]
    BY <1>c, <2>2
  <2>6. r.data = D /\ r.length = z /\ r.first = z /\ r.last = e /\ r.n = z /\ r.mapped = x
    BY <2>5
  <2>7. IsArr(r)
    BY <2>5, <2>6 DEF IsArr
  <2>8. Space(r)
    BY <2>3, <2>4, <2>6, <2>7 DEF Space, x
  <2>9. 0 .. (n - 1) = {}
    BY <2>1
  <2> QED BY <1>a, <2>1, <2>4, <2>6, <2>8, <2>9
<1> QED BY <1>1, <1>2

\* Another element in the place of one.
LEMMA CellIs ==
  ASSUME NEW A, Space(A), NEW k \in 0 .. (A.n - 1), NEW e \in Cell, NEW r, r = [A EXCEPT !.data[A.first + k] = e]
  PROVE  Same(r, A) /\ \A j \in 0 .. (A.n - 1) : At(r, j) = IF j = k THEN e ELSE At(A, j)
<1>a. PICK len, first, n, last, C : len = A.length /\ first = A.first /\ n = A.n /\ last = A.last /\ C = A.data
  OBVIOUS
<1>b. /\ len \in Nat /\ first \in Nat /\ n \in Nat /\ last \in Int /\ last >= -1 /\ last < len /\ first <= len
      /\ (n > 0 => last = first + n - 1) /\ (n = 0 => last < first)
      /\ C \in [0 .. (len - 1) -> Cell]
  BY <1>a DEF Space
<1> DEFINE x == FALSE
           D == WithCell(C, first + k, e)
<1>c. A = [data |-> C, length |-> len, first |-> first, last |-> last, n |-> n, mapped |-> x]
  BY <1>a DEF Space, IsArr
<1>1. r = [A EXCEPT !.data = D]
  BY <1>a, <1>c DEF WithCell
<1>2. D \in [0 .. (len - 1) -> Cell] /\ \A i \in 0 .. (len - 1) : D[i] = IF i = first + k THEN e ELSE C[i]
  BY <1>b DEF WithCell
<1> HIDE DEF x, D
<1>3. r = [data |-> D, length |-> len, first |-> first, last |-> last, n |-> n, mapped |-> x]
  BY <1>c, <1>1
<1>4. r.data = D /\ r.length = len /\ r.first = first /\ r.last = last /\ r.n = n /\ r.mapped = x
  BY <1>3
<1>5. IsArr(r)
  BY <1>3, <1>4 DEF IsArr
<1>6. Same(r, A)
  BY <1>a, <1>b, <1>2, <1>4, <1>5 DEF Space, x, Same
<1>7. ASSUME NEW j \in 0 .. (n - 1) PROVE At(r, j) = IF j = k THEN e ELSE At(A, j)
  <2>1. first + j \in 0 .. (len - 1) /\ (first + j = first + k <=> j = k)
    BY <1>a, <1>b
  <2> QED BY <1>a, <1>2, <1>4, <2>1 DEF At
<1> QED BY <1>a, <1>6, <1>7

-----------------------------------------------------------------------------
(* Searching.                                                              *)

Ascends(A) == \A j \in 0 .. (A.n - 1) : \A k \in 0 .. (A.n - 1) : j < k => At(A, j).col < At(A, k).col

\* A place with column c or, when there is none, next to where it would be.
Near(A, c, i) ==
  /\ i \in 0 .. (A.n - 1)
  /\ At(A, i).col < c => \A k \in (i + 1) .. (A.n - 1) : At(A, k).col > c
  /\ At(A, i).col > c => \A k \in 0 .. (i - 1) : At(A, k).col < c

\* The state of the search: what is outside front..back is too low or too high.
Halved(D, first, last, c, s) ==
  /\ s.front \in first .. (last + 1) /\ s.back \in (first - 1) .. last
  /\ \A k \in first .. (s.front - 1) : D[k] < c
  /\ \A k \in (s.back + 1) .. last : D[k] > c
  /\ s.front <= s.back \/ D[s.i] = c \/ (s.i = s.front - 1 /\ s.i = s.back) \/ (s.i = s.back + 1 /\ s.i = s.front)

LEMMA HalveStep ==
  ASSUME NEW first \in Int, NEW last \in Int, NEW D \in [first .. last -> Int], NEW c \in Int,
         \A j \in first .. last : \A k \in first .. last : j < k => D[j] < D[k],
         NEW s, Halved(D, first, last, c, s), s.front <= s.back,
         NEW t, t.i = (s.front + s.back) \div 2,
         t.front = IF D[t.i] < c THEN t.i + 1 ELSE s.front,
         t.back = IF D[t.i] > c THEN t.i - 1 ELSE s.back
  PROVE  /\ Halved(D, first, last, c, t) /\ t.i \in first .. last
         /\ D[t.i] # c => t.back - t.front < s.back - s.front
<1>1. PICK i, f, b : i = t.i /\ f = s.front /\ b = s.back
  OBVIOUS
<1>2. f \in first .. (last + 1) /\ b \in (first - 1) .. last /\ f <= b
  BY <1>1 DEF Halved
<1>3. i \in first .. last /\ f <= i /\ i <= b
  BY <1>1, <1>2
<1>4. D[i] \in Int
  BY <1>3
<1>5. (\A k \in first .. (f - 1) : D[k] < c) /\ (\A k \in (b + 1) .. last : D[k] > c)
  BY <1>1 DEF Halved
<1>6. CASE D[i] < c
  <2>1. t.front = i + 1 /\ t.back = b
    BY <1>1, <1>4, <1>6
  <2>2. ASSUME NEW k \in first .. i PROVE D[k] < c
    <3>1. k \in first .. last /\ (k = i \/ k < i)
      BY <1>2, <1>3
    <3>2. D[k] \in Int /\ (k < i => D[k] < D[i])
      BY <1>3, <3>1
    <3> QED BY <1>4, <1>6, <3>1, <3>2
  <2>3. \A k \in first .. (t.front - 1) : D[k] < c
    BY <1>3, <2>1, <2>2
  <2>4. t.front <= t.back \/ (i = t.front - 1 /\ i = t.back)
    BY <1>2, <1>3, <2>1
  <2>5. t.front \in first .. (last + 1) /\ t.back \in (first - 1) .. last /\ t.back - t.front < b - f
    BY <1>2, <1>3, <2>1, SMTT(30)
  <2> QED BY <1>1, <1>3, <1>5, <2>1, <2>3, <2>4, <2>5 DEF Halved
<1>7. CASE D[i] > c
  <2>1. t.front = f /\ t.back = i - 1
    BY <1>1, <1>4, <1>7
  <2>2. ASSUME NEW k \in i .. last PROVE D[k] > c
    <3>1. k \in first .. last /\ (k = i \/ i < k)
      BY <1>2, <1>3
    <3>2. D[k] \in Int /\ (i < k => D[i] < D[k])
      BY <1>3, <3>1
    <3> QED BY <1>4, <1>7, <3>1, <3>2
  <2>3. \A k \in (t.back + 1) .. last : D[k] > c
    BY <1>3, <2>1, <2>2
  <2>4. t.front <= t.back \/ (i = t.back + 1 /\ i = t.front)
    BY <1>2, <1>3, <2>1
  <2>5. t.front \in first .. (last + 1) /\ t.back \in (first - 1) .. last /\ t.back - t.front < b - f
    BY <1>2, <1>3, <2>1
  <2> QED BY <1>1, <1>3, <1>5, <2>1, <2>3, <2>4, <2>5 DEF Halved
<1>8. CASE D[i] = c
  <2>1. t.front = f /\ t.back = b
    BY <1>1, <1>4, <1>8
  <2> QED BY <1>1, <1>2, <1>3, <1>5, <1>8, <2>1 DEF Halved
<1> QED BY <1>4, <1>6, <1>7, <1>8

BinaryState(c, start, A) ==
  While(LAMBDA s : A.data[s.i].col # c /\ s.front <= s.back,
        LAMBDA s : [i |-> (s.front + s.back) \div 2,
                    front |-> IF A.data[(s.front + s.back) \div 2].col < c THEN (s.front + s.back) \div 2 + 1 ELSE s.front,
                    back |-> IF A.data[(s.front + s.back) \div 2].col > c THEN (s.front + s.back) \div 2 - 1 ELSE s.back],
        [i |-> start, front |-> A.first, back |-> A.last])

LEMMA BinaryStops ==
  ASSUME NEW A, Space(A), Ascends(A), A.n > 0, A.n <= MaxTurns, NEW c \in Int, NEW start \in A.first .. A.last,
         NEW r, r = BinaryState(c, start, A), NEW D, D = [k \in A.first .. A.last |-> A.data[k].col]
  PROVE  /\ r.i \in A.first .. A.last /\ Halved(D, A.first, A.last, c, r)
         /\ D[r.i] = c \/ ~(r.front <= r.back)
<1>a. PICK first, last, n : first = A.first /\ last = A.last /\ n = A.n
  OBVIOUS
<1>b. first \in Nat /\ last \in Int /\ n \in Nat \ {0} /\ last = first + n - 1 /\ n <= MaxTurns /\ start \in first .. last
  BY <1>a DEF Space
<1>c. D \in [first .. last -> Int] /\ \A k \in first .. last : D[k] = A.data[k].col
  <2>1. ASSUME NEW k \in first .. last PROVE A.data[k].col \in Int
    <3>1. k \in 0 .. (A.length - 1)
      BY <1>a, <1>b DEF Space
    <3>2. A.data[k] \in Cell
      BY <3>1 DEF Space
    <3> QED BY <3>2 DEF Cell
  <2> QED BY <1>a, <2>1
<1>d. \A j \in first .. last : \A k \in first .. last : j < k => D[j] < D[k]
  <2> SUFFICES ASSUME NEW j \in first .. last, NEW k \in first .. last, j < k PROVE D[j] < D[k]
    OBVIOUS
  <2>1. j - first \in 0 .. (n - 1) /\ k - first \in 0 .. (n - 1) /\ j - first < k - first
        /\ first + (j - first) = j /\ first + (k - first) = k
    BY <1>b
  <2> QED BY <1>a, <1>c, <2>1 DEF Ascends, At
<1> DEFINE s0 == [i |-> start, front |-> A.first, back |-> A.last]
<1> DEFINE U == [i : first .. last, front : Int, back : Int]
           Body(t) == IF A.data[t.i].col # c /\ t.front <= t.back
                      THEN [i |-> (t.front + t.back) \div 2,
                            front |-> IF A.data[(t.front + t.back) \div 2].col < c THEN (t.front + t.back) \div 2 + 1 ELSE t.front,
                            back |-> IF A.data[(t.front + t.back) \div 2].col > c THEN (t.front + t.back) \div 2 - 1 ELSE t.back]
                      ELSE t
           F == [p \in (1 .. MaxTurns) \X U |-> Body(p[2])]
           Q == [k \in 0 .. MaxTurns |-> {t \in U : Halved(D, first, last, c, t) /\ (D[t.i] # c /\ t.front <= t.back => t.back - t.front + 1 <= MaxTurns - k)}]
           h == CHOOSE g : g = [k \in 0 .. MaxTurns |-> IF k = 0 THEN s0 ELSE Body(g[k - 1])]
<1>l0. \A k \in 0 .. MaxTurns : Q[k] \subseteq U
  <2> HIDE DEF U, Body, F, h
  <2> QED OBVIOUS
<1>l1. MaxTurns \in Nat /\ \A k \in 1 .. MaxTurns : k - 1 \in 0 .. MaxTurns /\ k \in 0 .. MaxTurns /\ k # 0
  BY TurnsAssumption
<1>l2. s0 \in Q[0]
  <2>1. s0.i = start /\ s0.front = first /\ s0.back = last /\ s0 \in U
    BY <1>a, <1>b
  <2> HIDE DEF s0
  <2>2. Halved(D, first, last, c, s0)
    BY <1>b, <2>1 DEF Halved
  <2>3. s0.back - s0.front + 1 <= MaxTurns - 0 /\ 0 \in 0 .. MaxTurns
    BY <1>b, <2>1, TurnsAssumption
  <2> HIDE DEF U
  <2> QED BY <2>1, <2>2, <2>3
<1>l3. ASSUME NEW k \in 1 .. MaxTurns, NEW t \in U, t \in Q[k - 1] PROVE Body(t) \in Q[k]
  <2>1. /\ Halved(D, first, last, c, t)
        /\ D[t.i] # c /\ t.front <= t.back => t.back - t.front + 1 <= MaxTurns - (k - 1)
    <3>1. k - 1 \in 0 .. MaxTurns
      BY <1>l1
    <3> HIDE DEF U, Body, F, h
    <3> QED BY ONLY <1>l3, <3>1
  <2>2. t.i \in first .. last /\ t.front \in Int /\ t.back \in Int
    OBVIOUS
  <2>3. CASE ~(D[t.i] # c /\ t.front <= t.back)
    <3>1. Body(t) = t
      BY <1>c, <2>2, <2>3
    <3> HIDE DEF U, Body, F, h
    <3> QED BY <1>l1, <2>1, <2>3, <3>1
  <2>4. CASE D[t.i] # c /\ t.front <= t.back
    <3> DEFINE i == (t.front + t.back) \div 2
               f == IF D[i] < c THEN i + 1 ELSE t.front
               b == IF D[i] > c THEN i - 1 ELSE t.back
               z == [i |-> i, front |-> f, back |-> b]
    <3>1. i \in first .. last
      BY <2>1, <2>2, <2>4, <1>b, SMTT(30) DEF Halved
    <3>2. Body(t) = z
      <4>1. D[i] = A.data[i].col /\ D[t.i] = A.data[t.i].col
        BY <1>c, <2>2, <3>1
      <4> QED BY <2>4, <4>1
    <3>3. z.i = i /\ z.front = f /\ z.back = b
      OBVIOUS
    <3>4. f \in Int /\ b \in Int
      BY <2>2, <3>1
    <3>5. z \in U
      BY <3>1, <3>4
    <3> HIDE DEF U, Body, F, h, z
    <3>6. /\ Halved(D, first, last, c, z)
          /\ D[z.i] # c => z.back - z.front < t.back - t.front
      <4>1. /\ first \in Int /\ last \in Int /\ D \in [first .. last -> Int]
            /\ z.i = (t.front + t.back) \div 2
            /\ z.front = IF D[z.i] < c THEN z.i + 1 ELSE t.front
            /\ z.back = IF D[z.i] > c THEN z.i - 1 ELSE t.back
        BY <1>b, <1>c, <3>3
      <4>2. Halved(D, first, last, c, t) /\ t.front <= t.back
        BY <2>1, <2>4
      <4> QED BY ONLY c \in Int, <1>d, <4>1, <4>2, HalveStep, SMTT(30)
    <3>7. D[z.i] # c => z.back - z.front + 1 <= MaxTurns - k
      BY <1>l1, <2>1, <2>2, <2>4, <3>3, <3>4, <3>6
    <3> QED BY <1>l1, <3>2, <3>5, <3>6, <3>7
  <2> QED BY <2>3, <2>4
<1>l4. \A k \in 1 .. MaxTurns : \A t \in Q[k - 1] : t \in U /\ F[<<k, t>>] = Body(t) /\ F[<<k, t>>] \in Q[k]
  <2> SUFFICES ASSUME NEW k \in 1 .. MaxTurns, NEW t \in Q[k - 1] PROVE t \in U /\ F[<<k, t>>] = Body(t) /\ F[<<k, t>>] \in Q[k]
    OBVIOUS
  <2> HIDE DEF Q, U, Body, h
  <2>1. t \in U
    BY <1>l0, <1>l1
  <2>2. F[<<k, t>>] = Body(t)
    BY <2>1
  <2> HIDE DEF F
  <2> QED BY <1>l3, <2>1, <2>2
<1>l5. h = [k \in 0 .. MaxTurns |-> IF k = 0 THEN s0 ELSE Body(h[k - 1])]
  <2> HIDE DEF F, Q, Body, U
  <2>1. PICK g : IsCourse(g, MaxTurns, s0, F, Q)
    BY ONLY <1>l1, <1>l2, <1>l4, LoopExists
  <2>2. /\ g = [k \in 0 .. MaxTurns |-> IF k = 0 THEN s0 ELSE F[<<k, g[k - 1]>>]]
        /\ \A k \in 0 .. MaxTurns : g[k] \in Q[k]
    BY <2>1 DEF IsCourse
  <2>3. \A k \in 0 .. MaxTurns : k # 0 => k \in 1 .. MaxTurns /\ k - 1 \in 0 .. MaxTurns
    BY <1>l1
  <2>4. g = [k \in 0 .. MaxTurns |-> IF k = 0 THEN s0 ELSE Body(g[k - 1])]
    BY <1>l4, <2>2, <2>3
  <2> QED BY <1>l1, <2>4
<1>l6. h[MaxTurns] \in Q[MaxTurns]
  <2> HIDE DEF F, Q, Body, h, U
  <2>1. h[0] \in Q[0]
    <3>1. 0 \in 0 .. MaxTurns
      BY <1>l1
    <3> QED BY <1>l2, <1>l5, <3>1
  <2>2. \A k \in 1 .. MaxTurns : h[k - 1] \in Q[k - 1] => h[k] \in Q[k]
    <3> SUFFICES ASSUME NEW k \in 1 .. MaxTurns, h[k - 1] \in Q[k - 1] PROVE h[k] \in Q[k]
      OBVIOUS
    <3>1. k \in 0 .. MaxTurns /\ k # 0
      BY <1>l1
    <3> QED BY <1>l4, <1>l5, <3>1
  <2> QED BY ONLY <1>l1, <2>1, <2>2, CourseStays
<1>l7. r \in Q[MaxTurns] /\ MaxTurns \in 0 .. MaxTurns
  <2>1. r = h[MaxTurns]
    BY DEF While, BinaryState
  <2> HIDE DEF Q, h, U, Body
  <2> QED BY <1>l1, <1>l6, <2>1
<1>1. /\ Halved(D, first, last, c, r) /\ r \in U
      /\ D[r.i] # c /\ r.front <= r.back => r.back - r.front + 1 <= MaxTurns - MaxTurns
  <2> HIDE DEF Body, h, U, F
  <2> QED BY ONLY <1>l7
<1>2. r.front \in Int /\ r.back \in Int /\ r.i \in first .. last
  BY <1>1
<1>3. ~(D[r.i] # c /\ r.front <= r.back)
  BY <1>1, <1>2, TurnsAssumption
<1> QED BY <1>a, <1>1, <1>2, <1>3

LEMMA SearchFinds ==
  ASSUME NEW A, Space(A), Ascends(A), A.n > 0, A.n <= MaxTurns, NEW c \in Int, NEW init \in Int,
         NEW p, p = expanding_array_search(c, init, A)
  PROVE  Near(A, c, p)
<1>a. PICK first, last, n : first = A.first /\ last = A.last /\ n = A.n
  OBVIOUS
<1>b. first \in Nat /\ last \in Int /\ n \in Nat \ {0} /\ last = first + n - 1 /\ n <= MaxTurns
  BY <1>a DEF Space
<1> DEFINE D == [k \in A.first .. A.last |-> A.data[k].col]
           asked == init + first
           i == IF asked < first THEN first ELSE IF asked > last THEN last ELSE asked
<1>c. D \in [first .. last -> Int] /\ \A k \in first .. last : D[k] = A.data[k].col
  <2>1. ASSUME NEW k \in first .. last PROVE A.data[k].col \in Int
    <3>1. k \in 0 .. (A.length - 1)
      BY <1>a, <1>b DEF Space
    <3>2. A.data[k] \in Cell
      BY <3>1 DEF Space
    <3> QED BY <3>2 DEF Cell
  <2> QED BY <1>a, <2>1
<1>d. \A j \in first .. last : \A k \in first .. last : j < k => D[j] < D[k]
  <2> SUFFICES ASSUME NEW j \in first .. last, NEW k \in first .. last, j < k PROVE D[j] < D[k]
    OBVIOUS
  <2> HIDE DEF D
  <2>1. j - first \in 0 .. (n - 1) /\ k - first \in 0 .. (n - 1) /\ j - first < k - first
        /\ first + (j - first) = j /\ first + (k - first) = k
    BY <1>b
  <2> QED BY <1>a, <1>c, <2>1 DEF Ascends, At
<1>e. i \in first .. last /\ first \in first .. last /\ last \in first .. last
  BY <1>b
\* It is enough to have the place in the allocation.
<1>f. ASSUME NEW q \in first .. last, p = q - first,
             D[q] < c => \A k \in (q + 1) .. last : D[k] > c, D[q] > c => \A k \in first .. (q - 1) : D[k] < c
      PROVE  Near(A, c, p)
  <2> HIDE DEF D, i
  <2>1. p \in 0 .. (n - 1) /\ first + p = q
    BY <1>b, <1>f
  <2>2. At(A, p).col = D[q]
    BY <1>a, <1>c, <2>1 DEF At
  <2>3. ASSUME NEW k \in 0 .. (n - 1) PROVE first + k \in first .. last /\ At(A, k).col = D[first + k]
    <3>1. first + k \in first .. last
      BY <1>b
    <3> QED BY <1>a, <1>c, <3>1 DEF At
  <2>4. D[q] < c => \A k \in (p + 1) .. (n - 1) : At(A, k).col > c
    <3> SUFFICES ASSUME D[q] < c, NEW k \in (p + 1) .. (n - 1) PROVE At(A, k).col > c
      OBVIOUS
    <3>1. k \in 0 .. (n - 1) /\ first + k \in (q + 1) .. last
      BY <1>b, <2>1
    <3> QED BY <1>f, <2>3, <3>1
  <2>5. D[q] > c => \A k \in 0 .. (p - 1) : At(A, k).col < c
    <3> SUFFICES ASSUME D[q] > c, NEW k \in 0 .. (p - 1) PROVE At(A, k).col < c
      OBVIOUS
    <3>1. k \in 0 .. (n - 1) /\ first + k \in first .. (q - 1)
      BY <1>b, <2>1
    <3> QED BY <1>f, <2>3, <3>1
  <2> QED BY <1>a, <2>1, <2>2, <2>4, <2>5 DEF Near
<1> DEFINE B == BinarySearch(c, i, A)
<1>1. p = CASE A.data[i].col = c -> i - first
            [] A.data[i].col # c /\ c >= A.data[last].col -> last - first
            [] A.data[i].col # c /\ c <= A.data[first].col /\ c < A.data[last].col -> 0
            [] OTHER -> (IF i > first /\ c < A.data[i].col /\ c >= A.data[i - 1].col THEN i - 1
                         ELSE IF i < last /\ c > A.data[i].col /\ c <= A.data[i + 1].col THEN i + 1
                         ELSE B) - first
  <2>1. ~(last < first)
    BY <1>b
  <2> HIDE DEF D
  <2> QED BY <1>a, <2>1 DEF expanding_array_search
<1>2. A.data[i].col = D[i] /\ A.data[last].col = D[last] /\ A.data[first].col = D[first] /\ D[i] \in Int /\ D[last] \in Int /\ D[first] \in Int
  <2> HIDE DEF i, D
  <2> QED BY <1>c, <1>e
<1> HIDE DEF i, B
<1>3. CASE D[i] = c
  <2>1. p = i - first
    BY <1>1, <1>2, <1>3
  <2> HIDE DEF D
  <2> QED BY <1>2, <1>3, <1>e, <1>f, <2>1
<1>4. CASE D[i] # c /\ c >= D[last]
  <2>1. p = last - first
    <3> HIDE DEF D
    <3> QED BY <1>1, <1>2, <1>4
  <2>2. (last + 1) .. last = {} /\ ~(D[last] > c)
    <3> HIDE DEF D
    <3> QED BY <1>b, <1>2, <1>4
  <2> HIDE DEF D
  <2> QED BY <1>e, <1>f, <2>1, <2>2
<1>5. CASE D[i] # c /\ c < D[last] /\ c <= D[first]
  <2>1. p = first - first
    <3> HIDE DEF D
    <3>1. p = 0
      BY <1>1, <1>2, <1>5
    <3> QED BY <1>b, <3>1
  <2>2. first .. (first - 1) = {} /\ ~(D[first] < c)
    <3> HIDE DEF D
    <3> QED BY <1>b, <1>2, <1>5
  <2> HIDE DEF D
  <2> QED BY <1>e, <1>f, <2>1, <2>2
<1>6. CASE D[i] # c /\ c < D[last] /\ ~(c <= D[first])
  <2> HIDE DEF D
  <2>1. p = (IF i > first /\ c < A.data[i].col /\ c >= A.data[i - 1].col THEN i - 1
             ELSE IF i < last /\ c > A.data[i].col /\ c <= A.data[i + 1].col THEN i + 1
             ELSE B) - first
    BY <1>1, <1>2, <1>6
  <2>2. CASE i > first /\ c < D[i] /\ c >= A.data[i - 1].col
    <3>1. i - 1 \in first .. last /\ (i - 1) + 1 = i
      BY <1>b, <1>e, <2>2
    <3>2. D[i - 1] = A.data[i - 1].col /\ D[i - 1] \in Int
      BY <1>c, <3>1
    <3>3. p = (i - 1) - first
      BY <1>2, <2>1, <2>2
    <3>4. ~(D[i - 1] > c)
      BY <2>2, <3>2
    <3>5. \A k \in i .. last : D[k] > c
      <4> SUFFICES ASSUME NEW k \in i .. last PROVE D[k] > c
        OBVIOUS
      <4>1. k \in first .. last /\ (k = i \/ i < k)
        BY <1>b, <1>e
      <4>2. D[k] \in Int /\ (i < k => D[i] < D[k])
        BY <1>c, <1>d, <1>e, <4>1
      <4> QED BY <1>2, <2>2, <4>1, <4>2
    <3> QED BY <1>f, <3>1, <3>3, <3>4, <3>5
  <2>3. CASE ~(i > first /\ c < D[i] /\ c >= A.data[i - 1].col) /\ i < last /\ c > D[i] /\ c <= A.data[i + 1].col
    <3>1. i + 1 \in first .. last /\ (i + 1) - 1 = i
      BY <1>b, <1>e, <2>3
    <3>2. D[i + 1] = A.data[i + 1].col /\ D[i + 1] \in Int
      BY <1>c, <3>1
    <3>3. p = (i + 1) - first
      BY <1>2, <2>1, <2>3
    <3>4. ~(D[i + 1] < c)
      BY <2>3, <3>2
    <3>5. \A k \in first .. i : D[k] < c
      <4> SUFFICES ASSUME NEW k \in first .. i PROVE D[k] < c
        OBVIOUS
      <4>1. k \in first .. last /\ (k = i \/ k < i)
        BY <1>b, <1>e
      <4>2. D[k] \in Int /\ (k < i => D[k] < D[i])
        BY <1>c, <1>d, <1>e, <4>1
      <4> QED BY <1>2, <2>3, <4>1, <4>2
    <3> QED BY <1>f, <3>1, <3>3, <3>4, <3>5
  <2>4. CASE ~(i > first /\ c < D[i] /\ c >= A.data[i - 1].col) /\ ~(i < last /\ c > D[i] /\ c <= A.data[i + 1].col)
    <3>1. p = B - first
      BY <1>2, <2>1, <2>4
    <3> DEFINE r == BinaryState(c, i, A)
    <3>2. B = r.i
      BY DEF B, BinarySearch, BinaryState
    <3>3. /\ r.i \in first .. last /\ Halved(D, first, last, c, r)
          /\ D[r.i] = c \/ ~(r.front <= r.back)
      <4>1. r = BinaryState(c, i, A)
        OBVIOUS
      <4>2. D = [k \in A.first .. A.last |-> A.data[k].col]
        BY DEF D
      <4> HIDE DEF r
      <4>3. i \in A.first .. A.last
        BY <1>a, <1>e
      <4>4. /\ r.i \in A.first .. A.last /\ Halved(D, A.first, A.last, c, r)
            /\ D[r.i] = c \/ ~(r.front <= r.back)
        BY ONLY <4>1, <4>2, <4>3, BinaryStops, Space(A), Ascends(A), A.n > 0, A.n <= MaxTurns, c \in Int
      <4> QED BY ONLY <1>a, <4>4
    <3> HIDE DEF r
    <3>4. D[r.i] \in Int
      BY <1>c, <3>3
    <3>5. r.front \in Int /\ r.back \in Int
      BY <3>3, <1>b DEF Halved
    <3>6. D[r.i] < c => \A k \in (r.i + 1) .. last : D[k] > c
      <4> SUFFICES ASSUME D[r.i] < c PROVE \A k \in (r.i + 1) .. last : D[k] > c
        OBVIOUS
      <4>1. ~(D[r.i] > c) /\ D[r.i] # c /\ ~(r.front <= r.back)
        BY <3>3, <3>4
      <4>2. (r.i = r.front - 1 /\ r.i = r.back) \/ (r.i = r.back + 1 /\ r.i = r.front)
        BY <3>3, <4>1 DEF Halved
      <4>3. CASE r.i = r.back
        BY <3>3, <4>3 DEF Halved
      <4>4. CASE r.i = r.back + 1
        <5>1. r.i \in (r.back + 1) .. last
          BY <1>b, <3>3, <3>5, <4>4
        <5> QED BY <3>3, <4>1, <5>1 DEF Halved
      <4> QED BY <4>2, <4>3, <4>4
    <3>7. D[r.i] > c => \A k \in first .. (r.i - 1) : D[k] < c
      <4> SUFFICES ASSUME D[r.i] > c PROVE \A k \in first .. (r.i - 1) : D[k] < c
        OBVIOUS
      <4>1. ~(D[r.i] < c) /\ D[r.i] # c /\ ~(r.front <= r.back)
        BY <3>3, <3>4
      <4>2. (r.i = r.front - 1 /\ r.i = r.back) \/ (r.i = r.back + 1 /\ r.i = r.front)
        BY <3>3, <4>1 DEF Halved
      <4>3. CASE r.i = r.front
        BY <3>3, <4>3 DEF Halved
      <4>4. CASE r.i = r.front - 1
        <5>1. r.i \in first .. (r.front - 1)
          BY <1>b, <3>3, <3>5, <4>4
        <5> QED BY <3>3, <4>1, <5>1 DEF Halved
      <4> QED BY <4>2, <4>3, <4>4
    <3> QED BY <1>f, <3>1, <3>2, <3>3, <3>6, <3>7
  <2> QED BY <1>2, <2>2, <2>3, <2>4
<1> QED BY <1>2, <1>3, <1>4, <1>5, <1>6

-----------------------------------------------------------------------------
(* What a sequence of elements means: the function x of the column.  The   *)
(* columns ascend, and only what is not zero is stored.                    *)

With(x, c, d) == [x EXCEPT ![c] = d]

Means(S, dim, x) ==
  /\ S \in Seq(Cell) /\ x \in [0 .. (dim - 1) -> Int]
  /\ \A k \in 1 .. Len(S) : S[k].col \in 0 .. (dim - 1) /\ S[k].data # 0 /\ x[S[k].col] = S[k].data
  /\ \A j \in 1 .. Len(S) : \A k \in 1 .. Len(S) : j < k => S[j].col < S[k].col
  /\ \A c \in 0 .. (dim - 1) : x[c] # 0 => \E k \in 1 .. Len(S) : S[k].col = c

Inserted(T, S, p, e) ==
  /\ T \in Seq(Cell) /\ Len(T) = Len(S) + 1
  /\ \A k \in 1 .. Len(T) : T[k] = IF k < p THEN S[k] ELSE IF k = p THEN e ELSE S[k - 1]
Removed(T, S, p) ==
  /\ T \in Seq(Cell) /\ Len(T) = Len(S) - 1
  /\ \A k \in 1 .. Len(T) : T[k] = IF k < p THEN S[k] ELSE S[k + 1]
Replaced(T, S, p, e) ==
  /\ T \in Seq(Cell) /\ Len(T) = Len(S)
  /\ \A k \in 1 .. Len(T) : T[k] = IF k = p THEN e ELSE S[k]

LEMMA CellOfSeq ==
  ASSUME NEW S \in Seq(Cell), NEW k \in 1 .. Len(S)
  PROVE  S[k] \in Cell /\ S[k].col \in Int /\ S[k].data \in Int
<1>1. S[k] \in Cell
  OBVIOUS
<1> QED BY <1>1 DEF Cell

\* A column that is not stored is zero.
LEMMA MeansZero ==
  ASSUME NEW dim \in Nat, NEW S, NEW x, Means(S, dim, x), NEW c \in 0 .. (dim - 1), \A k \in 1 .. Len(S) : S[k].col # c
  PROVE  x[c] = 0
BY DEF Means

LEMMA MeansInserted ==
  ASSUME NEW dim \in Nat, NEW S, NEW x, Means(S, dim, x), NEW c \in 0 .. (dim - 1), NEW d \in Int, d # 0,
         NEW p \in 1 .. (Len(S) + 1), \A k \in 1 .. (p - 1) : S[k].col < c, \A k \in p .. Len(S) : S[k].col > c,
         NEW e, e = [col |-> c, data |-> d], NEW T, Inserted(T, S, p, e)
  PROVE  Means(T, dim, With(x, c, d))
<1> DEFINE y == With(x, c, d)
<1>1. S \in Seq(Cell) /\ x \in [0 .. (dim - 1) -> Int] /\ Len(S) \in Nat /\ dim \in Int /\ dim - 1 \in Int
  BY DEF Means
<1>2. y \in [0 .. (dim - 1) -> Int] /\ \A j \in 0 .. (dim - 1) : y[j] = IF j = c THEN d ELSE x[j]
  BY ONLY <1>1, c \in 0 .. (dim - 1), d \in Int, 0 \in Int DEF With
<1> HIDE DEF y
<1>3. e.col = c /\ e.data = d
  OBVIOUS
<1>4. T \in Seq(Cell) /\ Len(T) = Len(S) + 1 /\ \A k \in 1 .. Len(T) : T[k] = IF k < p THEN S[k] ELSE IF k = p THEN e ELSE S[k - 1]
  BY DEF Inserted
<1>5. ASSUME NEW k \in 1 .. Len(T)
      PROVE  \/ k < p /\ k \in 1 .. Len(S) /\ T[k] = S[k] /\ S[k].col < c
             \/ k = p /\ T[k] = e
             \/ k > p /\ k - 1 \in 1 .. Len(S) /\ T[k] = S[k - 1] /\ S[k - 1].col > c
  <2>1. CASE k < p
    <3>1. k \in 1 .. Len(S) /\ k \in 1 .. (p - 1)
      BY <1>1, <1>4, <2>1
    <3> QED BY <1>4, <2>1, <3>1
  <2>2. CASE k = p
    <3>1. ~(k < p)
      BY <2>2
    <3> QED BY <1>4, <2>2, <3>1
  <2>3. CASE k > p
    <3>1. k - 1 \in 1 .. Len(S) /\ k - 1 \in p .. Len(S) /\ ~(k < p) /\ k # p
      BY <1>1, <1>4, <2>3
    <3> QED BY <1>4, <2>3, <3>1
  <2> QED BY <1>1, <1>4, <2>1, <2>2, <2>3
<1>6. \A k \in 1 .. Len(S) : S[k].col \in 0 .. (dim - 1) /\ S[k].data # 0 /\ x[S[k].col] = S[k].data
  BY DEF Means
<1>7. ASSUME NEW k \in 1 .. Len(T) PROVE T[k].col \in 0 .. (dim - 1) /\ T[k].data # 0 /\ y[T[k].col] = T[k].data
  <2>1. CASE k < p
    <3>1. k \in 1 .. Len(S) /\ T[k] = S[k] /\ S[k].col < c
      BY <1>5, <2>1
    <3>2. S[k].col # c
      BY <1>6, <3>1
    <3> QED BY <1>2, <1>6, <3>1, <3>2
  <2>2. CASE k = p
    BY <1>2, <1>3, <1>5, <2>2
  <2>3. CASE k > p
    <3>1. k - 1 \in 1 .. Len(S) /\ T[k] = S[k - 1] /\ S[k - 1].col > c
      BY <1>5, <2>3
    <3>2. S[k - 1].col # c
      BY <1>6, <3>1
    <3> QED BY <1>2, <1>6, <3>1, <3>2
  <2> QED BY <1>4, <2>1, <2>2, <2>3
<1>8. ASSUME NEW j \in 1 .. Len(T), NEW k \in 1 .. Len(T), j < k PROVE T[j].col < T[k].col
  <2>0. \A l \in 1 .. Len(S) : S[l].col \in Int
    BY <1>6
  <2>1. CASE k < p
    <3>1. j \in 1 .. Len(S) /\ k \in 1 .. Len(S) /\ T[j] = S[j] /\ T[k] = S[k]
      BY <1>5, <1>8, <2>1
    <3> QED BY <1>8, <3>1 DEF Means
  <2>2. CASE k = p
    BY <1>3, <1>5, <1>8, <2>2
  <2>3. CASE k > p
    <3>1. k - 1 \in 1 .. Len(S) /\ T[k] = S[k - 1] /\ S[k - 1].col > c
      BY <1>5, <2>3
    <3>2. CASE j < p
      <4>1. j \in 1 .. Len(S) /\ T[j] = S[j] /\ S[j].col < c
        BY <1>5, <3>2
      <4> QED BY <2>0, <3>1, <4>1
    <3>3. CASE j = p
      BY <1>3, <1>5, <3>1, <3>3
    <3>4. CASE j > p
      <4>1. j - 1 \in 1 .. Len(S) /\ T[j] = S[j - 1] /\ j - 1 < k - 1
        BY <1>5, <1>8, <3>4
      <4> QED BY <3>1, <4>1 DEF Means
    <3> QED BY <1>4, <3>2, <3>3, <3>4
  <2> QED BY <1>4, <2>1, <2>2, <2>3
<1>9. ASSUME NEW j \in 0 .. (dim - 1), y[j] # 0 PROVE \E k \in 1 .. Len(T) : T[k].col = j
  <2>1. CASE j = c
    <3>1. p \in 1 .. Len(T) /\ T[p].col = c
      BY <1>1, <1>3, <1>4, <1>5
    <3> QED BY <2>1, <3>1
  <2>2. CASE j # c
    <3>1. x[j] # 0
      BY <1>2, <1>9, <2>2
    <3>2. PICK k \in 1 .. Len(S) : S[k].col = j
      BY <3>1 DEF Means
    <3>3. CASE k < p
      <4>1. k \in 1 .. Len(T)
        BY <1>4
      <4>2. T[k] = S[k]
        BY <1>4, <3>3, <4>1
      <4> QED BY <3>2, <4>1, <4>2
    <3>4. CASE ~(k < p)
      <4>1. k + 1 \in 1 .. Len(T) /\ ~(k + 1 < p) /\ k + 1 # p /\ (k + 1) - 1 = k
        BY <1>1, <1>4, <3>4
      <4>2. T[k + 1] = S[k]
        BY <1>4, <4>1
      <4> QED BY <3>2, <4>1, <4>2
    <3> QED BY <3>3, <3>4
  <2> QED BY <2>1, <2>2
<1> QED BY <1>2, <1>4, <1>7, <1>8, <1>9 DEF Means, y

LEMMA MeansRemoved ==
  ASSUME NEW dim \in Nat, NEW S, NEW x, Means(S, dim, x), NEW p \in 1 .. Len(S), NEW T, Removed(T, S, p)
  PROVE  Means(T, dim, With(x, S[p].col, 0))
<1> DEFINE c == S[p].col
           y == With(x, c, 0)
<1>1. S \in Seq(Cell) /\ x \in [0 .. (dim - 1) -> Int] /\ Len(S) \in Nat /\ dim \in Int /\ dim - 1 \in Int /\ 0 \in Int /\ c \in 0 .. (dim - 1)
  BY DEF Means
<1> HIDE DEF c
<1>2. y \in [0 .. (dim - 1) -> Int] /\ \A j \in 0 .. (dim - 1) : y[j] = IF j = c THEN 0 ELSE x[j]
  BY ONLY <1>1, c \in 0 .. (dim - 1), 0 \in Int DEF With
<1> HIDE DEF y
<1>4. T \in Seq(Cell) /\ Len(T) = Len(S) - 1 /\ \A k \in 1 .. Len(T) : T[k] = IF k < p THEN S[k] ELSE S[k + 1]
  BY DEF Removed
<1>6. \A k \in 1 .. Len(S) : S[k].col \in 0 .. (dim - 1) /\ S[k].data # 0 /\ x[S[k].col] = S[k].data
  BY DEF Means
<1>5. ASSUME NEW k \in 1 .. Len(T)
      PROVE  \/ k < p /\ k \in 1 .. Len(S) /\ T[k] = S[k] /\ S[k].col < c
             \/ k >= p /\ k + 1 \in 1 .. Len(S) /\ T[k] = S[k + 1] /\ S[k + 1].col > c
  <2>1. CASE k < p
    <3>1. k \in 1 .. Len(S)
      BY <1>1, <1>4, <2>1
    <3>2. S[k].col < S[p].col
      BY <2>1, <3>1 DEF Means
    <3> QED BY <1>4, <2>1, <3>1, <3>2 DEF c
  <2>2. CASE ~(k < p)
    <3>1. k + 1 \in 1 .. Len(S) /\ p < k + 1
      BY <1>1, <1>4, <2>2
    <3>2. S[p].col < S[k + 1].col
      BY <3>1 DEF Means
    <3>3. S[p].col \in Int /\ S[k + 1].col \in Int
      BY <1>6, <3>1
    <3> QED BY <1>4, <2>2, <3>1, <3>2, <3>3 DEF c
  <2> QED BY <2>1, <2>2
<1>7. ASSUME NEW k \in 1 .. Len(T) PROVE T[k].col \in 0 .. (dim - 1) /\ T[k].data # 0 /\ y[T[k].col] = T[k].data
  <2>1. PICK l \in 1 .. Len(S) : T[k] = S[l] /\ (S[l].col < c \/ S[l].col > c)
    BY <1>5
  <2>2. S[l].col # c
    BY <1>1, <1>6, <2>1
  <2> QED BY <1>2, <1>6, <2>1, <2>2
<1>8. ASSUME NEW j \in 1 .. Len(T), NEW k \in 1 .. Len(T), j < k PROVE T[j].col < T[k].col
  <2>0. \A l \in 1 .. Len(S) : S[l].col \in Int
    BY <1>6
  <2>1. CASE k < p
    <3>1. j \in 1 .. Len(S) /\ k \in 1 .. Len(S) /\ T[j] = S[j] /\ T[k] = S[k]
      BY <1>5, <1>8, <2>1
    <3> QED BY <1>8, <3>1 DEF Means
  <2>2. CASE k >= p /\ j < p
    <3>1. j \in 1 .. Len(S) /\ k + 1 \in 1 .. Len(S) /\ T[j] = S[j] /\ T[k] = S[k + 1] /\ S[j].col < c /\ S[k + 1].col > c
      BY <1>5, <2>2
    <3> QED BY <1>1, <2>0, <3>1
  <2>3. CASE k >= p /\ j >= p
    <3>1. j + 1 \in 1 .. Len(S) /\ k + 1 \in 1 .. Len(S) /\ T[j] = S[j + 1] /\ T[k] = S[k + 1] /\ j + 1 < k + 1
      BY <1>5, <1>8, <2>3
    <3> QED BY <3>1 DEF Means
  <2> QED BY <1>4, <2>1, <2>2, <2>3
<1>9. ASSUME NEW j \in 0 .. (dim - 1), y[j] # 0 PROVE \E k \in 1 .. Len(T) : T[k].col = j
  <2>1. j # c /\ x[j] # 0
    BY <1>2, <1>9
  <2>2. PICK k \in 1 .. Len(S) : S[k].col = j
    BY <2>1 DEF Means
  <2>3. k # p
    BY <2>1, <2>2 DEF c
  <2>4. CASE k < p
    <3>1. k \in 1 .. Len(T)
      BY <1>1, <1>4, <2>4
    <3> QED BY <1>4, <2>2, <2>4, <3>1
  <2>5. CASE k > p
    <3>1. k - 1 \in 1 .. Len(T) /\ ~(k - 1 < p) /\ (k - 1) + 1 = k
      BY <1>1, <1>4, <2>5
    <3>2. T[k - 1] = S[k]
      BY <1>4, <3>1
    <3> QED BY <2>2, <3>1, <3>2
  <2> QED BY <2>3, <2>4, <2>5
<1> QED BY <1>2, <1>4, <1>7, <1>8, <1>9 DEF Means, y, c

LEMMA MeansReplaced ==
  ASSUME NEW dim \in Nat, NEW S, NEW x, Means(S, dim, x), NEW p \in 1 .. Len(S), NEW d \in Int, d # 0,
         NEW e, e.col = S[p].col, e.data = d, NEW T, Replaced(T, S, p, e)
  PROVE  Means(T, dim, With(x, S[p].col, d))
<1> DEFINE c == S[p].col
           y == With(x, c, d)
<1>1. S \in Seq(Cell) /\ x \in [0 .. (dim - 1) -> Int] /\ Len(S) \in Nat /\ dim \in Int /\ dim - 1 \in Int /\ 0 \in Int /\ c \in 0 .. (dim - 1)
  BY DEF Means
<1> HIDE DEF c
<1>2. y \in [0 .. (dim - 1) -> Int] /\ \A j \in 0 .. (dim - 1) : y[j] = IF j = c THEN d ELSE x[j]
  BY ONLY <1>1, c \in 0 .. (dim - 1), d \in Int, 0 \in Int DEF With
<1> HIDE DEF y
<1>3. T \in Seq(Cell) /\ Len(T) = Len(S) /\ \A k \in 1 .. Len(T) : T[k] = IF k = p THEN e ELSE S[k]
  BY DEF Replaced
<1>4. \A k \in 1 .. Len(T) : T[k].col = S[k].col
  BY <1>3
<1>5. \A k \in 1 .. Len(S) : S[k].col \in 0 .. (dim - 1) /\ S[k].data # 0 /\ x[S[k].col] = S[k].data
  BY DEF Means
<1>6. ASSUME NEW k \in 1 .. Len(T) PROVE T[k].col \in 0 .. (dim - 1) /\ T[k].data # 0 /\ y[T[k].col] = T[k].data
  <2>1. CASE k = p
    BY <1>1, <1>2, <1>3, <1>4, <2>1 DEF c
  <2>2. CASE k # p
    <3>1. S[k].col # c
      <4>1. k < p => S[k].col < S[p].col
        BY <1>3 DEF Means
      <4>2. p < k => S[p].col < S[k].col
        BY <1>3 DEF Means
      <4>3. S[k].col \in Int /\ S[p].col \in Int
        BY <1>3, <1>5
      <4> QED BY <1>1, <1>3, <2>2, <4>1, <4>2, <4>3 DEF c
    <3> QED BY <1>2, <1>3, <1>5, <2>2, <3>1
  <2> QED BY <2>1, <2>2
<1>7. \A j \in 1 .. Len(T) : \A k \in 1 .. Len(T) : j < k => T[j].col < T[k].col
  BY <1>3, <1>4 DEF Means
<1>8. ASSUME NEW j \in 0 .. (dim - 1), y[j] # 0 PROVE \E k \in 1 .. Len(T) : T[k].col = j
  <2>1. CASE j = c
    BY <1>3, <1>4, <2>1 DEF c
  <2>2. CASE j # c
    <3>1. x[j] # 0
      BY <1>2, <1>8, <2>2
    <3> QED BY <1>3, <1>4, <3>1 DEF Means
  <2> QED BY <2>1, <2>2
<1> QED BY <1>2, <1>3, <1>6, <1>7, <1>8 DEF Means, y, c

\* There are no more elements than columns.
LEMMA MeansShort ==
  ASSUME NEW dim \in Nat, NEW S, NEW x, Means(S, dim, x)
  PROVE  Len(S) \in Nat /\ Len(S) <= dim
<1>1. Len(S) \in Nat
  BY DEF Means
<1> DEFINE P == {k \in 0 .. Len(S) : k = 0 \/ S[k].col >= k - 1}
<1>2. 0 \in P
  BY <1>1
<1>3. ASSUME NEW k \in 1 .. Len(S), k - 1 \in P PROVE k \in P
  <2>1. S[k].col \in 0 .. (dim - 1)
    BY DEF Means
  <2>2. CASE k = 1
    BY <1>1, <2>1, <2>2
  <2>3. CASE k # 1
    <3>1. k - 1 \in 1 .. Len(S) /\ k - 1 < k /\ k - 1 # 0
      BY <1>1, <2>3
    <3>2. S[k - 1].col < S[k].col /\ S[k - 1].col \in Int
      BY <3>1 DEF Means
    <3>3. S[k - 1].col >= (k - 1) - 1
      BY <1>3, <3>1
    <3> QED BY <1>1, <2>1, <3>1, <3>2, <3>3
  <2> QED BY <2>2, <2>3
<1>4. 0 .. Len(S) \subseteq P
  <2> HIDE DEF P
  <2> QED BY <1>1, <1>2, <1>3, UpToAll
<1>5. CASE Len(S) = 0
  BY <1>5
<1>6. CASE Len(S) # 0
  <2>1. Len(S) \in 1 .. Len(S) /\ Len(S) \in 0 .. Len(S)
    BY <1>1, <1>6
  <2>2. S[Len(S)].col \in 0 .. (dim - 1) /\ S[Len(S)].col >= Len(S) - 1
    BY <1>4, <1>6, <2>1 DEF Means
  <2> QED BY <1>1, <2>2
<1> QED BY <1>1, <1>5, <1>6

-----------------------------------------------------------------------------
(* A sparse vector and an iterator over it, as a sequence of elements and a *)
(* place in it: one past the last stands for the end.                      *)

IsVec(v) == v = [type |-> v.type, dim |-> v.dim, nz |-> v.nz, data |-> v.data]

Vec(v) ==
  /\ IsVec(v) /\ v.dim \in Nat /\ v.nz \in Int
  /\ \/ IsFull(v) /\ v.data \in [0 .. (v.dim - 1) -> Int]
     \/ IsArray(v) /\ Space(v.data) /\ v.nz = v.data.n
     \/ IsList(v) /\ v.data \in Seq(Cell) /\ v.nz = Len(v.data)

Sparse(v) == Vec(v) /\ ~IsFull(v)

Place(it, v) ==
  IF IsArray(v) THEN (IF v.data.n = 0 THEN 1 ELSE it - v.data.first + 1)
  ELSE IF it = 0 THEN Len(v.data) + 1 ELSE it

Valid(it, v) ==
  IF IsArray(v) THEN it \in Int /\ (v.data.n > 0 => it - v.data.first \in 0 .. v.data.n)
  ELSE IF IsList(v) THEN it \in 0 .. Len(v.data) ELSE it \in 0 .. v.dim

\* Another vector of the same type and width.
Like(w, v) == w.type = v.type /\ w.dim = v.dim

LEMMA KindsDiffer ==
  ASSUME NEW v
  PROVE  /\ IsArray(v) => ~IsList(v) /\ ~IsFull(v)
         /\ IsList(v) => ~IsArray(v) /\ ~IsFull(v)
         /\ IsFull(v) => ~IsArray(v) /\ ~IsList(v)
BY DEF IsArray, IsList, IsFull

LEMMA SparseKinds ==
  ASSUME NEW v, Sparse(v)
  PROVE  /\ v.dim \in Nat /\ ~IsFull(v) /\ IsVec(v) /\ v.nz \in Nat
         /\ (IsArray(v) /\ ~IsList(v) /\ Space(v.data) /\ v.nz = v.data.n) \/ (IsList(v) /\ ~IsArray(v) /\ v.data \in Seq(Cell) /\ v.nz = Len(v.data))
<1>1. CASE IsArray(v)
  <2>1. Space(v.data) /\ v.nz = v.data.n
    BY <1>1, KindsDiffer DEF Sparse, Vec
  <2>2. v.data.n \in Nat
    BY <2>1 DEF Space
  <2> QED BY <1>1, <2>1, <2>2, KindsDiffer DEF Sparse, Vec
<1>2. CASE IsList(v)
  <2>1. v.data \in Seq(Cell) /\ v.nz = Len(v.data)
    BY <1>2, KindsDiffer DEF Sparse, Vec
  <2>2. Len(v.data) \in Nat
    BY <2>1
  <2> QED BY <1>2, <2>1, <2>2, KindsDiffer DEF Sparse, Vec
<1> QED BY <1>1, <1>2 DEF Sparse, Vec

LEMMA StoredIs ==
  ASSUME NEW v, Sparse(v), NEW S, S = Stored(v)
  PROVE  /\ S \in Seq(Cell) /\ Len(S) \in Nat /\ Len(S) = v.nz
         /\ IsArray(v) => /\ Len(S) = v.data.n
                          /\ \A k \in 1 .. Len(S) : S[k] = At(v.data, k - 1)
         /\ IsList(v) => S = v.data
         /\ \A k \in 1 .. Len(S) : S[k] \in Cell /\ S[k].col \in Int /\ S[k].data \in Int
<1>1. CASE IsArray(v)
  <2>1. Space(v.data) /\ v.nz = v.data.n /\ ~IsFull(v) /\ ~IsList(v)
    BY <1>1, SparseKinds, KindsDiffer
  <2>2. S = Elements(v.data)
    BY <1>1, <2>1 DEF Stored
  <2>3. S \in Seq(Cell) /\ Len(S) = v.data.n /\ v.data.n \in Nat
    BY <2>1, <2>2, ElementsAre DEF Space
  <2>4. \A k \in 1 .. Len(S) : S[k] = At(v.data, k - 1)
    <3> SUFFICES ASSUME NEW k \in 1 .. Len(S) PROVE S[k] = At(v.data, k - 1)
      OBVIOUS
    <3>1. k - 1 \in 0 .. (v.data.n - 1) /\ (k - 1) + 1 = k
      BY <2>3
    <3> QED BY <2>1, <2>2, <3>1, AtIsCell
  <2> QED BY <1>1, <2>1, <2>3, <2>4, CellOfSeq
<1>2. CASE IsList(v)
  <2>1. S = v.data /\ S \in Seq(Cell) /\ v.nz = Len(S) /\ ~IsArray(v)
    BY <1>2, SparseKinds, KindsDiffer DEF Stored
  <2> QED BY <2>1, CellOfSeq
<1> QED BY <1>1, <1>2, SparseKinds

\* What an iterator stands on.
LEMMA Seat ==
  ASSUME NEW v, Sparse(v), NEW it, Valid(it, v), NEW p, p = Place(it, v), NEW S, S = Stored(v)
  PROVE  /\ p \in 1 .. (Len(S) + 1) /\ it \in Int
         /\ OnElement(it, v) <=> p <= Len(S)
         /\ Over(it, v) <=> p = Len(S) + 1
         /\ p <= Len(S) => Col(it, v) = S[p].col /\ Val(it, v) = S[p].data /\ ~vectorit_past_beg(it, v)
         /\ p = Len(S) + 1 => Col(it, v) = v.dim
<1>1. Len(S) \in Nat
  BY StoredIs
<1>2. CASE IsArray(v)
  <2>a. ~IsFull(v) /\ ~IsList(v) /\ Space(v.data) /\ Len(S) = v.data.n /\ \A k \in 1 .. Len(S) : S[k] = At(v.data, k - 1)
    BY <1>2, KindsDiffer, SparseKinds, StoredIs
  <2>b. PICK A : A = v.data
    OBVIOUS
  <2>c. /\ A.first \in Nat /\ A.last \in Int /\ A.n \in Nat /\ (A.n > 0 => A.last = A.first + A.n - 1)
        /\ (A.n = 0 => A.last < A.first) /\ A.n = Len(S)
    BY <2>a, <2>b DEF Space
  <2>d. it \in Int /\ (A.n > 0 => it - A.first \in 0 .. A.n) /\ p = IF A.n = 0 THEN 1 ELSE it - A.first + 1
    BY <1>2, <2>b DEF Valid, Place
  <2>1. p \in 1 .. (Len(S) + 1)
    BY <2>c, <2>d
  <2>2. OnElement(it, v) <=> it \in A.first .. A.last
    BY <1>2, <2>a, <2>b DEF OnElement
  <2>3. it \in A.first .. A.last <=> p <= Len(S)
    BY <2>c, <2>d
  <2>4. Over(it, v) <=> it > A.last \/ A.first > A.last
    BY <1>2, <2>a, <2>b DEF Over, vectorit_past_end
  <2>5. Over(it, v) <=> p = Len(S) + 1
    BY <2>4, <2>c, <2>d
  <2>6. ASSUME p <= Len(S) PROVE Col(it, v) = S[p].col /\ Val(it, v) = S[p].data /\ ~vectorit_past_beg(it, v)
    <3>1. A.n > 0 /\ it = A.first + (p - 1) /\ p \in 1 .. Len(S)
      BY <2>6, <2>c, <2>d
    <3>2. A.data[it] = S[p]
      BY <2>a, <2>b, <3>1 DEF At
    <3>3. OnElement(it, v)
      BY <2>2, <2>3, <2>6
    <3>4. Col(it, v) = A.data[it].col /\ Val(it, v) = A.data[it].data
      BY <1>2, <2>a, <2>b, <3>3 DEF Col, Val, vectorit_curr_col, vectorit_curr_val
    <3>5. vectorit_past_beg(it, v) <=> it < A.first \/ A.first > A.last
      BY <1>2, <2>a, <2>b DEF vectorit_past_beg
    <3>6. ~(it < A.first \/ A.first > A.last)
      BY <2>c, <3>1
    <3> QED BY <3>2, <3>4, <3>5, <3>6
  <2>7. p = Len(S) + 1 => Col(it, v) = v.dim
    <3>1. p = Len(S) + 1 => ~OnElement(it, v)
      BY <1>1, <2>2, <2>3
    <3> QED BY <2>a, <3>1 DEF Col, vectorit_curr_col
  <2> QED BY <2>1, <2>2, <2>3, <2>5, <2>6, <2>7, <2>d
<1>3. CASE IsList(v)
  <2>a. ~IsFull(v) /\ ~IsArray(v) /\ S = v.data
    BY <1>3, KindsDiffer, StoredIs
  <2>b. it \in 0 .. Len(S) /\ p = IF it = 0 THEN Len(S) + 1 ELSE it
    BY <1>3, <2>a DEF Valid, Place
  <2>1. OnElement(it, v) <=> it # 0
    BY <2>a DEF OnElement
  <2>2. Over(it, v) <=> it = 0
    BY <2>a DEF Over, vectorit_past_end
  <2>3. vectorit_past_beg(it, v) <=> it = 0
    BY <2>a DEF vectorit_past_beg
  <2>4. it # 0 => Col(it, v) = S[it].col /\ Val(it, v) = S[it].data
    BY <2>1, <2>a DEF Col, Val, vectorit_curr_col, vectorit_curr_val
  <2>5. it = 0 => Col(it, v) = v.dim
    BY <2>1, <2>a DEF Col, vectorit_curr_col
  <2> QED BY <1>1, <2>b, <2>1, <2>2, <2>3, <2>4, <2>5
<1> QED BY <1>2, <1>3, SparseKinds

LEMMA SeatAtBeg ==
  ASSUME NEW v, Sparse(v), NEW it, it = vectorit_set_at_beg(v)
  PROVE  Valid(it, v) /\ Place(it, v) = 1
<1>1. CASE IsArray(v)
  <2>1. ~IsFull(v) /\ v.data.first \in Nat /\ v.data.n \in Nat
    BY <1>1, KindsDiffer, SparseKinds DEF Space
  <2>2. it = v.data.first
    BY <1>1, <2>1 DEF vectorit_set_at_beg
  <2>3. it - v.data.first = 0 /\ it - v.data.first + 1 = 1
    BY <2>1, <2>2
  <2> QED BY <1>1, <2>1, <2>2, <2>3 DEF Valid, Place
<1>2. CASE IsList(v)
  <2>1. ~IsFull(v) /\ ~IsArray(v) /\ v.data \in Seq(Cell) /\ Len(v.data) \in Nat
    BY <1>2, KindsDiffer, SparseKinds
  <2>2. it = IF v.data = << >> THEN 0 ELSE 1
    BY <2>1 DEF vectorit_set_at_beg
  <2>3. v.data = << >> <=> Len(v.data) = 0
    BY <2>1, EmptySeq
  <2> QED BY <1>2, <2>1, <2>2, <2>3 DEF Valid, Place
<1> QED BY <1>1, <1>2, SparseKinds

LEMMA SeatNext ==
  ASSUME NEW v, Sparse(v), NEW it, Valid(it, v), NEW p, p = Place(it, v), p <= Len(Stored(v)), NEW r, r = Step(it, v)
  PROVE  Valid(r, v) /\ Place(r, v) = p + 1
<1>1. CASE IsArray(v)
  <2>1. ~IsFull(v) /\ ~IsList(v) /\ v.data.first \in Nat /\ v.data.n \in Nat /\ Len(Stored(v)) = v.data.n
    BY <1>1, KindsDiffer, SparseKinds, StoredIs DEF Space
  <2>2. r = it + 1
    BY <2>1 DEF Step, vectorit_next
  <2>3. it \in Int /\ (v.data.n > 0 => it - v.data.first \in 0 .. v.data.n) /\ p = IF v.data.n = 0 THEN 1 ELSE it - v.data.first + 1
    BY <1>1 DEF Valid, Place
  <2>4. v.data.n > 0 /\ r \in Int /\ r - v.data.first \in 0 .. v.data.n /\ r - v.data.first + 1 = p + 1
    BY <2>1, <2>2, <2>3
  <2> QED BY <1>1, <2>1, <2>4 DEF Valid, Place
<1>2. CASE IsList(v)
  <2>1. ~IsFull(v) /\ ~IsArray(v) /\ Stored(v) = v.data /\ Len(v.data) \in Nat
    BY <1>2, KindsDiffer, SparseKinds, StoredIs
  <2>2. r = IF it < Len(v.data) THEN it + 1 ELSE 0
    BY <1>2 DEF Step, vectorit_next
  <2>3. it \in 0 .. Len(v.data) /\ p = IF it = 0 THEN Len(v.data) + 1 ELSE it
    BY <1>2, <2>1 DEF Valid, Place
  <2>4. it # 0 /\ r \in 0 .. Len(v.data) /\ (r = 0 => p + 1 = Len(v.data) + 1) /\ (r # 0 => r = p + 1)
    BY <2>1, <2>2, <2>3
  <2> QED BY <1>2, <2>1, <2>4 DEF Valid, Place
<1> QED BY <1>1, <1>2, SparseKinds

-----------------------------------------------------------------------------
(* One element out, in, or another in its place.                           *)

\* Another content for a vector.
Holding(v, D, m) == [v EXCEPT !.data = D, !.nz = m]

LEMMA DataIs ==
  ASSUME NEW v, IsVec(v), NEW D, NEW m, NEW w, w = Holding(v, D, m)
  PROVE  IsVec(w) /\ Like(w, v) /\ w.data = D /\ w.nz = m
<1>1. PICK t, dim, C, nz : t = v.type /\ dim = v.dim /\ C = v.data /\ nz = v.nz
  OBVIOUS
<1>2. v = [type |-> t, dim |-> dim, nz |-> nz, data |-> C]
  BY <1>1 DEF IsVec
<1>3. w = [type |-> t, dim |-> dim, nz |-> m, data |-> D]
  BY <1>2 DEF Holding
<1>4. w.type = t /\ w.dim = dim /\ w.nz = m /\ w.data = D
  BY ONLY <1>3
<1> QED BY <1>1, <1>3, <1>4 DEF IsVec, Like

HoldingOnly(v, D) == [v EXCEPT !.data = D]

LEMMA DataOnlyIs ==
  ASSUME NEW v, IsVec(v), NEW D, NEW w, w = HoldingOnly(v, D)
  PROVE  IsVec(w) /\ Like(w, v) /\ w.data = D /\ w.nz = v.nz
<1>1. PICK t, dim, C, nz : t = v.type /\ dim = v.dim /\ C = v.data /\ nz = v.nz
  OBVIOUS
<1>2. v = [type |-> t, dim |-> dim, nz |-> nz, data |-> C]
  BY <1>1 DEF IsVec
<1>3. w = [type |-> t, dim |-> dim, nz |-> nz, data |-> D]
  BY <1>2 DEF HoldingOnly
<1>4. w.type = t /\ w.dim = dim /\ w.nz = nz /\ w.data = D
  BY <1>3
<1> QED BY <1>1, <1>3, <1>4 DEF IsVec, Like

LEMMA SparseArray ==
  ASSUME NEW v, Sparse(v), IsArray(v), NEW w, IsVec(w), Like(w, v), Space(w.data), w.nz = w.data.n
  PROVE  Sparse(w) /\ IsArray(w)
<1>1. IsArray(w) /\ ~IsFull(w) /\ w.dim \in Nat
  BY SparseKinds, KindsDiffer DEF IsArray, Like
<1>2. w.nz \in Int
  BY DEF Space
<1> QED BY <1>1, <1>2 DEF Sparse, Vec

LEMMA SparseList ==
  ASSUME NEW v, Sparse(v), IsList(v), NEW w, IsVec(w), Like(w, v), w.data \in Seq(Cell), w.nz = Len(w.data)
  PROVE  Sparse(w) /\ IsList(w)
<1>1. IsList(w) /\ ~IsFull(w) /\ w.dim \in Nat
  BY SparseKinds, KindsDiffer DEF IsList, Like
<1>2. w.nz \in Int
  BY LenProperties
<1> QED BY <1>1, <1>2 DEF Sparse, Vec

LEMMA RemoveAtSeq ==
  ASSUME NEW V, NEW S \in Seq(V), NEW p \in 1 .. Len(S)
  PROVE  /\ RemoveAt(S, p) \in Seq(V) /\ Len(RemoveAt(S, p)) = Len(S) - 1
         /\ \A k \in 1 .. (Len(S) - 1) : RemoveAt(S, p)[k] = IF k < p THEN S[k] ELSE S[k + 1]
<1> DEFINE T == RemoveAt(S, p)
           a == SubSeq(S, 1, p - 1)
           b == SubSeq(S, p + 1, Len(S))
<1>0. Len(S) \in Nat /\ p \in Nat
  OBVIOUS
<1>1. a \in Seq(V) /\ Len(a) = p - 1 /\ \A k \in 1 .. (p - 1) : a[k] = S[k]
  <2>1. \A i \in 1 .. (p - 1) : S[i] \in V
    BY <1>0
  <2> QED BY <1>0, <2>1, SubSeqProperties
<1>2. b \in Seq(V) /\ Len(b) = Len(S) - p /\ \A k \in 1 .. (Len(S) - p) : b[k] = S[p + k]
  <2>1. \A i \in (p + 1) .. Len(S) : S[i] \in V
    BY <1>0
  <2> QED BY <1>0, <2>1, SubSeqProperties
<1>3. T = a \o b
  BY DEF RemoveAt
<1> HIDE DEF a, b, T
<1>c. /\ T \in Seq(V) /\ Len(T) = Len(a) + Len(b)
      /\ \A k \in 1 .. (Len(a) + Len(b)) : T[k] = IF k <= Len(a) THEN a[k] ELSE b[k - Len(a)]
  BY <1>1, <1>2, <1>3, ConcatProperties
<1>4. /\ T \in Seq(V) /\ Len(T) = Len(S) - 1
      /\ \A k \in 1 .. Len(T) : T[k] = IF k <= Len(a) THEN a[k] ELSE b[k - Len(a)]
  <2>1. Len(a) + Len(b) = Len(S) - 1
    BY <1>0, <1>1, <1>2
  <2> QED BY <1>c, <2>1
<1>5. ASSUME NEW k \in 1 .. Len(T) PROVE T[k] = IF k < p THEN S[k] ELSE S[k + 1]
  <2>1. CASE k < p
    <3>1. k <= Len(a) /\ k \in 1 .. (p - 1)
      BY <1>0, <1>1, <2>1
    <3> QED BY <1>1, <1>4, <2>1, <3>1
  <2>2. CASE ~(k < p)
    <3>1. ~(k <= Len(a)) /\ k - Len(a) \in 1 .. (Len(S) - p) /\ p + (k - Len(a)) = k + 1
      BY <1>0, <1>1, <1>4, <2>2
    <3>2. b[k - Len(a)] = S[p + (k - Len(a))]
      BY <1>2, <3>1
    <3> QED BY <1>4, <2>2, <3>1, <3>2
  <2> QED BY <2>1, <2>2
<1> QED BY <1>4, <1>5 DEF T

LEMMA RemoveAtIs ==
  ASSUME NEW S \in Seq(Cell), NEW p \in 1 .. Len(S)
  PROVE  Removed(RemoveAt(S, p), S, p)
BY RemoveAtSeq DEF Removed

LEMMA InsertAtIs ==
  ASSUME NEW S \in Seq(Cell), NEW p \in 1 .. (Len(S) + 1), NEW e \in Cell
  PROVE  Inserted(InsertAt(S, p, e), S, p, e)
<1> DEFINE T == InsertAt(S, p, e)
           a == SubSeq(S, 1, p - 1)
           o == <<e>>
           b == SubSeq(S, p, Len(S))
           ao == a \o o
<1>0. Len(S) \in Nat /\ p \in Nat
  OBVIOUS
<1>1. a \in Seq(Cell) /\ Len(a) = p - 1 /\ \A k \in 1 .. (p - 1) : a[k] = S[k]
  <2>1. \A i \in 1 .. (p - 1) : S[i] \in Cell
    BY <1>0
  <2> QED BY <1>0, <2>1, SubSeqProperties
<1>2. b \in Seq(Cell) /\ Len(b) = Len(S) - p + 1 /\ \A k \in 1 .. (Len(S) - p + 1) : b[k] = S[p + k - 1]
  <2>1. \A i \in p .. Len(S) : S[i] \in Cell
    BY <1>0
  <2> QED BY <1>0, <2>1, SubSeqProperties
<1>3. T = ao \o b
  BY DEF InsertAt
<1>4. o \in Seq(Cell) /\ Len(o) = 1 /\ o[1] = e
  OBVIOUS
<1> HIDE DEF a, b, T, o
<1>c. /\ ao \in Seq(Cell) /\ Len(ao) = Len(a) + Len(o)
      /\ \A k \in 1 .. (Len(a) + Len(o)) : ao[k] = IF k <= Len(a) THEN a[k] ELSE o[k - Len(a)]
  BY <1>1, <1>4, ConcatProperties
<1>5. ao \in Seq(Cell) /\ Len(ao) = p /\ \A k \in 1 .. p : ao[k] = IF k <= Len(a) THEN a[k] ELSE o[k - Len(a)]
  <2>1. Len(a) + Len(o) = p
    BY <1>0, <1>1, <1>4
  <2> QED BY <1>c, <2>1
<1> HIDE DEF ao
<1>6. /\ T \in Seq(Cell) /\ Len(T) = Len(S) + 1
      /\ \A k \in 1 .. Len(T) : T[k] = IF k <= Len(ao) THEN ao[k] ELSE b[k - Len(ao)]
  <2>1. /\ T \in Seq(Cell) /\ Len(T) = Len(ao) + Len(b)
        /\ \A k \in 1 .. (Len(ao) + Len(b)) : T[k] = IF k <= Len(ao) THEN ao[k] ELSE b[k - Len(ao)]
    BY <1>2, <1>3, <1>5, ConcatProperties
  <2>2. Len(ao) + Len(b) = Len(S) + 1
    BY <1>0, <1>2, <1>5
  <2> QED BY <2>1, <2>2
<1>7. ASSUME NEW k \in 1 .. Len(T) PROVE T[k] = IF k < p THEN S[k] ELSE IF k = p THEN e ELSE S[k - 1]
  <2>1. CASE k < p
    <3>1. k <= Len(ao) /\ k <= Len(a) /\ k \in 1 .. (p - 1) /\ k \in 1 .. p
      BY <1>0, <1>1, <1>5, <2>1
    <3> QED BY <1>1, <1>5, <1>6, <2>1, <3>1
  <2>2. CASE k = p
    <3>1. k <= Len(ao) /\ ~(k <= Len(a)) /\ k - Len(a) = 1 /\ k \in 1 .. p /\ ~(k < p)
      BY <1>0, <1>1, <1>5, <2>2
    <3> QED BY <1>4, <1>5, <1>6, <2>2, <3>1
  <2>3. CASE k > p
    <3>1. ~(k <= Len(ao)) /\ k - Len(ao) \in 1 .. (Len(S) - p + 1) /\ p + (k - Len(ao)) - 1 = k - 1 /\ ~(k < p) /\ k # p
      BY <1>0, <1>5, <1>6, <2>3
    <3>2. b[k - Len(ao)] = S[p + (k - Len(ao)) - 1]
      BY <1>2, <3>1
    <3> QED BY <1>6, <3>1, <3>2
  <2> QED BY <1>0, <1>6, <2>1, <2>2, <2>3
<1> QED BY <1>6, <1>7 DEF Inserted, T

\* The columns ascend and lie inside the vector.
Columns(S, dim) ==
  /\ \A k \in 1 .. Len(S) : S[k].col \in 0 .. (dim - 1)
  /\ \A j \in 1 .. Len(S) : \A k \in 1 .. Len(S) : j < k => S[j].col < S[k].col

\* An array with another array for its elements.
LEMMA StoredArray ==
  ASSUME NEW v, Sparse(v), IsArray(v), NEW k \in 1 .. v.data.n
  PROVE  v.data.n = Len(Stored(v)) /\ Stored(v)[k] = At(v.data, k - 1) /\ k - 1 \in 0 .. (v.data.n - 1) /\ Stored(v)[k] \in Cell
<1>1. v.data.n = Len(Stored(v)) /\ v.data.n \in Nat
  BY StoredIs, SparseKinds DEF Space
<1> QED BY <1>1, StoredIs

LEMMA RemovedHere ==
  ASSUME NEW v, Sparse(v), NEW it, Valid(it, v), NEW p, p = Place(it, v), p <= Len(Stored(v)),
         NEW w, w = vectorit_set(it, 0, v)
  PROVE  /\ Sparse(w) /\ Like(w, v) /\ Removed(Stored(w), Stored(v), p)
         /\ IsArray(v) => IsArray(w) /\ w.data.first \in {v.data.first, v.data.first + 1}
         /\ IsList(v) => IsList(w)
<1>0. OnElement(it, v) /\ IsVec(v) /\ ~IsFull(v) /\ p \in 1 .. Len(Stored(v)) /\ Len(Stored(v)) \in Nat /\ it \in Int
  BY Seat, SparseKinds, StoredIs
<1>1. CASE IsArray(v)
  <2>a. ~IsList(v) /\ Space(v.data) /\ v.nz = v.data.n /\ Len(Stored(v)) = v.data.n /\ v.data.n \in Nat /\ v.data.first \in Nat
    BY <1>1, KindsDiffer, SparseKinds, StoredIs DEF Space
  <2>b. PICK A, e, B, m : A = v.data /\ e = it - A.first /\ B = expanding_array_remove_elt(e, A) /\ m = v.nz - 1
    OBVIOUS
  <2>1. e \in 0 .. (A.n - 1) /\ e = p - 1
    BY <1>0, <1>1, <2>a, <2>b DEF Place
  <2>2. w = Holding(v, B, m)
    BY <1>0, <1>1, <2>a, <2>b DEF vectorit_set, Holding
  <2>3. /\ Space(B) /\ B.n = A.n - 1 /\ B.first \in {A.first, A.first + 1}
        /\ \A k \in 0 .. (A.n - 2) : At(B, k) = IF k < e THEN At(A, k) ELSE At(A, k + 1)
    BY <2>a, <2>b, <2>1, RemoveEltIs
  <2>4. IsVec(w) /\ Like(w, v) /\ w.data = B /\ w.nz = m
    BY <1>0, <2>2, DataIs
  <2>5. Sparse(w) /\ IsArray(w)
    BY <1>1, <2>a, <2>b, <2>3, <2>4, SparseArray
  <2>6. Stored(w) \in Seq(Cell) /\ Len(Stored(w)) = B.n
    BY <2>4, <2>5, StoredIs
  <2>7. ASSUME NEW k \in 1 .. Len(Stored(w)) PROVE Stored(w)[k] = IF k < p THEN Stored(v)[k] ELSE Stored(v)[k + 1]
    <3>1. k \in 1 .. B.n /\ k \in 1 .. A.n /\ k + 1 \in 1 .. A.n /\ k - 1 \in 0 .. (A.n - 2) /\ (k - 1) + 1 = k /\ (k + 1) - 1 = k
          /\ (k - 1 < e <=> k < p)
      BY <1>0, <2>a, <2>b, <2>1, <2>3, <2>6, SMTT(30)
    <3>2. Stored(w)[k] = At(B, k - 1)
      BY <2>4, <2>5, <3>1, StoredArray
    <3>3. Stored(v)[k] = At(A, k - 1) /\ Stored(v)[k + 1] = At(A, k)
      BY <1>1, <2>b, <3>1, StoredArray
    <3> QED BY <2>3, <3>1, <3>2, <3>3
  <2> QED BY <1>1, <2>a, <2>b, <2>3, <2>4, <2>5, <2>6, <2>7 DEF Removed
<1>2. CASE IsList(v)
  <2>a. ~IsArray(v) /\ Stored(v) = v.data /\ v.data \in Seq(Cell) /\ v.nz = Len(v.data)
    BY <1>2, KindsDiffer, SparseKinds, StoredIs
  <2>b. PICK B, m : B = RemoveAt(v.data, it) /\ m = v.nz - 1
    OBVIOUS
  <2>1. it = p
    BY <1>0, <2>a DEF Place
  <2>2. w = Holding(v, B, m)
    BY <1>0, <1>2, <2>a, <2>b DEF vectorit_set, Holding
  <2>3. Removed(B, v.data, p)
    BY <1>0, <2>a, <2>b, <2>1, RemoveAtIs
  <2>4. IsVec(w) /\ Like(w, v) /\ w.data = B /\ w.nz = m
    BY <1>0, <2>2, DataIs
  <2>5. Sparse(w) /\ IsList(w)
    BY <1>2, <2>a, <2>b, <2>3, <2>4, SparseList DEF Removed
  <2>6. Stored(w) = B
    BY <2>4, <2>5, StoredIs
  <2> QED BY <1>2, <2>a, <2>3, <2>4, <2>5, <2>6
<1> QED BY <1>1, <1>2, SparseKinds

\* The element goes, and the iterator stands on the next one.
LEMMA ZeroEltIs ==
  ASSUME NEW v, Sparse(v), NEW S, S = Stored(v), Columns(S, v.dim), NEW it, Valid(it, v), NEW p, p = Place(it, v), p <= Len(S),
         NEW z, z = vectorit_zero_elt(it, v)
  PROVE  /\ z = [v |-> z.v, it |-> z.it]
         /\ Sparse(z.v) /\ Like(z.v, v) /\ Removed(Stored(z.v), S, p) /\ Valid(z.it, z.v) /\ Place(z.it, z.v) = p
<1>a. PICK w : w = vectorit_set(it, 0, v)
  OBVIOUS
<1>b. PICK ahead, col : ahead = vectorit_next(it, v) /\ col = vectorit_curr_col(it, v)
  OBVIOUS
<1>c. PICK next : next = IF IsList(v) /\ OnElement(it, v) /\ ahead > it THEN it ELSE ahead
  OBVIOUS
<1>d. PICK behind : behind = vectorit_prev(next, w)
  OBVIOUS
<1>e. PICK jt : jt = IF ~vectorit_past_beg(behind, w) /\ vectorit_curr_col(behind, w) > col THEN behind ELSE next
  OBVIOUS
<1>1. z = [v |-> w, it |-> jt]
  BY <1>a, <1>b, <1>c, <1>d, <1>e DEF vectorit_zero_elt, Onward
<1>2. /\ Sparse(w) /\ Like(w, v) /\ Removed(Stored(w), S, p)
      /\ IsArray(v) => IsArray(w) /\ w.data.first \in {v.data.first, v.data.first + 1}
      /\ IsList(v) => IsList(w)
  BY <1>a, RemovedHere
<1>3. p \in 1 .. Len(S) /\ it \in Int /\ OnElement(it, v) /\ col = S[p].col /\ Len(S) \in Nat /\ v.dim \in Nat /\ w.dim = v.dim
  BY <1>b, <1>2, Seat, StoredIs, SparseKinds DEF Col, Like
<1>4. \A k \in 1 .. Len(S) : S[k].col \in 0 .. (v.dim - 1) /\ (k < p => S[k].col < col) /\ (k > p => S[k].col > col)
  BY <1>3 DEF Columns
<1>5. PICK T : T = Stored(w)
  OBVIOUS
<1>6. Len(T) = Len(S) - 1 /\ \A k \in 1 .. Len(T) : T[k] = IF k < p THEN S[k] ELSE S[k + 1]
  BY <1>2, <1>5 DEF Removed
<1>7. Valid(jt, w) /\ Place(jt, w) = p
  <2>1. CASE IsArray(v)
    <3>a. ~IsFull(v) /\ ~IsList(v) /\ IsArray(w) /\ ~IsFull(w) /\ ~IsList(w)
      BY <1>2, <2>1, KindsDiffer
    <3>b. next = it + 1 /\ behind = it
      BY <1>3, <1>b, <1>c, <1>d, <3>a DEF vectorit_next, vectorit_prev
    <3>c. /\ v.data.n = Len(S) /\ w.data.n = Len(T) /\ v.data.first \in Int
          /\ w.data.first \in Nat /\ w.data.last \in Int
          /\ (w.data.n > 0 => w.data.last = w.data.first + w.data.n - 1) /\ (w.data.n = 0 => w.data.last < w.data.first)
      <4>1. Space(w.data) /\ Space(v.data)
        BY <1>2, <2>1, <3>a, SparseKinds
      <4> QED BY <1>2, <1>5, <2>1, <3>a, <4>1, StoredIs DEF Space
    <3>d. p = it - v.data.first + 1
      BY <1>3, <2>1, <3>c DEF Place
    <3>e. vectorit_past_beg(it, w) <=> it < w.data.first \/ w.data.first > w.data.last
      BY <3>a DEF vectorit_past_beg
    <3>f. ASSUME NEW i \in Int, w.data.n > 0 => i - w.data.first \in 0 .. w.data.n
          PROVE  Valid(i, w) /\ Place(i, w) = IF w.data.n = 0 THEN 1 ELSE i - w.data.first + 1
      BY <3>a, <3>f DEF Valid, Place
    <3>1. CASE w.data.n = 0
      <4>1. p = 1 /\ next \in Int /\ behind \in Int
        BY <1>3, <1>6, <3>b, <3>c, <3>1
      <4>2. jt \in Int
        BY <4>1, <1>e
      <4> QED BY <3>f, <3>1, <4>1, <4>2
    <3>2. CASE w.data.n > 0 /\ w.data.first = v.data.first
      <4>1. it - w.data.first \in 0 .. w.data.n /\ it - w.data.first + 1 = p /\ ~(it < w.data.first \/ w.data.first > w.data.last)
        BY <1>3, <1>6, <3>2, <3>c, <3>d
      <4>2. Valid(it, w) /\ Place(it, w) = p
        BY <1>3, <3>2, <3>f, <4>1
      <4>3. vectorit_curr_col(it, w) > col
        <5>1. CASE p <= Len(T)
          <6>1. Col(it, w) = T[p].col
            BY <1>2, <1>5, <4>2, <5>1, Seat
          <6>2. T[p] = S[p + 1] /\ p + 1 \in 1 .. Len(S) /\ p + 1 > p
            BY <1>3, <1>6, <5>1
          <6> QED BY <1>4, <6>1, <6>2 DEF Col
        <5>2. CASE p = Len(T) + 1
          <6>1. Col(it, w) = v.dim
            BY <1>2, <1>3, <1>5, <4>2, <5>2, Seat
          <6> QED BY <1>3, <1>4, <6>1 DEF Col
        <5> QED BY <1>3, <1>6, <5>1, <5>2
      <4> QED BY <1>e, <3>b, <3>e, <4>1, <4>2, <4>3
    <3>3. CASE w.data.n > 0 /\ w.data.first = v.data.first + 1
      <4>a. PICK f, g, n, m : f = v.data.first /\ g = w.data.first /\ n = w.data.n /\ m = Len(S)
        OBVIOUS
      <4>b. f \in Int /\ g = f + 1 /\ m \in Nat /\ n = m - 1 /\ p \in 1 .. m /\ it \in Int /\ p = it - f + 1 /\ next = it + 1 /\ n > 0
        BY <1>3, <1>6, <3>3, <3>b, <3>c, <3>d, <4>a
      <4>1. next - w.data.first \in 0 .. w.data.n /\ next - w.data.first + 1 = p /\ next \in Int
        <5>1. next - g \in 0 .. n /\ next - g + 1 = p /\ next \in Int
          BY ONLY <4>b
        <5> QED BY <4>a, <5>1
      <4>2. Valid(next, w) /\ Place(next, w) = p
        BY <3>3, <3>f, <4>1
      <4>3. CASE p = 1
        <5>1. it < w.data.first
          BY <1>3, <3>3, <3>c, <3>d, <4>3
        <5> QED BY <1>e, <3>b, <3>e, <4>2, <5>1
      <4>4. CASE p > 1
        <5>1. it - w.data.first \in 0 .. w.data.n /\ it - w.data.first + 1 = p - 1
          <6>1. it - g \in 0 .. n /\ it - g + 1 = p - 1
            BY ONLY <4>b, <4>4
          <6> QED BY <4>a, <6>1
        <5>2. Valid(it, w) /\ Place(it, w) = p - 1
          BY <1>3, <3>3, <3>f, <5>1
        <5>3. p - 1 \in 1 .. Len(T) /\ p - 1 <= Len(T) /\ p - 1 < p /\ p - 1 \in 1 .. Len(S)
          BY <1>3, <1>6, <4>4
        <5>4. Col(it, w) = T[p - 1].col
          BY <1>2, <1>5, <5>2, <5>3, Seat
        <5>5. Col(it, w) < col
          BY <1>4, <1>6, <5>3, <5>4
        <5>6. S[p].col \in Int /\ S[p - 1].col \in Int /\ T[p - 1] = S[p - 1]
          BY <1>3, <1>4, <1>6, <5>3
        <5>7. ~(vectorit_curr_col(it, w) > col)
          BY <1>3, <5>4, <5>5, <5>6 DEF Col
        <5> QED BY <1>e, <3>b, <4>2, <5>7
      <4> QED BY <1>3, <4>3, <4>4
    <3>4. w.data.n = 0 \/ w.data.n > 0
      BY <1>3, <1>6, <3>c
    <3> QED BY <1>2, <2>1, <3>1, <3>2, <3>3, <3>4
  <2>2. CASE IsList(v)
    <3>a. ~IsFull(v) /\ ~IsArray(v) /\ IsList(w) /\ ~IsFull(w) /\ ~IsArray(w) /\ v.data = S /\ w.data = T
      BY <1>2, <1>5, <2>2, KindsDiffer, StoredIs
    <3>b. it = p /\ it # 0
      BY <1>3, <3>a DEF Place, OnElement
    <3>c. ahead = IF p < Len(S) THEN p + 1 ELSE 0
      BY <1>b, <2>2, <3>a, <3>b DEF vectorit_next
    <3>d. next = IF p < Len(S) THEN p ELSE 0
      BY <1>3, <1>c, <2>2, <3>b, <3>c
    <3>e. behind = IF next = 0 THEN Len(T) ELSE next - 1
      BY <1>d, <3>a DEF vectorit_prev
    <3>1. behind = p - 1
      BY <1>3, <1>6, <3>d, <3>e
    <3>2. vectorit_past_beg(behind, w) <=> behind = 0
      BY <3>a DEF vectorit_past_beg
    <3>3. behind # 0 => ~(vectorit_curr_col(behind, w) > col)
      <4> SUFFICES ASSUME behind # 0 PROVE ~(vectorit_curr_col(behind, w) > col)
        OBVIOUS
      <4>1. p - 1 \in 1 .. Len(T) /\ p - 1 < p /\ p - 1 \in 1 .. Len(S) /\ behind \in 0 .. Len(T)
        BY <1>3, <1>6, <3>1
      <4>2. Valid(behind, w) /\ Place(behind, w) = p - 1
        BY <3>1, <3>a, <4>1 DEF Valid, Place
      <4>3. Col(behind, w) = T[p - 1].col
        BY <1>2, <1>5, <4>1, <4>2, Seat
      <4>4. T[p - 1] = S[p - 1] /\ S[p - 1].col < col /\ S[p - 1].col \in Int /\ col \in Int
        BY <1>3, <1>4, <1>6, <4>1
      <4> QED BY <4>3, <4>4 DEF Col
    <3>4. jt = next
      BY <1>e, <3>2, <3>3
    <3>5. next \in 0 .. Len(T) /\ (next = 0 => p = Len(T) + 1) /\ (next # 0 => next = p)
      BY <1>3, <1>6, <3>d
    <3> QED BY <3>4, <3>5, <3>a DEF Valid, Place
  <2> QED BY <2>1, <2>2, SparseKinds
<1>8. z.v = w /\ z.it = jt
  BY <1>1
<1> QED BY <1>1, <1>2, <1>7, <1>8

LEMMA PutInArrayIs ==
  ASSUME NEW v, Sparse(v), IsArray(v), NEW S, S = Stored(v), NEW e \in Cell, NEW asked \in Int,
         NEW b \in 0 .. Len(S), b = IF asked < 0 THEN 0 ELSE asked,
         NEW z, z = PutInArray(expanding_array_insert_before(e, asked, v.data), v)
  PROVE  /\ z = [v |-> z.v, it |-> z.it]
         /\ Sparse(z.v) /\ Like(z.v, v) /\ Inserted(Stored(z.v), S, b + 1, e) /\ Valid(z.it, z.v) /\ Place(z.it, z.v) = b + 1
<1>a. ~IsList(v) /\ Space(v.data) /\ v.nz = v.data.n /\ Len(S) = v.data.n /\ v.data.n \in Nat /\ v.data.first \in Nat /\ IsVec(v)
  BY KindsDiffer, SparseKinds, StoredIs DEF Space
<1>b. PICK A, put : A = v.data /\ put = expanding_array_insert_before(e, asked, A)
  OBVIOUS
<1>c. PICK B, at, m : B = put.A /\ at = put.at /\ m = v.nz + 1
  OBVIOUS
<1>d. PICK w : w = Holding(v, B, m)
  OBVIOUS
<1>1. z = [v |-> w, it |-> at]
  BY <1>b, <1>c, <1>d DEF PutInArray, Holding
<1>2. /\ Space(B) /\ B.n = A.n + 1 /\ at = b + B.first
      /\ \A k \in 0 .. A.n : At(B, k) = IF k < b THEN At(A, k) ELSE IF k = b THEN e ELSE At(A, k - 1)
  BY <1>a, <1>b, <1>c, InsertBeforeIs
<1>3. IsVec(w) /\ Like(w, v) /\ w.data = B /\ w.nz = m
  BY <1>a, <1>d, DataIs
<1>4. Sparse(w) /\ IsArray(w)
  BY <1>a, <1>b, <1>c, <1>2, <1>3, SparseArray
<1>5. Stored(w) \in Seq(Cell) /\ Len(Stored(w)) = B.n /\ B.first \in Nat
  BY <1>2, <1>3, <1>4, StoredIs DEF Space
<1>6. ASSUME NEW k \in 1 .. Len(Stored(w))
      PROVE  Stored(w)[k] = IF k < b + 1 THEN S[k] ELSE IF k = b + 1 THEN e ELSE S[k - 1]
  <2>1. k \in 1 .. B.n /\ k - 1 \in 0 .. A.n /\ (k - 1 < b <=> k < b + 1) /\ (k - 1 = b <=> k = b + 1)
    BY <1>a, <1>b, <1>2, <1>5
  <2>2. Stored(w)[k] = At(B, k - 1)
    BY <1>3, <1>4, <2>1, StoredArray
  <2>3. CASE k < b + 1
    <3>1. k \in 1 .. v.data.n
      BY <1>a, <2>3
    <3>2. S[k] = At(A, k - 1)
      BY <1>b, <3>1, StoredArray
    <3> QED BY <1>2, <2>1, <2>2, <2>3, <3>2
  <2>4. CASE k = b + 1
    <3>1. ~(k < b + 1)
      BY <2>4
    <3> QED BY <1>2, <2>1, <2>2, <2>4, <3>1
  <2>5. CASE k > b + 1
    <3>1. k - 1 \in 1 .. v.data.n /\ ~(k < b + 1) /\ k # b + 1
      BY <1>a, <1>b, <2>1, <2>5
    <3>2. S[k - 1] = At(A, (k - 1) - 1)
      BY <1>b, <3>1, StoredArray
    <3> QED BY <1>2, <2>1, <2>2, <3>1, <3>2
  <2> QED BY <1>a, <2>1, <2>3, <2>4, <2>5
<1>7. B.n > 0 /\ at \in Int /\ at - B.first \in 0 .. B.n /\ at - B.first + 1 = b + 1
  BY <1>a, <1>b, <1>2, <1>5
<1>8. Valid(at, w) /\ Place(at, w) = b + 1
  BY <1>3, <1>4, <1>7 DEF Valid, Place
<1>9. z.v = w /\ z.it = at
  BY ONLY <1>1
<1>10. Inserted(Stored(w), S, b + 1, e)
  BY <1>a, <1>b, <1>2, <1>5, <1>6 DEF Inserted
<1> QED BY <1>1, <1>3, <1>4, <1>8, <1>9, <1>10

LEMMA PutInListIs ==
  ASSUME NEW v, Sparse(v), IsList(v), NEW S, S = Stored(v), NEW e \in Cell, NEW q \in 1 .. (Len(S) + 1),
         NEW z, z = PutInList(q, e, v)
  PROVE  /\ z = [v |-> z.v, it |-> z.it]
         /\ Sparse(z.v) /\ Like(z.v, v) /\ Inserted(Stored(z.v), S, q, e) /\ Valid(z.it, z.v) /\ Place(z.it, z.v) = q
<1>a. ~IsArray(v) /\ S = v.data /\ S \in Seq(Cell) /\ v.nz = Len(S) /\ Len(S) \in Nat /\ IsVec(v)
  BY KindsDiffer, SparseKinds, StoredIs
<1>b. PICK B, m : B = InsertAt(S, q, e) /\ m = v.nz + 1
  OBVIOUS
<1>c. PICK w : w = Holding(v, B, m)
  OBVIOUS
<1>1. z = [v |-> w, it |-> q]
  BY <1>a, <1>b, <1>c DEF PutInList, Holding
<1>2. Inserted(B, S, q, e)
  BY <1>a, <1>b, InsertAtIs
<1>3. IsVec(w) /\ Like(w, v) /\ w.data = B /\ w.nz = m
  BY <1>a, <1>c, DataIs
<1>4. Sparse(w) /\ IsList(w)
  BY <1>a, <1>b, <1>2, <1>3, SparseList DEF Inserted
<1>5. Stored(w) = B /\ ~IsArray(w)
  BY <1>3, <1>4, StoredIs, KindsDiffer
<1>6. q # 0 /\ q \in 0 .. Len(B)
  BY <1>a, <1>2 DEF Inserted
<1>7. Valid(q, w) /\ Place(q, w) = q
  BY <1>3, <1>4, <1>5, <1>6 DEF Valid, Place
<1>8. z.v = w /\ z.it = q
  BY ONLY <1>1
<1> QED BY <1>1, <1>2, <1>3, <1>4, <1>5, <1>7, <1>8

\* What vectorit_insert_after and vectorit_insert_before leave.
PutAt(z, v, q, e) ==
  /\ z = [v |-> z.v, it |-> z.it]
  /\ Sparse(z.v) /\ Like(z.v, v) /\ Inserted(Stored(z.v), Stored(v), q, e) /\ Valid(z.it, z.v) /\ Place(z.it, z.v) = q

LEMMA InsertAfterIs ==
  ASSUME NEW v, Sparse(v), NEW S, S = Stored(v), Columns(S, v.dim), NEW it, Valid(it, v), NEW p, p = Place(it, v), p <= Len(S),
         NEW c \in Int, NEW d \in Int, S[p].col < c, NEW e, e = [col |-> c, data |-> d],
         NEW z, z = vectorit_insert_after(it, c, d, v)
  PROVE  PutAt(z, v, p + 1, e)
<1>0. p \in 1 .. Len(S) /\ it \in Int /\ Len(S) \in Nat /\ e \in Cell
  BY Seat, StoredIs DEF Cell
<1>1. CASE IsArray(v)
  <2>a. ~IsList(v) /\ Space(v.data) /\ Len(S) = v.data.n /\ v.data.n \in Nat /\ v.data.first \in Nat
    BY <1>1, KindsDiffer, SparseKinds, StoredIs DEF Space
  <2>1. p = it - v.data.first + 1 /\ ~(it < v.data.first)
    <3>1. v.data.n # 0 /\ it - v.data.first \in 0 .. v.data.n
      BY <1>0, <1>1, <2>a DEF Valid
    <3> QED BY <1>0, <1>1, <2>a, <3>1 DEF Place
  <2>2. z = PutInArray(expanding_array_insert_after(e, it - v.data.first, v.data), v)
    BY <1>1, <2>1 DEF vectorit_insert_after
  <2>3. (it - v.data.first) + 1 = p
    BY <1>0, <2>a, <2>1
  <2>4. z = PutInArray(expanding_array_insert_before(e, p, v.data), v)
    BY <2>2, <2>3 DEF expanding_array_insert_after
  <2>5. p \in 0 .. Len(S) /\ p \in Int /\ ~(p < 0)
    BY <1>0
  <2> QED BY <1>0, <1>1, <2>4, <2>5, PutInArrayIs DEF PutAt
<1>2. CASE IsList(v)
  <2>a. ~IsArray(v) /\ S = v.data /\ S \in Seq(Cell)
    BY <1>2, KindsDiffer, StoredIs
  <2>1. it = p /\ it # 0
    BY <1>0, <1>2, <2>a, Seat DEF Place, Valid
  <2>2. ~(c < S[1].col)
    <3>1. 1 \in 1 .. Len(S) /\ S[1].col \in Int /\ S[p].col \in Int
      BY <1>0, StoredIs
    <3>2. S[1].col <= S[p].col
      BY <1>0, <3>1 DEF Columns
    <3> QED BY <3>1, <3>2
  <2>3. z = PutInList(it + 1, e, v)
    BY <2>a, <2>1, <2>2 DEF vectorit_insert_after
  <2>4. p + 1 \in 1 .. (Len(S) + 1)
    BY <1>0
  <2> QED BY <1>0, <1>2, <2>1, <2>3, <2>4, PutInListIs DEF PutAt
<1> QED BY <1>1, <1>2, SparseKinds

LEMMA InsertFirstIs ==
  ASSUME NEW v, Sparse(v), Len(Stored(v)) = 0, NEW it, IsArray(v) => it = v.data.first - 1, IsList(v) => it = 0,
         NEW c \in Int, NEW d \in Int, NEW e, e = [col |-> c, data |-> d],
         NEW z, z = vectorit_insert_after(it, c, d, v)
  PROVE  PutAt(z, v, 1, e)
<1>0. e \in Cell /\ 0 \in Int /\ 0 \in 0 .. Len(Stored(v)) /\ 1 \in 1 .. (Len(Stored(v)) + 1) /\ 0 + 1 = 1
  BY DEF Cell
<1>1. CASE IsArray(v)
  <2>a. ~IsList(v) /\ v.data.n = 0 /\ v.data.first \in Nat
    BY <1>1, KindsDiffer, SparseKinds, StoredIs DEF Space
  <2>1. z = PutInArray(expanding_array_insert_after(e, it - v.data.first, v.data), v)
    BY <1>1, <2>a DEF vectorit_insert_after
  <2>2. (it - v.data.first) + 1 = 0
    BY <1>1, <2>a
  <2>3. z = PutInArray(expanding_array_insert_before(e, 0, v.data), v)
    BY <2>1, <2>2 DEF expanding_array_insert_after
  <2>4. PICK asked \in Int, b \in 0 .. Len(Stored(v)) : asked = 0 /\ b = 0 /\ b = (IF asked < 0 THEN 0 ELSE asked) /\ b + 1 = 1
    BY <1>0
  <2>5. z = PutInArray(expanding_array_insert_before(e, asked, v.data), v)
    BY <2>3, <2>4
  <2>6. PutAt(z, v, b + 1, e)
    BY ONLY <1>0, <1>1, <2>4, <2>5, Sparse(v), PutInArrayIs DEF PutAt
  <2> QED BY <2>4, <2>6
<1>2. CASE IsList(v)
  <2>a. ~IsArray(v) /\ Stored(v) = v.data /\ v.data \in Seq(Cell)
    BY <1>2, KindsDiffer, StoredIs
  <2>1. v.data = << >>
    BY <2>a, EmptySeq
  <2>2. z = PutInList(1, e, v)
    BY <1>2, <2>a, <2>1 DEF vectorit_insert_after
  <2> QED BY <1>0, <1>2, <2>2, PutInListIs DEF PutAt
<1> QED BY <1>1, <1>2, SparseKinds

LEMMA InsertBeforeItIs ==
  ASSUME NEW v, Sparse(v), NEW S, S = Stored(v), Columns(S, v.dim), NEW it, Valid(it, v), NEW p, p = Place(it, v), p <= Len(S),
         NEW c \in Int, NEW d \in Int, S[p].col > c, NEW e, e = [col |-> c, data |-> d],
         NEW z, z = vectorit_insert_before(it, c, d, v)
  PROVE  PutAt(z, v, p, e)
<1>0. p \in 1 .. Len(S) /\ it \in Int /\ Len(S) \in Nat /\ e \in Cell
  BY Seat, StoredIs DEF Cell
<1>1. CASE IsArray(v)
  <2>a. /\ ~IsList(v) /\ Space(v.data) /\ Len(S) = v.data.n /\ v.data.n \in Nat /\ v.data.first \in Nat
        /\ v.data.last \in Int /\ (v.data.n > 0 => v.data.last = v.data.first + v.data.n - 1)
    BY <1>1, KindsDiffer, SparseKinds, StoredIs DEF Space
  <2>1. p = it - v.data.first + 1 /\ ~(it > v.data.last) /\ it - v.data.first = p - 1
    <3>1. v.data.n # 0 /\ it - v.data.first \in 0 .. v.data.n
      BY <1>0, <1>1, <2>a DEF Valid
    <3>2. p = it - v.data.first + 1
      BY <1>1, <3>1 DEF Place
    <3> QED BY <1>0, <2>a, <3>1, <3>2, SMTT(30)
  <2>4. z = PutInArray(expanding_array_insert_before(e, p - 1, v.data), v)
    BY <1>1, <2>1 DEF vectorit_insert_before
  <2>5. p - 1 \in 0 .. Len(S) /\ p - 1 \in Int /\ ~(p - 1 < 0) /\ (p - 1) + 1 = p
    BY <1>0
  <2> QED BY <1>0, <1>1, <2>4, <2>5, PutInArrayIs DEF PutAt
<1>2. CASE IsList(v)
  <2>a. ~IsArray(v) /\ S = v.data /\ S \in Seq(Cell)
    BY <1>2, KindsDiffer, StoredIs
  <2>1. it = p /\ it # 0
    BY <1>0, <1>2, <2>a, Seat DEF Place, Valid
  <2>2. ~(c > S[Len(S)].col)
    <3>1. Len(S) \in 1 .. Len(S) /\ S[Len(S)].col \in Int /\ S[p].col \in Int
      BY <1>0, StoredIs
    <3>2. S[p].col <= S[Len(S)].col
      BY <1>0, <3>1 DEF Columns
    <3> QED BY <3>1, <3>2
  <2>3. z = PutInList(it, e, v)
    BY <2>a, <2>1, <2>2 DEF vectorit_insert_before
  <2>4. p \in 1 .. (Len(S) + 1)
    BY <1>0
  <2> QED BY <1>0, <1>2, <2>1, <2>3, <2>4, PutInListIs DEF PutAt
<1> QED BY <1>1, <1>2, SparseKinds

\* Another value or another column for an element that stays.
LEMMA OtherCell ==
  ASSUME NEW x \in Cell, NEW d \in Int, NEW y, NEW w, y = [x EXCEPT !.data = d], w = [x EXCEPT !.col = d]
  PROVE  /\ y \in Cell /\ y.col = x.col /\ y.data = d
         /\ w \in Cell /\ w.col = d /\ w.data = x.data
<1>1. PICK a \in Int, b \in Int : x = [col |-> a, data |-> b]
  BY DEF Cell
<1>2. y = [col |-> a, data |-> d] /\ w = [col |-> d, data |-> b]
  BY <1>1
<1>3. x.col = a /\ x.data = b
  BY ONLY <1>1
<1>4. y.col = a /\ y.data = d /\ w.col = d /\ w.data = b
  BY ONLY <1>2
<1>5. y \in Cell /\ w \in Cell
  BY <1>2 DEF Cell
<1> QED BY <1>3, <1>4, <1>5

\* w is v with the element at place p replaced by e.
ReplacedAt(w, v, p, e) ==
  /\ Sparse(w) /\ Like(w, v) /\ Replaced(Stored(w), Stored(v), p, e) /\ w.nz = v.nz
  /\ IsArray(v) => IsArray(w) /\ Same(w.data, v.data)
  /\ IsList(v) => IsList(w)

\* One cell of an array written.
CellPut(A, i, e) == [A EXCEPT !.data[i] = e]

LEMMA CellPutIs ==
  ASSUME NEW A, Space(A), NEW k \in 0 .. (A.n - 1), NEW e \in Cell, NEW r, r = CellPut(A, A.first + k, e)
  PROVE  Same(r, A) /\ \A j \in 0 .. (A.n - 1) : At(r, j) = IF j = k THEN e ELSE At(A, j)
BY CellIs DEF CellPut

LEMMA ArrayCell ==
  ASSUME NEW v, Sparse(v), IsArray(v), NEW p \in 1 .. v.data.n, NEW e \in Cell,
         NEW w, w = HoldingOnly(v, CellPut(v.data, v.data.first + (p - 1), e))
  PROVE  ReplacedAt(w, v, p, e)
<1>a. /\ ~IsList(v) /\ Space(v.data) /\ v.nz = v.data.n /\ Len(Stored(v)) = v.data.n /\ v.data.n \in Nat
      /\ v.data.first \in Nat /\ IsVec(v)
  BY KindsDiffer, SparseKinds, StoredIs DEF Space
<1>b. PICK A, B : A = v.data /\ B = CellPut(A, A.first + (p - 1), e)
  OBVIOUS
<1>1. p - 1 \in 0 .. (A.n - 1)
  BY <1>a, <1>b
<1>2. w = HoldingOnly(v, B)
  BY <1>b
<1>3. Same(B, A) /\ \A j \in 0 .. (A.n - 1) : At(B, j) = IF j = p - 1 THEN e ELSE At(A, j)
  BY <1>a, <1>b, <1>1, CellPutIs
<1>4. IsVec(w) /\ Like(w, v) /\ w.data = B /\ w.nz = v.nz
  BY <1>a, <1>2, DataOnlyIs
<1>5. Sparse(w) /\ IsArray(w)
  BY <1>a, <1>b, <1>3, <1>4, SparseArray DEF Same
<1>6. Stored(w) \in Seq(Cell) /\ Len(Stored(w)) = B.n /\ B.n = A.n
  BY <1>3, <1>4, <1>5, StoredIs DEF Same
<1>7. ASSUME NEW k \in 1 .. Len(Stored(w)) PROVE Stored(w)[k] = IF k = p THEN e ELSE Stored(v)[k]
  <2>1. k \in 1 .. B.n /\ k \in 1 .. A.n /\ k - 1 \in 0 .. (A.n - 1) /\ (k - 1 = p - 1 <=> k = p)
    BY <1>a, <1>b, <1>6
  <2>2. Stored(w)[k] = At(B, k - 1)
    BY <1>4, <1>5, <2>1, StoredArray
  <2>3. Stored(v)[k] = At(A, k - 1)
    BY <1>b, <2>1, StoredArray
  <2> QED BY <1>3, <2>1, <2>2, <2>3
<1>8. Replaced(Stored(w), Stored(v), p, e)
  BY <1>a, <1>b, <1>6, <1>7 DEF Replaced
<1> QED BY <1>a, <1>b, <1>3, <1>4, <1>5, <1>8 DEF ReplacedAt

LEMMA ListCell ==
  ASSUME NEW v, Sparse(v), IsList(v), NEW p \in 1 .. Len(v.data), NEW e \in Cell,
         NEW B, B = [v.data EXCEPT ![p] = e], NEW w, w = HoldingOnly(v, B)
  PROVE  ReplacedAt(w, v, p, e)
<1>a. ~IsArray(v) /\ v.data \in Seq(Cell) /\ v.nz = Len(v.data) /\ IsVec(v) /\ Stored(v) = v.data
  BY KindsDiffer, SparseKinds, StoredIs
<1>1. B \in Seq(Cell) /\ Len(B) = Len(v.data) /\ \A j \in 1 .. Len(v.data) : B[j] = IF j = p THEN e ELSE v.data[j]
  BY <1>a, ExceptSeq
<1>2. IsVec(w) /\ Like(w, v) /\ w.data = B /\ w.nz = v.nz
  BY <1>a, DataOnlyIs
<1>3. Sparse(w) /\ IsList(w)
  BY <1>a, <1>1, <1>2, SparseList
<1>4. Stored(w) = B
  BY <1>2, <1>3, StoredIs
<1>5. Replaced(Stored(w), Stored(v), p, e)
  BY <1>a, <1>1, <1>4 DEF Replaced
<1> QED BY <1>a, <1>2, <1>3, <1>5 DEF ReplacedAt

LEMMA ReplacedSeat ==
  ASSUME NEW v, Sparse(v), NEW w, NEW p, NEW e, ReplacedAt(w, v, p, e), NEW it, Valid(it, v)
  PROVE  Valid(it, w) /\ Place(it, w) = Place(it, v)
<1>1. CASE IsArray(v)
  <2>1. IsArray(w) /\ w.data.n = v.data.n /\ w.data.first = v.data.first
    BY <1>1 DEF ReplacedAt, Same
  <2> QED BY <1>1, <2>1 DEF Valid, Place
<1>2. CASE IsList(v)
  <2>1. IsList(w) /\ Sparse(w) /\ Len(Stored(w)) = Len(Stored(v))
    BY <1>2 DEF ReplacedAt, Replaced
  <2>2. ~IsArray(w) /\ ~IsArray(v) /\ Len(w.data) = Len(v.data)
    BY <1>2, <2>1, KindsDiffer, StoredIs
  <2> QED BY <1>2, <2>1, <2>2 DEF Valid, Place
<1> QED BY <1>1, <1>2, SparseKinds

LEMMA SetHereIs ==
  ASSUME NEW v, Sparse(v), NEW it, Valid(it, v), NEW p, p = Place(it, v), p <= Len(Stored(v)), NEW d \in Int, d # 0,
         NEW w, w = vectorit_set(it, d, v)
  PROVE  \E e \in Cell : e.col = Stored(v)[p].col /\ e.data = d /\ ReplacedAt(w, v, p, e)
<1>0. OnElement(it, v) /\ IsVec(v) /\ ~IsFull(v) /\ p \in 1 .. Len(Stored(v)) /\ Len(Stored(v)) \in Nat /\ it \in Int
  BY Seat, SparseKinds, StoredIs
<1>1. PICK x, e : x = Stored(v)[p] /\ e = [x EXCEPT !.data = d]
  OBVIOUS
<1>2. e \in Cell /\ e.col = x.col /\ e.data = d
  <2>1. x \in Cell
    BY <1>0, <1>1, StoredIs
  <2>2. PICK y : y = [x EXCEPT !.col = d]
    OBVIOUS
  <2> QED BY <1>1, <2>1, <2>2, OtherCell
<1>3. CASE IsArray(v)
  <2>a. ~IsList(v) /\ Len(Stored(v)) = v.data.n /\ v.data.n \in Nat /\ v.data.first \in Nat
    BY <1>3, KindsDiffer, SparseKinds, StoredIs DEF Space
  <2>1. it = v.data.first + (p - 1) /\ p \in 1 .. v.data.n
    BY <1>0, <1>3, <2>a DEF Place
  <2>2. v.data.data[it] = x
    BY <1>0, <1>1, <1>3, <2>1, StoredArray DEF At
  <2>3. w = [v EXCEPT !.data.data[it].data = d]
    BY <1>0, <1>3, <2>a, Zenon DEF vectorit_set
  <2>4. w = HoldingOnly(v, CellPut(v.data, it, e))
    <3>1. w = [v EXCEPT !.data = [v.data EXCEPT !.data = [v.data.data EXCEPT ![it] = [v.data.data[it] EXCEPT !.data = d]]]]
      BY ONLY <2>3
    <3>2. w = [v EXCEPT !.data = [v.data EXCEPT !.data = [v.data.data EXCEPT ![it] = e]]]
      BY ONLY <1>1, <2>2, <3>1
    <3> QED BY ONLY <3>2 DEF HoldingOnly, CellPut
  <2> QED BY <1>1, <1>2, <1>3, <2>1, <2>4, ArrayCell
<1>4. CASE IsList(v)
  <2>a. ~IsArray(v) /\ Stored(v) = v.data
    BY <1>4, KindsDiffer, StoredIs
  <2>1. it = p
    BY <1>0, <2>a DEF Place
  <2>2. PICK B : B = [v.data EXCEPT ![p] = e]
    OBVIOUS
  <2>3. w = HoldingOnly(v, B)
    BY <1>0, <1>1, <1>4, <2>a, <2>1, <2>2 DEF vectorit_set, HoldingOnly
  <2> QED BY <1>0, <1>1, <1>2, <1>4, <2>a, <2>2, <2>3, ListCell
<1> QED BY <1>3, <1>4, SparseKinds

LEMMA SetColIs ==
  ASSUME NEW v, Sparse(v), NEW it, Valid(it, v), NEW S, S = Stored(v), NEW p, p = Place(it, v), p <= Len(S), NEW c \in Int,
         p > 1 => S[p - 1].col < c, p < Len(S) => S[p + 1].col > c,
         NEW w, w = vectorit_set_col(it, c, v)
  PROVE  \E e \in Cell : e.col = c /\ e.data = S[p].data /\ ReplacedAt(w, v, p, e)
<1>0. OnElement(it, v) /\ IsVec(v) /\ ~IsFull(v) /\ p \in 1 .. Len(S) /\ Len(S) \in Nat /\ it \in Int
  BY Seat, SparseKinds, StoredIs
<1>1. PICK x, e : x = S[p] /\ e = [x EXCEPT !.col = c]
  OBVIOUS
<1>2. e \in Cell /\ e.col = c /\ e.data = x.data
  <2>1. x \in Cell
    BY <1>0, <1>1, StoredIs
  <2>2. PICK y : y = [x EXCEPT !.data = c]
    OBVIOUS
  <2> QED BY <1>1, <2>1, <2>2, OtherCell
<1>3. CASE IsArray(v)
  <2>a. ~IsList(v) /\ Len(S) = v.data.n /\ v.data.n \in Nat /\ v.data.first \in Nat /\ v.data.last \in Int
        /\ (v.data.n > 0 => v.data.last = v.data.first + v.data.n - 1)
    BY <1>3, KindsDiffer, SparseKinds, StoredIs DEF Space
  <2>1. it = v.data.first + (p - 1) /\ p \in 1 .. v.data.n
    BY <1>0, <1>3, <2>a DEF Place
  <2>2. v.data.data[it] = x
    BY <1>0, <1>1, <1>3, <2>1, StoredArray DEF At
  <2>3. it \in v.data.first .. v.data.last
    BY <1>0, <2>a, <2>1
  <2>4. it - 1 < v.data.first \/ v.data.data[it - 1].col < c
    <3>1. CASE p > 1
      <4>1. p - 1 \in 1 .. v.data.n /\ v.data.first + ((p - 1) - 1) = it - 1
        BY <2>a, <2>1, <3>1
      <4>2. S[p - 1] = v.data.data[it - 1]
        BY <1>3, <4>1, StoredArray DEF At
      <4> QED BY <3>1, <4>2
    <3>2. CASE p = 1
      BY <2>a, <2>1, <3>2
    <3> QED BY <1>0, <3>1, <3>2
  <2>5. it + 1 > v.data.last \/ v.data.data[it + 1].col > c
    <3>1. CASE p < Len(S)
      <4>1. p + 1 \in 1 .. v.data.n /\ v.data.first + ((p + 1) - 1) = it + 1
        <5>1. PICK f, n : f = v.data.first /\ n = v.data.n
          OBVIOUS
        <5>2. f \in Nat /\ n \in Nat /\ p \in 1 .. n /\ p < n /\ it = f + (p - 1)
          BY <2>a, <2>1, <3>1, <5>1
        <5>3. p + 1 \in 1 .. n /\ f + ((p + 1) - 1) = it + 1
          BY ONLY <5>2
        <5> QED BY <5>1, <5>3
      <4>2. S[p + 1] = v.data.data[it + 1]
        BY <1>3, <4>1, StoredArray DEF At
      <4> QED BY <3>1, <4>2
    <3>2. CASE p = Len(S)
      BY <2>a, <2>1, <3>2
    <3> QED BY <1>0, <3>1, <3>2
  <2>6. w = [v EXCEPT !.data.data[it].col = c]
    BY <1>0, <1>3, <2>a, <2>3, <2>4, <2>5, Zenon DEF vectorit_set_col
  <2>7. w = HoldingOnly(v, CellPut(v.data, it, e))
    <3>1. w = [v EXCEPT !.data = [v.data EXCEPT !.data = [v.data.data EXCEPT ![it] = [v.data.data[it] EXCEPT !.col = c]]]]
      BY ONLY <2>6
    <3>2. w = [v EXCEPT !.data = [v.data EXCEPT !.data = [v.data.data EXCEPT ![it] = e]]]
      BY ONLY <1>1, <2>2, <3>1
    <3> QED BY ONLY <3>2 DEF HoldingOnly, CellPut
  <2> QED BY <1>1, <1>2, <1>3, <2>1, <2>7, ArrayCell
<1>4. CASE IsList(v)
  <2>a. ~IsArray(v) /\ S = v.data
    BY <1>4, KindsDiffer, StoredIs
  <2>1. it = p /\ it # 0
    BY <1>0, <2>a DEF Place, OnElement
  <2>2. (it = 1 \/ v.data[it - 1].col < c) /\ (it = Len(v.data) \/ v.data[it + 1].col > c)
    <3>1. (p = 1 \/ p > 1) /\ (p = Len(S) \/ p < Len(S))
      BY <1>0
    <3> QED BY <2>a, <2>1, <3>1
  <2>3. PICK B : B = [v.data EXCEPT ![p] = e]
    OBVIOUS
  <2>4. w = HoldingOnly(v, B)
    BY <1>0, <1>1, <1>4, <2>a, <2>1, <2>2, <2>3 DEF vectorit_set_col, HoldingOnly
  <2> QED BY <1>0, <1>1, <1>2, <1>4, <2>a, <2>3, <2>4, ListCell
<1> QED BY <1>3, <1>4, SparseKinds

\* The search of either kind ends at the column or beside its place.
Beside(S, c, q) ==
  /\ q \in 1 .. Len(S)
  /\ S[q].col < c => \A k \in (q + 1) .. Len(S) : S[k].col > c
  /\ S[q].col > c => \A k \in 1 .. (q - 1) : S[k].col < c

LEMMA GreatestOfSet ==
  ASSUME NEW n \in Nat, NEW S, S \subseteq 1 .. n, S # {}
  PROVE  Max(S) \in S /\ \A y \in S : Max(S) >= y
<1> DEFINE R == {n - x : x \in S}
<1>1. R \subseteq Nat /\ R # {}
  <2>1. \A x \in S : n - x \in Nat
    OBVIOUS
  <2>2. PICK x \in S : TRUE
    OBVIOUS
  <2>3. n - x \in R
    OBVIOUS
  <2> QED BY <2>1, <2>3
<1>2. PICK m \in R : \A k \in R : m <= k
  <2> HIDE DEF R
  <2> QED BY <1>1, LeastOfSet
<1>3. PICK x \in S : m = n - x
  OBVIOUS
<1>4. \A y \in S : x >= y
  <2> SUFFICES ASSUME NEW y \in S PROVE x >= y
    OBVIOUS
  <2>1. n - y \in R /\ x \in Int /\ y \in Int
    OBVIOUS
  <2>2. n - x <= n - y
    BY <1>2, <1>3, <2>1
  <2> QED BY <2>1, <2>2
<1> QED BY <1>3, <1>4 DEF Max

LEMMA FindsNone ==
  ASSUME NEW v, Sparse(v), Len(Stored(v)) = 0, NEW it, NEW c \in Int, NEW z, z = vectorit_find(it, c, v)
  PROVE  /\ IsArray(v) => z = v.data.first - 1
         /\ IsList(v) => z = 0
         /\ Valid(z, v) /\ Place(z, v) = 1 /\ vectorit_past_beg(z, v) /\ Col(z, v) = v.dim
<1>1. CASE IsArray(v)
  <2>a. ~IsFull(v) /\ ~IsList(v) /\ v.data.n = 0 /\ v.data.first \in Nat /\ v.data.last \in Int /\ v.data.last < v.data.first
    BY <1>1, KindsDiffer, SparseKinds, StoredIs DEF Space
  <2>1. expanding_array_search(c, it - v.data.first, v.data) = -1
    BY <2>a DEF expanding_array_search
  <2>2. z = -1 + v.data.first
    BY <1>1, <2>a, <2>1 DEF vectorit_find
  <2>3. z = v.data.first - 1 /\ z \in Int /\ z < v.data.first
    BY <2>a, <2>2
  <2>4. Valid(z, v) /\ Place(z, v) = 1
    BY <1>1, <2>a, <2>3 DEF Valid, Place
  <2>5. vectorit_past_beg(z, v)
    BY <1>1, <2>a, <2>3 DEF vectorit_past_beg
  <2>6. Col(z, v) = v.dim
    BY <2>4, Seat
  <2> QED BY <2>a, <2>3, <2>4, <2>5, <2>6
<1>2. CASE IsList(v)
  <2>a. ~IsFull(v) /\ ~IsArray(v) /\ v.data = Stored(v) /\ v.data \in Seq(Cell)
    BY <1>2, KindsDiffer, SparseKinds, StoredIs
  <2>1. v.data = << >>
    BY <2>a, EmptySeq
  <2>2. list_search(c, it, v.data) = 0
    BY <2>1 DEF list_search
  <2>3. z = 0
    BY <1>2, <2>a, <2>2 DEF vectorit_find
  <2>4. Valid(z, v) /\ Place(z, v) = 1
    BY <1>2, <2>a, <2>3 DEF Valid, Place
  <2>5. vectorit_past_beg(z, v)
    BY <2>a, <2>3 DEF vectorit_past_beg
  <2>6. Col(z, v) = v.dim
    BY <2>4, Seat
  <2> QED BY <2>a, <2>3, <2>4, <2>5, <2>6
<1> QED BY <1>1, <1>2, SparseKinds

LEMMA ListSearchIs ==
  ASSUME NEW dim, NEW S \in Seq(Cell), Columns(S, dim), Len(S) > 0, NEW c \in Int, NEW init \in 0 .. Len(S),
         init # 0 \/ S[Len(S)].col <= c \/ c <= S[1].col, NEW q, q = list_search(c, init, S)
  PROVE  Beside(S, c, q)
<1>1. Len(S) \in Nat /\ S # << >> /\ 1 \in 1 .. Len(S) /\ Len(S) \in 1 .. Len(S) /\ \A k \in 1 .. Len(S) : S[k].col \in Int
  BY EmptySeq, CellOfSeq
<1>2. \A j \in 1 .. Len(S) : \A k \in 1 .. Len(S) : j < k => S[j].col < S[k].col
  BY DEF Columns
<1>3. CASE c <= S[1].col
  <2>1. q = 1
    BY <1>1, <1>3 DEF list_search
  <2>2. ~(S[1].col < c) /\ 1 .. (1 - 1) = {}
    BY <1>1, <1>3
  <2> QED BY <1>1, <2>1, <2>2 DEF Beside
<1>4. CASE c > S[1].col /\ c >= S[Len(S)].col
  <2>1. q = Len(S)
    BY <1>1, <1>4 DEF list_search
  <2>2. ~(S[Len(S)].col > c) /\ (Len(S) + 1) .. Len(S) = {}
    BY <1>1, <1>4
  <2> QED BY <1>1, <2>1, <2>2 DEF Beside
<1>5. CASE c > S[1].col /\ c < S[Len(S)].col
  <2> DEFINE P == {p \in 1 .. Len(S) : S[p].col <= c}
  <2>1. init # 0
    BY <1>1, <1>5
  <2>2. q = Max(P)
    BY <1>1, <1>5, <2>1 DEF list_search
  <2>3. 1 \in P /\ P \subseteq 1 .. Len(S)
    BY <1>1, <1>5
  <2>4. q \in P /\ \A y \in P : q >= y
    <3> HIDE DEF P
    <3> QED BY <1>1, <2>2, <2>3, GreatestOfSet
  <2>5. \A k \in (q + 1) .. Len(S) : S[k].col > c
    <3> SUFFICES ASSUME NEW k \in (q + 1) .. Len(S) PROVE S[k].col > c
      OBVIOUS
    <3>1. k \in 1 .. Len(S) /\ ~(q >= k)
      BY <1>1, <2>4
    <3>2. k \notin P
      BY <2>4, <3>1
    <3> QED BY <1>1, <3>1, <3>2
  <2>6. ~(S[q].col > c)
    BY <1>1, <2>4
  <2> QED BY <2>4, <2>5, <2>6 DEF Beside
<1> QED BY <1>1, <1>3, <1>4, <1>5

LEMMA FindIs ==
  ASSUME NEW v, Sparse(v), NEW S, S = Stored(v), Columns(S, v.dim), Len(S) > 0, Len(S) <= MaxTurns, NEW c \in Int,
         NEW it, Valid(it, v), Place(it, v) <= Len(S) \/ S[Len(S)].col <= c \/ c <= S[1].col, NEW z, z = vectorit_find(it, c, v)
  PROVE  Valid(z, v) /\ Beside(S, c, Place(z, v))
<1>0. S \in Seq(Cell) /\ Len(S) \in Nat /\ it \in Int
  BY StoredIs, Seat
<1>1. CASE IsArray(v)
  <2>a. ~IsFull(v) /\ ~IsList(v) /\ v.data.n = Len(S) /\ Space(v.data) /\ v.data.first \in Nat
    BY <1>1, KindsDiffer, SparseKinds, StoredIs DEF Space
  <2>b. PICK A, p, n, f : A = v.data /\ p = expanding_array_search(c, it - A.first, A) /\ n = A.n /\ f = A.first
    OBVIOUS
  <2>1. \A k \in 0 .. (n - 1) : At(A, k) = S[k + 1] /\ k + 1 \in 1 .. n
    <3> SUFFICES ASSUME NEW k \in 0 .. (n - 1) PROVE At(A, k) = S[k + 1] /\ k + 1 \in 1 .. n
      OBVIOUS
    <3>1. k + 1 \in 1 .. v.data.n /\ (k + 1) - 1 = k
      BY <1>0, <2>a, <2>b
    <3> QED BY <1>1, <2>b, <3>1, StoredArray
  <2>2. Ascends(A)
    <3>1. ASSUME NEW j \in 0 .. (n - 1), NEW k \in 0 .. (n - 1), j < k PROVE At(A, j).col < At(A, k).col
      <4>1. j + 1 < k + 1 /\ j + 1 \in 1 .. Len(S) /\ k + 1 \in 1 .. Len(S)
        BY <2>1, <2>a, <2>b, <3>1
      <4>2. S[j + 1].col < S[k + 1].col
        BY <4>1 DEF Columns
      <4> QED BY <2>1, <4>2
    <3> QED BY <2>b, <3>1 DEF Ascends
  <2>3. Near(A, c, p)
    <3>1. it - A.first \in Int
      BY <1>0, <2>a, <2>b
    <3> QED BY <2>a, <2>b, <2>2, <3>1, SearchFinds
  <2>4. z = p + f
    BY <1>1, <2>a, <2>b DEF vectorit_find
  <2>5. p \in 0 .. (n - 1) /\ n = Len(S) /\ f \in Nat
    BY <2>3, <2>a, <2>b DEF Near
  <2>6. z \in Int /\ z - f \in 0 .. n /\ z - f + 1 = p + 1 /\ n # 0
    BY <1>0, <2>4, <2>5
  <2>7. Valid(z, v) /\ Place(z, v) = p + 1
    BY <1>1, <2>b, <2>6 DEF Valid, Place
  <2>8. Beside(S, c, p + 1)
    <3>1. p + 1 \in 1 .. Len(S) /\ At(A, p) = S[p + 1]
      BY <2>1, <2>5
    <3>2. ASSUME S[p + 1].col < c, NEW k \in ((p + 1) + 1) .. Len(S) PROVE S[k].col > c
      <4>1. k - 1 \in (p + 1) .. (n - 1) /\ k - 1 \in 0 .. (n - 1) /\ (k - 1) + 1 = k
        BY <1>0, <2>5
      <4> QED BY <2>1, <2>3, <2>b, <3>1, <3>2, <4>1 DEF Near
    <3>3. ASSUME S[p + 1].col > c, NEW k \in 1 .. ((p + 1) - 1) PROVE S[k].col < c
      <4>1. k - 1 \in 0 .. (p - 1) /\ k - 1 \in 0 .. (n - 1) /\ (k - 1) + 1 = k
        BY <1>0, <2>5
      <4> QED BY <2>1, <2>3, <2>b, <3>1, <3>3, <4>1 DEF Near
    <3> QED BY <3>1, <3>2, <3>3 DEF Beside
  <2> QED BY <2>7, <2>8
<1>2. CASE IsList(v)
  <2>a. ~IsFull(v) /\ ~IsArray(v) /\ v.data = S
    BY <1>2, KindsDiffer, SparseKinds, StoredIs
  <2>b. PICK q : q = list_search(c, it, S)
    OBVIOUS
  <2>1. it \in 0 .. Len(S) /\ (it = 0 => Place(it, v) = Len(S) + 1)
    BY <1>2, <2>a DEF Valid, Place
  <2>2. it # 0 \/ S[Len(S)].col <= c \/ c <= S[1].col
    BY <1>0, <2>1
  <2>3. Beside(S, c, q)
    BY <1>0, <2>b, <2>1, <2>2, ListSearchIs
  <2>4. q \in 1 .. Len(S) /\ q # 0
    BY <2>3 DEF Beside
  <2>5. z = q
    BY <1>2, <2>a, <2>b, <2>4 DEF vectorit_find
  <2>6. Valid(z, v) /\ Place(z, v) = q
    BY <1>0, <1>2, <2>4, <2>5, <2>a DEF Valid, Place
  <2> QED BY <2>3, <2>6
<1> QED BY <1>1, <1>2, SparseKinds

-----------------------------------------------------------------------------
(* What a vector of either kind means: the function x of the column.       *)

Holds(v, x) ==
  /\ Vec(v) /\ x \in [0 .. (v.dim - 1) -> Int]
  /\ IsFull(v) => v.data = x
  /\ ~IsFull(v) => Means(Stored(v), v.dim, x)

\* x is zero from column a on, up to column b.
Zeros(x, a, b) == \A j \in a .. (b - 1) : x[j] = 0

LEMMA HoldsFull ==
  ASSUME NEW v, NEW x, Holds(v, x), IsFull(v)
  PROVE  v.dim \in Nat /\ v.data = x /\ x \in [0 .. (v.dim - 1) -> Int] /\ IsVec(v) /\ ~IsArray(v) /\ ~IsList(v)
BY KindsDiffer DEF Holds, Vec

LEMMA HoldsSparse ==
  ASSUME NEW v, NEW x, Holds(v, x), ~IsFull(v), NEW S, S = Stored(v)
  PROVE  /\ v.dim \in Nat /\ Sparse(v) /\ Means(S, v.dim, x) /\ Columns(S, v.dim) /\ x \in [0 .. (v.dim - 1) -> Int]
         /\ S \in Seq(Cell) /\ Len(S) \in Nat /\ Len(S) <= v.dim /\ v.nz = Len(S)
<1>1. Sparse(v) /\ Means(S, v.dim, x) /\ v.dim \in Nat
  BY DEF Holds, Vec, Sparse
<1>2. Columns(S, v.dim)
  BY <1>1 DEF Means, Columns
<1>3. Len(S) <= v.dim
  BY <1>1, MeansShort
<1> QED BY <1>1, <1>2, <1>3, StoredIs DEF Holds

\* The column at a place of a sequence of elements.
ColAt(S, p, dim) == IF p <= Len(S) THEN S[p].col ELSE dim

LEMMA Between ==
  ASSUME NEW dim \in Nat, NEW S, NEW x, Means(S, dim, x), NEW p \in 1 .. (Len(S) + 1), NEW j \in 0 .. (dim - 1),
         p > 1 => S[p - 1].col < j, j < ColAt(S, p, dim)
  PROVE  x[j] = 0
<1>1. Len(S) \in Nat /\ \A k \in 1 .. Len(S) : S[k].col \in Int
  BY DEF Means
<1>2. \A i \in 1 .. Len(S) : \A k \in 1 .. Len(S) : i < k => S[i].col < S[k].col
  BY DEF Means
<1>3. ASSUME NEW k \in 1 .. Len(S) PROVE S[k].col # j
  <2>1. CASE k < p
    <3>1. p - 1 \in 1 .. Len(S) /\ p > 1 /\ (k = p - 1 \/ k < p - 1)
      BY <1>1, <2>1
    <3>2. S[k].col <= S[p - 1].col
      BY <1>1, <1>2, <3>1
    <3> QED BY <1>1, <3>1, <3>2
  <2>2. CASE ~(k < p)
    <3>1. p \in 1 .. Len(S) /\ p <= Len(S) /\ (k = p \/ p < k)
      BY <1>1, <2>2
    <3>2. S[p].col <= S[k].col /\ j < S[p].col
      BY <1>1, <1>2, <3>1 DEF ColAt
    <3> QED BY <1>1, <3>1, <3>2
  <2> QED BY <2>1, <2>2
<1> QED BY <1>3, MeansZero

\* The column of an iterator, the value there, and the end.
LEMMA Reads ==
  ASSUME NEW v, NEW x, Holds(v, x), NEW it, Valid(it, v)
  PROVE  /\ v.dim \in Nat /\ Col(it, v) \in 0 .. v.dim /\ (Over(it, v) <=> Col(it, v) = v.dim)
         /\ ~Over(it, v) => Col(it, v) \in 0 .. (v.dim - 1) /\ Val(it, v) = x[Col(it, v)]
         /\ IsFull(v) => Col(it, v) = it
         /\ ~IsFull(v) => /\ Place(it, v) \in 1 .. (Len(Stored(v)) + 1)
                          /\ Col(it, v) = ColAt(Stored(v), Place(it, v), v.dim)
                          /\ Over(it, v) <=> Place(it, v) = Len(Stored(v)) + 1
<1>1. CASE IsFull(v)
  <2>1. it \in 0 .. v.dim /\ v.dim \in Nat /\ v.data = x /\ ~IsArray(v) /\ ~IsList(v)
    BY <1>1, HoldsFull DEF Valid
  <2>2. Col(it, v) = it
    BY <1>1 DEF Col, vectorit_curr_col
  <2>3. Over(it, v) <=> it >= v.dim
    BY <1>1 DEF Over, vectorit_past_end
  <2>4. it \in 0 .. (v.dim - 1) => Val(it, v) = x[it]
    BY <1>1, <2>1 DEF Val, vectorit_curr_val, OnElement
  <2> QED BY <1>1, <2>1, <2>2, <2>3, <2>4
<1>2. CASE ~IsFull(v)
  <2>a. PICK S, p : S = Stored(v) /\ p = Place(it, v)
    OBVIOUS
  <2>1. Sparse(v) /\ Means(S, v.dim, x) /\ v.dim \in Nat /\ Len(S) \in Nat
    BY <1>2, <2>a, HoldsSparse
  <2>2. /\ p \in 1 .. (Len(S) + 1) /\ (Over(it, v) <=> p = Len(S) + 1)
        /\ p <= Len(S) => Col(it, v) = S[p].col /\ Val(it, v) = S[p].data
        /\ p = Len(S) + 1 => Col(it, v) = v.dim
    BY <2>1, <2>a, Seat
  <2>3. \A k \in 1 .. Len(S) : S[k].col \in 0 .. (v.dim - 1) /\ x[S[k].col] = S[k].data
    BY <2>1 DEF Means
  <2>4. CASE p <= Len(S)
    <3>1. p \in 1 .. Len(S) /\ p # Len(S) + 1
      BY <2>1, <2>2, <2>4
    <3>2. S[p].col \in 0 .. (v.dim - 1) /\ x[S[p].col] = S[p].data
      BY <2>3, <3>1
    <3> QED BY <1>2, <2>1, <2>2, <2>4, <2>a, <3>1, <3>2 DEF ColAt
  <2>5. CASE p = Len(S) + 1
    <3>1. ~(p <= Len(S))
      BY <2>1, <2>5
    <3> QED BY <1>2, <2>1, <2>2, <2>5, <2>a, <3>1 DEF ColAt
  <2> QED BY <2>1, <2>2, <2>4, <2>5
<1> QED BY <1>1, <1>2

LEMMA Starts ==
  ASSUME NEW v, NEW x, Holds(v, x), NEW it, it = vectorit_set_at_beg(v)
  PROVE  Valid(it, v) /\ Zeros(x, 0, Col(it, v))
<1>1. CASE IsFull(v)
  <2>1. it = 0 /\ v.dim \in Nat /\ ~IsArray(v) /\ ~IsList(v)
    BY <1>1, HoldsFull DEF vectorit_set_at_beg
  <2>2. Valid(it, v)
    BY <2>1 DEF Valid
  <2>3. Col(it, v) = 0
    BY <1>1, <2>1, <2>2, Reads
  <2> QED BY <2>2, <2>3 DEF Zeros
<1>2. CASE ~IsFull(v)
  <2>a. PICK S : S = Stored(v)
    OBVIOUS
  <2>1. Sparse(v) /\ Means(S, v.dim, x) /\ v.dim \in Nat /\ Len(S) \in Nat
    BY <1>2, <2>a, HoldsSparse
  <2>2. Valid(it, v) /\ Place(it, v) = 1
    BY <2>1, SeatAtBeg
  <2>3. Col(it, v) = ColAt(S, 1, v.dim) /\ Col(it, v) \in 0 .. v.dim
    BY <1>2, <2>2, <2>a, Reads
  <2>4. ASSUME NEW j \in 0 .. (Col(it, v) - 1) PROVE x[j] = 0
    <3>1. j \in 0 .. (v.dim - 1) /\ j < ColAt(S, 1, v.dim) /\ 1 \in 1 .. (Len(S) + 1) /\ ~(1 > 1)
      BY <2>1, <2>3
    <3> QED BY <2>1, <3>1, Between
  <2> QED BY <2>2, <2>4 DEF Zeros
<1> QED BY <1>1, <1>2

LEMMA Steps ==
  ASSUME NEW v, NEW x, Holds(v, x), NEW it, Valid(it, v), ~Over(it, v), NEW r, r = Step(it, v)
  PROVE  Valid(r, v) /\ Col(r, v) > Col(it, v) /\ Zeros(x, Col(it, v) + 1, Col(r, v))
<1>0. v.dim \in Nat /\ Col(it, v) \in 0 .. (v.dim - 1)
  BY Reads
<1>1. CASE IsFull(v)
  <2>1. v.dim \in Nat /\ ~IsArray(v) /\ ~IsList(v) /\ Col(it, v) = it
    BY <1>1, HoldsFull, Reads
  <2>2. r = it + 1
    BY <2>1 DEF Step, vectorit_next
  <2>3. Valid(r, v)
    BY <1>0, <2>1, <2>2 DEF Valid
  <2>4. Col(r, v) = it + 1
    BY <1>1, <2>2, <2>3, Reads
  <2>5. (it + 1) .. ((it + 1) - 1) = {}
    BY <1>0, <2>1
  <2> QED BY <1>0, <2>1, <2>3, <2>4, <2>5 DEF Zeros
<1>2. CASE ~IsFull(v)
  <2>a. PICK S, p : S = Stored(v) /\ p = Place(it, v)
    OBVIOUS
  <2>1. Sparse(v) /\ Means(S, v.dim, x) /\ Len(S) \in Nat /\ Columns(S, v.dim)
    BY <1>2, <2>a, HoldsSparse
  <2>2. p \in 1 .. Len(S) /\ Col(it, v) = S[p].col
    <3>1. p \in 1 .. (Len(S) + 1) /\ p # Len(S) + 1 /\ Col(it, v) = ColAt(S, p, v.dim)
      BY <1>2, <2>a, Reads
    <3>2. p <= Len(S)
      BY <2>1, <3>1
    <3> QED BY <2>1, <3>1, <3>2 DEF ColAt
  <2>3. Valid(r, v) /\ Place(r, v) = p + 1
    BY <2>1, <2>2, <2>a, SeatNext
  <2>4. Col(r, v) = ColAt(S, p + 1, v.dim) /\ Col(r, v) \in 0 .. v.dim
    BY <1>2, <2>3, <2>a, Reads
  <2>5. Col(r, v) > Col(it, v)
    <3>1. CASE p + 1 <= Len(S)
      <4>1. p + 1 \in 1 .. Len(S) /\ p < p + 1
        BY <2>1, <2>2, <3>1
      <4>2. S[p].col < S[p + 1].col /\ S[p].col \in Int /\ S[p + 1].col \in Int
        BY <2>1, <2>2, <4>1 DEF Columns
      <4> QED BY <2>2, <2>4, <3>1, <4>2 DEF ColAt
    <3>2. CASE ~(p + 1 <= Len(S))
      BY <1>0, <2>4, <3>2 DEF ColAt
    <3> QED BY <3>1, <3>2
  <2>6. ASSUME NEW j \in (Col(it, v) + 1) .. (Col(r, v) - 1) PROVE x[j] = 0
    <3>1. j \in 0 .. (v.dim - 1) /\ j < ColAt(S, p + 1, v.dim) /\ p + 1 \in 1 .. (Len(S) + 1) /\ (p + 1) - 1 = p /\ S[p].col < j
      BY <1>0, <2>1, <2>2, <2>4
    <3> QED BY <1>0, <2>1, <3>1, Between
  <2> QED BY <2>3, <2>5, <2>6 DEF Zeros
<1> QED BY <1>1, <1>2

LEMMA WithSame ==
  ASSUME NEW D, NEW x \in [D -> Int], NEW c \in D, NEW d, x[c] = d
  PROVE  With(x, c, d) = x
BY DEF With

\* A value of a full vector.
FullPut(v, c, d) == [v EXCEPT !.data[c] = d]

LEMMA FullPutHolds ==
  ASSUME NEW v, NEW x, Holds(v, x), IsFull(v), NEW c \in 0 .. (v.dim - 1), NEW d \in Int, NEW w, w = FullPut(v, c, d)
  PROVE  Holds(w, With(x, c, d)) /\ Like(w, v) /\ IsFull(w) /\ w.nz = v.nz
<1>0. IsVec(v) /\ v.dim \in Nat /\ v.nz \in Int /\ v.data = x /\ x \in [0 .. (v.dim - 1) -> Int]
  BY HoldsFull DEF Holds, Vec
<1>1. w = HoldingOnly(v, With(x, c, d))
  BY <1>0 DEF FullPut, HoldingOnly, With
<1>2. IsVec(w) /\ Like(w, v) /\ w.data = With(x, c, d) /\ w.nz = v.nz
  BY <1>0, <1>1, DataOnlyIs
<1>3. IsFull(w)
  BY <1>2 DEF IsFull, Like
<1>4. With(x, c, d) \in [0 .. (v.dim - 1) -> Int]
  BY <1>0 DEF With
<1>5. ~IsArray(w) /\ ~IsList(w) /\ w.dim = v.dim
  BY <1>2, <1>3, KindsDiffer DEF Like
<1> QED BY <1>0, <1>2, <1>3, <1>4, <1>5 DEF Holds, Vec

\* An element to zero: the iterator is on the next one.
LEMMA ZeroEltHolds ==
  ASSUME NEW v, NEW x, Holds(v, x), NEW it, Valid(it, v), ~Over(it, v), NEW z, z = vectorit_zero_elt(it, v)
  PROVE  /\ z = [v |-> z.v, it |-> z.it]
         /\ Holds(z.v, With(x, Col(it, v), 0)) /\ Like(z.v, v) /\ Valid(z.it, z.v)
         /\ Col(z.it, z.v) > Col(it, v) /\ Zeros(x, Col(it, v) + 1, Col(z.it, z.v))
<1>0. v.dim \in Nat /\ Col(it, v) \in 0 .. (v.dim - 1) /\ 0 \in Int
  BY Reads
<1>1. CASE IsFull(v)
  <2>a. ~IsArray(v) /\ ~IsList(v) /\ Col(it, v) = it
    BY <1>1, HoldsFull, Reads
  <2>b. PICK w, n, col : w = vectorit_set(it, 0, v) /\ n = vectorit_next(it, v) /\ col = vectorit_curr_col(it, v)
    OBVIOUS
  <2>1. n = it + 1 /\ col = it /\ it \in 0 .. (v.dim - 1)
    BY <1>0, <1>1, <2>a, <2>b DEF vectorit_next, vectorit_curr_col
  <2>2. OnElement(it, v)
    BY <1>1, <2>1 DEF OnElement
  <2>3. w = FullPut(v, it, 0)
    BY <1>1, <2>2, <2>a, <2>b, Zenon DEF vectorit_set, FullPut
  <2>4. Holds(w, With(x, it, 0)) /\ Like(w, v) /\ IsFull(w)
    BY <1>0, <1>1, <2>1, <2>3, FullPutHolds
  <2>5. ~IsList(w) /\ ~IsArray(w) /\ w.dim = v.dim
    BY <2>4, KindsDiffer DEF Like
  <2>6. vectorit_prev(n, w) = it
    BY <1>0, <2>1, <2>5 DEF vectorit_prev
  <2>7. ~(vectorit_curr_col(it, w) > col)
    BY <1>0, <2>1, <2>4 DEF vectorit_curr_col
  <2>8. z = [v |-> w, it |-> n]
    <3>1. z = Onward(n, col, w)
      BY <2>a, <2>b DEF vectorit_zero_elt
    <3> QED BY <2>6, <2>7, <3>1 DEF Onward
  <2>9. z.v = w /\ z.it = n
    BY ONLY <2>8
  <2>10. Valid(n, w)
    BY <1>0, <2>1, <2>5 DEF Valid
  <2>11. Col(n, w) = it + 1
    BY <2>1, <2>4 DEF Col, vectorit_curr_col
  <2>12. (it + 1) .. ((it + 1) - 1) = {} /\ it + 1 > it
    BY <1>0, <2>1
  <2> QED BY <2>a, <2>4, <2>8, <2>9, <2>10, <2>11, <2>12 DEF Zeros
<1>2. CASE ~IsFull(v)
  <2>a. PICK S, p, col : S = Stored(v) /\ p = Place(it, v) /\ col = Col(it, v)
    OBVIOUS
  <2>1. Sparse(v) /\ Means(S, v.dim, x) /\ Len(S) \in Nat /\ Columns(S, v.dim)
    BY <1>2, <2>a, HoldsSparse
  <2>2. p \in 1 .. Len(S) /\ col = S[p].col
    <3>1. p \in 1 .. (Len(S) + 1) /\ p # Len(S) + 1 /\ Col(it, v) = ColAt(S, p, v.dim)
      BY <1>2, <2>a, Reads
    <3>2. p <= Len(S)
      BY <2>1, <3>1
    <3> QED BY <2>1, <2>a, <3>1, <3>2 DEF ColAt
  <2>3. z = [v |-> z.v, it |-> z.it] /\ Sparse(z.v) /\ Like(z.v, v) /\ Removed(Stored(z.v), S, p) /\ Valid(z.it, z.v) /\ Place(z.it, z.v) = p
    BY <2>1, <2>2, <2>a, ZeroEltIs
  <2>4. Means(Stored(z.v), v.dim, With(x, col, 0))
    BY <1>0, <2>1, <2>2, <2>3, MeansRemoved
  <2>5. z.v.dim = v.dim /\ ~IsFull(z.v)
    BY <2>3 DEF Like, Sparse
  <2>6. Holds(z.v, With(x, col, 0))
    BY <2>3, <2>4, <2>5 DEF Holds, Sparse, Means
  <2>7. Col(z.it, z.v) = ColAt(Stored(z.v), p, v.dim) /\ Col(z.it, z.v) \in 0 .. v.dim
    BY <2>3, <2>5, <2>6, Reads
  <2>8. ColAt(Stored(z.v), p, v.dim) = ColAt(S, p + 1, v.dim)
    <3>1. Len(Stored(z.v)) = Len(S) - 1 /\ \A k \in 1 .. Len(Stored(z.v)) : Stored(z.v)[k] = IF k < p THEN S[k] ELSE S[k + 1]
      BY <2>3 DEF Removed
    <3>2. p <= Len(Stored(z.v)) <=> p + 1 <= Len(S)
      BY <2>1, <2>2, <3>1
    <3>3. p <= Len(Stored(z.v)) => Stored(z.v)[p] = S[p + 1]
      BY <2>1, <2>2, <3>1
    <3> QED BY <3>2, <3>3 DEF ColAt
  <2>9. Col(z.it, z.v) > col
    <3>1. CASE p + 1 <= Len(S)
      <4>1. p + 1 \in 1 .. Len(S) /\ p < p + 1
        BY <2>1, <2>2, <3>1
      <4>2. S[p].col < S[p + 1].col /\ S[p].col \in Int /\ S[p + 1].col \in Int
        BY <2>1, <2>2, <4>1 DEF Columns
      <4> QED BY <2>2, <2>7, <2>8, <3>1, <4>2 DEF ColAt
    <3>2. CASE ~(p + 1 <= Len(S))
      BY <1>0, <2>7, <2>8, <2>a, <3>2 DEF ColAt
    <3> QED BY <3>1, <3>2
  <2>10. ASSUME NEW j \in (col + 1) .. (Col(z.it, z.v) - 1) PROVE x[j] = 0
    <3>1. j \in 0 .. (v.dim - 1) /\ j < ColAt(S, p + 1, v.dim) /\ p + 1 \in 1 .. (Len(S) + 1) /\ (p + 1) - 1 = p /\ S[p].col < j
      BY <1>0, <2>1, <2>2, <2>7, <2>8, <2>a
    <3> QED BY <1>0, <2>1, <3>1, Between
  <2> QED BY <2>3, <2>6, <2>9, <2>10, <2>a DEF Zeros
<1> QED BY <1>1, <1>2

\* Value d for column c, and the iterator beside it.
Put(z, v, x, c, d) ==
  /\ z = [v |-> z.v, it |-> z.it]
  /\ Holds(z.v, With(x, c, d)) /\ Like(z.v, v) /\ Valid(z.it, z.v)
  /\ Col(z.it, z.v) > c => Zeros(x, c + 1, Col(z.it, z.v))
  /\ d # 0 => Col(z.it, z.v) = c

LEMMA InsertedHolds ==
  ASSUME NEW v, NEW x, Holds(v, x), ~IsFull(v), NEW S, S = Stored(v), NEW c \in 0 .. (v.dim - 1), NEW d \in Int, d # 0,
         NEW p \in 1 .. (Len(S) + 1), \A k \in 1 .. (p - 1) : S[k].col < c, \A k \in p .. Len(S) : S[k].col > c,
         NEW e, e = [col |-> c, data |-> d], NEW z, PutAt(z, v, p, e)
  PROVE  Put(z, v, x, c, d)
<1>1. Sparse(v) /\ Means(S, v.dim, x) /\ Len(S) \in Nat /\ v.dim \in Nat
  BY HoldsSparse
<1>2. z = [v |-> z.v, it |-> z.it] /\ Sparse(z.v) /\ Like(z.v, v) /\ Inserted(Stored(z.v), S, p, e) /\ Valid(z.it, z.v) /\ Place(z.it, z.v) = p
  BY DEF PutAt
<1>3. Means(Stored(z.v), v.dim, With(x, c, d))
  BY <1>1, <1>2, MeansInserted
<1>4. z.v.dim = v.dim /\ ~IsFull(z.v)
  BY <1>2 DEF Like, Sparse
<1>5. Holds(z.v, With(x, c, d))
  BY <1>2, <1>3, <1>4 DEF Holds, Sparse, Means
<1>6. Col(z.it, z.v) = c
  <2>1. p \in 1 .. Len(Stored(z.v)) /\ p <= Len(Stored(z.v))
    BY <1>1, <1>2 DEF Inserted
  <2>2. Stored(z.v)[p] = e
    BY <1>2, <2>1 DEF Inserted
  <2>3. e.col = c
    OBVIOUS
  <2> QED BY <1>2, <1>5, <1>4, <2>1, <2>2, <2>3, Seat
<1>7. ~(Col(z.it, z.v) > c)
  BY <1>6
<1> QED BY <1>2, <1>5, <1>6, <1>7 DEF Put

\* Nothing is done where nothing is stored and nothing is put.
LEMMA LeftHolds ==
  ASSUME NEW v, NEW x, Holds(v, x), ~IsFull(v), NEW S, S = Stored(v), NEW c \in 0 .. (v.dim - 1),
         \A k \in 1 .. Len(S) : S[k].col # c, NEW it, Valid(it, v), NEW q, q = Place(it, v),
         q <= Len(S) /\ S[q].col > c => \A k \in 1 .. (q - 1) : S[k].col < c, Len(S) > 0 => q <= Len(S),
         NEW z, z = [v |-> v, it |-> it]
  PROVE  Put(z, v, x, c, 0)
<1>0. z.v = v /\ z.it = it
  OBVIOUS
<1>1. Sparse(v) /\ Means(S, v.dim, x) /\ Len(S) \in Nat /\ v.dim \in Nat /\ x \in [0 .. (v.dim - 1) -> Int]
  BY HoldsSparse
<1>2. With(x, c, 0) = x
  <2>1. x[c] = 0
    BY <1>1 DEF Means
  <2> QED BY <1>1, <2>1, WithSame
<1>3. q \in 1 .. (Len(S) + 1) /\ Col(it, v) = ColAt(S, q, v.dim) /\ Col(it, v) \in 0 .. v.dim
  BY Reads
<1>4. ASSUME Col(it, v) > c, NEW j \in (c + 1) .. (Col(it, v) - 1) PROVE x[j] = 0
  <2>1. j \in 0 .. (v.dim - 1) /\ j < ColAt(S, q, v.dim) /\ c < j
    BY <1>1, <1>3
  <2>2. q > 1 => S[q - 1].col < j
    <3> SUFFICES ASSUME q > 1 PROVE S[q - 1].col < j
      OBVIOUS
    <3>1. q <= Len(S) /\ q - 1 \in 1 .. (q - 1) /\ q - 1 \in 1 .. Len(S)
      BY <1>1, <1>3
    <3>2. S[q].col > c
      BY <1>3, <1>4, <3>1 DEF ColAt
    <3>3. S[q - 1].col < c /\ S[q - 1].col \in Int
      BY <1>1, <3>1, <3>2, StoredIs
    <3> QED BY <2>1, <3>3
  <2> QED BY <1>1, <1>3, <2>1, <2>2, Between
<1> QED BY <1>0, <1>2, <1>4 DEF Put, Zeros, Like

LEMMA PutHolds ==
  ASSUME NEW v, NEW x, Holds(v, x), v.dim <= MaxTurns, NEW it, Valid(it, v), NEW c \in 0 .. (v.dim - 1), NEW d \in Int,
         Over(it, v) => Zeros(x, c, v.dim), NEW z, z = vectorit_insert(it, c, d, v)
  PROVE  Put(z, v, x, c, d) /\ (IsFull(v) => Col(z.it, z.v) = c)
<1>0. v.dim \in Nat /\ ~(c >= v.dim) /\ c \in Int
  BY Reads
<1>1. CASE IsFull(v)
  <2>1. z = [v |-> FullPut(v, c, d), it |-> c]
    BY <1>0, <1>1 DEF vectorit_insert, FullPut
  <2>2. PICK w : w = FullPut(v, c, d)
    OBVIOUS
  <2>3. Holds(w, With(x, c, d)) /\ Like(w, v) /\ IsFull(w)
    BY <1>1, <2>2, FullPutHolds
  <2>4. z.v = w /\ z.it = c /\ z = [v |-> z.v, it |-> z.it]
    BY <2>1, <2>2
  <2>5. ~IsList(w) /\ ~IsArray(w) /\ w.dim = v.dim
    BY <2>3, KindsDiffer DEF Like
  <2>6. Valid(c, w)
    BY <1>0, <2>5 DEF Valid
  <2>7. Col(c, w) = c /\ ~(c > c)
    BY <1>0, <2>3 DEF Col, vectorit_curr_col
  <2> QED BY <2>3, <2>4, <2>6, <2>7 DEF Put
<1>2. CASE ~IsFull(v)
  <2>a. PICK S, at, q : S = Stored(v) /\ at = vectorit_find(it, c, v) /\ q = Place(at, v)
    OBVIOUS
  <2>b. PICK e : e = [col |-> c, data |-> d]
    OBVIOUS
  <2>c. PICK here : here = vectorit_curr_col(at, v)
    OBVIOUS
  <2>1. /\ Sparse(v) /\ Means(S, v.dim, x) /\ Len(S) \in Nat /\ Len(S) <= v.dim /\ Columns(S, v.dim) /\ S \in Seq(Cell)
        /\ x \in [0 .. (v.dim - 1) -> Int]
    BY <1>2, <2>a, HoldsSparse
  <2>2. z = PutNear(at, c, d, v)
    BY <1>0, <1>2, <2>a DEF vectorit_insert
  <2>3. CASE Len(S) = 0
    <3>1. /\ IsArray(v) => at = v.data.first - 1
          /\ IsList(v) => at = 0
          /\ Valid(at, v) /\ q = 1 /\ vectorit_past_beg(at, v) /\ here = v.dim
      BY <1>0, <2>1, <2>3, <2>a, <2>c, FindsNone DEF Col
    <3>2. here # c
      BY <1>0, <3>1
    <3>3. CASE d = 0
      <4>1. z = [v |-> v, it |-> at]
        BY <2>2, <2>c, <3>2, <3>3 DEF PutNear
      <4>2. (\A k \in 1 .. Len(S) : S[k].col # c) /\ ~(q <= Len(S)) /\ ~(Len(S) > 0)
        BY <2>3, <3>1
      <4> QED BY <1>2, <2>a, <3>1, <3>3, <4>1, <4>2, LeftHolds
    <3>4. CASE d # 0
      <4>1. z = vectorit_insert_after(at, c, d, v)
        BY <2>2, <2>c, <3>1, <3>2, <3>4 DEF PutNear
      <4>2. PutAt(z, v, 1, e)
        BY <1>0, <2>1, <2>3, <2>a, <2>b, <3>1, <4>1, InsertFirstIs
      <4>3. 1 \in 1 .. (Len(S) + 1) /\ 1 .. (1 - 1) = {} /\ 1 .. Len(S) = {}
        BY <2>3
      <4> QED BY <1>2, <2>a, <2>b, <3>4, <4>2, <4>3, InsertedHolds
    <3> QED BY <1>2, <3>3, <3>4
  <2>4. CASE Len(S) > 0
    <3>0. Valid(at, v) /\ Beside(S, c, q)
      <4>1. Place(it, v) <= Len(S) \/ S[Len(S)].col <= c \/ c <= S[1].col
        <5>1. CASE Over(it, v)
          <6>1. Len(S) \in 1 .. Len(S)
            BY <2>1, <2>4
          <6>2. S[Len(S)].col \in 0 .. (v.dim - 1) /\ x[S[Len(S)].col] # 0
            BY <2>1, <6>1 DEF Means
          <6>3. ~(S[Len(S)].col > c)
            BY <1>0, <5>1, <6>2 DEF Zeros
          <6> QED BY <1>0, <6>2, <6>3
        <5>2. CASE ~Over(it, v)
          BY <1>2, <2>1, <2>a, <5>2, Reads
        <5> QED BY <5>1, <5>2
      <4>2. Len(S) <= MaxTurns
        BY <1>0, <2>1, TurnsAssumption
      <4> QED BY <1>0, <2>1, <2>4, <2>a, <4>1, <4>2, FindIs
    <3>1. /\ q \in 1 .. Len(S) /\ q <= Len(S)
          /\ S[q].col < c => \A k \in (q + 1) .. Len(S) : S[k].col > c
          /\ S[q].col > c => \A k \in 1 .. (q - 1) : S[k].col < c
      BY <2>1, <3>0 DEF Beside
    <3>2. /\ here = S[q].col /\ here \in 0 .. (v.dim - 1)
          /\ ~vectorit_past_end(at, v) /\ ~vectorit_past_beg(at, v) /\ ~Over(at, v)
      <4>1. q # Len(S) + 1
        BY <2>1, <3>1
      <4>2. here = S[q].col /\ ~vectorit_past_beg(at, v) /\ ~Over(at, v)
        BY <2>1, <2>a, <2>c, <3>0, <3>1, <4>1, Seat DEF Col
      <4> QED BY <2>1, <3>1, <4>2 DEF Columns, Over
    <3>3. CASE here = c /\ d = 0
      <4>1. z = vectorit_zero_elt(at, v)
        BY <2>2, <2>c, <3>2, <3>3 DEF PutNear
      <4>2. Col(at, v) = c
        BY <2>c, <3>3 DEF Col
      <4> QED BY <1>2, <3>0, <3>2, <3>3, <4>1, <4>2, ZeroEltHolds DEF Put
    <3>4. CASE here = c /\ d # 0
      <4>1. z = [v |-> vectorit_set(at, d, v), it |-> at]
        BY <2>2, <2>c, <3>2, <3>4 DEF PutNear
      <4>2. PICK w : w = vectorit_set(at, d, v)
        OBVIOUS
      <4>3. z.v = w /\ z.it = at /\ z = [v |-> z.v, it |-> z.it]
        BY <4>1, <4>2
      <4>4. PICK y \in Cell : y.col = S[q].col /\ y.data = d /\ ReplacedAt(w, v, q, y)
        BY <2>1, <2>a, <3>0, <3>1, <3>4, <4>2, SetHereIs
      <4>5. Sparse(w) /\ Like(w, v) /\ Replaced(Stored(w), S, q, y)
        BY <2>a, <4>4 DEF ReplacedAt
      <4>6. Means(Stored(w), v.dim, With(x, c, d))
        BY <1>0, <2>1, <3>1, <3>2, <3>4, <4>4, <4>5, MeansReplaced
      <4>7. w.dim = v.dim /\ ~IsFull(w)
        BY <4>5 DEF Like, Sparse
      <4>8. Holds(w, With(x, c, d))
        BY <4>5, <4>6, <4>7 DEF Holds, Sparse, Means
      <4>9. Valid(at, w) /\ Place(at, w) = q
        BY <2>1, <2>a, <3>0, <4>4, ReplacedSeat
      <4>10. Col(at, w) = c
        <5>1. Len(Stored(w)) = Len(S) /\ Stored(w)[q] = y
          BY <3>1, <4>5 DEF Replaced
        <5> QED BY <3>1, <3>2, <3>4, <4>4, <4>5, <4>9, <5>1, Seat
      <4>11. ~(Col(at, w) > c)
        BY <1>0, <4>10
      <4> QED BY <1>2, <4>3, <4>5, <4>8, <4>9, <4>10, <4>11 DEF Put
    <3>5. ASSUME here # c PROVE (\A k \in 1 .. Len(S) : S[k].col # c) /\ S[q].col # c
      <4>1. \A k \in 1 .. Len(S) : S[k].col \in Int
        BY <2>1, StoredIs, <2>a
      <4>2. ASSUME NEW k \in 1 .. Len(S), S[k].col = c PROVE FALSE
        <5>1. CASE S[q].col < c
          <6>1. k > q
            BY <2>1, <3>1, <4>1, <4>2, <5>1 DEF Columns
          <6>2. k \in (q + 1) .. Len(S)
            BY <2>1, <3>1, <6>1
          <6> QED BY <1>0, <3>1, <4>1, <4>2, <5>1, <6>2
        <5>2. CASE S[q].col > c
          <6>1. k < q
            BY <2>1, <3>1, <4>1, <4>2, <5>2 DEF Columns
          <6>2. k \in 1 .. (q - 1)
            BY <2>1, <3>1, <6>1
          <6> QED BY <1>0, <3>1, <4>1, <4>2, <5>2, <6>2
        <5> QED BY <1>0, <3>1, <3>2, <3>5, <4>1, <5>1, <5>2
      <4> QED BY <3>2, <3>5, <4>2
    <3>6. CASE here # c /\ d = 0
      <4>1. z = [v |-> v, it |-> at]
        BY <2>2, <2>c, <3>6 DEF PutNear
      <4> QED BY <1>2, <2>1, <2>a, <3>0, <3>1, <3>5, <3>6, <4>1, LeftHolds
    <3>7. CASE here # c /\ d # 0 /\ here < c
      <4>1. z = vectorit_insert_after(at, c, d, v)
        BY <2>2, <2>c, <3>7 DEF PutNear
      <4>2. PutAt(z, v, q + 1, e)
        BY <1>0, <2>1, <2>a, <2>b, <3>0, <3>1, <3>2, <3>7, <4>1, InsertAfterIs
      <4>3. q + 1 \in 1 .. (Len(S) + 1) /\ \A k \in 1 .. ((q + 1) - 1) : S[k].col < c
        <5>1. \A k \in 1 .. Len(S) : S[k].col \in Int
          BY <2>1, StoredIs, <2>a
        <5>2. ASSUME NEW k \in 1 .. ((q + 1) - 1) PROVE S[k].col < c
          <6>1. k \in 1 .. Len(S) /\ (k = q \/ k < q)
            BY <2>1, <3>1
          <6>2. S[k].col <= S[q].col
            BY <2>1, <3>1, <5>1, <6>1 DEF Columns
          <6> QED BY <1>0, <3>1, <3>2, <3>7, <5>1, <6>1, <6>2
        <5> QED BY <2>1, <3>1, <5>2
      <4>4. \A k \in (q + 1) .. Len(S) : S[k].col > c
        BY <3>1, <3>2, <3>7
      <4> QED BY <1>2, <2>a, <2>b, <3>7, <4>2, <4>3, <4>4, InsertedHolds
    <3>8. CASE here # c /\ d # 0 /\ ~(here < c)
      <4>1. z = vectorit_insert_before(at, c, d, v)
        BY <2>2, <2>c, <3>2, <3>8 DEF PutNear
      <4>2. S[q].col > c
        BY <1>0, <3>2, <3>8
      <4>3. PutAt(z, v, q, e)
        BY <1>0, <2>1, <2>a, <2>b, <3>0, <3>1, <4>1, <4>2, InsertBeforeItIs
      <4>4. q \in 1 .. (Len(S) + 1) /\ \A k \in q .. Len(S) : S[k].col > c
        <5>1. \A k \in 1 .. Len(S) : S[k].col \in Int
          BY <2>1, StoredIs, <2>a
        <5>2. ASSUME NEW k \in q .. Len(S) PROVE S[k].col > c
          <6>1. k \in 1 .. Len(S) /\ (k = q \/ q < k)
            BY <2>1, <3>1
          <6>2. S[q].col <= S[k].col
            BY <2>1, <3>1, <5>1, <6>1 DEF Columns
          <6> QED BY <1>0, <3>1, <4>2, <5>1, <6>1, <6>2
        <5> QED BY <2>1, <3>1, <5>2
      <4> QED BY <1>2, <2>a, <2>b, <3>1, <3>8, <4>2, <4>3, <4>4, InsertedHolds
    <3> QED BY <1>2, <3>3, <3>4, <3>6, <3>7, <3>8
  <2> QED BY <2>1, <2>3, <2>4
<1> QED BY <1>1, <1>2

-----------------------------------------------------------------------------
(* The calls on whole vectors that do not walk them.                       *)

LEMMA SetHolds ==
  ASSUME NEW v, NEW x, Holds(v, x), v.dim <= MaxTurns, NEW i \in 0 .. (v.dim - 1), NEW d \in Int, NEW w, w = vector_set(v, i, d)
  PROVE  Holds(w, With(x, i, d)) /\ Like(w, v)
<1>0. v.dim \in Nat /\ ~(i >= v.dim)
  BY DEF Holds, Vec
<1>1. CASE IsFull(v)
  <2>1. w = FullPut(v, i, d)
    BY <1>0, <1>1 DEF vector_set, FullPut
  <2> QED BY <1>1, <2>1, FullPutHolds
<1>2. CASE ~IsFull(v)
  <2>1. PICK it, z : it = vectorit_set_at_beg(v) /\ z = vectorit_insert(it, i, d, v)
    OBVIOUS
  <2>2. w = z.v
    BY <1>0, <1>2, <2>1 DEF vector_set
  <2>3. Valid(it, v) /\ Zeros(x, 0, Col(it, v))
    BY <2>1, Starts
  <2>4. Over(it, v) => Zeros(x, i, v.dim)
    <3> SUFFICES ASSUME Over(it, v) PROVE Zeros(x, i, v.dim)
      OBVIOUS
    <3>1. Col(it, v) = v.dim
      BY <2>3, Reads
    <3> QED BY <1>0, <2>3, <3>1 DEF Zeros
  <2>5. Put(z, v, x, i, d)
    BY <2>1, <2>3, <2>4, PutHolds
  <2> QED BY <2>2, <2>5 DEF Put
<1> QED BY <1>1, <1>2

LEMMA NoneStored ==
  ASSUME NEW dim \in Nat, NEW S \in Seq(Cell), Len(S) = 0
  PROVE  Means(S, dim, ZeroRow(dim))
BY DEF Means, ZeroRow

LEMMA ZeroHolds ==
  ASSUME NEW v, NEW x, Holds(v, x), NEW w, w = vector_zero(v)
  PROVE  Holds(w, ZeroRow(v.dim)) /\ Like(w, v)
<1>0. IsVec(v) /\ v.dim \in Nat /\ v.nz \in Int /\ ZeroRow(v.dim) \in [0 .. (v.dim - 1) -> Int] /\ 0 \in Int
  BY DEF Holds, Vec, ZeroRow
<1>1. CASE IsFull(v)
  <2>a. ~IsArray(v) /\ ~IsList(v) /\ DOMAIN v.data = 0 .. (v.dim - 1)
    BY <1>1, HoldsFull
  <2>1. w = HoldingOnly(v, ZeroRow(v.dim))
    <3>1. w = [v EXCEPT !.data = [i \in DOMAIN v.data |-> 0]]
      BY <1>1, <2>a, Zenon DEF vector_zero
    <3>2. [i \in DOMAIN v.data |-> 0] = ZeroRow(v.dim)
      BY <2>a DEF ZeroRow
    <3> QED BY <3>1, <3>2 DEF HoldingOnly
  <2>2. IsVec(w) /\ Like(w, v) /\ w.data = ZeroRow(v.dim) /\ w.nz = v.nz
    BY <1>0, <2>1, DataOnlyIs
  <2>3. IsFull(w) /\ w.dim = v.dim
    BY <1>1, <2>2 DEF IsFull, Like
  <2> QED BY <1>0, <2>2, <2>3 DEF Holds, Vec
<1>2. CASE IsArray(v)
  <2>a. ~IsFull(v) /\ ~IsList(v) /\ Sparse(v)
    BY <1>2, KindsDiffer DEF Holds, Sparse
  <2>b. Space(v.data)
    BY <1>2, <2>a, SparseKinds
  <2>c. PICK B : B = expanding_array_clear(v.data)
    OBVIOUS
  <2>1. w = Holding(v, B, 0)
    BY <1>2, <2>a, <2>c, Zenon DEF vector_zero, Holding
  <2>2. Space(B) /\ B.n = 0
    BY <2>b, <2>c, ClearIs
  <2>3. IsVec(w) /\ Like(w, v) /\ w.data = B /\ w.nz = 0
    BY <1>0, <2>1, DataIs
  <2>4. Sparse(w) /\ IsArray(w)
    BY <1>2, <2>a, <2>2, <2>3, SparseArray
  <2>5. Stored(w) \in Seq(Cell) /\ Len(Stored(w)) = 0
    BY <2>3, <2>4, StoredIs
  <2>6. Means(Stored(w), w.dim, ZeroRow(w.dim)) /\ w.dim = v.dim
    BY <1>0, <2>3, <2>5, NoneStored DEF Like
  <2> QED BY <1>0, <2>3, <2>4, <2>6 DEF Holds, Sparse
<1>3. CASE IsList(v)
  <2>a. ~IsFull(v) /\ ~IsArray(v) /\ Sparse(v)
    BY <1>3, KindsDiffer DEF Holds, Sparse
  <2>1. w = Holding(v, << >>, 0)
    BY <1>3, <2>a, Zenon DEF vector_zero, Holding
  <2>2. << >> \in Seq(Cell) /\ Len(<< >>) = 0
    BY EmptySeq
  <2>3. IsVec(w) /\ Like(w, v) /\ w.data = << >> /\ w.nz = 0
    BY <1>0, <2>1, DataIs
  <2>4. Sparse(w) /\ IsList(w)
    BY <1>3, <2>a, <2>2, <2>3, SparseList
  <2>5. Stored(w) = << >>
    BY <2>3, <2>4, StoredIs
  <2>6. Means(Stored(w), w.dim, ZeroRow(w.dim)) /\ w.dim = v.dim
    BY <1>0, <2>2, <2>3, <2>5, NoneStored DEF Like
  <2> QED BY <1>0, <2>3, <2>4, <2>6 DEF Holds, Sparse
<1> QED BY <1>1, <1>2, <1>3 DEF Holds, Vec

LEMMA EmptyFirstHolds ==
  ASSUME NEW v, NEW x, Holds(v, x), NEW w, w = EmptyFirst(v, TRUE)
  PROVE  Like(w, v) /\ \E y : Holds(w, y)
<1>1. CASE IsArray(v)
  BY <1>1, ZeroHolds DEF EmptyFirst
<1>2. CASE ~IsArray(v)
  BY <1>2 DEF EmptyFirst, Like
<1> QED BY <1>1, <1>2

LEMMA MakeHolds ==
  ASSUME NEW dim \in Nat, NEW type \in VectorTypes, NEW size \in Nat, NEW v, v = vector_make_size(dim, type, size)
  PROVE  Holds(v, ZeroRow(dim)) /\ v.dim = dim /\ v.type = type /\ (type # "NON_SPARSE" => v.nz = 0)
<1>0. ZeroRow(dim) \in [0 .. (dim - 1) -> Int]
  BY DEF ZeroRow
<1>1. CASE type = "NON_SPARSE"
  <2>1. v = [type |-> type, dim |-> dim, nz |-> dim, data |-> ZeroRow(dim)]
    BY <1>1 DEF vector_make_size, ZeroRow
  <2>2. v.type = type /\ v.dim = dim /\ v.nz = dim /\ v.data = ZeroRow(dim)
    BY ONLY <2>1
  <2>3. IsVec(v) /\ IsFull(v)
    BY <1>1, <2>1, <2>2 DEF IsVec, IsFull
  <2> QED BY <1>0, <1>1, <2>2, <2>3 DEF Holds, Vec
<1>2. CASE type = "SPARSE_ARRAY"
  <2>1. PICK A, z : A = make_expanding_array(size) /\ z = 0
    OBVIOUS
  <2>2. v = [type |-> type, dim |-> dim, nz |-> z, data |-> A]
    BY <1>2, <2>1 DEF vector_make_size
  <2>3. v.type = type /\ v.dim = dim /\ v.nz = z /\ v.data = A
    BY ONLY <2>2
  <2>4. Space(A) /\ A.n = 0 /\ Elements(A) = << >>
    BY <2>1, MakeSpace
  <2>5. IsVec(v) /\ IsArray(v) /\ ~IsFull(v)
    BY <1>2, <2>2, <2>3 DEF IsVec, IsArray, IsFull
  <2>6. Vec(v) /\ Sparse(v)
    BY <2>1, <2>3, <2>4, <2>5 DEF Vec, Sparse
  <2>7. Stored(v) \in Seq(Cell) /\ Len(Stored(v)) = 0
    BY <2>3, <2>4, <2>5, <2>6, StoredIs
  <2> QED BY <1>0, <2>1, <2>3, <2>5, <2>6, <2>7, NoneStored DEF Holds
<1>3. CASE type = "SPARSE_LIST"
  <2>1. PICK A, z : A = << >> /\ z = 0
    OBVIOUS
  <2>2. v = [type |-> type, dim |-> dim, nz |-> z, data |-> A]
    BY <1>3, <2>1 DEF vector_make_size
  <2>3. v.type = type /\ v.dim = dim /\ v.nz = z /\ v.data = A
    BY ONLY <2>2
  <2>4. A \in Seq(Cell) /\ Len(A) = 0
    BY <2>1, EmptySeq
  <2>5. IsVec(v) /\ IsList(v) /\ ~IsFull(v)
    BY <1>3, <2>2, <2>3 DEF IsVec, IsList, IsFull
  <2>6. Vec(v) /\ Sparse(v)
    BY <2>1, <2>3, <2>4, <2>5 DEF Vec, Sparse
  <2>7. Stored(v) = A
    BY <2>3, <2>5, <2>6, StoredIs
  <2> QED BY <1>0, <2>1, <2>3, <2>4, <2>5, <2>6, <2>7, NoneStored DEF Holds
<1> QED BY <1>1, <1>2, <1>3 DEF VectorTypes

-----------------------------------------------------------------------------
\* Columns added at the end, of a row of whatever kind.
Wider(x, m, n) == [c \in 0 .. (n - 1) |-> IF c < m THEN x[c] ELSE 0]

LEMMA WiderMeans ==
  ASSUME NEW m \in Nat, NEW n \in Nat, m <= n, NEW S, NEW x, Means(S, m, x)
  PROVE  Means(S, n, Wider(x, m, n))
<1> DEFINE y == Wider(x, m, n)
<1>1. S \in Seq(Cell) /\ x \in [0 .. (m - 1) -> Int] /\ \A k \in 1 .. Len(S) : S[k].col \in 0 .. (m - 1) /\ S[k].data # 0 /\ x[S[k].col] = S[k].data
  BY DEF Means
<1>2. y \in [0 .. (n - 1) -> Int] /\ \A c \in 0 .. (n - 1) : y[c] = IF c < m THEN x[c] ELSE 0
  BY <1>1 DEF Wider
<1> HIDE DEF y
<1>3. ASSUME NEW k \in 1 .. Len(S) PROVE S[k].col \in 0 .. (n - 1) /\ y[S[k].col] = S[k].data
  <2>1. PICK c : c = S[k].col
    OBVIOUS
  <2>2. c \in 0 .. (m - 1) /\ x[c] = S[k].data
    BY <1>1, <2>1
  <2>3. c \in 0 .. (n - 1) /\ c < m
    BY <2>2
  <2> QED BY <1>2, <2>1, <2>2, <2>3
<1>4. ASSUME NEW c \in 0 .. (n - 1), y[c] # 0 PROVE \E k \in 1 .. Len(S) : S[k].col = c
  <2>1. c \in 0 .. (m - 1) /\ x[c] # 0
    BY <1>2, <1>4
  <2> QED BY <2>1 DEF Means
<1>5. \A j \in 1 .. Len(S) : \A k \in 1 .. Len(S) : j < k => S[j].col < S[k].col
  BY DEF Means
<1> QED BY <1>1, <1>2, <1>3, <1>4, <1>5 DEF Means, y

Widened(v, n) == [v EXCEPT !.dim = n]
WidenedTo(v, n, D) == [v EXCEPT !.dim = n, !.data = D]

LEMMA WidenedHolds ==
  ASSUME NEW v, NEW x, Holds(v, x), ~IsFull(v), NEW n \in Nat, v.dim <= n, NEW w, w = Widened(v, n)
  PROVE  Holds(w, Wider(x, v.dim, n)) /\ w.dim = n /\ w.type = v.type /\ w.nz = v.nz
<1>1. PICK t, dim, C, nz : t = v.type /\ dim = v.dim /\ C = v.data /\ nz = v.nz
  OBVIOUS
<1>2. v = [type |-> t, dim |-> dim, nz |-> nz, data |-> C]
  BY <1>1 DEF IsVec, Holds, Vec
<1>3. w = [type |-> t, dim |-> n, nz |-> nz, data |-> C]
  BY <1>2 DEF Widened
<1>4. w.type = t /\ w.dim = n /\ w.nz = nz /\ w.data = C
  BY ONLY <1>3
<1>5. IsVec(w) /\ (IsArray(w) <=> IsArray(v)) /\ (IsList(w) <=> IsList(v)) /\ ~IsFull(w)
  BY <1>1, <1>3, <1>4 DEF IsVec, IsArray, IsList, IsFull
<1>6. Vec(w)
  BY <1>1, <1>4, <1>5 DEF Holds, Vec
<1>7. Stored(w) = Stored(v)
  BY <1>1, <1>4, <1>5 DEF Stored
<1>8. v.dim \in Nat /\ Means(Stored(v), v.dim, x)
  BY DEF Holds, Vec
<1>9. Means(Stored(w), n, Wider(x, v.dim, n))
  BY <1>7, <1>8, WiderMeans
<1> QED BY <1>1, <1>4, <1>5, <1>6, <1>9 DEF Holds, Means

LEMMA AddColsHolds ==
  ASSUME NEW v, NEW x, Holds(v, x), NEW n \in Nat, NEW w, w = vector_add_ncols(v, n)
  PROVE  Holds(w, Wider(x, v.dim, v.dim + n)) /\ w.dim = v.dim + n /\ w.type = v.type /\ w.nz = v.nz
<1>0. v.dim \in Nat /\ v.dim + n \in Nat /\ v.dim <= v.dim + n /\ x \in [0 .. (v.dim - 1) -> Int]
  BY DEF Holds, Vec
<1>a. PICK m, y : m = v.dim + n /\ y = Wider(x, v.dim, m)
  OBVIOUS
<1>1. PICK t, dim, C, nz : t = v.type /\ dim = v.dim /\ C = v.data /\ nz = v.nz
  OBVIOUS
<1>2. v = [type |-> t, dim |-> dim, nz |-> nz, data |-> C]
  BY <1>1 DEF IsVec, Holds, Vec
<1>3. CASE IsFull(v)
  <2>1. w = WidenedTo(v, m, [i \in 0 .. (m - 1) |-> IF i < v.dim THEN v.data[i] ELSE 0])
    <3>1. w = WidenedTo(v, v.dim + n, IF IsFull(v) THEN [i \in 0 .. (v.dim + n - 1) |-> IF i < v.dim THEN v.data[i] ELSE 0] ELSE v.data)
      <4>1. w = [v EXCEPT !.dim = v.dim + n, !.data = IF IsFull(v) THEN [i \in 0 .. (v.dim + n - 1) |-> IF i < v.dim THEN v.data[i] ELSE 0] ELSE v.data]
        BY DEF vector_add_ncols
      <4> QED BY ONLY <4>1 DEF WidenedTo
    <3>2. PICK D : D = [i \in 0 .. (v.dim + n - 1) |-> IF i < v.dim THEN v.data[i] ELSE 0]
      OBVIOUS
    <3>3. D = [i \in 0 .. (m - 1) |-> IF i < v.dim THEN v.data[i] ELSE 0]
      <4>1. v.dim + n - 1 = m - 1
        BY <1>0, <1>a
      <4> QED BY ONLY <3>2, <4>1
    <3>4. w = WidenedTo(v, m, D)
      BY ONLY <1>3, <1>a, <3>1, <3>2
    <3> QED BY ONLY <3>3, <3>4
  <2>2. [i \in 0 .. (m - 1) |-> IF i < v.dim THEN v.data[i] ELSE 0] = y
    BY <1>3, <1>a, HoldsFull DEF Wider
  <2>3. w = [type |-> t, dim |-> m, nz |-> nz, data |-> y]
    BY <1>2, <2>1, <2>2 DEF WidenedTo
  <2>4. w.type = t /\ w.dim = m /\ w.nz = nz /\ w.data = y
    BY ONLY <2>3
  <2>5. IsVec(w) /\ IsFull(w)
    BY <1>1, <1>3, <2>3, <2>4 DEF IsVec, IsFull
  <2>6. y \in [0 .. (m - 1) -> Int]
    BY <1>0, <1>a DEF Wider
  <2> QED BY <1>0, <1>1, <1>a, <2>4, <2>5, <2>6 DEF Holds, Vec
<1>4. CASE ~IsFull(v)
  <2>1. w = WidenedTo(v, m, v.data)
    BY <1>4, <1>a DEF vector_add_ncols, WidenedTo
  <2>2. w = [type |-> t, dim |-> m, nz |-> nz, data |-> C]
    BY <1>1, <1>2, <2>1 DEF WidenedTo
  <2>3. w = Widened(v, m)
    BY <1>2, <2>2 DEF Widened
  <2> QED BY <1>0, <1>4, <1>a, <2>3, WidenedHolds
<1> QED BY <1>3, <1>4

\* A row out of a file.
LEMMA ReadHolds ==
  ASSUME NEW v, NEW x, Holds(v, x), NEW w, w = vector_read_bin_fp(v)
  PROVE  Holds(w, x) /\ Like(w, v) /\ w.nz = v.nz
<1>0. IsVec(v)
  BY DEF Holds, Vec
<1>1. CASE IsArray(v)
  <2>a. ~IsFull(v) /\ ~IsList(v) /\ Sparse(v)
    BY <1>1, KindsDiffer DEF Holds, Sparse
  <2>b. Space(v.data) /\ v.nz = v.data.n /\ v.data.n \in Nat
    BY <1>1, <2>a, SparseKinds DEF Space
  <2>c. PICK B : B = expanding_array_read(v.data)
    OBVIOUS
  <2>1. w = HoldingOnly(v, B)
    BY <1>1, <2>c DEF vector_read_bin_fp, HoldingOnly
  <2>2. Space(B) /\ B.n = v.data.n /\ \A k \in 0 .. (v.data.n - 1) : At(B, k) = At(v.data, k)
    BY <2>b, <2>c, ReadIs
  <2>3. IsVec(w) /\ Like(w, v) /\ w.data = B /\ w.nz = v.nz
    BY <1>0, <2>1, DataOnlyIs
  <2>4. Sparse(w) /\ IsArray(w)
    BY <1>1, <2>a, <2>b, <2>2, <2>3, SparseArray
  <2>5. Stored(w) = Stored(v)
    <3>1. Stored(w) \in Seq(Cell) /\ Stored(v) \in Seq(Cell) /\ Len(Stored(w)) = v.data.n /\ Len(Stored(v)) = v.data.n
      BY <1>1, <2>2, <2>3, <2>4, <2>a, StoredIs
    <3>2. ASSUME NEW k \in 1 .. v.data.n PROVE Stored(w)[k] = Stored(v)[k]
      <4>1. k - 1 \in 0 .. (v.data.n - 1) /\ Stored(v)[k] = At(v.data, k - 1)
        BY <1>1, <2>a, StoredArray
      <4>2. Stored(w)[k] = At(B, k - 1)
        BY <2>2, <2>3, <2>4, StoredArray
      <4> QED BY <2>2, <4>1, <4>2
    <3> QED BY <3>1, <3>2, SeqEqual
  <2>6. w.dim = v.dim
    BY <2>3 DEF Like
  <2> QED BY <2>3, <2>4, <2>5, <2>6, <2>a DEF Holds, Sparse
<1>2. CASE ~IsArray(v)
  <2>1. w = HoldingOnly(v, v.data)
    BY <1>2 DEF vector_read_bin_fp, HoldingOnly
  <2>2. w = v
    BY <1>0, <2>1 DEF HoldingOnly, IsVec
  <2> QED BY <2>2 DEF Like
<1> QED BY <1>1, <1>2

-----------------------------------------------------------------------------
(* Walks.                                                                  *)

IsPair(s) == s = [v |-> s.v, it |-> s.it]
IsTriple(s) == s = [f |-> s.f, v |-> s.v, it |-> s.it]
IsWalk(s) == IsPair(s) \/ IsTriple(s)

\* The walk s with its iterator elsewhere.
Stood(s, i) == [s EXCEPT !.it = i]
Elsewhere(s) == {Stood(s, i) : i \in Int}

LEMMA StoodIs ==
  ASSUME NEW s, IsWalk(s), NEW i, NEW t, t = Stood(s, i)
  PROVE  /\ t.it = i /\ t.v = s.v
         /\ IsPair(s) => IsPair(t)
         /\ IsTriple(s) => IsTriple(t) /\ t.f = s.f
<1>1. PICK f, v, j : f = s.f /\ v = s.v /\ j = s.it
  OBVIOUS
<1>2. CASE s = [v |-> v, it |-> j]
  <2>1. t = [v |-> v, it |-> i]
    BY <1>2 DEF Stood
  <2>2. t.v = v /\ t.it = i
    BY ONLY <2>1
  <2>3. ~(s = [f |-> f, v |-> v, it |-> j])
    BY ONLY <1>2
  <2> QED BY ONLY <1>1, <2>1, <2>2, <2>3 DEF IsPair, IsTriple
<1>3. CASE s = [f |-> f, v |-> v, it |-> j]
  <2>1. t = [f |-> f, v |-> v, it |-> i]
    BY <1>3 DEF Stood
  <2>2. t.f = f /\ t.v = v /\ t.it = i
    BY ONLY <2>1
  <2>3. ~(s = [v |-> v, it |-> j])
    BY ONLY <1>3
  <2> QED BY ONLY <1>1, <2>1, <2>2, <2>3 DEF IsPair, IsTriple
<1> QED BY <1>1, <1>2, <1>3 DEF IsWalk, IsPair, IsTriple

LEMMA StoodAgain ==
  ASSUME NEW s, IsWalk(s), NEW i, NEW t, t = Stood(s, i), NEW j
  PROVE  Stood(t, j) = Stood(s, j) /\ IsWalk(t) /\ (i = s.it => t = s)
<1>1. PICK f, v, k : f = s.f /\ v = s.v /\ k = s.it
  OBVIOUS
<1>2. CASE s = [v |-> v, it |-> k]
  <2>1. t = [v |-> v, it |-> i]
    BY <1>2 DEF Stood
  <2>2. Stood(t, j) = [v |-> v, it |-> j] /\ Stood(s, j) = [v |-> v, it |-> j]
    <3>1. Stood(t, j) = [v |-> v, it |-> j]
      BY ONLY <2>1 DEF Stood
    <3>2. Stood(s, j) = [v |-> v, it |-> j]
      BY ONLY <1>2 DEF Stood
    <3> QED BY ONLY <3>1, <3>2
  <2> QED BY ONLY <1>1, <1>2, <2>1, <2>2 DEF IsWalk, IsPair
<1>3. CASE s = [f |-> f, v |-> v, it |-> k]
  <2>1. t = [f |-> f, v |-> v, it |-> i]
    BY <1>3 DEF Stood
  <2>2. Stood(t, j) = [f |-> f, v |-> v, it |-> j] /\ Stood(s, j) = [f |-> f, v |-> v, it |-> j]
    <3>1. Stood(t, j) = [f |-> f, v |-> v, it |-> j]
      BY ONLY <2>1 DEF Stood
    <3>2. Stood(s, j) = [f |-> f, v |-> v, it |-> j]
      BY ONLY <1>3 DEF Stood
    <3> QED BY ONLY <3>1, <3>2
  <2> QED BY ONLY <1>1, <1>3, <2>1, <2>2 DEF IsWalk, IsTriple
<1> QED BY <1>1, <1>2, <1>3 DEF IsWalk, IsPair, IsTriple

LEMMA StepOnIs ==
  ASSUME NEW s, IsWalk(s)
  PROVE  StepOn(s) = Stood(s, Step(s.it, s.v))
<1>1. PICK j : j = Step(s.it, s.v)
  OBVIOUS
<1>2. StepOn(s) = [s EXCEPT !.it = j]
  BY <1>1 DEF StepOn
<1> QED BY ONLY <1>1, <1>2 DEF Stood

PastTurn(c, t) == IF Col(t.it, t.v) <= c THEN StepOn(t) ELSE t
Passing(t, v, x, c, k) ==
  /\ Valid(t.it, v) /\ t.v = v /\ IsWalk(t)
  /\ Col(t.it, v) > c => Zeros(x, c + 1, Col(t.it, v))
  /\ Col(t.it, v) > c \/ Col(t.it, v) >= k

LEMMA PastTurnIs ==
  ASSUME NEW v, NEW x, Holds(v, x), NEW s, IsWalk(s), NEW c \in Int, c < v.dim, NEW t \in Elsewhere(s), NEW k \in Int, Passing(t, v, x, c, k),
         NEW r, r = PastTurn(c, t)
  PROVE  r \in Elsewhere(s) /\ Passing(r, v, x, c, k + 1)
<1>0. PICK i \in Int : t = Stood(s, i)
  BY DEF Elsewhere
<1>1. Valid(t.it, v) /\ t.v = v /\ IsWalk(t)
  BY DEF Passing
<1>a. v.dim \in Nat /\ Col(t.it, v) \in 0 .. v.dim /\ (Over(t.it, v) <=> Col(t.it, v) = v.dim)
  BY <1>1, Reads
<1>2. CASE Col(t.it, v) <= c
  <2>1. PICK j : j = Step(t.it, v)
    OBVIOUS
  <2>2. r = Stood(t, j)
    BY <1>1, <1>2, <2>1, StepOnIs DEF PastTurn
  <2>3. ~Over(t.it, v)
    BY <1>a, <1>2
  <2>4. Valid(j, v) /\ Col(j, v) > Col(t.it, v) /\ Zeros(x, Col(t.it, v) + 1, Col(j, v))
    BY <1>1, <2>1, <2>3, Steps
  <2>5. r.it = j /\ r.v = v /\ r = Stood(s, j) /\ IsWalk(r)
    BY <1>0, <1>1, <2>2, StoodIs, StoodAgain
  <2>6. Col(j, v) \in 0 .. v.dim
    BY <2>4, Reads
  <2>7. j \in Int
    <3>1. IsArray(v) => j \in Int
      BY <2>4 DEF Valid
    <3>2. IsList(v) => j \in Int
      <4>1. IsList(v) => ~IsArray(v) /\ j \in 0 .. Len(v.data)
        BY <2>4, KindsDiffer DEF Valid
      <4> QED BY <4>1
    <3>3. IsFull(v) => j \in Int
      <4>1. IsFull(v) => j \in 0 .. v.dim
        BY <2>4, KindsDiffer DEF Valid
      <4> QED BY <4>1
    <3> QED BY <3>1, <3>2, <3>3 DEF Holds, Vec
  <2>8. Col(j, v) > c => Zeros(x, c + 1, Col(j, v))
    BY <1>2, <1>a, <2>4 DEF Zeros
  <2>9. Col(j, v) >= k + 1
    BY <1>2, <1>a, <2>4, <2>6 DEF Passing
  <2> QED BY <2>4, <2>5, <2>7, <2>8, <2>9 DEF Passing, Elsewhere
<1>3. CASE ~(Col(t.it, v) <= c)
  BY <1>a, <1>3 DEF PastTurn, Passing
<1> QED BY <1>2, <1>3

\* The walk goes past column c to the next element there is.
LEMMA StepPastIs ==
  ASSUME NEW s, IsWalk(s), NEW v, v = s.v, NEW x, Holds(v, x), v.dim <= MaxTurns, NEW c \in Int, c < v.dim, s.it \in Int, Valid(s.it, v),
         Col(s.it, v) > c => Zeros(x, c + 1, Col(s.it, v)), NEW r, r = StepPast(c, s)
  PROVE  \E i \in Int : r = Stood(s, i) /\ Valid(i, v) /\ Col(i, v) > c /\ Zeros(x, c + 1, Col(i, v))
<1>0. Col(s.it, v) \in 0 .. v.dim /\ v.dim \in Nat
  BY Reads
<1> DEFINE Q == [k \in 0 .. MaxTurns |-> {t \in Elsewhere(s) : Passing(t, v, x, c, k)}]
           F == [p \in (1 .. MaxTurns) \X Elsewhere(s) |-> PastTurn(c, p[2])]
           h == CHOOSE g : g = [k \in 0 .. MaxTurns |-> IF k = 0 THEN s ELSE PastTurn(c, g[k - 1])]
<1> HIDE DEF Q, F, h
<1>l1. MaxTurns \in Nat /\ 0 \in 0 .. MaxTurns /\ \A k \in 1 .. MaxTurns : k - 1 \in 0 .. MaxTurns /\ k \in 0 .. MaxTurns /\ k # 0
  BY TurnsAssumption
<1>l2. s \in Elsewhere(s) /\ Passing(s, v, x, c, 0)
  <2>1. s = Stood(s, s.it)
    BY StoodAgain
  <2> QED BY <1>0, <2>1 DEF Passing, Elsewhere
<1>l3. ASSUME NEW k \in 1 .. MaxTurns, NEW t \in Elsewhere(s), Passing(t, v, x, c, k - 1) PROVE PastTurn(c, t) \in Elsewhere(s) /\ Passing(PastTurn(c, t), v, x, c, k)
  <2>1. k - 1 \in Int /\ (k - 1) + 1 = k
    OBVIOUS
  <2> QED BY <1>l3, <2>1, PastTurnIs
<1>l4. \A k \in 1 .. MaxTurns : \A t \in Q[k - 1] : t \in Elsewhere(s) /\ F[<<k, t>>] = PastTurn(c, t) /\ F[<<k, t>>] \in Q[k]
  <2> SUFFICES ASSUME NEW k \in 1 .. MaxTurns, NEW t \in Q[k - 1] PROVE t \in Elsewhere(s) /\ F[<<k, t>>] = PastTurn(c, t) /\ F[<<k, t>>] \in Q[k]
    OBVIOUS
  <2>1. t \in Elsewhere(s) /\ Passing(t, v, x, c, k - 1)
    BY ONLY <1>l1, t \in Q[k - 1], k \in 1 .. MaxTurns DEF Q
  <2>2. F[<<k, t>>] = PastTurn(c, t)
    BY ONLY <2>1, k \in 1 .. MaxTurns DEF F
  <2>3. PastTurn(c, t) \in Elsewhere(s) /\ Passing(PastTurn(c, t), v, x, c, k)
    BY ONLY <1>l3, <2>1, k \in 1 .. MaxTurns
  <2>4. PastTurn(c, t) \in Q[k]
    BY ONLY <1>l1, <2>3, k \in 1 .. MaxTurns DEF Q
  <2> QED BY ONLY <2>1, <2>2, <2>4
<1>l0. s \in Q[0]
  BY ONLY <1>l1, <1>l2 DEF Q
<1>l5. h = [k \in 0 .. MaxTurns |-> IF k = 0 THEN s ELSE PastTurn(c, h[k - 1])]
  <2>1. PICK g : IsCourse(g, MaxTurns, s, F, Q)
    BY ONLY <1>l1, <1>l0, <1>l4, LoopExists
  <2>2. /\ g = [k \in 0 .. MaxTurns |-> IF k = 0 THEN s ELSE F[<<k, g[k - 1]>>]]
        /\ \A k \in 0 .. MaxTurns : g[k] \in Q[k]
    BY ONLY <2>1 DEF IsCourse
  <2>3. \A k \in 0 .. MaxTurns : k # 0 => k \in 1 .. MaxTurns /\ k - 1 \in 0 .. MaxTurns
    BY ONLY <1>l1
  <2>4. g = [k \in 0 .. MaxTurns |-> IF k = 0 THEN s ELSE PastTurn(c, g[k - 1])]
    BY ONLY <1>l4, <2>2, <2>3
  <2> QED BY ONLY <1>l1, <2>4 DEF h
<1>l6. h[MaxTurns] \in Q[MaxTurns]
  <2>1. h[0] = s /\ \A k \in 1 .. MaxTurns : h[k] = PastTurn(c, h[k - 1])
    BY ONLY <1>l1, <1>l5
  <2>2. h[0] \in Q[0] /\ \A k \in 1 .. MaxTurns : h[k - 1] \in Q[k - 1] => h[k] \in Q[k]
    BY ONLY <1>l0, <1>l4, <2>1
  <2> QED BY ONLY <1>l1, <2>2, CourseStays
<1>l7. r = h[MaxTurns]
  BY DEF While, StepPast, PastTurn, h
<1>l8. r \in Q[MaxTurns]
  BY ONLY <1>l6, <1>l7
<1>l9. r \in Elsewhere(s) /\ Passing(r, v, x, c, MaxTurns)
  <2>1. MaxTurns \in 0 .. MaxTurns
    BY ONLY <1>l1
  <2> QED BY ONLY <1>l8, <2>1 DEF Q
<1>1. PICK i \in Int : r = Stood(s, i)
  BY <1>l9 DEF Elsewhere
<1>2. r.it = i
  BY <1>1, StoodIs
<1>3. Valid(i, v) /\ (Col(i, v) > c => Zeros(x, c + 1, Col(i, v))) /\ (Col(i, v) > c \/ Col(i, v) >= MaxTurns)
  BY <1>2, <1>l9 DEF Passing
<1>4. Col(i, v) \in 0 .. v.dim
  BY <1>3, Reads
<1>5. Col(i, v) > c
  BY <1>0, <1>3, <1>4, <1>l1
<1> QED BY <1>1, <1>3, <1>5

-----------------------------------------------------------------------------
(* A vector made and set.                                                  *)

Vecs == [type : VectorTypes, dim : Nat, nz : Int, data : Spaces \cup Seq(Cell) \cup UNION {[0 .. (d - 1) -> Int] : d \in Nat}]

LEMMA VecsAreAll ==
  ASSUME NEW v, Vec(v)
  PROVE  v \in Vecs
<1>1. v.data \in Spaces \cup Seq(Cell) \cup UNION {[0 .. (d - 1) -> Int] : d \in Nat}
  <2>1. CASE IsFull(v)
    BY <2>1, KindsDiffer DEF Vec
  <2>2. CASE IsArray(v)
    BY <2>2, KindsDiffer, SpacesAreAll DEF Vec
  <2>3. CASE IsList(v)
    BY <2>3, KindsDiffer DEF Vec
  <2> QED BY <2>1, <2>2, <2>3 DEF Vec
<1>2. v.type \in VectorTypes /\ v.dim \in Nat /\ v.nz \in Int
  BY DEF Vec, VectorTypes, IsFull, IsArray, IsList
<1>3. PICK t, d, nz, C : t = v.type /\ d = v.dim /\ nz = v.nz /\ C = v.data
  OBVIOUS
<1>4. v = [type |-> t, dim |-> d, nz |-> nz, data |-> C]
  BY <1>3 DEF Vec, IsVec
<1>5. PICK D : D = Spaces \cup Seq(Cell) \cup UNION {[0 .. (e - 1) -> Int] : e \in Nat}
  OBVIOUS
<1>6. v \in [type : VectorTypes, dim : Nat, nz : Int, data : D]
  BY ONLY <1>1, <1>2, <1>3, <1>4, <1>5
<1> QED BY ONLY <1>5, <1>6 DEF Vecs

MadeOf(n, x, type) == Upward(LAMBDA v, c : vector_set(v, c, x[c]), 0, n - 1, vector_make_size(n, type, 0))
Partly(v, x, type, n, k) == Holds(v, Wider(x, k, n)) /\ v.dim = n /\ v.type = type

LEMMA WiderStarts ==
  ASSUME NEW n \in Nat, NEW x
  PROVE  Wider(x, 0, n) = ZeroRow(n)
BY DEF Wider, ZeroRow

LEMMA WiderEnds ==
  ASSUME NEW n \in Nat, NEW x \in [0 .. (n - 1) -> Int]
  PROVE  Wider(x, n, n) = x
BY DEF Wider

LEMMA WiderGrows ==
  ASSUME NEW n \in Nat, NEW x \in [0 .. (n - 1) -> Int], NEW k \in 0 .. (n - 1)
  PROVE  With(Wider(x, k, n), k, x[k]) = Wider(x, k + 1, n)
<1>1. PICK y, z, d : y = Wider(x, k, n) /\ z = Wider(x, k + 1, n) /\ d = x[k]
  OBVIOUS
<1>2. y \in [0 .. (n - 1) -> Int] /\ z \in [0 .. (n - 1) -> Int] /\ d \in Int
  BY <1>1 DEF Wider
<1>3. With(y, k, d) \in [0 .. (n - 1) -> Int] /\ \A j \in 0 .. (n - 1) : With(y, k, d)[j] = IF j = k THEN d ELSE y[j]
  <2>1. n \in Int
    OBVIOUS
  <2> QED BY ONLY <1>2, <2>1, k \in 0 .. (n - 1) DEF With
<1>4. \A j \in 0 .. (n - 1) : With(y, k, d)[j] = z[j]
  <2>1. \A j \in 0 .. (n - 1) : y[j] = (IF j < k THEN x[j] ELSE 0) /\ z[j] = (IF j < k + 1 THEN x[j] ELSE 0)
    BY <1>1 DEF Wider
  <2>2. \A j \in 0 .. (n - 1) : (j < k + 1) <=> (j < k \/ j = k)
    OBVIOUS
  <2> QED BY <1>1, <1>3, <2>1, <2>2
<1> QED BY <1>1, <1>2, <1>3, <1>4

LEMMA MadeTurn ==
  ASSUME NEW n \in Nat, n <= MaxTurns, NEW x \in [0 .. (n - 1) -> Int], NEW type, NEW v, NEW k \in 0 .. (n - 1), Partly(v, x, type, n, k),
         NEW w, w = vector_set(v, k, x[k])
  PROVE  Partly(w, x, type, n, k + 1)
<1>1. x[k] \in Int
  OBVIOUS
<1>2. PICK y : y = Wider(x, k, n)
  OBVIOUS
<1>3. Holds(v, y) /\ v.dim = n
  BY <1>2 DEF Partly
<1>4. Holds(w, With(y, k, x[k])) /\ Like(w, v)
  BY <1>1, <1>3, SetHolds
<1> QED BY <1>2, <1>4, WiderGrows DEF Partly, Like

LEMMA MadeOfHolds ==
  ASSUME NEW n \in Nat, n <= MaxTurns, NEW x \in [0 .. (n - 1) -> Int], NEW type \in VectorTypes, NEW r, r = MadeOf(n, x, type)
  PROVE  Holds(r, x) /\ r.dim = n /\ r.type = type
<1> DEFINE s == vector_make_size(n, type, 0)
<1>0. Partly(s, x, type, n, 0)
  BY MakeHolds, WiderStarts DEF Partly
<1> HIDE DEF s
<1> DEFINE Q == [k \in 0 .. n |-> {t \in Vecs : Partly(t, x, type, n, k)}]
           F == [p \in (1 .. n) \X Vecs |-> vector_set(p[2], 0 + p[1] - 1, x[0 + p[1] - 1])]
           h == CHOOSE g : g = [k \in 0 .. (n - 1 - 0 + 1) |-> IF k = 0 THEN s ELSE vector_set(g[k - 1], 0 + k - 1, x[0 + k - 1])]
<1> HIDE DEF Q, F, h
<1>l1. /\ n \in Nat /\ n - 1 - 0 + 1 = n /\ (0 > n - 1 <=> n = 0)
       /\ 0 \in 0 .. n /\ \A k \in 1 .. n : k - 1 \in 0 .. n /\ k \in 0 .. n /\ k # 0
  OBVIOUS
<1>l2. s \in Vecs /\ Partly(s, x, type, n, 0)
  <2>1. Vec(s)
    BY <1>0 DEF Partly, Holds
  <2> QED BY <1>0, <2>1, VecsAreAll
<1>l3. ASSUME NEW k \in 1 .. n, NEW t \in Vecs, Partly(t, x, type, n, k - 1) PROVE vector_set(t, 0 + k - 1, x[0 + k - 1]) \in Vecs /\ Partly(vector_set(t, 0 + k - 1, x[0 + k - 1]), x, type, n, k)
  <2>1. k - 1 \in 0 .. (n - 1) /\ (k - 1) + 1 = k /\ 0 + k - 1 = k - 1
    OBVIOUS
  <2>2. PICK w, j : w = vector_set(t, j, x[j]) /\ j = k - 1
    OBVIOUS
  <2>3. Partly(w, x, type, n, k)
    BY ONLY <1>l3, <2>1, <2>2, n \in Nat, n <= MaxTurns, x \in [0 .. (n - 1) -> Int], MadeTurn
  <2>4. Vec(w)
    BY <2>3 DEF Partly, Holds
  <2> QED BY ONLY <2>1, <2>2, <2>3, <2>4, VecsAreAll
<1>l4. \A k \in 1 .. n : \A t \in Q[k - 1] : t \in Vecs /\ F[<<k, t>>] = vector_set(t, 0 + k - 1, x[0 + k - 1]) /\ F[<<k, t>>] \in Q[k]
  <2> SUFFICES ASSUME NEW k \in 1 .. n, NEW t \in Q[k - 1] PROVE t \in Vecs /\ F[<<k, t>>] = vector_set(t, 0 + k - 1, x[0 + k - 1]) /\ F[<<k, t>>] \in Q[k]
    OBVIOUS
  <2>1. t \in Vecs /\ Partly(t, x, type, n, k - 1)
    BY ONLY <1>l1, t \in Q[k - 1], k \in 1 .. n DEF Q
  <2>2. F[<<k, t>>] = vector_set(t, 0 + k - 1, x[0 + k - 1])
    BY ONLY <2>1, k \in 1 .. n DEF F
  <2>3. vector_set(t, 0 + k - 1, x[0 + k - 1]) \in Vecs /\ Partly(vector_set(t, 0 + k - 1, x[0 + k - 1]), x, type, n, k)
    BY ONLY <1>l3, <2>1, k \in 1 .. n
  <2>4. vector_set(t, 0 + k - 1, x[0 + k - 1]) \in Q[k]
    BY ONLY <1>l1, <2>3, k \in 1 .. n DEF Q
  <2> QED BY ONLY <2>1, <2>2, <2>4
<1>l0. s \in Q[0]
  BY ONLY <1>l1, <1>l2 DEF Q
<1>l5. h = [k \in 0 .. (n - 1 - 0 + 1) |-> IF k = 0 THEN s ELSE vector_set(h[k - 1], 0 + k - 1, x[0 + k - 1])]
  <2>1. PICK g : IsCourse(g, n, s, F, Q)
    BY ONLY <1>l1, <1>l0, <1>l4, LoopExists
  <2>2. /\ g = [k \in 0 .. n |-> IF k = 0 THEN s ELSE F[<<k, g[k - 1]>>]]
        /\ \A k \in 0 .. n : g[k] \in Q[k]
    BY ONLY <2>1 DEF IsCourse
  <2>3. \A k \in 0 .. n : k # 0 => k \in 1 .. n /\ k - 1 \in 0 .. n
    BY ONLY <1>l1
  <2>4. g = [k \in 0 .. n |-> IF k = 0 THEN s ELSE vector_set(g[k - 1], 0 + k - 1, x[0 + k - 1])]
    BY ONLY <1>l4, <2>2, <2>3
  <2> QED BY ONLY <1>l1, <2>4 DEF h
<1>l6. h[n] \in Q[n]
  <2>1. h[0] = s /\ \A k \in 1 .. n : h[k] = vector_set(h[k - 1], 0 + k - 1, x[0 + k - 1])
    BY ONLY <1>l1, <1>l5
  <2>2. h[0] \in Q[0] /\ \A k \in 1 .. n : h[k - 1] \in Q[k - 1] => h[k] \in Q[k]
    BY ONLY <1>l0, <1>l4, <2>1
  <2> QED BY ONLY <1>l1, <2>2, CourseStays
<1>l7. r = IF 0 > n - 1 THEN s ELSE h[n - 1 - 0 + 1]
  BY DEF Upward, MadeOf, s, h
<1>l8. r \in Q[n]
  BY ONLY <1>l0, <1>l1, <1>l6, <1>l7
<1>l9. r \in Vecs /\ Partly(r, x, type, n, n)
  <2>1. n \in 0 .. n
    BY ONLY <1>l1
  <2> QED BY ONLY <1>l8, <2>1 DEF Q
<1> QED BY <1>l9, WiderEnds DEF Partly

LEMMA MadeHolds ==
  ASSUME NEW n \in Nat, n <= MaxTurns, NEW x \in [0 .. (n - 1) -> Int], NEW type \in VectorTypes, NEW r, r = Made(x, type)
  PROVE  Holds(r, x) /\ r.dim = n /\ r.type = type
<1>1. DOMAIN x = 0 .. (n - 1) /\ Cardinality(0 .. (n - 1)) = n
  BY FS_Interval
<1>2. r = MadeOf(n, x, type)
  BY <1>1 DEF Made, MadeOf
<1> QED BY <1>2, MadeOfHolds

-----------------------------------------------------------------------------
(* A vector copied over another one.                                       *)

LEMMA NowIs ==
  ASSUME NEW s, IsWalk(s), NEW z, NEW t, t = Now(z, s)
  PROVE  /\ t.v = z.v /\ t.it = z.it
         /\ IsPair(s) => IsPair(t)
         /\ IsTriple(s) => IsTriple(t) /\ t.f = s.f
<1>1. PICK f, v, j, w, i : f = s.f /\ v = s.v /\ j = s.it /\ w = z.v /\ i = z.it
  OBVIOUS
<1>2. CASE s = [v |-> v, it |-> j]
  <2>1. t = [v |-> w, it |-> i]
    BY <1>1, <1>2 DEF Now
  <2>2. t.v = w /\ t.it = i
    BY ONLY <2>1
  <2>3. ~(s = [f |-> f, v |-> v, it |-> j])
    BY ONLY <1>2
  <2> QED BY ONLY <1>1, <2>1, <2>2, <2>3 DEF IsPair, IsTriple
<1>3. CASE s = [f |-> f, v |-> v, it |-> j]
  <2>1. t = [f |-> f, v |-> w, it |-> i]
    BY <1>1, <1>3 DEF Now
  <2>2. t.f = f /\ t.v = w /\ t.it = i
    BY ONLY <2>1
  <2>3. ~(s = [v |-> v, it |-> j])
    BY ONLY <1>3
  <2> QED BY ONLY <1>1, <2>1, <2>2, <2>3 DEF IsPair, IsTriple
<1> QED BY <1>1, <1>2, <1>3 DEF IsWalk, IsPair, IsTriple

LEMMA ValidInt ==
  ASSUME NEW v, NEW x, Holds(v, x), NEW i, Valid(i, v)
  PROVE  i \in Int
<1>1. IsArray(v) => i \in Int
  BY DEF Valid
<1>2. IsList(v) => i \in Int
  <2>1. IsList(v) => ~IsArray(v) /\ i \in 0 .. Len(v.data)
    BY KindsDiffer DEF Valid
  <2> QED BY <2>1
<1>3. IsFull(v) => i \in Int
  <2>1. IsFull(v) => i \in 0 .. v.dim
    BY KindsDiffer DEF Valid
  <2> QED BY <2>1
<1> QED BY <1>1, <1>2, <1>3 DEF Holds, Vec

LEMMA ZeroHereHolds ==
  ASSUME NEW s, IsWalk(s), NEW v, v = s.v, NEW x, Holds(v, x), NEW it, it = s.it, Valid(it, v), ~Over(it, v), NEW r, r = ZeroHere(s)
  PROVE  /\ IsPair(s) => IsPair(r)
         /\ IsTriple(s) => IsTriple(r) /\ r.f = s.f
         /\ Holds(r.v, With(x, Col(it, v), 0)) /\ Like(r.v, v) /\ Valid(r.it, r.v)
         /\ Col(r.it, r.v) > Col(it, v) /\ Zeros(x, Col(it, v) + 1, Col(r.it, r.v))
<1>1. PICK z : z = vectorit_zero_elt(it, v)
  OBVIOUS
<1>2. r = Now(z, s)
  BY <1>1 DEF ZeroHere
<1>3. /\ Holds(z.v, With(x, Col(it, v), 0)) /\ Like(z.v, v) /\ Valid(z.it, z.v)
      /\ Col(z.it, z.v) > Col(it, v) /\ Zeros(x, Col(it, v) + 1, Col(z.it, z.v))
  BY <1>1, ZeroEltHolds
<1> QED BY <1>2, <1>3, NowIs

\* The copy up to the iterator: what lies behind has been given its value, as
\* far as the walk of "from" has come.
CopiedTo(t, z, x, cf) ==
  /\ Holds(t.v, z)
  /\ \A j \in 0 .. (Col(t.it, t.v) - 1) : z[j] = IF j < cf THEN x[j] ELSE 0
  /\ Zeros(x, Col(t.it, t.v), cf)
Copying(t, from, x, to) ==
  /\ IsTriple(t) /\ Valid(t.f, from) /\ Like(t.v, to) /\ Valid(t.it, t.v)
  /\ \E z : CopiedTo(t, z, x, Col(t.f, from))
Copies == [f : Int, v : Vecs, it : Int]

LEMMA CopyingIn ==
  ASSUME NEW from, NEW x, Holds(from, x), NEW to, NEW t, Copying(t, from, x, to)
  PROVE  t \in Copies
<1>1. PICK z : Holds(t.v, z)
  BY DEF Copying, CopiedTo
<1>2. t.v \in Vecs /\ t.it \in Int /\ t.f \in Int
  BY <1>1, VecsAreAll, ValidInt DEF Copying, Holds
<1>3. PICK f, v, i : f = t.f /\ v = t.v /\ i = t.it
  OBVIOUS
<1>4. t = [f |-> f, v |-> v, it |-> i]
  BY <1>3 DEF Copying, IsTriple
<1> QED BY ONLY <1>2, <1>3, <1>4 DEF Copies

\* An element "from" does not have goes.
LEMMA CopyZero ==
  ASSUME NEW from, NEW x, Holds(from, x), NEW to, to.dim = from.dim, NEW t, Copying(t, from, x, to), NEW cf, cf = Col(t.f, from),
         Col(t.it, t.v) < cf, NEW r, r = ZeroHere(t)
  PROVE  Copying(r, from, x, to) /\ r.f = t.f /\ Col(r.it, r.v) > Col(t.it, t.v) /\ Col(r.it, r.v) <= from.dim
<1>1. PICK z : CopiedTo(t, z, x, cf)
  BY DEF Copying
<1>2. PICK v, it, q : v = t.v /\ it = t.it /\ q = Col(it, v)
  OBVIOUS
<1>3. Holds(v, z) /\ Valid(it, v) /\ IsWalk(t) /\ IsTriple(t) /\ v.dim = from.dim
  BY <1>1, <1>2 DEF Copying, CopiedTo, IsWalk, Like
<1>4. cf \in 0 .. from.dim /\ from.dim \in Nat /\ q \in 0 .. from.dim /\ (Over(it, v) <=> q = from.dim)
  <2>1. cf \in 0 .. from.dim /\ from.dim \in Nat
    BY Reads DEF Copying
  <2> QED BY <1>2, <1>3, <2>1, Reads
<1>5. ~Over(it, v)
  BY <1>2, <1>4
<1>6. /\ IsTriple(r) /\ r.f = t.f /\ Holds(r.v, With(z, q, 0)) /\ Like(r.v, v) /\ Valid(r.it, r.v)
      /\ Col(r.it, r.v) > q /\ Zeros(z, q + 1, Col(r.it, r.v))
  BY <1>2, <1>3, <1>5, ZeroHereHolds
<1>7. PICK y, p : y = With(z, q, 0) /\ p = Col(r.it, r.v)
  OBVIOUS
<1>8. p \in 0 .. from.dim /\ p > q
  <2>1. r.v.dim = from.dim
    BY <1>3, <1>6 DEF Like
  <2> QED BY <1>6, <1>7, <2>1, Reads
<1>9. z \in [0 .. (from.dim - 1) -> Int] /\ q \in 0 .. (from.dim - 1)
  BY <1>2, <1>3, <1>4 DEF Holds
<1>10. y[q] = 0 /\ \A j \in 0 .. (from.dim - 1) : j # q => y[j] = z[j]
  BY ONLY <1>4, <1>7, <1>9 DEF With
<1>11. \A j \in 0 .. (p - 1) : y[j] = IF j < cf THEN x[j] ELSE 0
  <2> SUFFICES ASSUME NEW j \in 0 .. (p - 1) PROVE y[j] = IF j < cf THEN x[j] ELSE 0
    OBVIOUS
  <2>0. j \in 0 .. (from.dim - 1) /\ (\A i \in q .. (cf - 1) : x[i] = 0)
    BY <1>1, <1>2, <1>4, <1>8 DEF CopiedTo, Zeros
  <2>1. CASE j < q
    <3>1. z[j] = IF j < cf THEN x[j] ELSE 0
      BY <1>1, <1>2, <1>4, <2>1 DEF CopiedTo
    <3>2. y[j] = z[j]
      BY <1>4, <1>10, <2>0, <2>1
    <3> QED BY <3>1, <3>2
  <2>2. CASE j = q
    <3>1. x[j] = 0
      BY <1>2, <1>4, <2>0, <2>2
    <3> QED BY <1>10, <2>2, <3>1
  <2>3. CASE j > q
    <3>1. j \in (q + 1) .. (p - 1)
      BY <1>4, <1>8, <2>3
    <3>2. z[j] = 0
      BY <1>6, <1>7, <3>1 DEF Zeros
    <3>3. y[j] = 0
      BY <1>4, <1>10, <2>0, <2>3, <3>2
    <3>4. j < cf => x[j] = 0
      BY <1>4, <2>0, <2>3
    <3> QED BY <3>3, <3>4
  <2> QED BY <1>4, <2>1, <2>2, <2>3
<1>12. Zeros(x, p, cf)
  BY <1>1, <1>2, <1>4, <1>8 DEF CopiedTo, Zeros
<1>13. CopiedTo(r, y, x, cf)
  BY <1>6, <1>7, <1>11, <1>12 DEF CopiedTo
<1>14. Like(r.v, to)
  BY <1>2, <1>6 DEF Copying, Like
<1> QED BY <1>2, <1>6, <1>7, <1>8, <1>13, <1>14 DEF Copying

\* An element "from" has goes over.
FromNext(g, from) == [g EXCEPT !.f = Step(@, from)]

LEMMA CopyPut ==
  ASSUME NEW from, NEW x, Holds(from, x), from.dim <= MaxTurns, NEW to, to.dim = from.dim, NEW t, Copying(t, from, x, to),
         NEW c, c = Col(t.f, from), c < from.dim, Col(t.it, t.v) >= c,
         NEW g, g = StepPast(c, PutHere(c, Val(t.f, from), t)), NEW r, r = FromNext(g, from)
  PROVE  Copying(r, from, x, to) /\ Col(r.f, from) > c /\ Col(r.it, r.v) > c
<1>1. PICK z : CopiedTo(t, z, x, c)
  BY DEF Copying
<1>2. PICK v, it, q, d : v = t.v /\ it = t.it /\ q = Col(it, v) /\ d = Val(t.f, from)
  OBVIOUS
<1>3. Holds(v, z) /\ Valid(it, v) /\ IsWalk(t) /\ IsTriple(t) /\ v.dim = from.dim
  BY <1>1, <1>2 DEF Copying, CopiedTo, IsWalk, Like
<1>4. /\ c \in 0 .. (from.dim - 1) /\ from.dim \in Nat /\ q \in 0 .. from.dim /\ (Over(it, v) <=> q = from.dim) /\ ~Over(t.f, from)
      /\ d = x[c] /\ x \in [0 .. (from.dim - 1) -> Int] /\ d \in Int /\ z \in [0 .. (from.dim - 1) -> Int]
  <2>1. c \in 0 .. from.dim /\ from.dim \in Nat /\ (Over(t.f, from) <=> c = from.dim)
    BY Reads DEF Copying
  <2>2. ~Over(t.f, from)
    BY <2>1
  <2>3. d = x[c] /\ c \in 0 .. (from.dim - 1)
    BY <1>2, <2>2, Reads DEF Copying
  <2>4. x \in [0 .. (from.dim - 1) -> Int] /\ z \in [0 .. (from.dim - 1) -> Int]
    BY <1>3 DEF Holds
  <2>5. q \in 0 .. from.dim /\ (Over(it, v) <=> q = from.dim)
    BY <1>2, <1>3, Reads
  <2> QED BY <2>1, <2>2, <2>3, <2>4, <2>5
<1>5. Over(it, v) => Zeros(z, c, v.dim)
  <2> SUFFICES ASSUME Over(it, v), NEW j \in c .. (v.dim - 1) PROVE z[j] = 0
    BY DEF Zeros
  <2>1. j \in 0 .. (Col(t.it, t.v) - 1) /\ ~(j < c)
    BY <1>2, <1>3, <1>4
  <2> QED BY <1>1, <2>1 DEF CopiedTo
<1>6. PICK e : e = vectorit_insert(it, c, d, v)
  OBVIOUS
<1>7. Put(e, v, z, c, d)
  BY <1>3, <1>4, <1>5, <1>6, PutHolds
<1>8. PICK p : p = Now(e, t)
  OBVIOUS
<1>9. g = StepPast(c, p)
  BY <1>2, <1>6, <1>8 DEF PutHere
<1>10. IsTriple(p) /\ p.f = t.f /\ p.v = e.v /\ p.it = e.it /\ IsWalk(p)
  BY <1>3, <1>8, NowIs DEF IsWalk
<1>11. PICK y : y = With(z, c, d)
  OBVIOUS
<1>12. Holds(e.v, y) /\ Like(e.v, v) /\ Valid(e.it, e.v) /\ (Col(e.it, e.v) > c => Zeros(z, c + 1, Col(e.it, e.v))) /\ e.it \in Int
  <2>1. Holds(e.v, y) /\ Valid(e.it, e.v)
    BY <1>7, <1>11 DEF Put
  <2> QED BY <1>7, <2>1, ValidInt DEF Put
<1>13. y[c] = d /\ \A j \in 0 .. (from.dim - 1) : j # c => y[j] = z[j]
  BY ONLY <1>4, <1>11 DEF With
<1>14. Col(e.it, e.v) > c => Zeros(y, c + 1, Col(e.it, e.v))
  <2> SUFFICES ASSUME Col(e.it, e.v) > c, NEW j \in (c + 1) .. (Col(e.it, e.v) - 1) PROVE y[j] = 0
    BY DEF Zeros
  <2>1. Col(e.it, e.v) \in 0 .. from.dim
    BY <1>3, <1>12, Reads DEF Like
  <2>2. j \in 0 .. (from.dim - 1) /\ j # c
    BY <1>4, <2>1
  <2> QED BY <1>12, <1>13, <2>2 DEF Zeros
<1>15. PICK i \in Int : g = Stood(p, i) /\ Valid(i, e.v) /\ Col(i, e.v) > c /\ Zeros(y, c + 1, Col(i, e.v))
  <2>1. e.v.dim <= MaxTurns /\ c < e.v.dim /\ c \in Int
    BY <1>3, <1>4, <1>12 DEF Like
  <2> QED BY <1>9, <1>10, <1>12, <1>14, <2>1, StepPastIs
<1>16. IsTriple(g) /\ g.f = t.f /\ g.v = e.v /\ g.it = i
  BY <1>10, <1>15, StoodIs
<1>17. PICK n : n = Step(t.f, from)
  OBVIOUS
<1>18. IsTriple(r) /\ r.f = n /\ r.v = e.v /\ r.it = i
  <2>1. PICK f, w : f = t.f /\ w = e.v
    OBVIOUS
  <2>2. g = [f |-> f, v |-> w, it |-> i]
    BY <1>16, <2>1 DEF IsTriple
  <2>3. r = [f |-> n, v |-> w, it |-> i]
    BY <1>17, <2>1, <2>2 DEF FromNext
  <2>4. r.f = n /\ r.v = w /\ r.it = i
    BY ONLY <2>3
  <2> QED BY <2>1, <2>3, <2>4 DEF IsTriple
<1>19. PICK cn, ci : cn = Col(n, from) /\ ci = Col(i, e.v)
  OBVIOUS
<1>20. Valid(n, from) /\ cn > c /\ Zeros(x, c + 1, cn) /\ cn \in 0 .. from.dim
  <2>1. Valid(n, from) /\ cn > c /\ Zeros(x, c + 1, cn)
    BY <1>4, <1>17, <1>19, Steps DEF Copying
  <2> QED BY <1>19, <2>1, Reads
<1>21. ci \in 0 .. from.dim /\ ci > c
  BY <1>3, <1>12, <1>15, <1>19, Reads DEF Like
<1>22. \A j \in 0 .. (ci - 1) : y[j] = IF j < cn THEN x[j] ELSE 0
  <2> SUFFICES ASSUME NEW j \in 0 .. (ci - 1) PROVE y[j] = IF j < cn THEN x[j] ELSE 0
    OBVIOUS
  <2>0. j \in 0 .. (from.dim - 1)
    BY <1>4, <1>21
  <2>1. CASE j < c
    <3>1. j \in 0 .. (Col(t.it, t.v) - 1)
      BY <1>2, <1>4, <2>1
    <3>2. z[j] = x[j]
      BY <1>1, <2>1, <3>1 DEF CopiedTo
    <3>3. y[j] = z[j] /\ j < cn
      BY <1>4, <1>13, <1>20, <2>0, <2>1
    <3> QED BY <3>2, <3>3
  <2>2. CASE j = c
    BY <1>4, <1>13, <1>20, <2>2
  <2>3. CASE j > c
    <3>1. j \in (c + 1) .. (ci - 1) /\ (j < cn => j \in (c + 1) .. (cn - 1))
      BY <1>4, <1>20, <1>21, <2>3
    <3>2. y[j] = 0 /\ (j < cn => x[j] = 0)
      BY <1>15, <1>19, <1>20, <3>1 DEF Zeros
    <3> QED BY <3>2
  <2> QED BY <1>4, <2>1, <2>2, <2>3
<1>23. Zeros(x, ci, cn)
  BY <1>4, <1>20, <1>21 DEF Zeros
<1>24. CopiedTo(r, y, x, cn)
  BY <1>12, <1>18, <1>19, <1>22, <1>23 DEF CopiedTo
<1>25. Like(r.v, to)
  BY <1>2, <1>12, <1>18 DEF Copying, Like
<1> QED BY <1>15, <1>18, <1>19, <1>20, <1>21, <1>24, <1>25 DEF Copying

CopyTurns(from, to, t) == IF ~Over(t.f, from) /\ Col(t.f, from) < to.dim THEN CopyTurn(from, t) ELSE t
CopyAll(from, to, s) == While(LAMBDA u : ~Over(u.f, from) /\ Col(u.f, from) < to.dim, LAMBDA u : CopyTurn(from, u), s)
CopyingAt(t, from, x, to, k) ==
  /\ Copying(t, from, x, to)
  /\ Col(t.f, from) = from.dim \/ (2 * Col(t.f, from) >= k /\ Col(t.f, from) + Col(t.it, t.v) >= k)

LEMMA CopyingCols ==
  ASSUME NEW from, NEW x, Holds(from, x), NEW to, to.dim = from.dim, NEW t, Copying(t, from, x, to)
  PROVE  /\ from.dim \in Nat /\ Col(t.f, from) \in 0 .. from.dim /\ (Over(t.f, from) <=> Col(t.f, from) = from.dim)
         /\ Col(t.it, t.v) \in 0 .. from.dim /\ (Over(t.it, t.v) <=> Col(t.it, t.v) = from.dim)
<1>1. from.dim \in Nat /\ Col(t.f, from) \in 0 .. from.dim /\ (Over(t.f, from) <=> Col(t.f, from) = from.dim)
  BY Reads DEF Copying
<1>2. PICK z : Holds(t.v, z)
  BY DEF Copying, CopiedTo
<1>3. t.v.dim = from.dim /\ Valid(t.it, t.v)
  BY DEF Copying, Like
<1> QED BY <1>1, <1>2, <1>3, Reads

LEMMA CopyTurnIs ==
  ASSUME NEW from, NEW x, Holds(from, x), from.dim <= MaxTurns, NEW to, to.dim = from.dim, NEW k \in Nat, NEW t, CopyingAt(t, from, x, to, k),
         NEW r, r = CopyTurns(from, to, t)
  PROVE  CopyingAt(r, from, x, to, k + 1)
<1>1. Copying(t, from, x, to)
  BY DEF CopyingAt
<1>2. PICK c, q : c = Col(t.f, from) /\ q = Col(t.it, t.v)
  OBVIOUS
<1>3. from.dim \in Nat /\ c \in 0 .. from.dim /\ (Over(t.f, from) <=> c = from.dim) /\ q \in 0 .. from.dim
  BY <1>1, <1>2, CopyingCols
<1>4. CASE c = from.dim
  <2>1. r = t
    BY <1>3, <1>4 DEF CopyTurns
  <2> QED BY <1>1, <1>2, <1>4, <2>1 DEF CopyingAt
<1>5. CASE c < from.dim
  <2>0. r = CopyTurn(from, t) /\ 2 * c >= k /\ c + q >= k
    <3>1. c # from.dim
      BY <1>3, <1>5
    <3> QED BY <1>2, <1>3, <1>5, <3>1 DEF CopyTurns, CopyingAt
  <2>1. CASE q < c
    <3>1. r = ZeroHere(t)
      BY <1>2, <2>0, <2>1 DEF CopyTurn
    <3>2. Copying(r, from, x, to) /\ r.f = t.f /\ Col(r.it, r.v) > q
      BY <1>1, <1>2, <2>1, <3>1, CopyZero
    <3>3. Col(r.it, r.v) \in 0 .. from.dim
      BY <3>2, CopyingCols
    <3>4. 2 * c >= k + 1 /\ c + Col(r.it, r.v) >= k + 1
      BY <1>3, <2>0, <2>1, <3>2, <3>3
    <3> QED BY <1>2, <3>2, <3>4 DEF CopyingAt
  <2>2. CASE q >= c
    <3>1. PICK g : g = StepPast(c, PutHere(c, Val(t.f, from), t))
      OBVIOUS
    <3>2. r = FromNext(g, from)
      <4>1. ~(q < c)
        BY <1>3, <2>2
      <4> QED BY <1>2, <2>0, <3>1, <4>1 DEF CopyTurn, FromNext
    <3>3. Copying(r, from, x, to) /\ Col(r.f, from) > c /\ Col(r.it, r.v) > c
      BY <1>1, <1>2, <1>5, <2>2, <3>1, <3>2, CopyPut
    <3>4. Col(r.f, from) \in 0 .. from.dim /\ Col(r.it, r.v) \in 0 .. from.dim
      BY <3>3, CopyingCols
    <3>5. 2 * Col(r.f, from) >= k + 1 /\ Col(r.f, from) + Col(r.it, r.v) >= k + 1
      BY <1>3, <2>0, <3>3, <3>4
    <3> QED BY <3>3, <3>5 DEF CopyingAt
  <2> QED BY <1>3, <2>1, <2>2
<1> QED BY <1>3, <1>4, <1>5

LEMMA CopyAllIs ==
  ASSUME NEW from, NEW x, Holds(from, x), 2 * from.dim <= MaxTurns, NEW to, to.dim = from.dim, NEW s, Copying(s, from, x, to),
         NEW r, r = CopyAll(from, to, s)
  PROVE  Copying(r, from, x, to) /\ Col(r.f, from) = from.dim
<1>0. from.dim \in Nat /\ Col(s.f, from) \in 0 .. from.dim /\ Col(s.it, s.v) \in 0 .. from.dim /\ from.dim <= MaxTurns
  BY CopyingCols, TurnsAssumption
<1> DEFINE Q == [k \in 0 .. MaxTurns |-> {t \in Copies : CopyingAt(t, from, x, to, k)}]
           F == [p \in (1 .. MaxTurns) \X Copies |-> CopyTurns(from, to, p[2])]
           h == CHOOSE g : g = [k \in 0 .. MaxTurns |-> IF k = 0 THEN s ELSE CopyTurns(from, to, g[k - 1])]
<1> HIDE DEF Q, F, h
<1>l1. MaxTurns \in Nat /\ 0 \in 0 .. MaxTurns /\ \A k \in 1 .. MaxTurns : k - 1 \in 0 .. MaxTurns /\ k \in 0 .. MaxTurns /\ k # 0
  BY TurnsAssumption
<1>l2. s \in Copies /\ CopyingAt(s, from, x, to, 0)
  BY <1>0, CopyingIn DEF CopyingAt
<1>l3. ASSUME NEW k \in 1 .. MaxTurns, NEW t \in Copies, CopyingAt(t, from, x, to, k - 1) PROVE CopyTurns(from, to, t) \in Copies /\ CopyingAt(CopyTurns(from, to, t), from, x, to, k)
  <2>1. k - 1 \in Nat /\ (k - 1) + 1 = k
    OBVIOUS
  <2>2. PICK w : w = CopyTurns(from, to, t)
    OBVIOUS
  <2>3. CopyingAt(w, from, x, to, k)
    BY <1>0, <1>l3, <2>1, <2>2, CopyTurnIs
  <2>4. w \in Copies
    BY <2>3, CopyingIn DEF CopyingAt
  <2> QED BY <2>2, <2>3, <2>4
<1>l4. \A k \in 1 .. MaxTurns : \A t \in Q[k - 1] : t \in Copies /\ F[<<k, t>>] = CopyTurns(from, to, t) /\ F[<<k, t>>] \in Q[k]
  <2> SUFFICES ASSUME NEW k \in 1 .. MaxTurns, NEW t \in Q[k - 1] PROVE t \in Copies /\ F[<<k, t>>] = CopyTurns(from, to, t) /\ F[<<k, t>>] \in Q[k]
    OBVIOUS
  <2>1. t \in Copies /\ CopyingAt(t, from, x, to, k - 1)
    BY ONLY <1>l1, t \in Q[k - 1], k \in 1 .. MaxTurns DEF Q
  <2>2. F[<<k, t>>] = CopyTurns(from, to, t)
    BY ONLY <2>1, k \in 1 .. MaxTurns DEF F
  <2>3. CopyTurns(from, to, t) \in Copies /\ CopyingAt(CopyTurns(from, to, t), from, x, to, k)
    BY ONLY <1>l3, <2>1, k \in 1 .. MaxTurns
  <2>4. CopyTurns(from, to, t) \in Q[k]
    BY ONLY <1>l1, <2>3, k \in 1 .. MaxTurns DEF Q
  <2> QED BY ONLY <2>1, <2>2, <2>4
<1>l0. s \in Q[0]
  BY ONLY <1>l1, <1>l2 DEF Q
<1>l5. h = [k \in 0 .. MaxTurns |-> IF k = 0 THEN s ELSE CopyTurns(from, to, h[k - 1])]
  <2>1. PICK g : IsCourse(g, MaxTurns, s, F, Q)
    BY ONLY <1>l1, <1>l0, <1>l4, LoopExists
  <2>2. /\ g = [k \in 0 .. MaxTurns |-> IF k = 0 THEN s ELSE F[<<k, g[k - 1]>>]]
        /\ \A k \in 0 .. MaxTurns : g[k] \in Q[k]
    BY ONLY <2>1 DEF IsCourse
  <2>3. \A k \in 0 .. MaxTurns : k # 0 => k \in 1 .. MaxTurns /\ k - 1 \in 0 .. MaxTurns
    BY ONLY <1>l1
  <2>4. g = [k \in 0 .. MaxTurns |-> IF k = 0 THEN s ELSE CopyTurns(from, to, g[k - 1])]
    BY ONLY <1>l4, <2>2, <2>3
  <2> QED BY ONLY <1>l1, <2>4 DEF h
<1>l6. h[MaxTurns] \in Q[MaxTurns]
  <2>1. h[0] = s /\ \A k \in 1 .. MaxTurns : h[k] = CopyTurns(from, to, h[k - 1])
    BY ONLY <1>l1, <1>l5
  <2>2. h[0] \in Q[0] /\ \A k \in 1 .. MaxTurns : h[k - 1] \in Q[k - 1] => h[k] \in Q[k]
    BY ONLY <1>l0, <1>l4, <2>1
  <2> QED BY ONLY <1>l1, <2>2, CourseStays
<1>l7. r = h[MaxTurns]
  BY DEF While, CopyAll, CopyTurns, h
<1>l8. r \in Q[MaxTurns]
  BY ONLY <1>l6, <1>l7
<1>l9. r \in Copies /\ CopyingAt(r, from, x, to, MaxTurns)
  <2>1. MaxTurns \in 0 .. MaxTurns
    BY ONLY <1>l1
  <2> QED BY ONLY <1>l8, <2>1 DEF Q
<1>1. Copying(r, from, x, to) /\ Col(r.f, from) \in 0 .. from.dim
  BY <1>l9, CopyingCols DEF CopyingAt
<1>2. Col(r.f, from) = from.dim \/ 2 * Col(r.f, from) >= MaxTurns
  BY <1>l9 DEF CopyingAt
<1> QED BY <1>0, <1>1, <1>2, <1>l1

RestTurn(t) == IF ~Over(t.it, t.v) THEN ZeroHere(t) ELSE t
EmptyRest(s) == While(LAMBDA u : ~Over(u.it, u.v), ZeroHere, s)
RestingAt(t, from, x, to, k) ==
  Copying(t, from, x, to) /\ Col(t.f, from) = from.dim /\ (Col(t.it, t.v) = from.dim \/ Col(t.it, t.v) >= k)

LEMMA RestTurnIs ==
  ASSUME NEW from, NEW x, Holds(from, x), NEW to, to.dim = from.dim, NEW k \in Nat, NEW t, RestingAt(t, from, x, to, k),
         NEW r, r = RestTurn(t)
  PROVE  RestingAt(r, from, x, to, k + 1)
<1>1. Copying(t, from, x, to) /\ Col(t.f, from) = from.dim
  BY DEF RestingAt
<1>2. from.dim \in Nat /\ Col(t.it, t.v) \in 0 .. from.dim /\ (Over(t.it, t.v) <=> Col(t.it, t.v) = from.dim)
  BY <1>1, CopyingCols
<1>3. CASE Over(t.it, t.v)
  BY <1>2, <1>3 DEF RestTurn, RestingAt
<1>4. CASE ~Over(t.it, t.v)
  <2>1. r = ZeroHere(t) /\ Col(t.it, t.v) < Col(t.f, from)
    BY <1>1, <1>2, <1>4 DEF RestTurn
  <2>2. Copying(r, from, x, to) /\ r.f = t.f /\ Col(r.it, r.v) > Col(t.it, t.v)
    BY <1>1, <2>1, CopyZero
  <2>3. Col(r.it, r.v) \in 0 .. from.dim
    BY <2>2, CopyingCols
  <2>4. Col(r.it, r.v) >= k + 1
    BY <1>2, <1>4, <2>2, <2>3 DEF RestingAt
  <2> QED BY <1>1, <2>2, <2>4 DEF RestingAt
<1> QED BY <1>3, <1>4

LEMMA EmptyRestIs ==
  ASSUME NEW from, NEW x, Holds(from, x), from.dim <= MaxTurns, NEW to, to.dim = from.dim, NEW s, Copying(s, from, x, to),
         Col(s.f, from) = from.dim, NEW r, r = EmptyRest(s)
  PROVE  Holds(r.v, x) /\ Like(r.v, to)
<1>0. from.dim \in Nat /\ Col(s.it, s.v) \in 0 .. from.dim
  BY CopyingCols
<1> DEFINE Q == [k \in 0 .. MaxTurns |-> {t \in Copies : RestingAt(t, from, x, to, k)}]
           F == [p \in (1 .. MaxTurns) \X Copies |-> RestTurn(p[2])]
           h == CHOOSE g : g = [k \in 0 .. MaxTurns |-> IF k = 0 THEN s ELSE RestTurn(g[k - 1])]
<1> HIDE DEF Q, F, h
<1>l1. MaxTurns \in Nat /\ 0 \in 0 .. MaxTurns /\ \A k \in 1 .. MaxTurns : k - 1 \in 0 .. MaxTurns /\ k \in 0 .. MaxTurns /\ k # 0
  BY TurnsAssumption
<1>l2. s \in Copies /\ RestingAt(s, from, x, to, 0)
  BY <1>0, CopyingIn DEF RestingAt
<1>l3. ASSUME NEW k \in 1 .. MaxTurns, NEW t \in Copies, RestingAt(t, from, x, to, k - 1) PROVE RestTurn(t) \in Copies /\ RestingAt(RestTurn(t), from, x, to, k)
  <2>1. k - 1 \in Nat /\ (k - 1) + 1 = k
    OBVIOUS
  <2>2. PICK w : w = RestTurn(t)
    OBVIOUS
  <2>3. RestingAt(w, from, x, to, k)
    BY <1>0, <1>l3, <2>1, <2>2, RestTurnIs
  <2>4. w \in Copies
    BY <2>3, CopyingIn DEF RestingAt
  <2> QED BY <2>2, <2>3, <2>4
<1>l4. \A k \in 1 .. MaxTurns : \A t \in Q[k - 1] : t \in Copies /\ F[<<k, t>>] = RestTurn(t) /\ F[<<k, t>>] \in Q[k]
  <2> SUFFICES ASSUME NEW k \in 1 .. MaxTurns, NEW t \in Q[k - 1] PROVE t \in Copies /\ F[<<k, t>>] = RestTurn(t) /\ F[<<k, t>>] \in Q[k]
    OBVIOUS
  <2>1. t \in Copies /\ RestingAt(t, from, x, to, k - 1)
    BY ONLY <1>l1, t \in Q[k - 1], k \in 1 .. MaxTurns DEF Q
  <2>2. F[<<k, t>>] = RestTurn(t)
    BY ONLY <2>1, k \in 1 .. MaxTurns DEF F
  <2>3. RestTurn(t) \in Copies /\ RestingAt(RestTurn(t), from, x, to, k)
    BY ONLY <1>l3, <2>1, k \in 1 .. MaxTurns
  <2>4. RestTurn(t) \in Q[k]
    BY ONLY <1>l1, <2>3, k \in 1 .. MaxTurns DEF Q
  <2> QED BY ONLY <2>1, <2>2, <2>4
<1>l0. s \in Q[0]
  BY ONLY <1>l1, <1>l2 DEF Q
<1>l5. h = [k \in 0 .. MaxTurns |-> IF k = 0 THEN s ELSE RestTurn(h[k - 1])]
  <2>1. PICK g : IsCourse(g, MaxTurns, s, F, Q)
    BY ONLY <1>l1, <1>l0, <1>l4, LoopExists
  <2>2. /\ g = [k \in 0 .. MaxTurns |-> IF k = 0 THEN s ELSE F[<<k, g[k - 1]>>]]
        /\ \A k \in 0 .. MaxTurns : g[k] \in Q[k]
    BY ONLY <2>1 DEF IsCourse
  <2>3. \A k \in 0 .. MaxTurns : k # 0 => k \in 1 .. MaxTurns /\ k - 1 \in 0 .. MaxTurns
    BY ONLY <1>l1
  <2>4. g = [k \in 0 .. MaxTurns |-> IF k = 0 THEN s ELSE RestTurn(g[k - 1])]
    BY ONLY <1>l4, <2>2, <2>3
  <2> QED BY ONLY <1>l1, <2>4 DEF h
<1>l6. h[MaxTurns] \in Q[MaxTurns]
  <2>1. h[0] = s /\ \A k \in 1 .. MaxTurns : h[k] = RestTurn(h[k - 1])
    BY ONLY <1>l1, <1>l5
  <2>2. h[0] \in Q[0] /\ \A k \in 1 .. MaxTurns : h[k - 1] \in Q[k - 1] => h[k] \in Q[k]
    BY ONLY <1>l0, <1>l4, <2>1
  <2> QED BY ONLY <1>l1, <2>2, CourseStays
<1>l7. r = h[MaxTurns]
  BY DEF While, EmptyRest, RestTurn, h
<1>l8. r \in Q[MaxTurns]
  BY ONLY <1>l6, <1>l7
<1>l9. r \in Copies /\ RestingAt(r, from, x, to, MaxTurns)
  <2>1. MaxTurns \in 0 .. MaxTurns
    BY ONLY <1>l1
  <2> QED BY ONLY <1>l8, <2>1 DEF Q
<1>1. Copying(r, from, x, to) /\ Col(r.f, from) = from.dim /\ Col(r.it, r.v) \in 0 .. from.dim
  BY <1>l9, CopyingCols DEF RestingAt
<1>2. Col(r.it, r.v) = from.dim
  BY <1>0, <1>1, <1>l1, <1>l9 DEF RestingAt
<1>3. PICK z : CopiedTo(r, z, x, from.dim)
  BY <1>1 DEF Copying
<1>4. r.v.dim = from.dim
  BY <1>1 DEF Copying, Like
<1>5. z \in [0 .. (from.dim - 1) -> Int] /\ x \in [0 .. (from.dim - 1) -> Int]
  BY <1>3, <1>4 DEF CopiedTo, Holds
<1>6. \A j \in 0 .. (from.dim - 1) : z[j] = x[j]
  BY <1>0, <1>2, <1>3 DEF CopiedTo
<1>7. z = x
  <2>1. PICK D : D = 0 .. (from.dim - 1)
    OBVIOUS
  <2>2. z \in [D -> Int] /\ x \in [D -> Int] /\ \A j \in D : z[j] = x[j]
    BY ONLY <1>5, <1>6, <2>1
  <2> QED BY ONLY <2>2
<1> QED BY <1>1, <1>3, <1>7 DEF Copying, CopiedTo

\* to := from means what from meant.
LEMMA CopyHolds ==
  ASSUME NEW from, NEW x, Holds(from, x), 2 * from.dim <= MaxTurns, NEW to, NEW y, Holds(to, y), to.dim = from.dim,
         NEW r, r = vector_copy(from, to)
  PROVE  Holds(r, x) /\ Like(r, to)
<1>0. from.dim \in Nat /\ from.dim <= MaxTurns
  BY TurnsAssumption DEF Holds, Vec
<1>1. PICK v, f, it : v = EmptyFirst(to, TRUE) /\ f = vectorit_set_at_beg(from) /\ it = vectorit_set_at_beg(v)
  OBVIOUS
<1>2. PICK z : Holds(v, z) /\ Like(v, to)
  BY <1>1, EmptyFirstHolds
<1>3. PICK s : s = [f |-> f, v |-> v, it |-> it]
  OBVIOUS
<1>4. s.f = f /\ s.v = v /\ s.it = it /\ IsTriple(s)
  <2>1. s.f = f /\ s.v = v /\ s.it = it
    BY ONLY <1>3
  <2> QED BY <1>3, <2>1 DEF IsTriple
<1>5. s = CopyStart(from, v)
  BY <1>1, <1>3 DEF CopyStart
<1>6. Valid(f, from) /\ Zeros(x, 0, Col(f, from)) /\ Valid(it, v) /\ Zeros(z, 0, Col(it, v))
  BY <1>1, <1>2, Starts
<1>7. Copying(s, from, x, to)
  <2>1. \A j \in 0 .. (Col(it, v) - 1) : z[j] = IF j < Col(f, from) THEN x[j] ELSE 0
    <3> SUFFICES ASSUME NEW j \in 0 .. (Col(it, v) - 1) PROVE z[j] = IF j < Col(f, from) THEN x[j] ELSE 0
      OBVIOUS
    <3>1. Col(f, from) \in 0 .. from.dim
      BY <1>6, Reads
    <3>2. j < Col(f, from) => j \in 0 .. (Col(f, from) - 1)
      BY <3>1
    <3>3. z[j] = 0 /\ (j < Col(f, from) => x[j] = 0)
      BY <1>6, <3>2 DEF Zeros
    <3> QED BY <3>3
  <2>2. Zeros(x, Col(it, v), Col(f, from))
    <3>1. Col(it, v) \in 0 .. v.dim /\ v.dim \in Nat
      BY <1>2, <1>6, Reads
    <3>2. Col(f, from) \in 0 .. from.dim
      BY <1>6, Reads
    <3> QED BY <1>6, <3>1, <3>2 DEF Zeros
  <2>3. CopiedTo(s, z, x, Col(f, from))
    BY <1>2, <1>4, <2>1, <2>2 DEF CopiedTo
  <2> QED BY <1>2, <1>4, <1>6, <2>3 DEF Copying
<1>8. PICK a : a = CopyAll(from, to, s)
  OBVIOUS
<1>9. Copying(a, from, x, to) /\ Col(a.f, from) = from.dim
  BY <1>7, <1>8, CopyAllIs
<1>10. PICK b : b = EmptyRest(a)
  OBVIOUS
<1>11. Holds(b.v, x) /\ Like(b.v, to)
  BY <1>0, <1>9, <1>10, EmptyRestIs
<1>12. r = b.v
  BY <1>1, <1>5, <1>8, <1>10 DEF vector_copy, CopyAll, EmptyRest
<1> QED BY <1>11, <1>12

-----------------------------------------------------------------------------
(* Columns renumbered.                                                     *)

Carrying(s, w) == [s EXCEPT !.v = w]

LEMMA CarryingIs ==
  ASSUME NEW s, IsPair(s), NEW w, NEW t, t = Carrying(s, w)
  PROVE  IsPair(t) /\ t.v = w /\ t.it = s.it
<1>1. PICK v, j : v = s.v /\ j = s.it
  OBVIOUS
<1>2. s = [v |-> v, it |-> j]
  BY <1>1 DEF IsPair
<1>3. t = [v |-> w, it |-> j]
  BY <1>2 DEF Carrying
<1>4. t.v = w /\ t.it = j
  BY ONLY <1>3
<1> QED BY ONLY <1>1, <1>3, <1>4 DEF IsPair

\* The places from p on have the columns "place" gives them, each between its
\* neighbours when its turn comes.
Renumbers(place, S, p) ==
  /\ \A k \in p .. Len(S) : place[S[k].col] \in Int /\ place[S[k].col] <= S[k].col
  /\ \A j \in p .. Len(S) : \A k \in p .. Len(S) : j < k => place[S[j].col] < place[S[k].col]
  /\ \A j \in 1 .. (p - 1) : \A k \in p .. Len(S) : S[j].col < place[S[k].col]
Renumbered(T, S, place, p, q) ==
  /\ T \in Seq(Cell) /\ Len(T) = Len(S)
  /\ \A k \in 1 .. Len(S) : T[k].data = S[k].data /\ T[k].col = IF k \in p .. (q - 1) THEN place[S[k].col] ELSE S[k].col
Renumbering(t, v, place, S, p, k) ==
  /\ IsPair(t) /\ Sparse(t.v) /\ Like(t.v, v) /\ Valid(t.it, t.v)
  /\ Place(t.it, t.v) \in p .. (Len(S) + 1) /\ Renumbered(Stored(t.v), S, place, p, Place(t.it, t.v))
  /\ Place(t.it, t.v) = Len(S) + 1 \/ Place(t.it, t.v) >= p + k
Pairs == [v : Vecs, it : Int]

MoveTurn(place, t) == IF ~Over(t.it, t.v) THEN MoveColumn(place, t) ELSE t
MoveAllOf(place, s) == While(LAMBDA u : ~Over(u.it, u.v), LAMBDA u : MoveColumn(place, u), s)

LEMMA RenumberingIn ==
  ASSUME NEW v, NEW place, NEW S, NEW p, NEW k, NEW t, Renumbering(t, v, place, S, p, k)
  PROVE  t \in Pairs
<1>1. Sparse(t.v) /\ Valid(t.it, t.v) /\ IsPair(t)
  BY DEF Renumbering
<1>2. t.it \in Int
  <2>1. PICK q, T : q = Place(t.it, t.v) /\ T = Stored(t.v)
    OBVIOUS
  <2> QED BY <1>1, <2>1, Seat
<1>3. t.v \in Vecs
  BY <1>1, VecsAreAll DEF Sparse
<1>4. PICK w, i : w = t.v /\ i = t.it
  OBVIOUS
<1>5. t = [v |-> w, it |-> i]
  BY <1>1, <1>4 DEF IsPair
<1> QED BY ONLY <1>2, <1>3, <1>4, <1>5 DEF Pairs

LEMMA MoveTurnIs ==
  ASSUME NEW v, NEW S \in Seq(Cell), \A j \in 1 .. Len(S) : \A k \in 1 .. Len(S) : j < k => S[j].col < S[k].col,
         NEW place, NEW p \in 1 .. (Len(S) + 1), Renumbers(place, S, p), NEW k \in Nat, NEW t, Renumbering(t, v, place, S, p, k),
         NEW r, r = MoveTurn(place, t)
  PROVE  Renumbering(r, v, place, S, p, k + 1)
<1>1. PICK w, it, q, T : w = t.v /\ it = t.it /\ q = Place(it, w) /\ T = Stored(w)
  OBVIOUS
<1>2. Sparse(w) /\ Like(w, v) /\ Valid(it, w) /\ q \in p .. (Len(S) + 1) /\ Renumbered(T, S, place, p, q) /\ IsPair(t) /\ Len(S) \in Nat
  BY <1>1 DEF Renumbering
<1>3. Len(T) = Len(S) /\ T \in Seq(Cell)
  BY <1>2 DEF Renumbered
<1>4. (Over(it, w) <=> q = Len(S) + 1) /\ (q <= Len(S) => Col(it, w) = T[q].col)
  BY <1>1, <1>2, <1>3, Seat
<1>5. CASE Over(it, w)
  <2>1. r = t
    BY <1>1, <1>5 DEF MoveTurn
  <2> QED BY <1>1, <1>4, <1>5, <2>1 DEF Renumbering
<1>6. CASE ~Over(it, w)
  <2>1. q \in 1 .. Len(S) /\ q \in p .. Len(S)
    BY <1>2, <1>4, <1>6
  <2>2. T[q].col = S[q].col /\ T[q].data = S[q].data /\ Col(it, w) = S[q].col
    BY <1>2, <1>4, <2>1 DEF Renumbered
  <2>3. PICK c : c = place[S[q].col]
    OBVIOUS
  <2>4. c \in Int /\ c <= S[q].col
    BY <2>1, <2>3 DEF Renumbers
  <2>5. q > 1 => T[q - 1].col < c
    <3> SUFFICES ASSUME q > 1 PROVE T[q - 1].col < c
      OBVIOUS
    <3>1. q - 1 \in 1 .. Len(S) /\ q - 1 < q
      BY <2>1
    <3>2. CASE q - 1 \in p .. (q - 1)
      <4>1. T[q - 1].col = place[S[q - 1].col]
        BY <1>2, <3>1, <3>2 DEF Renumbered
      <4>2. q - 1 \in p .. Len(S)
        BY <2>1, <3>2
      <4>3. place[S[q - 1].col] < place[S[q].col]
        BY <2>1, <3>1, <4>2 DEF Renumbers
      <4> QED BY <2>3, <4>1, <4>3
    <3>3. CASE ~(q - 1 \in p .. (q - 1))
      <4>1. T[q - 1].col = S[q - 1].col
        BY <1>2, <3>1, <3>3 DEF Renumbered
      <4>2. q - 1 \in 1 .. (p - 1)
        BY <2>1, <3>1, <3>3
      <4>3. S[q - 1].col < place[S[q].col]
        BY <2>1, <4>2 DEF Renumbers
      <4> QED BY <2>3, <4>1, <4>3
    <3> QED BY <3>2, <3>3
  <2>6. q < Len(T) => T[q + 1].col > c
    <3> SUFFICES ASSUME q < Len(S) PROVE T[q + 1].col > c
      BY <1>3
    <3>1. q + 1 \in 1 .. Len(S) /\ q < q + 1 /\ ~(q + 1 \in p .. (q - 1))
      BY <2>1
    <3>2. T[q + 1].col = S[q + 1].col /\ S[q].col < S[q + 1].col
      BY <1>2, <2>1, <3>1 DEF Renumbered
    <3>3. S[q].col \in Int /\ S[q + 1].col \in Int
      BY <2>1, <3>1, CellOfSeq
    <3> QED BY <2>4, <3>2, <3>3
  <2>7. PICK u : u = vectorit_set_col(it, c, w)
    OBVIOUS
  <2>8. PICK e \in Cell : e.col = c /\ e.data = T[q].data /\ ReplacedAt(u, w, q, e)
    <3>1. q <= Len(T)
      BY <1>3, <2>1
    <3> QED BY <1>1, <1>2, <2>4, <2>5, <2>6, <2>7, <3>1, SetColIs
  <2>9. Sparse(u) /\ Like(u, w) /\ Replaced(Stored(u), T, q, e)
    BY <1>1, <2>8 DEF ReplacedAt
  <2>10. Valid(it, u) /\ Place(it, u) = q
    BY <1>1, <1>2, <2>8, ReplacedSeat
  <2>11. PICK g, i : g = Carrying(t, u) /\ i = Step(it, u)
    OBVIOUS
  <2>12. IsPair(g) /\ g.v = u /\ g.it = it /\ IsWalk(g)
    BY <1>1, <1>2, <2>11, CarryingIs DEF IsWalk
  <2>13. r = Stood(g, i)
    <3>1. r = MoveColumn(place, t)
      BY <1>1, <1>6 DEF MoveTurn
    <3>2. r = StepOn(g)
      BY <1>1, <2>2, <2>3, <2>7, <2>11, <3>1 DEF MoveColumn, Carrying
    <3> QED BY <2>11, <2>12, <3>2, StepOnIs
  <2>14. IsPair(r) /\ r.v = u /\ r.it = i
    BY <2>12, <2>13, StoodIs
  <2>15. Len(Stored(u)) = Len(S)
    BY <1>3, <2>9 DEF Replaced
  <2>16. Valid(i, u) /\ Place(i, u) = q + 1
    BY <2>1, <2>9, <2>10, <2>11, <2>15, SeatNext
  <2>17. Renumbered(Stored(u), S, place, p, q + 1)
    <3>1. ASSUME NEW j \in 1 .. Len(S)
          PROVE  Stored(u)[j].data = S[j].data /\ Stored(u)[j].col = IF j \in p .. ((q + 1) - 1) THEN place[S[j].col] ELSE S[j].col
      <4>1. Stored(u)[j] = IF j = q THEN e ELSE T[j]
        BY <2>9, <2>15 DEF Replaced
      <4>2. CASE j = q
        <5>1. j \in p .. ((q + 1) - 1)
          BY <2>1, <4>2
        <5> QED BY <2>2, <2>3, <2>8, <4>1, <4>2, <5>1
      <4>3. CASE j # q
        <5>1. j \in p .. ((q + 1) - 1) <=> j \in p .. (q - 1)
          BY <2>1, <4>3
        <5>2. T[j].data = S[j].data /\ T[j].col = IF j \in p .. (q - 1) THEN place[S[j].col] ELSE S[j].col
          BY <1>2 DEF Renumbered
        <5> QED BY <4>1, <4>3, <5>1, <5>2
      <4> QED BY <4>2, <4>3
    <3> QED BY <2>9, <2>15, <3>1 DEF Renumbered, Replaced
  <2>18. q + 1 \in p .. (Len(S) + 1) /\ (q + 1 = Len(S) + 1 \/ q + 1 >= p + (k + 1))
    BY <1>1, <1>2, <2>1 DEF Renumbering
  <2>19. Like(u, v)
    BY <1>2, <2>9 DEF Like
  <2> QED BY <2>9, <2>14, <2>16, <2>17, <2>18, <2>19 DEF Renumbering
<1> QED BY <1>5, <1>6

LEMMA MoveColumnsIs ==
  ASSUME NEW v, Sparse(v), NEW S, S = Stored(v), \A j \in 1 .. Len(S) : \A k \in 1 .. Len(S) : j < k => S[j].col < S[k].col,
         Len(S) <= MaxTurns, NEW s, IsPair(s), s.v = v, Valid(s.it, v), NEW p, p = Place(s.it, v),
         NEW place, Renumbers(place, S, p), NEW w, w = MoveColumns(place, s)
  PROVE  Sparse(w) /\ Like(w, v) /\ Renumbered(Stored(w), S, place, p, Len(S) + 1)
<1>0. S \in Seq(Cell) /\ Len(S) \in Nat /\ p \in 1 .. (Len(S) + 1)
  BY StoredIs, Seat
<1>1. PICK r : r = MoveAllOf(place, s)
  OBVIOUS
<1>2. w = r.v
  BY <1>1 DEF MoveColumns, MoveAllOf
<1>3. Renumbering(s, v, place, S, p, 0)
  <2>1. Renumbered(S, S, place, p, p)
    BY <1>0 DEF Renumbered
  <2> QED BY <1>0, <2>1 DEF Renumbering, Like
<1> DEFINE Q == [k \in 0 .. MaxTurns |-> {t \in Pairs : Renumbering(t, v, place, S, p, k)}]
           F == [q \in (1 .. MaxTurns) \X Pairs |-> MoveTurn(place, q[2])]
           h == CHOOSE g : g = [k \in 0 .. MaxTurns |-> IF k = 0 THEN s ELSE MoveTurn(place, g[k - 1])]
<1> HIDE DEF Q, F, h
<1>l1. MaxTurns \in Nat /\ 0 \in 0 .. MaxTurns /\ \A k \in 1 .. MaxTurns : k - 1 \in 0 .. MaxTurns /\ k \in 0 .. MaxTurns /\ k # 0
  BY TurnsAssumption
<1>l2. s \in Pairs /\ Renumbering(s, v, place, S, p, 0)
  BY <1>3, RenumberingIn
<1>l3. ASSUME NEW k \in 1 .. MaxTurns, NEW t \in Pairs, Renumbering(t, v, place, S, p, k - 1) PROVE MoveTurn(place, t) \in Pairs /\ Renumbering(MoveTurn(place, t), v, place, S, p, k)
  <2>1. k - 1 \in Nat /\ (k - 1) + 1 = k
    OBVIOUS
  <2>2. PICK u : u = MoveTurn(place, t)
    OBVIOUS
  <2>3. Renumbering(u, v, place, S, p, k)
    BY <1>0, <1>l3, <2>1, <2>2, MoveTurnIs
  <2> QED BY <2>2, <2>3, RenumberingIn
<1>l4. \A k \in 1 .. MaxTurns : \A t \in Q[k - 1] : t \in Pairs /\ F[<<k, t>>] = MoveTurn(place, t) /\ F[<<k, t>>] \in Q[k]
  <2> SUFFICES ASSUME NEW k \in 1 .. MaxTurns, NEW t \in Q[k - 1] PROVE t \in Pairs /\ F[<<k, t>>] = MoveTurn(place, t) /\ F[<<k, t>>] \in Q[k]
    OBVIOUS
  <2>1. t \in Pairs /\ Renumbering(t, v, place, S, p, k - 1)
    BY ONLY <1>l1, t \in Q[k - 1], k \in 1 .. MaxTurns DEF Q
  <2>2. F[<<k, t>>] = MoveTurn(place, t)
    BY ONLY <2>1, k \in 1 .. MaxTurns DEF F
  <2>3. MoveTurn(place, t) \in Pairs /\ Renumbering(MoveTurn(place, t), v, place, S, p, k)
    BY ONLY <1>l3, <2>1, k \in 1 .. MaxTurns
  <2>4. MoveTurn(place, t) \in Q[k]
    BY ONLY <1>l1, <2>3, k \in 1 .. MaxTurns DEF Q
  <2> QED BY ONLY <2>1, <2>2, <2>4
<1>l0. s \in Q[0]
  BY ONLY <1>l1, <1>l2 DEF Q
<1>l5. h = [k \in 0 .. MaxTurns |-> IF k = 0 THEN s ELSE MoveTurn(place, h[k - 1])]
  <2>1. PICK g : IsCourse(g, MaxTurns, s, F, Q)
    BY ONLY <1>l1, <1>l0, <1>l4, LoopExists
  <2>2. /\ g = [k \in 0 .. MaxTurns |-> IF k = 0 THEN s ELSE F[<<k, g[k - 1]>>]]
        /\ \A k \in 0 .. MaxTurns : g[k] \in Q[k]
    BY ONLY <2>1 DEF IsCourse
  <2>3. \A k \in 0 .. MaxTurns : k # 0 => k \in 1 .. MaxTurns /\ k - 1 \in 0 .. MaxTurns
    BY ONLY <1>l1
  <2>4. g = [k \in 0 .. MaxTurns |-> IF k = 0 THEN s ELSE MoveTurn(place, g[k - 1])]
    BY ONLY <1>l4, <2>2, <2>3
  <2> QED BY ONLY <1>l1, <2>4 DEF h
<1>l6. h[MaxTurns] \in Q[MaxTurns]
  <2>1. h[0] = s /\ \A k \in 1 .. MaxTurns : h[k] = MoveTurn(place, h[k - 1])
    BY ONLY <1>l1, <1>l5
  <2>2. h[0] \in Q[0] /\ \A k \in 1 .. MaxTurns : h[k - 1] \in Q[k - 1] => h[k] \in Q[k]
    BY ONLY <1>l0, <1>l4, <2>1
  <2> QED BY ONLY <1>l1, <2>2, CourseStays
<1>l7. r = h[MaxTurns]
  BY <1>1 DEF While, MoveAllOf, MoveTurn, h
<1>l8. r \in Q[MaxTurns]
  BY ONLY <1>l6, <1>l7
<1>l9. r \in Pairs /\ Renumbering(r, v, place, S, p, MaxTurns)
  <2>1. MaxTurns \in 0 .. MaxTurns
    BY ONLY <1>l1
  <2> QED BY ONLY <1>l8, <2>1 DEF Q
<1>4. Place(r.it, r.v) = Len(S) + 1
  BY <1>0, <1>l1, <1>l9 DEF Renumbering
<1> QED BY <1>2, <1>4, <1>l9 DEF Renumbering

-----------------------------------------------------------------------------
(* A column taken out of a vector.                                         *)

Narrowed(x, c, n) == [k \in 0 .. (n - 2) |-> x[IF k < c THEN k ELSE k + 1]]

LEMMA WithoutColumnIs ==
  ASSUME NEW v, NEW x, Holds(v, x), ~IsFull(v), v.dim <= MaxTurns, NEW c \in 0 .. (v.dim - 1), NEW s, IsPair(s), s.v = v,
         s.it = vectorit_find(vectorit_set_at_beg(v), c, v), NEW r, r = WithoutColumn(c, s)
  PROVE  /\ IsPair(r) /\ Holds(r.v, With(x, c, 0)) /\ Like(r.v, v) /\ Valid(r.it, r.v)
         /\ \A k \in 1 .. Len(Stored(r.v)) : /\ k < Place(r.it, r.v) => Stored(r.v)[k].col < c
                                             /\ k >= Place(r.it, r.v) => Stored(r.v)[k].col > c
<1>1. PICK S, b, it, q : S = Stored(v) /\ b = vectorit_set_at_beg(v) /\ it = s.it /\ q = Place(it, v)
  OBVIOUS
<1>2. /\ v.dim \in Nat /\ Sparse(v) /\ Means(S, v.dim, x) /\ Columns(S, v.dim) /\ x \in [0 .. (v.dim - 1) -> Int]
      /\ S \in Seq(Cell) /\ Len(S) \in Nat /\ Len(S) <= v.dim /\ Len(S) <= MaxTurns /\ c \in Int /\ MaxTurns \in Nat
  BY <1>1, HoldsSparse, TurnsAssumption
<1>3. /\ Valid(it, v) /\ q \in 1 .. (Len(S) + 1) /\ it \in Int /\ Col(it, v) = ColAt(S, q, v.dim) /\ Col(it, v) \in 0 .. v.dim
      /\ (Over(it, v) <=> Col(it, v) = v.dim)
      /\ Col(it, v) # c => \A k \in 1 .. Len(S) : S[k].col # c
      /\ Col(it, v) > c => \A k \in 1 .. (q - 1) : S[k].col < c
  <2>1. CASE Len(S) = 0
    <3>1. Valid(it, v) /\ q = 1
      BY <1>1, <1>2, <2>1, FindsNone
    <3>2. it \in Int
      BY <3>1, ValidInt
    <3> QED BY <1>1, <1>2, <2>1, <3>1, <3>2, Reads
  <2>2. CASE Len(S) > 0
    <3>1. Valid(b, v) /\ Place(b, v) = 1
      BY <1>1, <1>2, SeatAtBeg
    <3>2. Valid(it, v) /\ Beside(S, c, q)
      BY <1>1, <1>2, <2>2, <3>1, FindIs
    <3>3. it \in Int
      BY <3>2, ValidInt
    <3>4. Col(it, v) = ColAt(S, q, v.dim) /\ Col(it, v) \in 0 .. v.dim /\ (Over(it, v) <=> Col(it, v) = v.dim)
      BY <1>1, <3>2, Reads
    <3>5. Col(it, v) = S[q].col /\ q \in 1 .. Len(S)
      BY <3>2, <3>4 DEF Beside, ColAt
    <3>6. ASSUME S[q].col # c, NEW k \in 1 .. Len(S) PROVE S[k].col # c
      <4>0. S[q].col \in Int /\ S[k].col \in Int
        BY <1>2, <3>5, CellOfSeq
      <4>1. CASE S[q].col < c
        <5>1. k > q => S[k].col > c
          <6>1. k > q => k \in (q + 1) .. Len(S)
            BY <3>5
          <6> QED BY <3>2, <4>1, <6>1 DEF Beside
        <5>2. k < q => S[k].col < S[q].col
          BY <1>2, <3>5 DEF Columns
        <5> QED BY <1>2, <3>5, <4>0, <4>1, <5>1, <5>2
      <4>2. CASE S[q].col > c
        <5>1. k < q => S[k].col < c
          <6>1. k < q => k \in 1 .. (q - 1)
            BY <3>5
          <6> QED BY <3>2, <4>2, <6>1 DEF Beside
        <5>2. k > q => S[k].col > S[q].col
          BY <1>2, <3>5 DEF Columns
        <5> QED BY <1>2, <3>5, <4>0, <4>2, <5>1, <5>2
      <4> QED BY <1>2, <3>6, <4>0, <4>1, <4>2
    <3>7. S[q].col > c => \A k \in 1 .. (q - 1) : S[k].col < c
      BY <3>2 DEF Beside
    <3> QED BY <1>2, <3>2, <3>3, <3>4, <3>5, <3>6, <3>7
  <2> QED BY <1>2, <2>1, <2>2
<1>4. PICK y : y = With(x, c, 0)
  OBVIOUS
<1>5. y \in [0 .. (v.dim - 1) -> Int] /\ y[c] = 0 /\ \A j \in 0 .. (v.dim - 1) : j # c => y[j] = x[j]
  BY ONLY <1>2, <1>4, c \in 0 .. (v.dim - 1) DEF With
<1>6. IsWalk(s)
  BY DEF IsWalk
<1>7. IsPair(r) /\ Holds(r.v, y) /\ Like(r.v, v) /\ Valid(r.it, r.v) /\ Col(r.it, r.v) > c /\ Zeros(y, c, Col(r.it, r.v))
  <2>1. CASE Col(it, v) = c
    <3>1. r = ZeroHere(s) /\ ~Over(it, v)
      BY <1>1, <1>2, <1>3, <2>1 DEF WithoutColumn
    <3>2. /\ IsPair(r) /\ Holds(r.v, y) /\ Like(r.v, v) /\ Valid(r.it, r.v)
          /\ Col(r.it, r.v) > c /\ Zeros(x, c + 1, Col(r.it, r.v))
      BY <1>1, <1>3, <1>4, <1>6, <2>1, <3>1, ZeroHereHolds
    <3>3. Col(r.it, r.v) \in 0 .. v.dim
      BY <3>2, Reads DEF Like
    <3>4. Zeros(y, c, Col(r.it, r.v))
      <4> SUFFICES ASSUME NEW j \in c .. (Col(r.it, r.v) - 1) PROVE y[j] = 0
        BY DEF Zeros
      <4>1. j # c => j \in (c + 1) .. (Col(r.it, r.v) - 1) /\ j \in 0 .. (v.dim - 1)
        BY <1>2, <3>3
      <4> QED BY <1>5, <3>2, <4>1 DEF Zeros
    <3> QED BY <3>2, <3>4
  <2>2. CASE Col(it, v) # c
    <3>1. r = StepPast(c - 1, s)
      BY <1>1, <2>2 DEF WithoutColumn
    <3>2. x[c] = 0
      <4>1. \A k \in 1 .. Len(S) : S[k].col # c
        BY <1>3, <2>2
      <4> QED BY ONLY <1>2, <4>1, c \in 0 .. (v.dim - 1) DEF Means
    <3>3. y = x
      <4>1. PICK D : D = 0 .. (v.dim - 1)
        OBVIOUS
      <4>2. x \in [D -> Int] /\ y \in [D -> Int] /\ \A j \in D : y[j] = x[j]
        BY ONLY <1>2, <1>5, <3>2, <4>1
      <4> QED BY ONLY <4>2
    <3>4. Col(it, v) > c - 1 => Zeros(x, (c - 1) + 1, Col(it, v))
      <4> SUFFICES ASSUME Col(it, v) > c - 1, NEW j \in c .. (Col(it, v) - 1) PROVE x[j] = 0
        BY <1>2 DEF Zeros
      <4>1. Col(it, v) > c /\ j \in 0 .. (v.dim - 1)
        BY <1>2, <1>3, <2>2
      <4>2. q > 1 => S[q - 1].col < j
        <5>1. q > 1 => q - 1 \in 1 .. (q - 1) /\ q - 1 \in 1 .. Len(S)
          BY <1>2, <1>3
        <5>2. q > 1 => S[q - 1].col < c /\ S[q - 1].col \in Int
          BY <1>2, <1>3, <4>1, <5>1, CellOfSeq
        <5> QED BY <1>2, <5>2
      <4>3. j < ColAt(S, q, v.dim) /\ q \in 1 .. (Len(S) + 1)
        BY <1>3
      <4> QED BY ONLY <1>2, <4>1, <4>2, <4>3, Between
    <3>5. c - 1 \in Int /\ c - 1 < v.dim
      BY <1>2
    <3>6. PICK i \in Int : r = Stood(s, i) /\ Valid(i, v) /\ Col(i, v) > c - 1 /\ Zeros(x, (c - 1) + 1, Col(i, v))
      <4>1. PICK m : m = c - 1
        OBVIOUS
      <4>2. m \in Int /\ m < v.dim /\ r = StepPast(m, s) /\ (Col(s.it, v) > m => Zeros(x, m + 1, Col(s.it, v))) /\ s.it \in Int /\ Valid(s.it, v)
        BY <1>1, <1>3, <3>1, <3>4, <3>5, <4>1
      <4>3. Holds(v, x) /\ v.dim <= MaxTurns /\ v = s.v
        OBVIOUS
      <4>4. \E i \in Int : r = Stood(s, i) /\ Valid(i, v) /\ Col(i, v) > m /\ Zeros(x, m + 1, Col(i, v))
        BY ONLY <1>6, <4>2, <4>3, StepPastIs
      <4> QED BY ONLY <4>1, <4>4
    <3>7. IsPair(r) /\ r.v = v /\ r.it = i
      BY <1>6, <3>6, StoodIs
    <3>8. Col(i, v) # c /\ Col(i, v) \in 0 .. v.dim
      <4>1. Place(i, v) \in 1 .. (Len(S) + 1) /\ Col(i, v) = ColAt(S, Place(i, v), v.dim) /\ Col(i, v) \in 0 .. v.dim
        BY <1>1, <3>6, Reads
      <4> QED BY <1>2, <1>3, <2>2, <4>1 DEF ColAt
    <3>9. Col(i, v) > c /\ Zeros(x, c, Col(i, v))
      BY <1>2, <3>6, <3>8 DEF Zeros
    <3> QED BY <3>3, <3>6, <3>7, <3>9 DEF Like
  <2> QED BY <2>1, <2>2
<1>8. PICK w, i, T, p : w = r.v /\ i = r.it /\ T = Stored(w) /\ p = Place(i, w)
  OBVIOUS
<1>9. ~IsFull(w) /\ w.dim = v.dim
  BY <1>7, <1>8 DEF Like, IsFull
<1>10. /\ Means(T, v.dim, y) /\ T \in Seq(Cell) /\ Len(T) \in Nat
       /\ p \in 1 .. (Len(T) + 1) /\ Col(i, w) = ColAt(T, p, v.dim) /\ Col(i, w) \in 0 .. v.dim
  BY <1>7, <1>8, <1>9, HoldsSparse, Reads
<1>11. ASSUME NEW k \in 1 .. Len(T) PROVE (k < p => T[k].col < c) /\ (k >= p => T[k].col > c)
  <2>1. T[k].col \in 0 .. (v.dim - 1) /\ y[T[k].col] # 0
    BY <1>10 DEF Means
  <2>2. CASE k < p
    <3>1. T[k].col < Col(i, w)
      <4>1. CASE p = Len(T) + 1
        BY <1>2, <1>10, <2>1, <4>1 DEF ColAt
      <4>2. CASE p <= Len(T)
        <5>1. T[k].col < T[p].col
          BY <1>10, <2>2, <4>2 DEF Means
        <5> QED BY <1>10, <4>2, <5>1 DEF ColAt
      <4> QED BY <1>10, <4>1, <4>2
    <3>2. ~(T[k].col \in c .. (Col(i, w) - 1))
      BY <1>7, <1>8, <2>1 DEF Zeros
    <3> QED BY <1>2, <1>10, <2>1, <2>2, <3>1, <3>2
  <2>3. CASE k >= p
    <3>1. p \in 1 .. Len(T) /\ T[p].col = Col(i, w)
      BY <1>10, <2>3 DEF ColAt
    <3>2. k = p \/ T[p].col < T[k].col
      BY <1>10, <2>3, <3>1 DEF Means
    <3> QED BY <1>2, <1>7, <1>8, <1>10, <2>1, <2>3, <3>1, <3>2
  <2> QED BY <1>10, <2>2, <2>3
<1> QED BY <1>4, <1>7, <1>8, <1>11

\* A sparse vector of another width, with the same elements.
LEMMA RedimHolds ==
  ASSUME NEW v, Sparse(v), NEW n \in Nat, NEW y, Means(Stored(v), n, y), NEW w, w = Widened(v, n)
  PROVE  Holds(w, y) /\ w.dim = n /\ w.type = v.type /\ w.nz = v.nz /\ ~IsFull(w)
<1>0. Vec(v) /\ ~IsFull(v) /\ IsVec(v)
  BY DEF Sparse, Vec
<1>1. PICK t, dim, C, nz : t = v.type /\ dim = v.dim /\ C = v.data /\ nz = v.nz
  OBVIOUS
<1>2. v = [type |-> t, dim |-> dim, nz |-> nz, data |-> C]
  BY <1>0, <1>1 DEF IsVec
<1>3. w = [type |-> t, dim |-> n, nz |-> nz, data |-> C]
  BY <1>2 DEF Widened
<1>4. w.type = t /\ w.dim = n /\ w.nz = nz /\ w.data = C
  BY ONLY <1>3
<1>5. IsVec(w) /\ (IsArray(w) <=> IsArray(v)) /\ (IsList(w) <=> IsList(v)) /\ ~IsFull(w)
  BY <1>0, <1>1, <1>3, <1>4 DEF IsVec, IsArray, IsList, IsFull
<1>6. Vec(w)
  BY <1>0, <1>1, <1>4, <1>5 DEF Vec
<1>7. Stored(w) = Stored(v)
  BY <1>0, <1>1, <1>4, <1>5 DEF Stored
<1> QED BY <1>1, <1>4, <1>5, <1>6, <1>7 DEF Holds, Means

LEMMA NarrowedMeans ==
  ASSUME NEW n \in Nat, NEW S, NEW y, Means(S, n, y), NEW c \in 0 .. (n - 1), NEW p \in 1 .. (Len(S) + 1),
         \A k \in 1 .. Len(S) : (k < p => S[k].col < c) /\ (k >= p => S[k].col > c),
         NEW place, place = [k \in (c + 1) .. (n - 1) |-> k - 1], NEW T, Renumbered(T, S, place, p, Len(S) + 1)
  PROVE  Means(T, n - 1, Narrowed(y, c, n))
<1>1. /\ S \in Seq(Cell) /\ Len(S) \in Nat /\ y \in [0 .. (n - 1) -> Int] /\ n \in Int
      /\ \A k \in 1 .. Len(S) : S[k].col \in 0 .. (n - 1) /\ S[k].data # 0 /\ y[S[k].col] = S[k].data
      /\ \A j \in 1 .. Len(S) : \A k \in 1 .. Len(S) : j < k => S[j].col < S[k].col
      /\ \A i \in 0 .. (n - 1) : y[i] # 0 => \E k \in 1 .. Len(S) : S[k].col = i
  BY DEF Means
<1>2. PICK x : x = Narrowed(y, c, n)
  OBVIOUS
<1>3. ASSUME NEW k \in 0 .. (n - 2) PROVE x[k] \in Int /\ x[k] = y[IF k < c THEN k ELSE k + 1] /\ (IF k < c THEN k ELSE k + 1) \in 0 .. (n - 1)
  <2>1. x[k] = y[IF k < c THEN k ELSE k + 1]
    BY <1>2 DEF Narrowed
  <2>2. (IF k < c THEN k ELSE k + 1) \in 0 .. (n - 1)
    OBVIOUS
  <2> QED BY <1>1, <2>1, <2>2
<1>4. x \in [0 .. (n - 2) -> Int]
  <2>1. x = [k \in 0 .. (n - 2) |-> x[k]]
    BY <1>2 DEF Narrowed
  <2> QED BY <1>3, <2>1
<1>5. ASSUME NEW k \in 1 .. Len(S)
      PROVE  /\ T[k].data = S[k].data /\ T[k].col \in 0 .. (n - 2) /\ T[k].col = (IF k < p THEN S[k].col ELSE S[k].col - 1)
             /\ x[T[k].col] = S[k].data
  <2>1. T[k].data = S[k].data /\ T[k].col = IF k \in p .. ((Len(S) + 1) - 1) THEN place[S[k].col] ELSE S[k].col
    BY DEF Renumbered
  <2>2. S[k].col \in 0 .. (n - 1) /\ y[S[k].col] = S[k].data
    BY <1>1
  <2>3. CASE k < p
    <3>1. T[k].col = S[k].col /\ S[k].col < c
      BY <1>1, <2>1, <2>3
    <3>2. S[k].col \in 0 .. (n - 2)
      BY <2>2, <3>1
    <3>3. x[S[k].col] = y[S[k].col]
      BY <1>3, <3>1, <3>2
    <3> QED BY <2>1, <2>2, <2>3, <3>1, <3>2, <3>3
  <2>4. CASE ~(k < p)
    <3>1. S[k].col \in (c + 1) .. (n - 1) /\ k \in p .. ((Len(S) + 1) - 1)
      <4>1. k >= p
        BY <1>1, <2>4
      <4>2. S[k].col > c
        BY <4>1
      <4> QED BY <1>1, <2>2, <4>1, <4>2
    <3>2. T[k].col = S[k].col - 1
      BY <2>1, <3>1
    <3>3. S[k].col - 1 \in 0 .. (n - 2) /\ ~(S[k].col - 1 < c) /\ (S[k].col - 1) + 1 = S[k].col
      BY <2>2, <3>1
    <3>4. x[S[k].col - 1] = y[S[k].col]
      BY <1>3, <3>3
    <3> QED BY <2>1, <2>2, <2>4, <3>2, <3>3, <3>4
  <2> QED BY <2>3, <2>4
<1>6. T \in Seq(Cell) /\ Len(T) = Len(S)
  BY DEF Renumbered
<1>7. ASSUME NEW j \in 1 .. Len(T), NEW k \in 1 .. Len(T), j < k PROVE T[j].col < T[k].col
  <2>1. S[j].col < S[k].col /\ S[j].col \in 0 .. (n - 1) /\ S[k].col \in 0 .. (n - 1)
    BY <1>1, <1>6, <1>7
  <2>2. T[j].col = (IF j < p THEN S[j].col ELSE S[j].col - 1) /\ T[k].col = (IF k < p THEN S[k].col ELSE S[k].col - 1)
    BY <1>5, <1>6
  <2>3. j < p /\ k >= p => S[j].col < c /\ S[k].col > c
    BY <1>6
  <2>4. (j < p \/ j >= p) /\ (k < p \/ k >= p) /\ (j >= p => k >= p) /\ (k >= p => ~(k < p)) /\ (j >= p => ~(j < p))
    BY <1>6, <1>7
  <2>5. CASE k < p
    <3>1. j < p
      BY <1>7, <1>6, <1>1, <2>5
    <3>2. T[j].col = S[j].col /\ T[k].col = S[k].col
      BY <2>2, <2>5, <3>1
    <3> QED BY <2>1, <3>2
  <2>6. CASE ~(k < p) /\ j < p
    <3>1. T[j].col = S[j].col /\ T[k].col = S[k].col - 1 /\ S[j].col < c /\ S[k].col > c
      BY <2>2, <2>3, <2>4, <2>6
    <3> QED BY <2>1, <3>1
  <2>7. CASE ~(k < p) /\ ~(j < p)
    <3>1. T[j].col = S[j].col - 1 /\ T[k].col = S[k].col - 1
      BY <2>2, <2>7
    <3>2. PICK a, b : a = S[j].col /\ b = S[k].col
      OBVIOUS
    <3>3. a \in Int /\ b \in Int /\ a < b /\ T[j].col = a - 1 /\ T[k].col = b - 1
      BY <2>1, <3>1, <3>2
    <3> QED BY ONLY <3>3
  <2> QED BY <2>5, <2>6, <2>7
<1>8. ASSUME NEW i \in 0 .. (n - 2), x[i] # 0 PROVE \E k \in 1 .. Len(T) : T[k].col = i
  <2>1. PICK m : m = IF i < c THEN i ELSE i + 1
    OBVIOUS
  <2>2. m \in 0 .. (n - 1) /\ y[m] # 0 /\ m # c /\ (m < c => i = m) /\ (m > c => i = m - 1)
    BY <1>3, <1>8, <2>1
  <2>3. PICK k \in 1 .. Len(S) : S[k].col = m
    BY <1>1, <2>2
  <2>4. T[k].col = (IF k < p THEN S[k].col ELSE S[k].col - 1) /\ (k < p \/ k >= p) /\ (k >= p => ~(k < p))
    BY <1>1, <1>5
  <2>5. T[k].col = i
    BY <2>2, <2>3, <2>4
  <2> QED BY <1>6, <2>5
<1>9. n - 1 - 1 = n - 2
  BY <1>1
<1>10. \A k \in 1 .. Len(T) : T[k].col \in 0 .. (n - 2) /\ T[k].data # 0 /\ x[T[k].col] = T[k].data
  BY <1>1, <1>5, <1>6
<1> QED BY <1>2, <1>4, <1>6, <1>7, <1>8, <1>9, <1>10 DEF Means

LEMMA RemoveColHolds ==
  ASSUME NEW v, NEW x, Holds(v, x), v.dim <= MaxTurns, NEW c \in 0 .. (v.dim - 1), NEW w, w = vector_remove_col(v, c)
  PROVE  Holds(w, Narrowed(x, c, v.dim)) /\ w.dim = v.dim - 1 /\ w.type = v.type
<1>0. v.dim \in Nat /\ ~(c >= v.dim) /\ v.dim - 1 \in Nat /\ x \in [0 .. (v.dim - 1) -> Int] /\ IsVec(v)
  BY DEF Holds, Vec
<1>a. PICK n : n = v.dim - 1
  OBVIOUS
<1>1. CASE IsFull(v)
  <2>1. PICK D : D = [i \in 0 .. (v.dim - 2) |-> IF i < c THEN v.data[i] ELSE v.data[i + 1]]
    OBVIOUS
  <2>2. PICK t, dim, C, nz : t = v.type /\ dim = v.dim /\ C = v.data /\ nz = v.nz
    OBVIOUS
  <2>3. v = [type |-> t, dim |-> dim, nz |-> nz, data |-> C]
    BY <1>0, <2>2 DEF IsVec
  <2>4. PICK u : u = FullWithout(v, c)
    OBVIOUS
  <2>5. u = [v EXCEPT !.data = D]
    BY <2>1, <2>4 DEF FullWithout
  <2>6. u = [type |-> t, dim |-> dim, nz |-> nz, data |-> D]
    BY ONLY <2>3, <2>5
  <2>7. w = [u EXCEPT !.dim = @ - 1]
    BY <1>0, <1>1, <2>4 DEF vector_remove_col
  <2>8. w = [type |-> t, dim |-> dim - 1, nz |-> nz, data |-> D]
    BY ONLY <2>6, <2>7
  <2>9. w.type = t /\ w.dim = dim - 1 /\ w.nz = nz /\ w.data = D
    BY ONLY <2>8
  <2>10. IsVec(w) /\ IsFull(w) /\ v.data = x
    BY <1>1, <2>2, <2>8, <2>9 DEF IsVec, IsFull, Holds
  <2>11. D = Narrowed(x, c, v.dim)
    <3>1. \A i \in 0 .. (v.dim - 2) : (IF i < c THEN v.data[i] ELSE v.data[i + 1]) = x[IF i < c THEN i ELSE i + 1]
      BY <2>10
    <3> QED BY <2>1, <3>1 DEF Narrowed
  <2>12. D \in [0 .. (v.dim - 2) -> Int] /\ v.dim - 1 - 1 = v.dim - 2
    <3>1. \A i \in 0 .. (v.dim - 2) : (IF i < c THEN v.data[i] ELSE v.data[i + 1]) \in Int
      <4> SUFFICES ASSUME NEW i \in 0 .. (v.dim - 2) PROVE (IF i < c THEN v.data[i] ELSE v.data[i + 1]) \in Int
        OBVIOUS
      <4>1. i \in 0 .. (v.dim - 1) /\ i + 1 \in 0 .. (v.dim - 1)
        BY <1>0
      <4> QED BY <1>0, <2>10, <4>1
    <3> QED BY <1>0, <2>1, <3>1
  <2> QED BY <1>0, <1>1, <2>2, <2>9, <2>10, <2>11, <2>12 DEF Holds, Vec
<1>2. CASE ~IsFull(v)
  <2>1. PICK i, s, r : i = vectorit_find(vectorit_set_at_beg(v), c, v) /\ s = [v |-> v, it |-> i] /\ r = WithoutColumn(c, s)
    OBVIOUS
  <2>2. s.v = v /\ s.it = i /\ IsPair(s)
    <3>1. s.v = v /\ s.it = i
      BY ONLY <2>1
    <3> QED BY <2>1, <3>1 DEF IsPair
  <2>3. PICK u, j, S, p, y : u = r.v /\ j = r.it /\ S = Stored(u) /\ p = Place(j, u) /\ y = With(x, c, 0)
    OBVIOUS
  <2>4. /\ IsPair(r) /\ Holds(u, y) /\ Like(u, v) /\ Valid(j, u)
        /\ \A k \in 1 .. Len(S) : (k < p => S[k].col < c) /\ (k >= p => S[k].col > c)
    BY <1>2, <2>1, <2>2, <2>3, WithoutColumnIs
  <2>5. ~IsFull(u) /\ u.dim = v.dim
    BY <1>2, <2>4 DEF Like, IsFull
  <2>6. /\ Sparse(u) /\ Means(S, v.dim, y) /\ Columns(S, v.dim) /\ S \in Seq(Cell) /\ Len(S) \in Nat /\ Len(S) <= MaxTurns
        /\ p \in 1 .. (Len(S) + 1)
    <3>1. Sparse(u) /\ Means(S, v.dim, y) /\ Columns(S, v.dim) /\ S \in Seq(Cell) /\ Len(S) \in Nat /\ Len(S) <= v.dim
      BY <2>3, <2>4, <2>5, HoldsSparse
    <3>2. p \in 1 .. (Len(S) + 1)
      BY <2>3, <2>4, <3>1, Seat
    <3> QED BY <1>0, <3>1, <3>2, TurnsAssumption
  <2>7. PICK place : place = [k \in (c + 1) .. (v.dim - 1) |-> k - 1]
    OBVIOUS
  <2>8. Renumbers(place, S, p)
    <3>1. ASSUME NEW k \in p .. Len(S) PROVE k \in 1 .. Len(S) /\ S[k].col \in (c + 1) .. (v.dim - 1) /\ place[S[k].col] = S[k].col - 1
      <4>1. k \in 1 .. Len(S) /\ k >= p
        BY <2>6
      <4>2. S[k].col > c /\ S[k].col \in 0 .. (v.dim - 1)
        BY <2>4, <2>6, <4>1 DEF Columns
      <4>3. S[k].col \in (c + 1) .. (v.dim - 1)
        BY <1>0, <4>2
      <4> QED BY <2>7, <4>1, <4>3
    <3>2. \A k \in p .. Len(S) : place[S[k].col] \in Int /\ place[S[k].col] <= S[k].col
      <4> SUFFICES ASSUME NEW k \in p .. Len(S) PROVE place[S[k].col] \in Int /\ place[S[k].col] <= S[k].col
        OBVIOUS
      <4>1. S[k].col \in Int /\ place[S[k].col] = S[k].col - 1
        BY <1>0, <3>1
      <4> QED BY <4>1
    <3>3. ASSUME NEW a \in p .. Len(S), NEW k \in p .. Len(S), a < k PROVE place[S[a].col] < place[S[k].col]
      <4>1. S[a].col < S[k].col
        BY <2>6, <3>1, <3>3 DEF Columns
      <4>2. /\ S[a].col \in Int /\ place[S[a].col] = S[a].col - 1
            /\ S[k].col \in Int /\ place[S[k].col] = S[k].col - 1
        BY <1>0, <3>1
      <4> QED BY <4>1, <4>2
    <3>4. ASSUME NEW a \in 1 .. (p - 1), NEW k \in p .. Len(S) PROVE S[a].col < place[S[k].col]
      <4>1. a \in 1 .. Len(S) /\ a < p
        BY <2>6
      <4>2. S[a].col < c /\ S[a].col \in Int
        BY <2>4, <2>6, <4>1, CellOfSeq
      <4>3. S[k].col \in (c + 1) .. (v.dim - 1) /\ place[S[k].col] = S[k].col - 1
        BY <3>1
      <4> QED BY <1>0, <4>2, <4>3
    <3> QED BY <3>2, <3>3, <3>4 DEF Renumbers
  <2>9. PICK m : m = MoveColumns(place, r)
    OBVIOUS
  <2>10. Sparse(m) /\ Like(m, u) /\ Renumbered(Stored(m), S, place, p, Len(S) + 1)
    <3>1. \A a \in 1 .. Len(S) : \A k \in 1 .. Len(S) : a < k => S[a].col < S[k].col
      BY <2>6 DEF Columns
    <3> QED BY <2>3, <2>4, <2>6, <2>8, <2>9, <3>1, MoveColumnsIs
  <2>11. Means(Stored(m), v.dim - 1, Narrowed(y, c, v.dim))
    BY ONLY <1>0, c \in 0 .. (v.dim - 1), <2>4, <2>6, <2>7, <2>10, NarrowedMeans
  <2>12. w = Widened(m, v.dim - 1)
    <3>1. w = [m EXCEPT !.dim = @ - 1]
      BY <1>0, <1>2, <2>1, <2>7, <2>9 DEF vector_remove_col
    <3>2. m.dim = v.dim
      BY <2>5, <2>10 DEF Like
    <3> QED BY <3>1, <3>2 DEF Widened
  <2>13. Holds(w, Narrowed(y, c, v.dim)) /\ w.dim = v.dim - 1 /\ w.type = m.type
    BY <1>0, <2>10, <2>11, <2>12, RedimHolds
  <2>14. Narrowed(y, c, v.dim) = Narrowed(x, c, v.dim)
    <3>1. y \in [0 .. (v.dim - 1) -> Int] /\ \A k \in 0 .. (v.dim - 1) : k # c => y[k] = x[k]
      BY ONLY <1>0, <2>3, c \in 0 .. (v.dim - 1) DEF With
    <3>2. \A k \in 0 .. (v.dim - 2) : (IF k < c THEN k ELSE k + 1) \in 0 .. (v.dim - 1) /\ (IF k < c THEN k ELSE k + 1) # c
      BY <1>0
    <3>3. \A k \in 0 .. (v.dim - 2) : y[IF k < c THEN k ELSE k + 1] = x[IF k < c THEN k ELSE k + 1]
      BY <3>1, <3>2
    <3> QED BY <3>3 DEF Narrowed
  <2>15. w.type = v.type
    BY <2>4, <2>10, <2>13 DEF Like
  <2> QED BY <2>13, <2>14, <2>15
<1> QED BY <1>1, <1>2

-----------------------------------------------------------------------------
(* Sums of counts.                                                         *)

SumCourse(h, rows, k) == h \in [0 .. k -> Int] /\ h[0] = 0 /\ \A j \in 1 .. k : h[j] = h[j - 1] + rows[j].nz
IsTotal(rows, k, t) == \E h : SumCourse(h, rows, k) /\ t = h[k]
Total(rows) == Upward(LAMBDA n, r : n + rows[r].nz, 1, Len(rows), 0)

LEMMA TotalOfNone ==
  ASSUME NEW rows
  PROVE  IsTotal(rows, 0, 0)
<1>1. PICK h : h = [j \in 0 .. 0 |-> 0]
  OBVIOUS
<1>2. SumCourse(h, rows, 0) /\ h[0] = 0
  <2>1. h \in [0 .. 0 -> Int] /\ h[0] = 0 /\ 1 .. 0 = {}
    BY <1>1
  <2> QED BY <2>1 DEF SumCourse
<1> QED BY <1>2 DEF IsTotal

LEMMA TotalInt ==
  ASSUME NEW rows, NEW k \in Nat, NEW t, IsTotal(rows, k, t)
  PROVE  t \in Int
<1>1. PICK h : SumCourse(h, rows, k) /\ t = h[k]
  BY DEF IsTotal
<1>2. k \in 0 .. k
  OBVIOUS
<1> QED BY <1>1, <1>2 DEF SumCourse

LEMMA TotalMore ==
  ASSUME NEW rows, NEW k \in Nat, NEW t, IsTotal(rows, k, t), rows[k + 1].nz \in Int
  PROVE  IsTotal(rows, k + 1, t + rows[k + 1].nz)
<1>1. PICK h : SumCourse(h, rows, k) /\ t = h[k]
  BY DEF IsTotal
<1>2. t \in Int
  BY TotalInt
<1>3. PICK m, u : m = rows[k + 1].nz /\ u = t + m
  OBVIOUS
<1>4. PICK g : g = [j \in 0 .. (k + 1) |-> IF j = k + 1 THEN u ELSE h[j]]
  OBVIOUS
<1>5. h \in [0 .. k -> Int] /\ h[0] = 0 /\ \A j \in 1 .. k : h[j] = h[j - 1] + rows[j].nz
  BY <1>1 DEF SumCourse
<1>6. g \in [0 .. (k + 1) -> Int] /\ g[0] = 0 /\ g[k + 1] = u
  <2>1. \A j \in 0 .. (k + 1) : j # k + 1 => j \in 0 .. k
    OBVIOUS
  <2>2. u \in Int /\ 0 \in 0 .. (k + 1) /\ 0 # k + 1 /\ k + 1 \in 0 .. (k + 1)
    BY <1>2, <1>3
  <2> QED BY <1>4, <1>5, <2>1, <2>2
<1>7. ASSUME NEW j \in 1 .. (k + 1) PROVE g[j] = g[j - 1] + rows[j].nz
  <2>1. j \in 0 .. (k + 1) /\ j - 1 \in 0 .. (k + 1) /\ j - 1 # k + 1
    OBVIOUS
  <2>2. g[j - 1] = h[j - 1]
    BY <1>4, <2>1
  <2>3. CASE j = k + 1
    <3>1. j - 1 = k
      BY <2>3
    <3>2. g[j] = t + m /\ g[j - 1] = t /\ rows[j].nz = m
      BY <1>1, <1>3, <1>6, <2>2, <2>3, <3>1
    <3> QED BY <3>2
  <2>4. CASE j # k + 1
    <3>1. j \in 1 .. k
      BY <2>4
    <3>2. g[j] = h[j]
      BY <1>4, <2>1, <2>4
    <3> QED BY <1>5, <2>2, <3>1, <3>2
  <2> QED BY <2>3, <2>4
<1>8. SumCourse(g, rows, k + 1)
  BY <1>6, <1>7 DEF SumCourse
<1> QED BY <1>3, <1>6, <1>8 DEF IsTotal

LEMMA TotalOne ==
  ASSUME NEW rows, NEW k \in Nat, NEW t, IsTotal(rows, k, t), NEW u, IsTotal(rows, k, u)
  PROVE  t = u
<1>1. PICK h : SumCourse(h, rows, k) /\ t = h[k]
  BY DEF IsTotal
<1>2. PICK g : SumCourse(g, rows, k) /\ u = g[k]
  BY DEF IsTotal
<1> DEFINE Q == {j \in 0 .. k : h[j] = g[j]}
<1>3. 0 \in Q
  BY <1>1, <1>2 DEF SumCourse
<1>4. \A j \in 1 .. k : j - 1 \in Q => j \in Q
  <2> SUFFICES ASSUME NEW j \in 1 .. k, h[j - 1] = g[j - 1] PROVE h[j] = g[j]
    OBVIOUS
  <2>1. h[j] = h[j - 1] + rows[j].nz /\ g[j] = g[j - 1] + rows[j].nz
    BY <1>1, <1>2 DEF SumCourse
  <2> QED BY <2>1
<1>5. 0 .. k \subseteq Q
  <2> HIDE DEF Q
  <2> QED BY <1>3, <1>4, UpToAll
<1>6. k \in Q
  <2>1. k \in 0 .. k
    OBVIOUS
  <2> HIDE DEF Q
  <2> QED BY <1>5, <2>1
<1> QED BY <1>1, <1>2, <1>6

LEMMA TotalSame ==
  ASSUME NEW rows, NEW k \in Nat, NEW t, IsTotal(rows, k, t), NEW R, \A j \in 1 .. k : R[j].nz = rows[j].nz
  PROVE  IsTotal(R, k, t)
<1>1. PICK h : SumCourse(h, rows, k) /\ t = h[k]
  BY DEF IsTotal
<1>2. SumCourse(h, R, k)
  BY <1>1 DEF SumCourse
<1> QED BY <1>1, <1>2 DEF IsTotal

LEMMA TotalChange ==
  ASSUME NEW rows, NEW k \in Nat, NEW t, IsTotal(rows, k, t), NEW p \in 1 .. k, NEW R, \A j \in 1 .. k : j # p => R[j].nz = rows[j].nz,
         R[p].nz \in Int, \A j \in 1 .. k : rows[j].nz \in Int
  PROVE  IsTotal(R, k, t + (R[p].nz - rows[p].nz))
<1>1. PICK h : SumCourse(h, rows, k) /\ t = h[k]
  BY DEF IsTotal
<1>2. PICK a, b, d \in Int : a = R[p].nz /\ b = rows[p].nz /\ d = a - b
  OBVIOUS
<1>3. h \in [0 .. k -> Int] /\ h[0] = 0 /\ \A j \in 1 .. k : h[j] = h[j - 1] + rows[j].nz
  BY <1>1 DEF SumCourse
<1>4. PICK g : g = [j \in 0 .. k |-> IF j < p THEN h[j] ELSE h[j] + d]
  OBVIOUS
<1>5. g \in [0 .. k -> Int] /\ \A j \in 0 .. k : g[j] = IF j < p THEN h[j] ELSE h[j] + d
  BY <1>3, <1>4
<1>6. g[0] = 0 /\ g[k] = t + d
  <2>1. 0 \in 0 .. k /\ 0 < p /\ k \in 0 .. k /\ ~(k < p)
    OBVIOUS
  <2> QED BY <1>1, <1>3, <1>5, <2>1
<1>7. ASSUME NEW j \in 1 .. k PROVE g[j] = g[j - 1] + R[j].nz
  <2>1. j \in 0 .. k /\ j - 1 \in 0 .. k /\ h[j] \in Int /\ h[j - 1] \in Int /\ h[j] = h[j - 1] + rows[j].nz
    BY <1>3
  <2>2. CASE j < p
    <3>1. j - 1 < p /\ R[j].nz = rows[j].nz
      BY <2>2
    <3> QED BY <1>5, <2>1, <2>2, <3>1
  <2>3. CASE j = p
    <3>1. j - 1 < p /\ ~(j < p) /\ R[j].nz = a /\ rows[j].nz = b
      BY <1>2, <2>3
    <3>2. g[j] = h[j] + d /\ g[j - 1] = h[j - 1] /\ h[j] = h[j - 1] + b
      BY <1>5, <2>1, <3>1
    <3> QED BY <1>2, <2>1, <3>1, <3>2
  <2>4. CASE j > p
    <3>1. ~(j - 1 < p) /\ ~(j < p) /\ R[j].nz = rows[j].nz
      BY <2>4
    <3>2. PICK e : e = rows[j].nz
      OBVIOUS
    <3>3. g[j] = h[j] + d /\ g[j - 1] = h[j - 1] + d /\ h[j] = h[j - 1] + e
      BY <1>5, <2>1, <3>1, <3>2
    <3>4. e \in Int
      BY <3>2
    <3> QED BY <1>2, <2>1, <3>1, <3>2, <3>3, <3>4
  <2> QED BY <2>2, <2>3, <2>4
<1>8. SumCourse(g, R, k)
  BY <1>5, <1>6, <1>7 DEF SumCourse
<1> QED BY <1>2, <1>6, <1>8 DEF IsTotal

LEMMA TotalWithout ==
  ASSUME NEW rows, NEW k \in Nat, NEW t, IsTotal(rows, k, t), NEW p \in 1 .. k, \A j \in 1 .. k : rows[j].nz \in Int,
         NEW R, \A j \in 1 .. (k - 1) : R[j] = IF j < p THEN rows[j] ELSE rows[j + 1]
  PROVE  IsTotal(R, k - 1, t - rows[p].nz)
<1>1. PICK h : SumCourse(h, rows, k) /\ t = h[k]
  BY DEF IsTotal
<1>2. PICK b \in Int : b = rows[p].nz
  OBVIOUS
<1>3. h \in [0 .. k -> Int] /\ h[0] = 0 /\ \A j \in 1 .. k : h[j] = h[j - 1] + rows[j].nz
  BY <1>1 DEF SumCourse
<1>4. PICK g : g = [j \in 0 .. (k - 1) |-> IF j < p THEN h[j] ELSE h[j + 1] - b]
  OBVIOUS
<1>5. g \in [0 .. (k - 1) -> Int] /\ \A j \in 0 .. (k - 1) : g[j] = IF j < p THEN h[j] ELSE h[j + 1] - b
  <2>1. \A j \in 0 .. (k - 1) : j \in 0 .. k /\ j + 1 \in 0 .. k
    OBVIOUS
  <2>2. \A j \in 0 .. (k - 1) : h[j] \in Int /\ h[j + 1] \in Int
    BY <1>3, <2>1
  <2> QED BY <1>4, <2>2
<1>6. h[p] = h[p - 1] + b /\ h[p] \in Int /\ h[p - 1] \in Int
  <2>1. p - 1 \in 0 .. k /\ p \in 0 .. k
    OBVIOUS
  <2> QED BY <1>2, <1>3, <2>1
<1>7. g[0] = 0 /\ g[k - 1] = t - b
  <2>1. 0 \in 0 .. (k - 1) /\ 0 < p /\ k - 1 \in 0 .. (k - 1) /\ (k - 1) + 1 = k
    OBVIOUS
  <2>2. g[0] = 0
    BY <1>3, <1>5, <2>1
  <2>3. CASE k - 1 < p
    <3>1. k = p
      BY <2>3
    <3>2. g[k - 1] = h[p - 1]
      BY <1>5, <2>1, <2>3, <3>1
    <3> QED BY <1>1, <1>6, <2>2, <3>1, <3>2
  <2>4. CASE ~(k - 1 < p)
    BY <1>1, <1>5, <2>1, <2>2, <2>4
  <2> QED BY <2>3, <2>4
<1>8. ASSUME NEW j \in 1 .. (k - 1) PROVE g[j] = g[j - 1] + R[j].nz
  <2>1. j \in 0 .. (k - 1) /\ j - 1 \in 0 .. (k - 1) /\ j \in 1 .. k /\ j + 1 \in 1 .. k /\ (j - 1) + 1 = j /\ (j + 1) - 1 = j /\ j \in 0 .. k /\ j + 1 \in 0 .. k /\ j - 1 \in 0 .. k
    OBVIOUS
  <2>2. h[j] = h[j - 1] + rows[j].nz /\ h[j + 1] = h[j] + rows[j + 1].nz /\ h[j] \in Int /\ h[j - 1] \in Int /\ h[j + 1] \in Int
    BY <1>3, <2>1
  <2>3. PICK d, e : d = rows[j].nz /\ e = rows[j + 1].nz
    OBVIOUS
  <2>4. d \in Int /\ e \in Int /\ h[j] = h[j - 1] + d /\ h[j + 1] = h[j] + e
    BY <2>1, <2>2, <2>3
  <2>5. CASE j < p
    <3>1. j - 1 < p /\ R[j].nz = d
      BY <2>3, <2>5
    <3>2. g[j] = h[j] /\ g[j - 1] = h[j - 1]
      BY <1>5, <2>1, <2>5, <3>1
    <3> QED BY <2>4, <3>1, <3>2
  <2>6. CASE j = p
    <3>1. j - 1 < p /\ ~(j < p) /\ R[j].nz = e /\ d = b
      BY <1>2, <2>3, <2>6
    <3>2. g[j] = h[j + 1] - b /\ g[j - 1] = h[j - 1]
      BY <1>5, <2>1, <3>1
    <3> QED BY <2>2, <2>4, <3>1, <3>2
  <2>7. CASE j > p
    <3>1. ~(j - 1 < p) /\ ~(j < p) /\ R[j].nz = e
      BY <2>3, <2>7
    <3>2. g[j] = h[j + 1] - b /\ g[j - 1] = h[j] - b
      BY <1>5, <2>1, <3>1
    <3> QED BY <2>2, <2>4, <3>1, <3>2
  <2> QED BY <2>5, <2>6, <2>7
<1>9. SumCourse(g, R, k - 1)
  BY <1>5, <1>7, <1>8 DEF SumCourse
<1> QED BY <1>2, <1>7, <1>9 DEF IsTotal

LEMMA TotalIs ==
  ASSUME NEW rows, Len(rows) \in Nat, \A j \in 1 .. Len(rows) : rows[j].nz \in Int, NEW r, r = Total(rows)
  PROVE  IsTotal(rows, Len(rows), r)
<1>n. PICK m \in Nat : m = Len(rows)
  OBVIOUS
<1> DEFINE s == 0
<1>0. s \in Int /\ IsTotal(rows, 0, s)
  BY TotalOfNone
<1> DEFINE Q == [k \in 0 .. m |-> {t \in Int : IsTotal(rows, k, t)}]
           F == [p \in (1 .. m) \X Int |-> p[2] + rows[1 + p[1] - 1].nz]
           h == CHOOSE g : g = [k \in 0 .. (Len(rows) - 1 + 1) |-> IF k = 0 THEN s ELSE g[k - 1] + rows[1 + k - 1].nz]
<1> HIDE DEF Q, F, h
<1>l1. /\ m \in Nat /\ Len(rows) - 1 + 1 = m /\ (1 > Len(rows) <=> m = 0)
       /\ 0 \in 0 .. m /\ \A k \in 1 .. m : k - 1 \in 0 .. m /\ k \in 0 .. m /\ k # 0
  BY <1>n
<1>l2. s \in Int /\ IsTotal(rows, 0, s)
  BY <1>0
<1>l3. ASSUME NEW k \in 1 .. m, NEW t \in Int, IsTotal(rows, k - 1, t) PROVE t + rows[1 + k - 1].nz \in Int /\ IsTotal(rows, k, t + rows[1 + k - 1].nz)
  <2>1. k - 1 \in Nat /\ (k - 1) + 1 = k /\ 1 + k - 1 = k /\ k \in 1 .. m
    OBVIOUS
  <2>2. rows[k].nz \in Int
    BY <1>n
  <2>3. IsTotal(rows, k, t + rows[k].nz)
    <3>1. PICK j : j = k - 1
      OBVIOUS
    <3>2. j \in Nat /\ j + 1 = k /\ IsTotal(rows, j, t)
      BY <1>l3, <2>1, <3>1
    <3> QED BY <2>2, <3>2, TotalMore
  <2> QED BY <1>l3, <2>1, <2>2, <2>3
<1>l4. \A k \in 1 .. m : \A t \in Q[k - 1] : t \in Int /\ F[<<k, t>>] = t + rows[1 + k - 1].nz /\ F[<<k, t>>] \in Q[k]
  <2> SUFFICES ASSUME NEW k \in 1 .. m, NEW t \in Q[k - 1] PROVE t \in Int /\ F[<<k, t>>] = t + rows[1 + k - 1].nz /\ F[<<k, t>>] \in Q[k]
    OBVIOUS
  <2>1. t \in Int /\ IsTotal(rows, k - 1, t)
    BY ONLY <1>l1, t \in Q[k - 1], k \in 1 .. m DEF Q
  <2>2. F[<<k, t>>] = t + rows[1 + k - 1].nz
    BY ONLY <2>1, k \in 1 .. m DEF F
  <2>3. t + rows[1 + k - 1].nz \in Int /\ IsTotal(rows, k, t + rows[1 + k - 1].nz)
    BY ONLY <1>l3, <2>1, k \in 1 .. m
  <2>4. t + rows[1 + k - 1].nz \in Q[k]
    BY ONLY <1>l1, <2>3, k \in 1 .. m DEF Q
  <2> QED BY ONLY <2>1, <2>2, <2>4
<1>l0. s \in Q[0]
  BY ONLY <1>l1, <1>l2 DEF Q
<1>l5. h = [k \in 0 .. (Len(rows) - 1 + 1) |-> IF k = 0 THEN s ELSE h[k - 1] + rows[1 + k - 1].nz]
  <2>1. PICK g : IsCourse(g, m, s, F, Q)
    BY ONLY <1>l1, <1>l0, <1>l4, LoopExists
  <2>2. /\ g = [k \in 0 .. m |-> IF k = 0 THEN s ELSE F[<<k, g[k - 1]>>]]
        /\ \A k \in 0 .. m : g[k] \in Q[k]
    BY ONLY <2>1 DEF IsCourse
  <2>3. \A k \in 0 .. m : k # 0 => k \in 1 .. m /\ k - 1 \in 0 .. m
    BY ONLY <1>l1
  <2>4. g = [k \in 0 .. m |-> IF k = 0 THEN s ELSE g[k - 1] + rows[1 + k - 1].nz]
    BY ONLY <1>l4, <2>2, <2>3
  <2> QED BY ONLY <1>l1, <2>4 DEF h
<1>l6. h[m] \in Q[m]
  <2>1. h[0] = s /\ \A k \in 1 .. m : h[k] = h[k - 1] + rows[1 + k - 1].nz
    BY ONLY <1>l1, <1>l5
  <2>2. h[0] \in Q[0] /\ \A k \in 1 .. m : h[k - 1] \in Q[k - 1] => h[k] \in Q[k]
    BY ONLY <1>l0, <1>l4, <2>1
  <2> QED BY ONLY <1>l1, <2>2, CourseStays
<1>l7. r = IF 1 > Len(rows) THEN s ELSE h[Len(rows) - 1 + 1]
  BY DEF Upward, Total, s, h
<1>l8. r \in Q[m]
  BY ONLY <1>l0, <1>l1, <1>l6, <1>l7
<1>l9. r \in Int /\ IsTotal(rows, m, r)
  <2>1. m \in 0 .. m
    BY ONLY <1>l1
  <2> QED BY ONLY <1>l8, <2>1 DEF Q
<1> QED BY <1>n, <1>l9

-----------------------------------------------------------------------------
(* Matrices: what each row means, and the count of them all.               *)

IsGrid(A) == A = [type |-> A.type, rows |-> A.rows, cols |-> A.cols, nz |-> A.nz, size |-> A.size]

RowIs(v, x, type, n) == Holds(v, x) /\ v.type = type /\ v.dim = n
Rowed(R, X, type, n) ==
  /\ R \in Seq(Vecs) /\ X \in Seq([0 .. (n - 1) -> Int]) /\ Len(X) = Len(R)
  /\ \A r \in 1 .. Len(R) : RowIs(R[r], X[r], type, n)
Counted(A) == A.type # "NON_SPARSE" => IsTotal(A.rows, Len(A.rows), A.nz)
Grid(A, X, type, n) ==
  /\ IsGrid(A) /\ A.type = type /\ type \in VectorTypes /\ A.cols = n /\ n \in Nat /\ A.nz \in Int /\ A.size \in Nat
  /\ Rowed(A.rows, X, type, n) /\ Counted(A)

GridPut(A, R, m) == [A EXCEPT !.rows = R, !.nz = m]

LEMMA GridPutIs ==
  ASSUME NEW A, IsGrid(A), NEW R, NEW m, NEW B, B = GridPut(A, R, m)
  PROVE  IsGrid(B) /\ B.type = A.type /\ B.cols = A.cols /\ B.size = A.size /\ B.rows = R /\ B.nz = m
<1>1. PICK t, c, s, r, z : t = A.type /\ c = A.cols /\ s = A.size /\ r = A.rows /\ z = A.nz
  OBVIOUS
<1>2. A = [type |-> t, rows |-> r, cols |-> c, nz |-> z, size |-> s]
  BY <1>1 DEF IsGrid
<1>3. B = [type |-> t, rows |-> R, cols |-> c, nz |-> m, size |-> s]
  BY <1>2 DEF GridPut
<1>4. B.type = t /\ B.rows = R /\ B.cols = c /\ B.nz = m /\ B.size = s
  BY ONLY <1>3
<1> QED BY ONLY <1>1, <1>3, <1>4 DEF IsGrid

LEMMA RowIsVec ==
  ASSUME NEW v, NEW x, NEW type, NEW n, RowIs(v, x, type, n)
  PROVE  v \in Vecs /\ v.nz \in Int /\ n \in Nat /\ x \in [0 .. (n - 1) -> Int] /\ Holds(v, x) /\ v.type = type /\ v.dim = n
BY VecsAreAll DEF RowIs, Holds, Vec

LEMMA GridRow ==
  ASSUME NEW A, NEW X, NEW type, NEW n, Grid(A, X, type, n), NEW r \in 1 .. Len(A.rows)
  PROVE  /\ RowIs(A.rows[r], X[r], type, n) /\ A.rows[r].nz \in Int /\ X[r] \in [0 .. (n - 1) -> Int]
         /\ Len(A.rows) \in Nat /\ Len(X) = Len(A.rows) /\ r \in 1 .. Len(X)
BY RowIsVec DEF Grid, Rowed

LEMMA RowedPut ==
  ASSUME NEW R, NEW X, NEW type, NEW n, Rowed(R, X, type, n), NEW p \in 1 .. Len(R), NEW v, NEW x, RowIs(v, x, type, n)
  PROVE  Rowed(With(R, p, v), With(X, p, x), type, n)
<1>1. PICK T, Y, V : T = With(R, p, v) /\ Y = With(X, p, x) /\ V = [0 .. (n - 1) -> Int]
  OBVIOUS
<1>2. v \in Vecs /\ x \in V
  BY <1>1, RowIsVec
<1>3. R \in Seq(Vecs) /\ X \in Seq(V) /\ Len(X) = Len(R) /\ Len(R) \in Nat /\ p \in 1 .. Len(X)
  BY <1>1 DEF Rowed
<1>4. T \in Seq(Vecs) /\ Len(T) = Len(R) /\ \A k \in 1 .. Len(R) : T[k] = IF k = p THEN v ELSE R[k]
  BY ONLY <1>1, <1>2, <1>3, p \in 1 .. Len(R) DEF With
<1>5. Y \in Seq(V) /\ Len(Y) = Len(X) /\ \A k \in 1 .. Len(X) : Y[k] = IF k = p THEN x ELSE X[k]
  BY ONLY <1>1, <1>2, <1>3 DEF With
<1>6. ASSUME NEW k \in 1 .. Len(T) PROVE RowIs(T[k], Y[k], type, n)
  BY <1>3, <1>4, <1>5 DEF Rowed
<1> QED BY <1>1, <1>3, <1>4, <1>5, <1>6 DEF Rowed

LEMMA RowChangedHolds ==
  ASSUME NEW A, NEW X, NEW type, NEW n, Grid(A, X, type, n), NEW r \in 1 .. Len(A.rows), NEW v, NEW x, RowIs(v, x, type, n),
         NEW B, B = RowChanged(A, r, v)
  PROVE  Grid(B, With(X, r, x), type, n)
<1>1. PICK R, m : R = With(A.rows, r, v) /\ m = A.nz + (v.nz - A.rows[r].nz)
  OBVIOUS
<1>2. B = GridPut(A, R, m)
  BY <1>1 DEF RowChanged, GridPut, With
<1>3. IsGrid(B) /\ B.type = A.type /\ B.cols = A.cols /\ B.size = A.size /\ B.rows = R /\ B.nz = m
  BY <1>2, GridPutIs DEF Grid
<1>4. Rowed(R, With(X, r, x), type, n)
  BY <1>1, RowedPut DEF Grid
<1>5. R \in Seq(Vecs) /\ Len(R) = Len(A.rows) /\ \A k \in 1 .. Len(A.rows) : R[k] = IF k = r THEN v ELSE A.rows[k]
  <2>1. v \in Vecs
    BY RowIsVec
  <2>2. PICK S : S = A.rows
    OBVIOUS
  <2>3. S \in Seq(Vecs) /\ r \in 1 .. Len(S) /\ R = With(S, r, v)
    BY <1>1, <2>2 DEF Grid, Rowed
  <2>4. R \in Seq(Vecs) /\ Len(R) = Len(S) /\ \A k \in 1 .. Len(S) : R[k] = IF k = r THEN v ELSE S[k]
    BY ONLY <2>1, <2>3 DEF With
  <2> QED BY ONLY <2>2, <2>4
<1>6. v.nz \in Int /\ \A k \in 1 .. Len(A.rows) : A.rows[k].nz \in Int
  BY RowIsVec, GridRow
<1>7. m \in Int
  BY <1>1, <1>6 DEF Grid
<1>8. A.type # "NON_SPARSE" => IsTotal(R, Len(A.rows), m)
  <2> SUFFICES ASSUME A.type # "NON_SPARSE" PROVE IsTotal(R, Len(A.rows), m)
    OBVIOUS
  <2>1. IsTotal(A.rows, Len(A.rows), A.nz) /\ Len(A.rows) \in Nat
    BY DEF Grid, Counted, Rowed
  <2>2. R[r] = v /\ \A k \in 1 .. Len(A.rows) : k # r => R[k].nz = A.rows[k].nz
    BY <1>5
  <2> QED BY <1>1, <1>6, <2>1, <2>2, TotalChange
<1> QED BY <1>3, <1>4, <1>5, <1>7, <1>8 DEF Grid, Counted

LEMMA MatrixSetHolds ==
  ASSUME NEW A, NEW X, NEW type, NEW n, Grid(A, X, type, n), n <= MaxTurns, NEW r \in 1 .. Len(A.rows), NEW c \in 0 .. (n - 1), NEW d \in Int,
         NEW B, B = matr_set(A, r, c, d)
  PROVE  Grid(B, With(X, r, With(X[r], c, d)), type, n)
<1>1. PICK v, w, x : v = A.rows[r] /\ w = vector_set(v, c, d) /\ x = With(X[r], c, d)
  OBVIOUS
<1>2. Holds(v, X[r]) /\ v.type = type /\ v.dim = n
  BY <1>1, GridRow DEF RowIs
<1>3. Holds(w, x) /\ Like(w, v)
  BY <1>1, <1>2, SetHolds
<1>4. RowIs(w, x, type, n)
  BY <1>2, <1>3 DEF RowIs, Like
<1> QED BY <1>1, <1>4, RowChangedHolds DEF matr_set

LEMMA SetRowHolds ==
  ASSUME NEW A, NEW X, NEW type, NEW n, Grid(A, X, type, n), 2 * n <= MaxTurns, NEW r \in 1 .. Len(A.rows), NEW v, NEW x, Holds(v, x), v.dim = n,
         NEW B, B = matr_set_row(A, r, v)
  PROVE  Grid(B, With(X, r, x), type, n)
<1>1. PICK o, w : o = A.rows[r] /\ w = vector_copy(v, o)
  OBVIOUS
<1>2. Holds(o, X[r]) /\ o.type = type /\ o.dim = n
  BY <1>1, GridRow DEF RowIs
<1>3. Holds(w, x) /\ Like(w, o)
  BY <1>1, <1>2, CopyHolds
<1>4. RowIs(w, x, type, n)
  BY <1>2, <1>3 DEF RowIs, Like
<1> QED BY <1>1, <1>4, RowChangedHolds DEF matr_set_row

\* A matrix made is one of zeros.
ZeroRowsOf(m, n) == [r \in 1 .. m |-> ZeroRow(n)]

LEMMA TotalZeros ==
  ASSUME NEW m \in Nat, NEW R, \A r \in 1 .. m : R[r].nz = 0
  PROVE  IsTotal(R, m, 0)
<1>1. PICK h : h = [j \in 0 .. m |-> 0]
  OBVIOUS
<1>2. SumCourse(h, R, m)
  <2>1. \A j \in 1 .. m : j \in 0 .. m /\ j - 1 \in 0 .. m
    OBVIOUS
  <2>2. \A j \in 0 .. m : h[j] = 0
    BY <1>1
  <2>3. h \in [0 .. m -> Int] /\ 0 \in 0 .. m
    BY <1>1
  <2> QED BY <2>1, <2>2, <2>3 DEF SumCourse
<1>3. h[m] = 0
  <2>1. m \in 0 .. m
    OBVIOUS
  <2> QED BY <1>1, <2>1
<1> QED BY <1>2, <1>3 DEF IsTotal

LEMMA MakeMatrixHolds ==
  ASSUME NEW m \in Nat, NEW n \in Nat, NEW type \in VectorTypes, NEW size \in Nat, NEW A, A = matr_make_size(m, n, type, size)
  PROVE  Grid(A, ZeroRowsOf(m, n), type, n) /\ Len(A.rows) = m
<1>1. PICK v, R, z : v = vector_make_size(n, type, size) /\ R = [r \in 1 .. m |-> v] /\ z = IF type = "NON_SPARSE" THEN m * n ELSE 0
  OBVIOUS
<1>2. A = [type |-> type, rows |-> R, cols |-> n, nz |-> z, size |-> size]
  BY <1>1 DEF matr_make_size
<1>3. A.type = type /\ A.rows = R /\ A.cols = n /\ A.nz = z /\ A.size = size
  BY ONLY <1>2
<1>4. IsGrid(A)
  BY <1>2, <1>3 DEF IsGrid
<1>5. z \in Int
  <2>1. m * n \in Int
    OBVIOUS
  <2> QED BY <1>1, <2>1
<1>6. RowIs(v, ZeroRow(n), type, n) /\ (type # "NON_SPARSE" => v.nz = 0)
  BY <1>1, MakeHolds DEF RowIs
<1>7. v \in Vecs /\ ZeroRow(n) \in [0 .. (n - 1) -> Int]
  BY <1>6, RowIsVec
<1>8. R \in Seq(Vecs) /\ Len(R) = m /\ \A r \in 1 .. m : R[r] = v
  BY <1>1, <1>7
<1>9. ZeroRowsOf(m, n) \in Seq([0 .. (n - 1) -> Int]) /\ Len(ZeroRowsOf(m, n)) = m /\ \A r \in 1 .. m : ZeroRowsOf(m, n)[r] = ZeroRow(n)
  <2>1. PICK x, V : x = ZeroRow(n) /\ V = [0 .. (n - 1) -> Int]
    OBVIOUS
  <2>2. PICK Z : Z = [r \in 1 .. m |-> x]
    OBVIOUS
  <2>3. Z \in Seq(V) /\ Len(Z) = m /\ \A r \in 1 .. m : Z[r] = x
    <3>1. x \in V
      BY <1>7, <2>1
    <3> QED BY ONLY <2>2, <3>1, m \in Nat
  <2> QED BY <2>1, <2>2, <2>3 DEF ZeroRowsOf
<1>10. Rowed(R, ZeroRowsOf(m, n), type, n)
  BY <1>6, <1>8, <1>9 DEF Rowed
<1>11. type # "NON_SPARSE" => IsTotal(R, m, z)
  <2> SUFFICES ASSUME type # "NON_SPARSE" PROVE IsTotal(R, m, z)
    OBVIOUS
  <2>1. z = 0 /\ \A r \in 1 .. m : R[r].nz = 0
    BY <1>1, <1>6, <1>8
  <2> QED BY <2>1, TotalZeros
<1> QED BY <1>3, <1>4, <1>5, <1>8, <1>10, <1>11 DEF Grid, Counted

-----------------------------------------------------------------------------
(* A column set from a vector.                                             *)

Matrices == [type : VectorTypes, rows : Seq(Vecs), cols : Nat, nz : Int, size : Nat]

LEMMA GridIn ==
  ASSUME NEW A, NEW X, NEW type, NEW n, Grid(A, X, type, n)
  PROVE  A \in Matrices
<1>1. PICK t, c, s, r, z : t = A.type /\ c = A.cols /\ s = A.size /\ r = A.rows /\ z = A.nz
  OBVIOUS
<1>2. A = [type |-> t, rows |-> r, cols |-> c, nz |-> z, size |-> s]
  BY <1>1 DEF Grid, IsGrid
<1>3. t \in VectorTypes /\ r \in Seq(Vecs) /\ c \in Nat /\ z \in Int /\ s \in Nat
  BY <1>1 DEF Grid, Rowed
<1> QED BY ONLY <1>2, <1>3 DEF Matrices

\* Column c taken from x in the first k rows.
SoFar(X, c, x, k) == [r \in 1 .. Len(X) |-> IF r <= k THEN With(X[r], c, x[r - 1]) ELSE X[r]]

Columned(X, n, c, x) == n \in Nat /\ X \in Seq([0 .. (n - 1) -> Int]) /\ c \in 0 .. (n - 1) /\ x \in [0 .. (Len(X) - 1) -> Int]
RowsOf(X, n, l) == n \in Nat /\ l \in Nat /\ X \in Seq([0 .. (n - 1) -> Int]) /\ Len(X) = l

LEMMA RowsOfIs ==
  ASSUME NEW n \in Nat, NEW l \in Nat, NEW f, f = [r \in 1 .. l |-> f[r]], \A r \in 1 .. l : f[r] \in [0 .. (n - 1) -> Int]
  PROVE  RowsOf(f, n, l)
<1>1. PICK V : V = [0 .. (n - 1) -> Int]
  OBVIOUS
<1>2. \A r \in 1 .. l : f[r] \in V
  BY ONLY <1>1, \A r \in 1 .. l : f[r] \in [0 .. (n - 1) -> Int]
<1>3. f \in [1 .. l -> V]
  BY ONLY <1>2, f = [r \in 1 .. l |-> f[r]]
<1>4. f \in Seq(V) /\ Len(f) = l
  BY ONLY <1>3, l \in Nat
<1> QED BY <1>1, <1>4 DEF RowsOf

LEMMA ColumnedIs ==
  ASSUME NEW X, NEW n, NEW c, NEW x, Columned(X, n, c, x)
  PROVE  /\ n \in Nat /\ c \in 0 .. (n - 1) /\ Len(X) \in Nat /\ X = [r \in 1 .. Len(X) |-> X[r]]
         /\ \A k \in 0 .. (Len(X) - 1) : x[k] \in Int
         /\ \A r \in 1 .. Len(X) : X[r] \in [0 .. (n - 1) -> Int]
<1>1. PICK V, l : V = [0 .. (n - 1) -> Int] /\ l = Len(X)
  OBVIOUS
<1>2. X \in Seq(V)
  BY <1>1 DEF Columned
<1>3. Len(X) \in Nat /\ X = [r \in 1 .. Len(X) |-> X[r]] /\ \A r \in 1 .. Len(X) : X[r] \in V
  BY ONLY <1>2
<1> QED BY <1>1, <1>3 DEF Columned

LEMMA SoFarIs ==
  ASSUME NEW X, NEW n, NEW c, NEW x, Columned(X, n, c, x), NEW k \in Int, NEW Y, Y = SoFar(X, c, x, k)
  PROVE  /\ RowsOf(Y, n, Len(X)) /\ Y = [r \in 1 .. Len(X) |-> Y[r]]
         /\ \A r \in 1 .. Len(X) : (r <= k => Y[r] = With(X[r], c, x[r - 1])) /\ (~(r <= k) => Y[r] = X[r])
<1>1. PICK l : l = Len(X)
  OBVIOUS
<1>2. l \in Nat /\ n \in Nat /\ c \in 0 .. (n - 1)
  BY <1>1, ColumnedIs
<1>3. Y = [r \in 1 .. l |-> IF r <= k THEN With(X[r], c, x[r - 1]) ELSE X[r]]
  BY <1>1 DEF SoFar
<1>4. \A r \in 1 .. l : (r <= k => Y[r] = With(X[r], c, x[r - 1])) /\ (~(r <= k) => Y[r] = X[r])
  BY ONLY <1>3
<1>5. Y = [r \in 1 .. l |-> Y[r]]
  BY ONLY <1>3
<1>6. ASSUME NEW r \in 1 .. l PROVE Y[r] \in [0 .. (n - 1) -> Int]
  <2>1. PICK w, d : w = X[r] /\ d = x[r - 1]
    OBVIOUS
  <2>2. r - 1 \in 0 .. (l - 1)
    BY <1>2
  <2>3. w \in [0 .. (n - 1) -> Int] /\ d \in Int
    BY <1>1, <2>1, <2>2, ColumnedIs
  <2>4. With(w, c, d) \in [0 .. (n - 1) -> Int]
    BY ONLY <2>3, <1>2 DEF With
  <2> QED BY ONLY <1>4, <2>1, <2>3, <2>4, r \in 1 .. l
<1>7. RowsOf(Y, n, l)
  BY <1>2, <1>5, <1>6, RowsOfIs
<1> QED BY <1>1, <1>4, <1>5, <1>7

LEMMA SoFarMore ==
  ASSUME NEW X, NEW n, NEW c, NEW x, Columned(X, n, c, x), NEW k \in 0 .. (Len(X) - 1),
         NEW Y, Y = SoFar(X, c, x, k), NEW d, d = x[k], NEW Z, Z = With(Y, k + 1, With(Y[k + 1], c, d))
  PROVE  Z = SoFar(X, c, x, k + 1)
<1>1. PICK W, j, l : W = SoFar(X, c, x, k + 1) /\ j = k + 1 /\ l = Len(X)
  OBVIOUS
<1>0. l \in Nat /\ k \in Int /\ k + 1 \in Int /\ k \in 0 .. (l - 1)
  BY <1>1, ColumnedIs
<1>2. /\ Y = [r \in 1 .. l |-> Y[r]]
      /\ \A r \in 1 .. l : (r <= k => Y[r] = With(X[r], c, x[r - 1])) /\ (~(r <= k) => Y[r] = X[r])
  BY <1>0, <1>1, SoFarIs
<1>3. /\ W = [r \in 1 .. l |-> W[r]]
      /\ \A r \in 1 .. l : (r <= j => W[r] = With(X[r], c, x[r - 1])) /\ (~(r <= j) => W[r] = X[r])
  <2>1. W = SoFar(X, c, x, j) /\ j \in Int
    BY <1>0, <1>1
  <2> QED BY <1>1, <2>1, SoFarIs
<1>4. j \in 1 .. l /\ ~(j <= k) /\ j <= j /\ j - 1 = k
  BY <1>0, <1>1
<1>5. Y[j] = X[j] /\ W[j] = With(X[j], c, d)
  BY <1>2, <1>3, <1>4
<1>6. PICK e : e = With(Y[j], c, d)
  OBVIOUS
<1>7. Z = [r \in 1 .. l |-> Z[r]] /\ \A r \in 1 .. l : (r = j => Z[r] = e) /\ (r # j => Z[r] = Y[r])
  <2>1. Z = With(Y, j, e)
    BY <1>1, <1>6
  <2>2. Z = [r \in 1 .. l |-> IF r = j THEN e ELSE Y[r]]
    BY ONLY <1>2, <2>1 DEF With
  <2> QED BY ONLY <2>2
<1>8. ASSUME NEW r \in 1 .. l PROVE Z[r] = W[r]
  <2>1. CASE r = j
    BY <1>5, <1>6, <1>7, <2>1
  <2>2. CASE r # j
    <3>1. r <= j <=> r <= k
      BY <1>0, <1>1, <2>2
    <3> QED BY <1>2, <1>3, <1>7, <2>2, <3>1
  <2> QED BY <2>1, <2>2
<1>10. Z = W
  BY ONLY <1>3, <1>7, <1>8
<1> QED BY <1>1, <1>10

\* The element k of the column.
LEMMA ColumnPutHolds ==
  ASSUME NEW type, NEW n, NEW X, NEW c, NEW x, Columned(X, n, c, x), NEW k \in 0 .. (Len(X) - 1), NEW A,
         Grid(A, SoFar(X, c, x, k), type, n), n <= MaxTurns, NEW B, B = matr_set(A, k + 1, c, x[k])
  PROVE  Grid(B, SoFar(X, c, x, k + 1), type, n)
<1>1. n \in Nat /\ Len(X) \in Nat /\ c \in 0 .. (n - 1) /\ x[k] \in Int /\ k \in Int
  BY ColumnedIs
<1>2. PICK Y, j, d : Y = SoFar(X, c, x, k) /\ j = k + 1 /\ d = x[k]
  OBVIOUS
<1>3. Len(Y) = Len(X) /\ Len(A.rows) = Len(Y) /\ j \in 1 .. Len(A.rows) /\ d \in Int
  <2>1. Len(Y) = Len(X)
    <3>1. RowsOf(Y, n, Len(X))
      BY <1>1, <1>2, SoFarIs
    <3> QED BY <3>1 DEF RowsOf
  <2>2. Len(A.rows) = Len(Y)
    BY <1>2 DEF Grid, Rowed
  <2> QED BY <1>1, <1>2, <2>1, <2>2
<1>4. PICK Z : Z = With(Y, j, With(Y[j], c, d))
  OBVIOUS
<1>5. Grid(B, Z, type, n)
  BY <1>1, <1>2, <1>3, <1>4, MatrixSetHolds
<1>6. Z = SoFar(X, c, x, k + 1)
  BY <1>1, <1>2, <1>4, SoFarMore
<1> QED BY <1>5, <1>6

ZeroRowsAt(T, X, c, x, type, n, k) == Grid(T, SoFar(X, c, x, k), type, n)
ZeroTurn(T, i, c) == matr_set(T, i + 1, c, 0)
ZeroRowsOff(c, from, to, A) == Upward(LAMBDA B, i : matr_set(B, i + 1, c, 0), from, to, A)

LEMMA ZeroTurnIs ==
  ASSUME NEW type, NEW n, NEW X, NEW c, NEW x, Columned(X, n, c, x), n <= MaxTurns,
         NEW k \in 0 .. (Len(X) - 1), x[k] = 0, NEW t, ZeroRowsAt(t, X, c, x, type, n, k), NEW w, w = ZeroTurn(t, k, c)
  PROVE  ZeroRowsAt(w, X, c, x, type, n, k + 1) /\ w \in Matrices
<1>1. Grid(t, SoFar(X, c, x, k), type, n) /\ w = matr_set(t, k + 1, c, x[k])
  BY DEF ZeroRowsAt, ZeroTurn
<1>2. Grid(w, SoFar(X, c, x, k + 1), type, n)
  BY <1>1, ColumnPutHolds
<1> QED BY <1>2, GridIn DEF ZeroRowsAt

LEMMA ZeroRowsOffHolds ==
  ASSUME NEW type, NEW n, NEW X, NEW c, NEW x, Columned(X, n, c, x), n <= MaxTurns,
         NEW from \in Nat, NEW to \in Int, from - 1 <= to, to < Len(X), Zeros(x, from, to + 1),
         NEW A, Grid(A, SoFar(X, c, x, from), type, n), NEW r, r = ZeroRowsOff(c, from, to, A)
  PROVE  Grid(r, SoFar(X, c, x, to + 1), type, n)
<1>0. Len(X) \in Nat
  BY ColumnedIs
<1> PICK m \in Nat : m = to - from + 1
  OBVIOUS
<1> DEFINE Q == [k \in 0 .. m |-> {t \in Matrices : ZeroRowsAt(t, X, c, x, type, n, from + k)}]
           F == [p \in (1 .. m) \X Matrices |-> ZeroTurn(p[2], from + p[1] - 1, c)]
           h == CHOOSE g : g = [k \in 0 .. (to - from + 1) |-> IF k = 0 THEN A ELSE ZeroTurn(g[k - 1], from + k - 1, c)]
<1> HIDE DEF Q, F, h
<1>l1. /\ m \in Nat /\ to - from + 1 = m /\ (from > to <=> m = 0)
       /\ 0 \in 0 .. m /\ \A k \in 1 .. m : k - 1 \in 0 .. m /\ k \in 0 .. m /\ k # 0
  OBVIOUS
<1>l2. A \in Matrices /\ ZeroRowsAt(A, X, c, x, type, n, from + 0)
  <2>1. from + 0 = from
    OBVIOUS
  <2> QED BY <2>1, GridIn DEF ZeroRowsAt
<1>l3. ASSUME NEW k \in 1 .. m, NEW t \in Matrices, ZeroRowsAt(t, X, c, x, type, n, from + k - 1) PROVE ZeroTurn(t, from + k - 1, c) \in Matrices /\ ZeroRowsAt(ZeroTurn(t, from + k - 1, c), X, c, x, type, n, from + k)
  <2>1. PICK j : j = from + k - 1
    OBVIOUS
  <2>2. j \in 0 .. (Len(X) - 1) /\ j \in from .. (to + 1 - 1) /\ from + (k - 1) = j /\ j + 1 = from + k
    BY <1>0, <2>1
  <2>3. x[j] = 0
    BY <2>2 DEF Zeros
  <2>4. PICK w : w = ZeroTurn(t, j, c)
    OBVIOUS
  <2>5. ZeroRowsAt(t, X, c, x, type, n, j)
    BY <1>l3, <2>2
  <2>6. ZeroRowsAt(w, X, c, x, type, n, j + 1) /\ w \in Matrices
    BY <2>2, <2>3, <2>4, <2>5, ZeroTurnIs
  <2> QED BY <2>1, <2>2, <2>4, <2>6
<1>l4. \A k \in 1 .. m : \A t \in Q[k - 1] : t \in Matrices /\ F[<<k, t>>] = ZeroTurn(t, from + k - 1, c) /\ F[<<k, t>>] \in Q[k]
  <2> SUFFICES ASSUME NEW k \in 1 .. m, NEW t \in Q[k - 1] PROVE t \in Matrices /\ F[<<k, t>>] = ZeroTurn(t, from + k - 1, c) /\ F[<<k, t>>] \in Q[k]
    OBVIOUS
  <2>1. t \in Matrices /\ ZeroRowsAt(t, X, c, x, type, n, from + k - 1)
    BY ONLY <1>l1, t \in Q[k - 1], k \in 1 .. m DEF Q
  <2>2. F[<<k, t>>] = ZeroTurn(t, from + k - 1, c)
    BY ONLY <2>1, k \in 1 .. m DEF F
  <2>3. ZeroTurn(t, from + k - 1, c) \in Matrices /\ ZeroRowsAt(ZeroTurn(t, from + k - 1, c), X, c, x, type, n, from + k)
    BY ONLY <1>l3, <2>1, k \in 1 .. m
  <2>4. ZeroTurn(t, from + k - 1, c) \in Q[k]
    BY ONLY <1>l1, <2>3, k \in 1 .. m DEF Q
  <2> QED BY ONLY <2>1, <2>2, <2>4
<1>l0. A \in Q[0]
  BY ONLY <1>l1, <1>l2 DEF Q
<1>l5. h = [k \in 0 .. (to - from + 1) |-> IF k = 0 THEN A ELSE ZeroTurn(h[k - 1], from + k - 1, c)]
  <2>1. PICK g : IsCourse(g, m, A, F, Q)
    BY ONLY <1>l1, <1>l0, <1>l4, LoopExists
  <2>2. /\ g = [k \in 0 .. m |-> IF k = 0 THEN A ELSE F[<<k, g[k - 1]>>]]
        /\ \A k \in 0 .. m : g[k] \in Q[k]
    BY ONLY <2>1 DEF IsCourse
  <2>3. \A k \in 0 .. m : k # 0 => k \in 1 .. m /\ k - 1 \in 0 .. m
    BY ONLY <1>l1
  <2>4. g = [k \in 0 .. m |-> IF k = 0 THEN A ELSE ZeroTurn(g[k - 1], from + k - 1, c)]
    BY ONLY <1>l4, <2>2, <2>3
  <2> QED BY ONLY <1>l1, <2>4 DEF h
<1>l6. h[m] \in Q[m]
  <2>1. h[0] = A /\ \A k \in 1 .. m : h[k] = ZeroTurn(h[k - 1], from + k - 1, c)
    BY ONLY <1>l1, <1>l5
  <2>2. h[0] \in Q[0] /\ \A k \in 1 .. m : h[k - 1] \in Q[k - 1] => h[k] \in Q[k]
    BY ONLY <1>l0, <1>l4, <2>1
  <2> QED BY ONLY <1>l1, <2>2, CourseStays
<1>l7. r = IF from > to THEN A ELSE h[to - from + 1]
  BY DEF Upward, ZeroRowsOff, ZeroTurn, h
<1>l8. r \in Q[m]
  BY ONLY <1>l0, <1>l1, <1>l6, <1>l7
<1>l9. r \in Matrices /\ ZeroRowsAt(r, X, c, x, type, n, from + m)
  <2>1. m \in 0 .. m
    BY ONLY <1>l1
  <2> QED BY ONLY <1>l8, <2>1 DEF Q
<1>1. from + m = to + 1
  OBVIOUS
<1> QED BY <1>1, <1>l9 DEF ZeroRowsAt

LEMMA ZeroRowsHolds ==
  ASSUME NEW type, NEW n, NEW X, NEW c, NEW x, Columned(X, n, c, x), n <= MaxTurns,
         NEW from \in Nat, NEW to \in Int, from - 1 <= to, to < Len(X), Zeros(x, from, to + 1),
         NEW A, Grid(A, SoFar(X, c, x, from), type, n), NEW r, r = ZeroRows(c, from, to, A)
  PROVE  Grid(r, SoFar(X, c, x, to + 1), type, n)
<1>1. r = ZeroRowsOff(c, from, to, A)
  BY DEF ZeroRows, ZeroRowsOff
<1> QED BY <1>1, ZeroRowsOffHolds


IsFill(s) == s = [A |-> s.A, next |-> s.next, it |-> s.it]
Fills == [A : Matrices, next : Nat, it : Int]
FillTurn(c, v, s) == IF ~Over(s.it, v) THEN ColumnTurn(c, v, s) ELSE s
FillAll(c, v, s) == While(LAMBDA t : ~Over(t.it, v), LAMBDA t : ColumnTurn(c, v, t), s)

\* The rows before s.next are as the column wants them, and v has no element
\* between there and where its iterator stands.
Filling(s, X, c, v, x, type, n) ==
  /\ IsFill(s) /\ s.next \in 0 .. Len(X) /\ s.it \in Int /\ Valid(s.it, v) /\ s.next <= Col(s.it, v) /\ Zeros(x, s.next, Col(s.it, v))
  /\ Grid(s.A, SoFar(X, c, x, s.next), type, n)
FillingAt(s, X, c, v, x, type, n, k) == Filling(s, X, c, v, x, type, n) /\ (Over(s.it, v) \/ Col(s.it, v) >= k)

LEMMA FillingIn ==
  ASSUME NEW type, NEW n, NEW X, NEW c, NEW x, Columned(X, n, c, x), NEW v, NEW s, Filling(s, X, c, v, x, type, n)
  PROVE  s \in Fills
<1>1. PICK A, m, i : A = s.A /\ m = s.next /\ i = s.it
  OBVIOUS
<1>2. s = [A |-> A, next |-> m, it |-> i]
  BY <1>1 DEF Filling, IsFill
<1>3. A \in Matrices /\ i \in Int
  BY <1>1, GridIn DEF Filling
<1>4. m \in Nat
  <2>1. Len(X) \in Nat /\ m \in 0 .. Len(X)
    BY <1>1, ColumnedIs DEF Filling
  <2> QED BY <2>1
<1> QED BY ONLY <1>2, <1>3, <1>4 DEF Fills

LEMMA ColumnTurnIs ==
  ASSUME NEW type, NEW n, NEW X, NEW c, NEW x, Columned(X, n, c, x), n <= MaxTurns,
         NEW v, Holds(v, x), v.dim = Len(X), NEW s, Filling(s, X, c, v, x, type, n), ~Over(s.it, v), NEW r, r = ColumnTurn(c, v, s)
  PROVE  Filling(r, X, c, v, x, type, n) /\ Col(r.it, v) > Col(s.it, v)
<1>1. PICK row, B, C, m, i : /\ row = Col(s.it, v) /\ B = ZeroRows(c, s.next, row - 1, s.A) /\ m = row + 1
                             /\ C = matr_set(B, m, c, x[row]) /\ i = Step(s.it, v)
  OBVIOUS
<1>2. Len(X) \in Nat /\ row \in 0 .. (Len(X) - 1) /\ Val(s.it, v) = x[row]
  BY <1>1, ColumnedIs, Reads DEF Filling
<1>3. s.next \in Nat /\ row - 1 \in Int /\ s.next - 1 <= row - 1 /\ row - 1 < Len(X) /\ (row - 1) + 1 = row
  BY <1>1, <1>2 DEF Filling
<1>4. Grid(B, SoFar(X, c, x, row), type, n)
  <2>1. PICK a, e : a = s.next /\ e = row - 1
    OBVIOUS
  <2>2. Grid(s.A, SoFar(X, c, x, a), type, n) /\ Zeros(x, a, e + 1)
    BY <1>1, <1>3, <2>1 DEF Filling
  <2>3. a \in Nat /\ e \in Int /\ a - 1 <= e /\ e < Len(X) /\ e + 1 = row /\ B = ZeroRows(c, a, e, s.A)
    BY <1>1, <1>3, <2>1
  <2>4. Grid(B, SoFar(X, c, x, e + 1), type, n)
    BY <2>2, <2>3, ZeroRowsHolds
  <2> QED BY <2>3, <2>4
<1>5. Grid(C, SoFar(X, c, x, m), type, n)
  BY <1>1, <1>2, <1>4, ColumnPutHolds
<1>6. Valid(i, v) /\ Col(i, v) > row /\ Zeros(x, m, Col(i, v)) /\ i \in Int
  <2>1. Valid(s.it, v)
    BY DEF Filling
  <2>2. Valid(i, v) /\ Col(i, v) > row /\ Zeros(x, m, Col(i, v))
    BY <1>1, <2>1, Steps
  <2> QED BY <2>2, ValidInt
<1>7. r = [A |-> C, next |-> m, it |-> i]
  BY <1>1, <1>2 DEF ColumnTurn
<1>8. r.A = C /\ r.next = m /\ r.it = i
  BY ONLY <1>7
<1>9. m \in 0 .. Len(X) /\ m <= Col(i, v)
  <2>1. Col(i, v) \in Int
    BY <1>6, Reads
  <2> QED BY <1>1, <1>2, <1>6, <2>1
<1>10. IsFill(r)
  BY ONLY <1>7, <1>8 DEF IsFill
<1> QED BY <1>1, <1>5, <1>6, <1>8, <1>9, <1>10 DEF Filling

LEMMA FillTurnIs ==
  ASSUME NEW type, NEW n, NEW X, NEW c, NEW x, Columned(X, n, c, x), n <= MaxTurns,
         NEW v, Holds(v, x), v.dim = Len(X), NEW k \in Nat, NEW s, FillingAt(s, X, c, v, x, type, n, k), NEW r, r = FillTurn(c, v, s)
  PROVE  FillingAt(r, X, c, v, x, type, n, k + 1)
<1>1. CASE Over(s.it, v)
  BY <1>1 DEF FillingAt, FillTurn
<1>2. CASE ~Over(s.it, v)
  <2>1. r = ColumnTurn(c, v, s) /\ Filling(s, X, c, v, x, type, n) /\ Col(s.it, v) >= k
    BY <1>2 DEF FillingAt, FillTurn
  <2>2. Filling(r, X, c, v, x, type, n) /\ Col(r.it, v) > Col(s.it, v)
    BY <1>2, <2>1, ColumnTurnIs
  <2>3. Col(r.it, v) \in Int /\ Col(s.it, v) \in Int
    BY <2>1, <2>2, Reads DEF Filling
  <2>4. Col(r.it, v) >= k + 1
    BY <2>1, <2>2, <2>3
  <2> QED BY <2>2, <2>4 DEF FillingAt
<1> QED BY <1>1, <1>2

LEMMA FillAllIs ==
  ASSUME NEW type, NEW n, NEW X, NEW c, NEW x, Columned(X, n, c, x), n <= MaxTurns,
         NEW v, Holds(v, x), v.dim = Len(X), v.dim <= MaxTurns, NEW s, Filling(s, X, c, v, x, type, n), NEW r, r = FillAll(c, v, s)
  PROVE  Filling(r, X, c, v, x, type, n) /\ Col(r.it, v) = v.dim
<1> DEFINE Q == [k \in 0 .. MaxTurns |-> {t \in Fills : FillingAt(t, X, c, v, x, type, n, k)}]
           F == [p \in (1 .. MaxTurns) \X Fills |-> FillTurn(c, v, p[2])]
           h == CHOOSE g : g = [k \in 0 .. MaxTurns |-> IF k = 0 THEN s ELSE FillTurn(c, v, g[k - 1])]
<1> HIDE DEF Q, F, h
<1>l1. MaxTurns \in Nat /\ 0 \in 0 .. MaxTurns /\ \A k \in 1 .. MaxTurns : k - 1 \in 0 .. MaxTurns /\ k \in 0 .. MaxTurns /\ k # 0
  BY TurnsAssumption
<1>l2. s \in Fills /\ FillingAt(s, X, c, v, x, type, n, 0)
  <2>1. Valid(s.it, v)
    BY DEF Filling
  <2>2. Col(s.it, v) >= 0
    BY <2>1, Reads
  <2> QED BY <2>2, FillingIn DEF FillingAt
<1>l3. ASSUME NEW k \in 1 .. MaxTurns, NEW t \in Fills, FillingAt(t, X, c, v, x, type, n, k - 1) PROVE FillTurn(c, v, t) \in Fills /\ FillingAt(FillTurn(c, v, t), X, c, v, x, type, n, k)
  <2>1. k - 1 \in Nat /\ (k - 1) + 1 = k
    BY TurnsAssumption
  <2>2. PICK w : w = FillTurn(c, v, t)
    OBVIOUS
  <2>3. FillingAt(w, X, c, v, x, type, n, (k - 1) + 1)
    BY <1>l3, <2>1, <2>2, FillTurnIs
  <2> QED BY <2>1, <2>2, <2>3, FillingIn DEF FillingAt
<1>l4. \A k \in 1 .. MaxTurns : \A t \in Q[k - 1] : t \in Fills /\ F[<<k, t>>] = FillTurn(c, v, t) /\ F[<<k, t>>] \in Q[k]
  <2> SUFFICES ASSUME NEW k \in 1 .. MaxTurns, NEW t \in Q[k - 1] PROVE t \in Fills /\ F[<<k, t>>] = FillTurn(c, v, t) /\ F[<<k, t>>] \in Q[k]
    OBVIOUS
  <2>1. t \in Fills /\ FillingAt(t, X, c, v, x, type, n, k - 1)
    BY ONLY <1>l1, t \in Q[k - 1], k \in 1 .. MaxTurns DEF Q
  <2>2. F[<<k, t>>] = FillTurn(c, v, t)
    BY ONLY <2>1, k \in 1 .. MaxTurns DEF F
  <2>3. FillTurn(c, v, t) \in Fills /\ FillingAt(FillTurn(c, v, t), X, c, v, x, type, n, k)
    BY ONLY <1>l3, <2>1, k \in 1 .. MaxTurns
  <2>4. FillTurn(c, v, t) \in Q[k]
    BY ONLY <1>l1, <2>3, k \in 1 .. MaxTurns DEF Q
  <2> QED BY ONLY <2>1, <2>2, <2>4
<1>l0. s \in Q[0]
  BY ONLY <1>l1, <1>l2 DEF Q
<1>l5. h = [k \in 0 .. MaxTurns |-> IF k = 0 THEN s ELSE FillTurn(c, v, h[k - 1])]
  <2>1. PICK g : IsCourse(g, MaxTurns, s, F, Q)
    BY ONLY <1>l1, <1>l0, <1>l4, LoopExists
  <2>2. /\ g = [k \in 0 .. MaxTurns |-> IF k = 0 THEN s ELSE F[<<k, g[k - 1]>>]]
        /\ \A k \in 0 .. MaxTurns : g[k] \in Q[k]
    BY ONLY <2>1 DEF IsCourse
  <2>3. \A k \in 0 .. MaxTurns : k # 0 => k \in 1 .. MaxTurns /\ k - 1 \in 0 .. MaxTurns
    BY ONLY <1>l1
  <2>4. g = [k \in 0 .. MaxTurns |-> IF k = 0 THEN s ELSE FillTurn(c, v, g[k - 1])]
    BY ONLY <1>l4, <2>2, <2>3
  <2> QED BY ONLY <1>l1, <2>4 DEF h
<1>l6. h[MaxTurns] \in Q[MaxTurns]
  <2>1. h[0] = s /\ \A k \in 1 .. MaxTurns : h[k] = FillTurn(c, v, h[k - 1])
    BY ONLY <1>l1, <1>l5
  <2>2. h[0] \in Q[0] /\ \A k \in 1 .. MaxTurns : h[k - 1] \in Q[k - 1] => h[k] \in Q[k]
    BY ONLY <1>l0, <1>l4, <2>1
  <2> QED BY ONLY <1>l1, <2>2, CourseStays
<1>l7. r = h[MaxTurns]
  BY DEF While, FillAll, FillTurn, h
<1>l8. r \in Q[MaxTurns]
  BY ONLY <1>l6, <1>l7
<1>l9. r \in Fills /\ FillingAt(r, X, c, v, x, type, n, MaxTurns)
  <2>1. MaxTurns \in 0 .. MaxTurns
    BY ONLY <1>l1
  <2> QED BY ONLY <1>l8, <2>1 DEF Q
<1>1. Filling(r, X, c, v, x, type, n) /\ Valid(r.it, v) /\ (Over(r.it, v) \/ Col(r.it, v) >= MaxTurns)
  BY <1>l9 DEF FillingAt, Filling
<1>2. Col(r.it, v) \in 0 .. v.dim /\ (Over(r.it, v) <=> Col(r.it, v) = v.dim) /\ v.dim \in Nat
  BY <1>1, Reads
<1> QED BY <1>1, <1>2, TurnsAssumption

LEMMA SoFarNone ==
  ASSUME NEW X, NEW n, NEW c, NEW x, Columned(X, n, c, x)
  PROVE  SoFar(X, c, x, 0) = X
<1>1. PICK Y, l : Y = SoFar(X, c, x, 0) /\ l = Len(X)
  OBVIOUS
<1>2. l \in Nat /\ X = [r \in 1 .. l |-> X[r]]
  BY <1>1, ColumnedIs
<1>3. Y = [r \in 1 .. l |-> Y[r]] /\ \A r \in 1 .. l : ~(r <= 0) => Y[r] = X[r]
  BY <1>1, SoFarIs
<1>4. \A r \in 1 .. l : Y[r] = X[r]
  BY <1>2, <1>3
<1>5. Y = X
  BY ONLY <1>2, <1>3, <1>4
<1> QED BY <1>1, <1>5

LEMMA SetColHolds ==
  ASSUME NEW A, NEW X, NEW type, NEW n, Grid(A, X, type, n), n <= MaxTurns, NEW c \in 0 .. (n - 1),
         NEW v, NEW x, Holds(v, x), v.dim = Len(A.rows), v.dim <= MaxTurns, NEW B, B = matr_set_col(A, c, v)
  PROVE  Grid(B, SoFar(X, c, x, Len(X)), type, n)
<1>0. Len(X) = Len(A.rows) /\ n \in Nat /\ A.cols = n /\ Len(X) \in Nat
  BY DEF Grid, Rowed
<1>1. Columned(X, n, c, x)
  BY <1>0 DEF Grid, Rowed, Holds, Columned
<1>2. PICK s, i : i = vectorit_set_at_beg(v) /\ s = [A |-> A, next |-> 0, it |-> i]
  OBVIOUS
<1>3. s.A = A /\ s.next = 0 /\ s.it = i
  BY ONLY <1>2
<1>4. Filling(s, X, c, v, x, type, n)
  <2>1. Valid(i, v) /\ Zeros(x, 0, Col(i, v))
    BY <1>2, Starts
  <2>2. 0 <= Col(i, v) /\ i \in Int
    BY <2>1, Reads, ValidInt
  <2>3. IsFill(s)
    BY ONLY <1>2, <1>3 DEF IsFill
  <2>4. 0 \in 0 .. Len(X)
    BY <1>0
  <2>5. Grid(s.A, SoFar(X, c, x, s.next), type, n)
    BY <1>1, <1>3, SoFarNone
  <2> QED BY <1>3, <2>1, <2>2, <2>3, <2>4, <2>5 DEF Filling
<1>5. PICK t : t = FillAll(c, v, s)
  OBVIOUS
<1>6. Filling(t, X, c, v, x, type, n) /\ Col(t.it, v) = v.dim
  BY <1>0, <1>1, <1>4, <1>5, FillAllIs, SMTT(30)
<1>7. B = ZeroRest(c, t)
  <2>1. ~(c >= A.cols \/ v.dim # Len(A.rows))
    BY <1>0
  <2> QED BY <1>2, <1>5, <2>1 DEF matr_set_col, FillAll
<1>8. PICK a, e : a = t.next /\ e = Len(X) - 1
  OBVIOUS
<1>9. a \in 0 .. Len(X) /\ a <= Len(X) /\ Zeros(x, a, Len(X)) /\ Grid(t.A, SoFar(X, c, x, a), type, n)
  BY <1>0, <1>6, <1>8 DEF Filling
<1>10. Len(t.A.rows) = Len(X)
  <2>1. PICK Y : Y = SoFar(X, c, x, a)
    OBVIOUS
  <2>2. RowsOf(Y, n, Len(X))
    <3>1. a \in Int
      BY <1>0, <1>9
    <3> QED BY <1>1, <2>1, <3>1, SoFarIs
  <2>3. Len(t.A.rows) = Len(Y)
    BY <1>9, <2>1 DEF Grid, Rowed
  <2> QED BY <2>2, <2>3 DEF RowsOf
<1>11. B = ZeroRows(c, a, e, t.A)
  BY <1>7, <1>8, <1>10 DEF ZeroRest
<1>12. a \in Nat /\ e \in Int /\ a - 1 <= e /\ e < Len(X) /\ e + 1 = Len(X) /\ Zeros(x, a, e + 1)
  <2>1. e + 1 = Len(X)
    BY <1>0, <1>8
  <2> QED BY <1>0, <1>8, <1>9, <2>1
<1>13. Grid(B, SoFar(X, c, x, e + 1), type, n)
  BY <1>1, <1>9, <1>11, <1>12, ZeroRowsHolds
<1> QED BY <1>12, <1>13

-----------------------------------------------------------------------------
(* Every row changed alike; rows that come and go.                         *)

\* A function of the places 1 .. l.
Spans(R, l) == R = [r \in 1 .. l |-> R[r]]

Joined(S, E) == S \o E

LEMMA SpansConcat ==
  ASSUME NEW l \in Nat, NEW k \in Nat, NEW S, Spans(S, l), NEW E, Spans(E, k), NEW T, T = Joined(S, E)
  PROVE  /\ Spans(T, l + k) /\ (\A r \in 1 .. l : T[r] = S[r]) /\ (\A r \in (l + 1) .. (l + k) : r - l \in 1 .. k /\ T[r] = E[r - l])
<1>1. PICK U : U = {S[r] : r \in 1 .. l} \cup {E[r] : r \in 1 .. k}
  OBVIOUS
<1>2. S \in [1 .. l -> U] /\ E \in [1 .. k -> U]
  BY <1>1 DEF Spans
<1>3. S \in Seq(U) /\ Len(S) = l /\ E \in Seq(U) /\ Len(E) = k
  BY ONLY <1>2, l \in Nat, k \in Nat
<1>4. /\ T \in Seq(U) /\ Len(T) = l + k
      /\ \A r \in 1 .. (l + k) : T[r] = IF r <= l THEN S[r] ELSE E[r - l]
  BY ONLY <1>3, T = Joined(S, E), ConcatProperties DEF Joined
<1>5. T = [r \in 1 .. (l + k) |-> T[r]]
  BY ONLY <1>4
<1>6. ASSUME NEW r \in 1 .. l PROVE T[r] = S[r]
  <2>1. r \in 1 .. (l + k) /\ r <= l
    OBVIOUS
  <2> QED BY <1>4, <2>1
<1>7. ASSUME NEW r \in (l + 1) .. (l + k) PROVE r - l \in 1 .. k /\ T[r] = E[r - l]
  <2>1. r \in 1 .. (l + k) /\ ~(r <= l) /\ r - l \in 1 .. k
    OBVIOUS
  <2> QED BY <1>4, <2>1
<1> QED BY <1>5, <1>6, <1>7 DEF Spans

LEMMA RowedMade ==
  ASSUME NEW type, NEW n \in Nat, NEW l \in Nat, NEW R, Spans(R, l), NEW Y, Spans(Y, l),
         \A r \in 1 .. l : RowIs(R[r], Y[r], type, n)
  PROVE  Rowed(R, Y, type, n) /\ Len(R) = l
<1>1. PICK V : V = [0 .. (n - 1) -> Int]
  OBVIOUS
<1>2. \A r \in 1 .. l : R[r] \in Vecs /\ Y[r] \in V
  BY <1>1, RowIsVec
<1>3. R \in [1 .. l -> Vecs] /\ Y \in [1 .. l -> V]
  BY ONLY <1>2, Spans(R, l), Spans(Y, l) DEF Spans
<1>4. R \in Seq(Vecs) /\ Len(R) = l
  BY ONLY <1>3, l \in Nat
<1>5. Y \in Seq(V) /\ Len(Y) = l
  BY ONLY <1>3, l \in Nat
<1> QED BY <1>1, <1>4, <1>5 DEF Rowed

LEMMA GridIs ==
  ASSUME NEW A, NEW X, NEW type, NEW n, Grid(A, X, type, n)
  PROVE  /\ IsGrid(A) /\ A.type = type /\ type \in VectorTypes /\ A.cols = n /\ n \in Nat /\ A.nz \in Int /\ A.size \in Nat
         /\ Len(X) = Len(A.rows) /\ Len(X) \in Nat /\ A.rows \in Seq(Vecs)
         /\ DOMAIN A.rows = 1 .. Len(X) /\ DOMAIN X = 1 .. Len(X) /\ Spans(X, Len(X))
         /\ Spans(A.rows, Len(X))
<1>1. PICK V, R : V = [0 .. (n - 1) -> Int] /\ R = A.rows
  OBVIOUS
<1>2. R \in Seq(Vecs) /\ X \in Seq(V) /\ Len(X) = Len(R)
  BY <1>1 DEF Grid, Rowed
<1>3. DOMAIN R = 1 .. Len(X) /\ DOMAIN X = 1 .. Len(X) /\ Spans(X, Len(X)) /\ Spans(R, Len(X)) /\ Len(X) \in Nat
  BY ONLY <1>2 DEF Spans
<1> QED BY <1>1, <1>2, <1>3 DEF Grid

LEMMA EachRow ==
  ASSUME NEW A, NEW X, NEW type, NEW n, Grid(A, X, type, n), NEW m \in Nat, NEW l, l = Len(X),
         NEW R, Spans(R, l), NEW Y, Spans(Y, l),
         \A r \in 1 .. l : RowIs(R[r], Y[r], type, m) /\ R[r].nz = A.rows[r].nz,
         NEW B, IsGrid(B), B.type = A.type, B.rows = R, B.cols = m, B.nz = A.nz, B.size = A.size
  PROVE  Grid(B, Y, type, m)
<1>1. Len(X) \in Nat /\ Len(X) = Len(A.rows)
  BY GridIs
<1>2. Rowed(R, Y, type, m) /\ Len(R) = Len(X)
  BY <1>1, RowedMade
<1>3. A.type # "NON_SPARSE" => IsTotal(R, Len(X), A.nz)
  <2> SUFFICES ASSUME A.type # "NON_SPARSE" PROVE IsTotal(R, Len(X), A.nz)
    OBVIOUS
  <2>1. IsTotal(A.rows, Len(X), A.nz)
    BY <1>1 DEF Grid, Counted
  <2> QED BY <1>1, <2>1, TotalSame
<1> QED BY <1>2, <1>3, GridIs DEF Grid, Counted

GridRows(A, R) == [A EXCEPT !.rows = R]

LEMMA GridRowsIs ==
  ASSUME NEW A, IsGrid(A), NEW R, NEW B, B = GridRows(A, R)
  PROVE  IsGrid(B) /\ B.type = A.type /\ B.cols = A.cols /\ B.size = A.size /\ B.rows = R /\ B.nz = A.nz
<1>1. PICK t, c, s, r, z : t = A.type /\ c = A.cols /\ s = A.size /\ r = A.rows /\ z = A.nz
  OBVIOUS
<1>2. A = [type |-> t, rows |-> r, cols |-> c, nz |-> z, size |-> s]
  BY <1>1 DEF IsGrid
<1>3. B = [type |-> t, rows |-> R, cols |-> c, nz |-> z, size |-> s]
  BY <1>2 DEF GridRows
<1>4. B.type = t /\ B.rows = R /\ B.cols = c /\ B.nz = z /\ B.size = s
  BY ONLY <1>3
<1> QED BY ONLY <1>1, <1>3, <1>4 DEF IsGrid

GridCols(A, R, n) == [A EXCEPT !.rows = R, !.cols = n]

LEMMA GridColsIs ==
  ASSUME NEW A, IsGrid(A), NEW R, NEW n, NEW B, B = GridCols(A, R, n)
  PROVE  IsGrid(B) /\ B.type = A.type /\ B.cols = n /\ B.size = A.size /\ B.rows = R /\ B.nz = A.nz
<1>1. PICK t, c, s, r, z : t = A.type /\ c = A.cols /\ s = A.size /\ r = A.rows /\ z = A.nz
  OBVIOUS
<1>2. A = [type |-> t, rows |-> r, cols |-> c, nz |-> z, size |-> s]
  BY <1>1 DEF IsGrid
<1>3. B = [type |-> t, rows |-> R, cols |-> n, nz |-> z, size |-> s]
  BY <1>2 DEF GridCols
<1>4. B.type = t /\ B.rows = R /\ B.cols = n /\ B.nz = z /\ B.size = s
  BY ONLY <1>3
<1> QED BY ONLY <1>1, <1>3, <1>4 DEF IsGrid

\* Read back.
LEMMA ReadBackHolds ==
  ASSUME NEW A, NEW X, NEW type, NEW n, Grid(A, X, type, n), NEW B, B = matr_read_bin_fp(A)
  PROVE  Grid(B, X, type, n)
<1>1. PICK R, l : R = [r \in DOMAIN A.rows |-> vector_read_bin_fp(A.rows[r])] /\ l = Len(X)
  OBVIOUS
<1>2. DOMAIN A.rows = 1 .. l /\ Spans(X, l) /\ IsGrid(A) /\ A.cols = n /\ n \in Nat /\ Len(A.rows) = l
  BY <1>1, GridIs
<1>3. Spans(R, l) /\ \A r \in 1 .. l : R[r] = vector_read_bin_fp(A.rows[r])
  BY ONLY <1>1, <1>2 DEF Spans
<1>4. B = GridRows(A, R)
  BY <1>1 DEF matr_read_bin_fp, EveryRow, GridRows
<1>5. ASSUME NEW r \in 1 .. l PROVE RowIs(R[r], X[r], type, n) /\ R[r].nz = A.rows[r].nz
  <2>1. RowIs(A.rows[r], X[r], type, n)
    BY <1>2, GridRow
  <2>2. PICK v, w, x : v = A.rows[r] /\ w = R[r] /\ x = X[r]
    OBVIOUS
  <2>3. Holds(w, x) /\ Like(w, v) /\ w.nz = v.nz
    BY <1>3, <2>1, <2>2, ReadHolds DEF RowIs
  <2> QED BY <2>1, <2>2, <2>3 DEF RowIs, Like
<1>6. IsGrid(B) /\ B.type = A.type /\ B.cols = A.cols /\ B.size = A.size /\ B.rows = R /\ B.nz = A.nz
  BY <1>2, <1>4, GridRowsIs
<1> QED BY <1>1, <1>2, <1>3, <1>5, <1>6, EachRow, ZenonT(30)

\* Every row wider.
WiderRows(X, m, n) == [r \in 1 .. Len(X) |-> Wider(X[r], m, n)]

LEMMA WiderRowsHolds ==
  ASSUME NEW A, NEW X, NEW type, NEW n, Grid(A, X, type, n), NEW k \in Nat,
         NEW R, R = [r \in DOMAIN A.rows |-> vector_add_ncols(A.rows[r], k)], NEW B, B = GridCols(A, R, n + k)
  PROVE  Grid(B, WiderRows(X, n, n + k), type, n + k)
<1>1. PICK l, Y, m : l = Len(X) /\ Y = WiderRows(X, n, n + k) /\ m = n + k
  OBVIOUS
<1>2. DOMAIN A.rows = 1 .. l /\ IsGrid(A) /\ n \in Nat /\ Len(A.rows) = l
  BY <1>1, GridIs
<1>3. Spans(R, l) /\ \A r \in 1 .. l : R[r] = vector_add_ncols(A.rows[r], k)
  BY ONLY R = [r \in DOMAIN A.rows |-> vector_add_ncols(A.rows[r], k)], <1>2 DEF Spans
<1>4. Spans(Y, l) /\ \A r \in 1 .. l : Y[r] = Wider(X[r], n, m)
  BY <1>1 DEF WiderRows, Spans
<1>5. ASSUME NEW r \in 1 .. l PROVE RowIs(R[r], Y[r], type, m) /\ R[r].nz = A.rows[r].nz
  <2>1. RowIs(A.rows[r], X[r], type, n)
    BY <1>2, GridRow
  <2>2. PICK v, w, x : v = A.rows[r] /\ w = R[r] /\ x = X[r]
    OBVIOUS
  <2>3. Holds(v, x) /\ v.dim = n /\ v.type = type /\ w = vector_add_ncols(v, k)
    BY <1>3, <2>1, <2>2 DEF RowIs
  <2>4. Holds(w, Wider(x, v.dim, v.dim + k)) /\ w.dim = v.dim + k /\ w.type = v.type /\ w.nz = v.nz
    BY <2>3, AddColsHolds
  <2> QED BY <1>1, <1>4, <2>2, <2>3, <2>4 DEF RowIs
<1>6. IsGrid(B) /\ B.type = A.type /\ B.cols = m /\ B.size = A.size /\ B.rows = R /\ B.nz = A.nz
  BY <1>1, <1>2, GridColsIs
<1>7. m \in Nat
  BY <1>1, <1>2
<1>8. Grid(B, Y, type, m)
  <2>1. Spans(R, l) /\ Spans(Y, l) /\ \A r \in 1 .. l : RowIs(R[r], Y[r], type, m) /\ R[r].nz = A.rows[r].nz
    BY <1>3, <1>4, <1>5
  <2> QED BY ONLY <1>1, <1>6, <1>7, <2>1, Grid(A, X, type, n), EachRow
<1> QED BY <1>1, <1>8

LEMMA WiderNone ==
  ASSUME NEW A, NEW X, NEW type, NEW n, Grid(A, X, type, n)
  PROVE  WiderRows(X, n, n) = X
<1>1. PICK l, Y : l = Len(X) /\ Y = WiderRows(X, n, n)
  OBVIOUS
<1>2. Spans(X, l) /\ n \in Nat /\ Len(A.rows) = l
  BY <1>1, GridIs
<1>3. Spans(Y, l) /\ \A r \in 1 .. l : Y[r] = Wider(X[r], n, n)
  BY <1>1 DEF WiderRows, Spans
<1>4. ASSUME NEW r \in 1 .. l PROVE Y[r] = X[r]
  <2>1. X[r] \in [0 .. (n - 1) -> Int]
    BY <1>2, GridRow
  <2> QED BY <1>2, <1>3, <2>1, WiderEnds
<1>5. Y = X
  BY ONLY <1>2, <1>3, <1>4 DEF Spans
<1> QED BY <1>1, <1>5

LEMMA AddNcolsHolds ==
  ASSUME NEW A, NEW X, NEW type, NEW n, Grid(A, X, type, n), NEW k \in Nat, NEW B, B = matr_add_ncols(A, k)
  PROVE  Grid(B, WiderRows(X, n, n + k), type, n + k)
<1>1. CASE k = 0
  <2>1. B = A
    BY <1>1 DEF matr_add_ncols
  <2>2. n + k = n
    BY <1>1, GridIs
  <2> QED BY <2>1, <2>2, WiderNone
<1>2. CASE k # 0
  <2>1. PICK R : R = [r \in DOMAIN A.rows |-> vector_add_ncols(A.rows[r], k)]
    OBVIOUS
  <2>2. A.cols = n
    BY GridIs
  <2>3. B = GridCols(A, R, n + k)
    BY <1>2, <2>1, <2>2 DEF matr_add_ncols, GridCols
  <2> QED BY <2>1, <2>3, WiderRowsHolds
<1> QED BY <1>1, <1>2

LEMMA AddColHolds ==
  ASSUME NEW A, NEW X, NEW type, NEW n, Grid(A, X, type, n), NEW B, B = matr_add_col(A)
  PROVE  Grid(B, WiderRows(X, n, n + 1), type, n + 1)
<1>1. PICK R : R = [r \in DOMAIN A.rows |-> vector_add_ncols(A.rows[r], 1)]
  OBVIOUS
<1>2. A.cols = n
  BY GridIs
<1>3. B = GridCols(A, R, n + 1)
  BY <1>1, <1>2 DEF matr_add_col, vector_add_col, GridCols
<1> QED BY <1>1, <1>3, WiderRowsHolds

\* Rows added at the end.
LEMMA TotalFlat ==
  ASSUME NEW R, NEW m \in Nat, NEW t, IsTotal(R, m, t), NEW k \in Nat, \A r \in (m + 1) .. (m + k) : R[r].nz = 0
  PROVE  IsTotal(R, m + k, t)
<1>1. PICK h : SumCourse(h, R, m) /\ t = h[m]
  BY DEF IsTotal
<1>2. PICK g : g = [j \in 0 .. (m + k) |-> IF j <= m THEN h[j] ELSE t]
  OBVIOUS
<1>3. t \in Int
  BY TotalInt
<1>4. h \in [0 .. m -> Int] /\ h[0] = 0 /\ \A j \in 1 .. m : h[j] = h[j - 1] + R[j].nz
  BY <1>1 DEF SumCourse
<1>5. g \in [0 .. (m + k) -> Int] /\ g[0] = 0 /\ g[m + k] = t
  <2>1. \A j \in 0 .. (m + k) : j <= m => j \in 0 .. m
    OBVIOUS
  <2>2. \A j \in 0 .. (m + k) : g[j] \in Int
    BY <1>2, <1>3, <1>4, <2>1
  <2>3. 0 \in 0 .. (m + k) /\ 0 <= m /\ m + k \in 0 .. (m + k) /\ (m + k <= m => m + k = m)
    OBVIOUS
  <2> QED BY <1>1, <1>2, <1>4, <2>2, <2>3
<1>6. ASSUME NEW j \in 1 .. (m + k) PROVE g[j] = g[j - 1] + R[j].nz
  <2>1. j \in 0 .. (m + k) /\ j - 1 \in 0 .. (m + k)
    OBVIOUS
  <2>2. CASE j <= m
    <3>1. j \in 1 .. m /\ j - 1 <= m
      BY <2>2
    <3>2. h[j] = h[j - 1] + R[j].nz
      BY <1>4, <3>1
    <3> QED BY <1>2, <2>1, <2>2, <3>1, <3>2
  <2>3. CASE ~(j <= m)
    <3>1. j \in (m + 1) .. (m + k) /\ (j - 1 <= m => j - 1 = m)
      BY <2>3
    <3>2. g[j] = t /\ g[j - 1] = t /\ R[j].nz = 0
      BY <1>1, <1>2, <2>1, <2>3, <3>1
    <3> QED BY <1>3, <3>2
  <2> QED BY <2>2, <2>3
<1>7. SumCourse(g, R, m + k)
  BY <1>5, <1>6 DEF SumCourse
<1> QED BY <1>5, <1>7 DEF IsTotal

LEMMA AddNrowsHolds ==
  ASSUME NEW A, NEW X, NEW type, NEW n, Grid(A, X, type, n), NEW k \in Nat, NEW B, B = matr_add_nrows(A, k)
  PROVE  Grid(B, X \o ZeroRowsOf(k, n), type, n)
<1>1. PICK R, l, v, E : l = Len(X) /\ v = vector_make_size(n, type, A.size) /\ E = [j \in 1 .. k |-> v] /\ R = A.rows \o E
  OBVIOUS
<1>2. /\ IsGrid(A) /\ n \in Nat /\ A.cols = n /\ A.type = type /\ A.size \in Nat /\ type \in VectorTypes /\ A.nz \in Int /\ l \in Nat
      /\ Len(A.rows) = l /\ Spans(A.rows, l) /\ Spans(X, l)
  BY <1>1, GridIs
<1>3. B = GridRows(A, R)
  BY <1>1, <1>2 DEF matr_add_nrows, GridRows
<1>4. RowIs(v, ZeroRow(n), type, n) /\ (type # "NON_SPARSE" => v.nz = 0)
  BY <1>1, <1>2, MakeHolds DEF RowIs
<1>5. PICK Y, Z, z : Y = X \o Z /\ Z = ZeroRowsOf(k, n) /\ z = ZeroRow(n)
  OBVIOUS
<1>6. Z = [r \in 1 .. k |-> z]
  BY <1>5 DEF ZeroRowsOf
<1>7. /\ Spans(R, l + k) /\ (\A r \in 1 .. l : R[r] = A.rows[r]) /\ (\A r \in (l + 1) .. (l + k) : R[r] = v)
  <2>1. Spans(E, k) /\ \A j \in 1 .. k : E[j] = v
    BY ONLY <1>1 DEF Spans
  <2>2. PICK S : S = A.rows
    OBVIOUS
  <2>3. l \in Nat /\ k \in Nat /\ Spans(S, l) /\ R = Joined(S, E)
    BY <1>1, <1>2, <2>2 DEF Joined
  <2>4. Spans(R, l + k) /\ (\A r \in 1 .. l : R[r] = S[r]) /\ (\A r \in (l + 1) .. (l + k) : r - l \in 1 .. k /\ R[r] = E[r - l])
    BY ONLY <2>1, <2>3, SpansConcat
  <2>5. \A r \in (l + 1) .. (l + k) : R[r] = v
    BY ONLY <2>1, <2>4
  <2> QED BY ONLY <2>2, <2>4, <2>5
<1>8. /\ Spans(Y, l + k) /\ (\A r \in 1 .. l : Y[r] = X[r]) /\ (\A r \in (l + 1) .. (l + k) : Y[r] = z)
  <2>1. Spans(Z, k) /\ \A j \in 1 .. k : Z[j] = z
    BY ONLY <1>6 DEF Spans
  <2>3. l \in Nat /\ k \in Nat /\ Spans(X, l) /\ Y = Joined(X, Z)
    BY <1>2, <1>5 DEF Joined
  <2>4. Spans(Y, l + k) /\ (\A r \in 1 .. l : Y[r] = X[r]) /\ (\A r \in (l + 1) .. (l + k) : r - l \in 1 .. k /\ Y[r] = Z[r - l])
    BY ONLY <2>1, <2>3, SpansConcat
  <2>5. \A r \in (l + 1) .. (l + k) : Y[r] = z
    BY ONLY <2>1, <2>4
  <2> QED BY ONLY <2>4, <2>5
<1>9. ASSUME NEW r \in 1 .. (l + k) PROVE RowIs(R[r], Y[r], type, n)
  <2>1. CASE r \in 1 .. l
    <3>1. RowIs(A.rows[r], X[r], type, n)
      BY <1>2, <2>1, GridRow
    <3> QED BY <1>7, <1>8, <2>1, <3>1
  <2>2. CASE r \in (l + 1) .. (l + k)
    BY <1>4, <1>5, <1>7, <1>8, <2>2
  <2> QED BY <1>2, <2>1, <2>2
<1>10. Rowed(R, Y, type, n) /\ Len(R) = l + k
  <2>1. l + k \in Nat
    BY <1>2
  <2> QED BY <1>2, <1>7, <1>8, <1>9, <2>1, RowedMade
<1>11. type # "NON_SPARSE" => IsTotal(R, l + k, A.nz)
  <2> SUFFICES ASSUME type # "NON_SPARSE" PROVE IsTotal(R, l + k, A.nz)
    OBVIOUS
  <2>1. IsTotal(A.rows, l, A.nz)
    BY <1>2 DEF Grid, Counted
  <2>2. IsTotal(R, l, A.nz)
    <3>1. \A j \in 1 .. l : R[j].nz = A.rows[j].nz
      BY <1>7
    <3> QED BY <1>2, <2>1, <3>1, TotalSame
  <2> QED BY <1>2, <1>4, <1>7, <2>2, TotalFlat
<1>12. IsGrid(B) /\ B.type = A.type /\ B.cols = A.cols /\ B.size = A.size /\ B.rows = R /\ B.nz = A.nz
  BY <1>2, <1>3, GridRowsIs
<1> QED BY <1>2, <1>5, <1>10, <1>11, <1>12 DEF Grid, Counted

\* One place less.
LessAt(S, p) == RemoveAt(S, p)

LEMMA SpansLess ==
  ASSUME NEW l \in Nat, NEW S, Spans(S, l), NEW p \in 1 .. l, NEW T, T = LessAt(S, p)
  PROVE  Spans(T, l - 1) /\ \A j \in 1 .. (l - 1) : T[j] = IF j < p THEN S[j] ELSE S[j + 1]
<1>1. PICK U : U = {S[r] : r \in 1 .. l}
  OBVIOUS
<1>2. S \in [1 .. l -> U]
  BY <1>1 DEF Spans
<1>3. S \in Seq(U) /\ Len(S) = l
  BY ONLY <1>2, l \in Nat
<1>4. p \in 1 .. Len(S)
  BY <1>3
<1>5. RemoveAt(S, p) \in Seq(U) /\ Len(RemoveAt(S, p)) = Len(S) - 1 /\ \A j \in 1 .. Len(RemoveAt(S, p)) : RemoveAt(S, p)[j] = IF j < p THEN S[j] ELSE S[j + 1]
  BY ONLY <1>3, <1>4, RemoveAtSeq
<1>6. T \in Seq(U) /\ Len(T) = l - 1 /\ \A j \in 1 .. (l - 1) : T[j] = IF j < p THEN S[j] ELSE S[j + 1]
  BY ONLY <1>3, <1>5, T = LessAt(S, p) DEF LessAt
<1>7. T = [j \in 1 .. (l - 1) |-> T[j]]
  BY ONLY <1>6
<1> QED BY <1>6, <1>7 DEF Spans

\* A row taken out, and the count with it.
LEMMA DecreaseHolds ==
  ASSUME NEW A, NEW X, NEW type, NEW n, Grid(A, X, type, n), Len(A.rows) > 1, NEW r \in 1 .. Len(A.rows), NEW B, B = matr_decrease_rows(A, r)
  PROVE  Grid(B, LessAt(X, r), type, n)
<1>1. PICK l, S, R, m, Y, b : l = Len(X) /\ S = A.rows /\ R = LessAt(S, r) /\ m = A.nz - S[r].nz /\ Y = LessAt(X, r) /\ b = l - 1
  OBVIOUS
<1>2. /\ IsGrid(A) /\ n \in Nat /\ A.cols = n /\ A.type = type /\ A.size \in Nat /\ type \in VectorTypes /\ A.nz \in Int /\ l \in Nat
      /\ Len(S) = l /\ Spans(S, l) /\ Spans(X, l) /\ r \in 1 .. l /\ b \in Nat
  <2>1. l \in Nat /\ l > 1
    BY <1>1, GridIs
  <2> QED BY <1>1, <2>1, GridIs
<1>3. B = GridPut(A, R, m)
  <2>1. Len(A.rows) # 1
    BY <1>1, <1>2
  <2> QED BY <1>1, <2>1 DEF matr_decrease_rows, GridPut, LessAt
<1>4. IsGrid(B) /\ B.type = A.type /\ B.cols = A.cols /\ B.size = A.size /\ B.rows = R /\ B.nz = m
  BY <1>2, <1>3, GridPutIs
<1>0. l \in Nat /\ r \in 1 .. l /\ Spans(S, l) /\ Spans(X, l) /\ R = LessAt(S, r) /\ Y = LessAt(X, r)
  BY ONLY <1>1, <1>2
<1>5. Spans(R, b) /\ \A j \in 1 .. b : R[j] = IF j < r THEN S[j] ELSE S[j + 1]
  <2>1. Spans(R, l - 1) /\ \A j \in 1 .. (l - 1) : R[j] = IF j < r THEN S[j] ELSE S[j + 1]
    BY ONLY <1>0, SpansLess
  <2> QED BY ONLY <1>1, <2>1
<1>6. Spans(Y, b) /\ \A j \in 1 .. b : Y[j] = IF j < r THEN X[j] ELSE X[j + 1]
  <2>1. Spans(Y, l - 1) /\ \A j \in 1 .. (l - 1) : Y[j] = IF j < r THEN X[j] ELSE X[j + 1]
    BY ONLY <1>0, SpansLess
  <2> QED BY ONLY <1>1, <2>1
<1>7. ASSUME NEW j \in 1 .. l PROVE RowIs(S[j], X[j], type, n) /\ S[j].nz \in Int
  BY <1>1, <1>2, GridRow
<1>8. ASSUME NEW j \in 1 .. b PROVE RowIs(R[j], Y[j], type, n)
  <2>1. j \in 1 .. l /\ j + 1 \in 1 .. l
    BY <1>1, <1>2
  <2> QED BY <1>5, <1>6, <1>7, <2>1
<1>9. Rowed(R, Y, type, n) /\ Len(R) = b
  BY ONLY <1>2, <1>5, <1>6, <1>8, RowedMade
<1>10. m \in Int
  BY <1>1, <1>2, <1>7
<1>11. type # "NON_SPARSE" => IsTotal(R, b, m)
  <2> SUFFICES ASSUME type # "NON_SPARSE" PROVE IsTotal(R, b, m)
    OBVIOUS
  <2>1. IsTotal(S, l, A.nz)
    BY <1>1, <1>2 DEF Grid, Counted
  <2>2. \A j \in 1 .. (l - 1) : R[j] = IF j < r THEN S[j] ELSE S[j + 1]
    BY <1>1, <1>5
  <2> QED BY <1>1, <1>2, <1>7, <2>1, <2>2, TotalWithout
<1> QED BY <1>1, <1>2, <1>4, <1>9, <1>10, <1>11 DEF Grid, Counted

\* A row is found zero when it means zero.
LEMMA IsZeroIs ==
  ASSUME NEW v, NEW x, Holds(v, x)
  PROVE  vector_iszero(v) <=> x = ZeroRow(v.dim)
<1>1. PICK n, z : n = v.dim /\ z = ZeroRow(n)
  OBVIOUS
<1>2. n \in Nat /\ x \in [0 .. (n - 1) -> Int]
  BY <1>1 DEF Holds, Vec
<1>3. x = z <=> \A c \in 0 .. (n - 1) : x[c] = 0
  BY <1>1, <1>2 DEF ZeroRow
<1>4. CASE IsFull(v)
  <2>1. v.data = x /\ ~IsArray(v) /\ ~IsList(v)
    BY <1>4, HoldsFull
  <2>2. \A c \in 0 .. (n - 1) : vector_get(v, c) = x[c]
    <3>1. \A c \in 0 .. (n - 1) : ~(c >= n)
      BY <1>2
    <3> QED BY <1>1, <1>4, <2>1, <3>1 DEF vector_get
  <2>3. vector_iszero(v) <=> \A c \in 0 .. (n - 1) : vector_get(v, c) = 0
    BY <1>1, <1>4, <2>1 DEF vector_iszero
  <2> QED BY <1>1, <1>3, <2>2, <2>3
<1>5. CASE ~IsFull(v)
  <2>1. PICK S : S = Stored(v)
    OBVIOUS
  <2>2. Sparse(v) /\ Means(S, n, x) /\ S \in Seq(Cell) /\ Len(S) \in Nat /\ v.nz = Len(S)
    BY <1>1, <1>5, <2>1, HoldsSparse
  <2>3. vector_iszero(v) <=> Len(S) = 0
    <3>1. CASE IsArray(v)
      <4>1. v.nz = v.data.n /\ ~IsList(v)
        BY <2>2, <3>1, SparseKinds
      <4> QED BY <1>5, <2>2, <3>1, <4>1 DEF vector_iszero
    <3>2. CASE IsList(v)
      <4>1. S = v.data /\ ~IsArray(v)
        BY <2>1, <2>2, <3>2, StoredIs, KindsDiffer
      <4>2. S = << >> <=> Len(S) = 0
        BY ONLY <2>2, EmptySeq
      <4> QED BY <1>5, <3>2, <4>1, <4>2 DEF vector_iszero
    <3> QED BY <2>2, <3>1, <3>2, SparseKinds
  <2>4. Len(S) = 0 => \A c \in 0 .. (n - 1) : x[c] = 0
    <3> SUFFICES ASSUME Len(S) = 0 PROVE \A c \in 0 .. (n - 1) : x[c] = 0
      OBVIOUS
    <3>1. 1 .. Len(S) = {}
      OBVIOUS
    <3> QED BY <2>2, <3>1 DEF Means
  <2>5. (\A c \in 0 .. (n - 1) : x[c] = 0) => Len(S) = 0
    <3> SUFFICES ASSUME \A c \in 0 .. (n - 1) : x[c] = 0, Len(S) # 0 PROVE FALSE
      OBVIOUS
    <3>1. 1 \in 1 .. Len(S)
      BY <2>2
    <3>2. S[1].col \in 0 .. (n - 1) /\ S[1].data # 0 /\ x[S[1].col] = S[1].data
      BY <2>2, <3>1 DEF Means
    <3> QED BY <3>2
  <2> QED BY <1>1, <1>3, <2>3, <2>4, <2>5
<1> QED BY <1>4, <1>5

-----------------------------------------------------------------------------
(* A column removed, row by row.                                           *)

Loose(A, type, n, l) ==
  /\ IsGrid(A) /\ A.type = type /\ type \in VectorTypes /\ A.cols = n /\ n \in Nat /\ A.nz \in Int /\ A.size \in Nat
  /\ A.rows \in Seq(Vecs) /\ Len(A.rows) = l /\ l \in Nat /\ (type # "NON_SPARSE" => IsTotal(A.rows, l, A.nz))

LEMMA VecsNz ==
  ASSUME NEW v \in Vecs
  PROVE  v.nz \in Int
BY DEF Vecs

LEMMA LooseIn ==
  ASSUME NEW A, NEW type, NEW n, NEW l, Loose(A, type, n, l)
  PROVE  A \in Matrices
<1>1. PICK t, c, s, r, z : t = A.type /\ c = A.cols /\ s = A.size /\ r = A.rows /\ z = A.nz
  OBVIOUS
<1>2. A = [type |-> t, rows |-> r, cols |-> c, nz |-> z, size |-> s]
  BY <1>1 DEF Loose, IsGrid
<1>3. t \in VectorTypes /\ r \in Seq(Vecs) /\ c \in Nat /\ z \in Int /\ s \in Nat
  BY <1>1 DEF Loose
<1> QED BY ONLY <1>2, <1>3 DEF Matrices

LEMMA RowPutIs ==
  ASSUME NEW A, NEW type, NEW n, NEW l, Loose(A, type, n, l), NEW r \in 1 .. l, NEW v \in Vecs, NEW B, B = RowChanged(A, r, v)
  PROVE  /\ Loose(B, type, n, l) /\ B.size = A.size /\ B.rows[r] = v
         /\ \A k \in 1 .. l : k # r => B.rows[k] = A.rows[k]
<1>1. PICK S, R, m : S = A.rows /\ R = With(S, r, v) /\ m = A.nz + (v.nz - S[r].nz)
  OBVIOUS
<1>2. B = GridPut(A, R, m)
  BY <1>1 DEF RowChanged, GridPut, With
<1>3. IsGrid(B) /\ B.type = A.type /\ B.cols = A.cols /\ B.size = A.size /\ B.rows = R /\ B.nz = m
  BY <1>2, GridPutIs DEF Loose
<1>4. S \in Seq(Vecs) /\ Len(S) = l /\ l \in Nat
  BY <1>1 DEF Loose
<1>5. R \in Seq(Vecs) /\ Len(R) = l /\ \A k \in 1 .. l : R[k] = IF k = r THEN v ELSE S[k]
  BY ONLY <1>1, <1>4, v \in Vecs, r \in 1 .. l DEF With
<1>6. \A k \in 1 .. l : S[k].nz \in Int
  <2>1. \A k \in 1 .. l : S[k] \in Vecs
    BY ONLY <1>4
  <2> QED BY <2>1, VecsNz
<1>7. v.nz \in Int /\ m \in Int
  BY <1>1, <1>6, VecsNz DEF Loose
<1>8. type # "NON_SPARSE" => IsTotal(R, l, m)
  <2> SUFFICES ASSUME type # "NON_SPARSE" PROVE IsTotal(R, l, m)
    OBVIOUS
  <2>1. IsTotal(S, l, A.nz)
    BY <1>1 DEF Loose
  <2>2. R[r] = v /\ \A k \in 1 .. l : k # r => R[k].nz = S[k].nz
    BY <1>5
  <2>3. R[r].nz \in Int /\ m = A.nz + (R[r].nz - S[r].nz)
    BY <1>1, <1>7, <2>2
  <2> QED BY ONLY <1>4, <1>6, <2>1, <2>2, <2>3, r \in 1 .. l, TotalChange
<1> QED BY <1>1, <1>3, <1>4, <1>5, <1>7, <1>8 DEF Loose

\* The first k rows have lost column c.
Thinner(T, A, X, type, n, c, k) ==
  /\ Loose(T, type, n, Len(X)) /\ T.size = A.size
  /\ \A r \in 1 .. Len(X) : /\ r <= k => RowIs(T.rows[r], Narrowed(X[r], c, n), type, n - 1)
                            /\ ~(r <= k) => RowIs(T.rows[r], X[r], type, n)
ThinTurn(T, r, c) == RowChanged(T, r, vector_remove_col(T.rows[r], c))
ThinAll(A, l, c) == Upward(LAMBDA B, r : RowChanged(B, r, vector_remove_col(B.rows[r], c)), 1, l, A)

LEMMA ThinTurnIs ==
  ASSUME NEW A, NEW X, NEW type, NEW n, n <= MaxTurns, NEW c \in 0 .. (n - 1), NEW k \in 1 .. Len(X), NEW T, Thinner(T, A, X, type, n, c, k - 1),
         NEW W, W = ThinTurn(T, k, c)
  PROVE  Thinner(W, A, X, type, n, c, k)
<1>1. PICK v, w, x, l : v = T.rows[k] /\ w = vector_remove_col(v, c) /\ x = X[k] /\ l = Len(X)
  OBVIOUS
<1>2. Loose(T, type, n, l) /\ l \in Nat /\ n \in Nat /\ k \in 1 .. l
  BY <1>1 DEF Thinner, Loose
<1>3. RowIs(v, x, type, n)
  <2>1. ~(k <= k - 1)
    BY <1>2
  <2> QED BY <1>1, <2>1 DEF Thinner
<1>4. RowIs(w, Narrowed(x, c, n), type, n - 1)
  <2>1. Holds(v, x) /\ v.dim = n /\ v.type = type
    BY <1>3 DEF RowIs
  <2>2. Holds(w, Narrowed(x, c, n)) /\ w.dim = n - 1 /\ w.type = v.type
    BY <1>1, <2>1, RemoveColHolds
  <2> QED BY <2>1, <2>2 DEF RowIs
<1>5. w \in Vecs
  BY <1>4, RowIsVec
<1>6. /\ Loose(W, type, n, l) /\ W.size = T.size /\ W.rows[k] = w
      /\ \A j \in 1 .. l : j # k => W.rows[j] = T.rows[j]
  <2>1. W = RowChanged(T, k, w)
    BY <1>1 DEF ThinTurn
  <2> QED BY <1>2, <1>5, <2>1, RowPutIs, SMTT(30)
<1>7. ASSUME NEW r \in 1 .. l PROVE /\ r <= k => RowIs(W.rows[r], Narrowed(X[r], c, n), type, n - 1)
                                    /\ ~(r <= k) => RowIs(W.rows[r], X[r], type, n)
  <2>1. CASE r = k
    BY <1>1, <1>2, <1>4, <1>6, <2>1
  <2>2. CASE r # k
    <3>1. (r <= k <=> r <= k - 1) /\ W.rows[r] = T.rows[r]
      BY <1>2, <1>6, <2>2
    <3> QED BY <1>1, <3>1 DEF Thinner
  <2> QED BY <2>1, <2>2
<1> QED BY <1>1, <1>6, <1>7 DEF Thinner

LEMMA ThinAllIs ==
  ASSUME NEW A, NEW X, NEW type, NEW n, n <= MaxTurns, NEW c \in 0 .. (n - 1), NEW l, l = Len(X), Thinner(A, A, X, type, n, c, 0),
         NEW r, r = ThinAll(A, l, c)
  PROVE  Thinner(r, A, X, type, n, c, l)
<1>0. l \in Nat
  BY DEF Thinner, Loose
<1> DEFINE Q == [k \in 0 .. l |-> {t \in Matrices : Thinner(t, A, X, type, n, c, k)}]
           F == [p \in (1 .. l) \X Matrices |-> ThinTurn(p[2], 1 + p[1] - 1, c)]
           h == CHOOSE g : g = [k \in 0 .. (l - 1 + 1) |-> IF k = 0 THEN A ELSE ThinTurn(g[k - 1], 1 + k - 1, c)]
<1> HIDE DEF Q, F, h
<1>l1. /\ l \in Nat /\ l - 1 + 1 = l /\ (1 > l <=> l = 0)
       /\ 0 \in 0 .. l /\ \A k \in 1 .. l : k - 1 \in 0 .. l /\ k \in 0 .. l /\ k # 0
  BY <1>0
<1>l2. A \in Matrices /\ Thinner(A, A, X, type, n, c, 0)
  <2>1. A \in Matrices
    BY LooseIn DEF Thinner
  <2> QED BY <2>1
<1>l3. ASSUME NEW k \in 1 .. l, NEW t \in Matrices, Thinner(t, A, X, type, n, c, k - 1) PROVE ThinTurn(t, 1 + k - 1, c) \in Matrices /\ Thinner(ThinTurn(t, 1 + k - 1, c), A, X, type, n, c, k)
  <2>1. PICK w : w = ThinTurn(t, k, c)
    OBVIOUS
  <2>2. Thinner(w, A, X, type, n, c, k)
    BY <1>l3, <2>1, ThinTurnIs
  <2>3. w \in Matrices
    BY <2>2, LooseIn DEF Thinner
  <2>4. 1 + k - 1 = k
    BY <1>0
  <2> QED BY <2>1, <2>2, <2>3, <2>4
<1>l4. \A k \in 1 .. l : \A t \in Q[k - 1] : t \in Matrices /\ F[<<k, t>>] = ThinTurn(t, 1 + k - 1, c) /\ F[<<k, t>>] \in Q[k]
  <2> SUFFICES ASSUME NEW k \in 1 .. l, NEW t \in Q[k - 1] PROVE t \in Matrices /\ F[<<k, t>>] = ThinTurn(t, 1 + k - 1, c) /\ F[<<k, t>>] \in Q[k]
    OBVIOUS
  <2>1. t \in Matrices /\ Thinner(t, A, X, type, n, c, k - 1)
    BY ONLY <1>l1, t \in Q[k - 1], k \in 1 .. l DEF Q
  <2>2. F[<<k, t>>] = ThinTurn(t, 1 + k - 1, c)
    BY ONLY <2>1, k \in 1 .. l DEF F
  <2>3. ThinTurn(t, 1 + k - 1, c) \in Matrices /\ Thinner(ThinTurn(t, 1 + k - 1, c), A, X, type, n, c, k)
    BY ONLY <1>l3, <2>1, k \in 1 .. l
  <2>4. ThinTurn(t, 1 + k - 1, c) \in Q[k]
    BY ONLY <1>l1, <2>3, k \in 1 .. l DEF Q
  <2> QED BY ONLY <2>1, <2>2, <2>4
<1>l0. A \in Q[0]
  BY ONLY <1>l1, <1>l2 DEF Q
<1>l5. h = [k \in 0 .. (l - 1 + 1) |-> IF k = 0 THEN A ELSE ThinTurn(h[k - 1], 1 + k - 1, c)]
  <2>1. PICK g : IsCourse(g, l, A, F, Q)
    BY ONLY <1>l1, <1>l0, <1>l4, LoopExists
  <2>2. /\ g = [k \in 0 .. l |-> IF k = 0 THEN A ELSE F[<<k, g[k - 1]>>]]
        /\ \A k \in 0 .. l : g[k] \in Q[k]
    BY ONLY <2>1 DEF IsCourse
  <2>3. \A k \in 0 .. l : k # 0 => k \in 1 .. l /\ k - 1 \in 0 .. l
    BY ONLY <1>l1
  <2>4. g = [k \in 0 .. l |-> IF k = 0 THEN A ELSE ThinTurn(g[k - 1], 1 + k - 1, c)]
    BY ONLY <1>l4, <2>2, <2>3
  <2> QED BY ONLY <1>l1, <2>4 DEF h
<1>l6. h[l] \in Q[l]
  <2>1. h[0] = A /\ \A k \in 1 .. l : h[k] = ThinTurn(h[k - 1], 1 + k - 1, c)
    BY ONLY <1>l1, <1>l5
  <2>2. h[0] \in Q[0] /\ \A k \in 1 .. l : h[k - 1] \in Q[k - 1] => h[k] \in Q[k]
    BY ONLY <1>l0, <1>l4, <2>1
  <2> QED BY ONLY <1>l1, <2>2, CourseStays
<1>l7. r = IF 1 > l THEN A ELSE h[l - 1 + 1]
  BY DEF Upward, ThinAll, ThinTurn, h
<1>l8. r \in Q[l]
  BY ONLY <1>l0, <1>l1, <1>l6, <1>l7
<1>l9. r \in Matrices /\ Thinner(r, A, X, type, n, c, l)
  <2>1. l \in 0 .. l
    BY ONLY <1>l1
  <2> QED BY ONLY <1>l8, <2>1 DEF Q
<1> QED BY <1>l9

NarrowedRows(X, c, n) == [r \in 1 .. Len(X) |-> Narrowed(X[r], c, n)]

LEMMA MatrixRemoveColHolds ==
  ASSUME NEW A, NEW X, NEW type, NEW n, Grid(A, X, type, n), n <= MaxTurns, NEW c \in 0 .. (n - 1), Len(A.rows) > 0,
         NEW B, B = matr_remove_col(A, c)
  PROVE  Grid(B, NarrowedRows(X, c, n), type, n - 1)
<1>1. PICK l, T, Y, m : l = Len(X) /\ T = ThinAll(A, l, c) /\ Y = NarrowedRows(X, c, n) /\ m = n - 1
  OBVIOUS
<1>2. /\ IsGrid(A) /\ n \in Nat /\ A.cols = n /\ A.type = type /\ A.size \in Nat /\ type \in VectorTypes /\ A.nz \in Int /\ l \in Nat
      /\ Len(A.rows) = l /\ A.rows \in Seq(Vecs) /\ m \in Nat
  <2>1. n - 1 \in Nat
    BY GridIs
  <2> QED BY <1>1, <2>1, GridIs
<1>3. Thinner(A, A, X, type, n, c, 0)
  <2>1. Loose(A, type, n, l)
    BY <1>2 DEF Loose, Grid, Counted
  <2>2. ASSUME NEW r \in 1 .. l PROVE ~(r <= 0) /\ RowIs(A.rows[r], X[r], type, n)
    BY <1>2, GridRow
  <2> QED BY <1>1, <2>1, <2>2 DEF Thinner
<1>4. Thinner(T, A, X, type, n, c, l)
  BY <1>1, <1>3, ThinAllIs
<1>5. PICK R : R = T.rows
  OBVIOUS
<1>6. B = GridCols(T, R, m)
  <2>1. B = [T EXCEPT !.cols = @ - 1]
    <3>1. ~(A.cols = 0 \/ c >= A.cols \/ A.rows = << >>)
      <4>1. A.rows # << >>
        BY <1>2
      <4> QED BY <1>2, <4>1
    <3> QED BY <1>1, <1>2, <3>1 DEF matr_remove_col, ThinAll
  <2>2. IsGrid(T) /\ T.cols = n
    BY <1>4 DEF Thinner, Loose
  <2>3. PICK t, s, z : t = T.type /\ s = T.size /\ z = T.nz
    OBVIOUS
  <2>4. T = [type |-> t, rows |-> R, cols |-> n, nz |-> z, size |-> s]
    BY ONLY <1>5, <2>2, <2>3 DEF IsGrid
  <2>5. B = [type |-> t, rows |-> R, cols |-> m, nz |-> z, size |-> s]
    BY ONLY <1>1, <2>1, <2>4
  <2>6. PICK C : C = GridCols(T, R, m)
    OBVIOUS
  <2>7. C = [type |-> t, rows |-> R, cols |-> m, nz |-> z, size |-> s]
    BY <2>4, <2>6 DEF GridCols
  <2> QED BY ONLY <2>5, <2>6, <2>7
<1>7. Loose(T, type, n, l) /\ IsGrid(T)
  BY <1>1, <1>4 DEF Thinner, Loose
<1>8. IsGrid(B) /\ B.type = T.type /\ B.cols = m /\ B.size = T.size /\ B.rows = R /\ B.nz = T.nz
  BY <1>6, <1>7, GridColsIs
<1>9. Spans(R, l)
  BY ONLY <1>5, <1>7 DEF Loose, Spans
<1>10. Spans(Y, l) /\ \A r \in 1 .. l : Y[r] = Narrowed(X[r], c, n)
  BY <1>1 DEF NarrowedRows, Spans
<1>11. ASSUME NEW r \in 1 .. l PROVE RowIs(R[r], Y[r], type, m)
  <2>1. r <= l
    BY <1>2
  <2> QED BY <1>1, <1>4, <1>5, <1>10, <2>1 DEF Thinner
<1>12. Rowed(R, Y, type, m) /\ Len(R) = l
  BY <1>2, <1>9, <1>10, <1>11, RowedMade
<1> QED BY <1>1, <1>2, <1>5, <1>7, <1>8, <1>12 DEF Grid, Counted, Loose

-----------------------------------------------------------------------------
(* A set of integers in ascending order.                                   *)

Enumerates(p, m, S) ==
  /\ m \in Nat /\ S \subseteq Int /\ p \in [1 .. m -> S]
  /\ \A j \in 1 .. m : \A k \in 1 .. m : j < k => p[j] < p[k]
  /\ \A e \in S : \E j \in 1 .. m : p[j] = e

LEMMA EnumCard ==
  ASSUME NEW p, NEW m, NEW S, Enumerates(p, m, S)
  PROVE  Cardinality(S) = m
<1>1. m \in Nat /\ p \in [1 .. m -> S] /\ S \subseteq Int
  BY DEF Enumerates
<1>2. ASSUME NEW j \in 1 .. m, NEW k \in 1 .. m, p[j] = p[k] PROVE j = k
  <2>1. p[j] \in Int /\ p[k] \in Int
    BY <1>1
  <2>2. ~(j < k) /\ ~(k < j)
    BY <1>2, <2>1 DEF Enumerates
  <2> QED BY <1>1, <2>2
<1>3. p \in Bijection(1 .. m, S)
  BY <1>1, <1>2 DEF Enumerates, Bijection, Injection, Surjection, IsInjective
<1>4. IsFiniteSet(1 .. m) /\ Cardinality(1 .. m) = m
  BY <1>1, FS_Interval
<1> QED BY <1>3, <1>4, FS_Bijection DEF ExistsBijection

LEMMA EnumOne ==
  ASSUME NEW p, NEW m, NEW S, Enumerates(p, m, S), NEW q, Enumerates(q, m, S)
  PROVE  p = q
<1>1. m \in Nat /\ p \in [1 .. m -> S] /\ q \in [1 .. m -> S] /\ S \subseteq Int
  BY DEF Enumerates
<1> DEFINE Q == {k \in 0 .. m : \A j \in 1 .. k : p[j] = q[j]}
<1>2. 0 \in Q
  BY <1>1
<1>3. ASSUME NEW k \in 1 .. m, k - 1 \in Q PROVE k \in Q
  <2>1. \A j \in 1 .. (k - 1) : p[j] = q[j]
    BY <1>3
  <2>2. p[k] \in S /\ q[k] \in S /\ p[k] \in Int /\ q[k] \in Int
    BY <1>1
  <2>3. ~(p[k] < q[k])
    <3> SUFFICES ASSUME p[k] < q[k] PROVE FALSE
      OBVIOUS
    <3>1. PICK i \in 1 .. m : q[i] = p[k]
      BY <2>2 DEF Enumerates
    <3>2. q[i] \in Int
      BY <1>1
    <3>3. ~(k < i) /\ k # i
      BY <2>2, <3>1, <3>2 DEF Enumerates
    <3>4. i < k /\ i \in 1 .. (k - 1)
      BY <1>1, <3>3
    <3>5. p[i] = p[k]
      BY <2>1, <3>1, <3>4
    <3>6. p[i] < p[k]
      BY <3>4 DEF Enumerates
    <3> QED BY <2>2, <3>5, <3>6
  <2>4. ~(q[k] < p[k])
    <3> SUFFICES ASSUME q[k] < p[k] PROVE FALSE
      OBVIOUS
    <3>1. PICK i \in 1 .. m : p[i] = q[k]
      BY <2>2 DEF Enumerates
    <3>2. p[i] \in Int
      BY <1>1
    <3>3. ~(k < i) /\ k # i
      BY <2>2, <3>1, <3>2 DEF Enumerates
    <3>4. i < k /\ i \in 1 .. (k - 1)
      BY <1>1, <3>3
    <3>5. q[i] = q[k]
      BY <2>1, <3>1, <3>4
    <3>6. q[i] < q[k]
      BY <3>4 DEF Enumerates
    <3> QED BY <2>2, <3>5, <3>6
  <2>5. p[k] = q[k]
    BY <2>2, <2>3, <2>4
  <2>6. \A j \in 1 .. k : j = k \/ j \in 1 .. (k - 1)
    BY <1>1
  <2>7. k \in 0 .. m
    BY <1>1
  <2> QED BY <2>1, <2>5, <2>6, <2>7
<1>4. 0 .. m \subseteq Q
  <2> HIDE DEF Q
  <2> QED BY <1>1, <1>2, <1>3, UpToAll
<1>5. \A j \in 1 .. m : p[j] = q[j]
  <2>1. m \in 0 .. m
    BY <1>1
  <2> QED BY <1>4, <2>1
<1> QED BY ONLY <1>1, <1>5

LEMMA AscendingIs ==
  ASSUME NEW p, NEW m, NEW S, Enumerates(p, m, S)
  PROVE  Ascending(S) = p
<1>1. Cardinality(S) = m
  BY EnumCard
<1>2. ASSUME NEW q \in [1 .. m -> S]
      PROVE  ((\A j, k \in DOMAIN q : j < k => q[j] < q[k]) /\ S = Range(q)) <=> Enumerates(q, m, S)
  <2>1. DOMAIN q = 1 .. m /\ Range(q) = {q[j] : j \in 1 .. m}
    BY DEF Range
  <2>2. S = Range(q) <=> \A e \in S : \E j \in 1 .. m : q[j] = e
    BY <2>1
  <2> QED BY <2>1, <2>2 DEF Enumerates
<1>3. p \in [1 .. m -> S]
  BY DEF Enumerates
<1>4. Ascending(S) = CHOOSE q \in [1 .. m -> S] : (\A j, k \in DOMAIN q : j < k => q[j] < q[k]) /\ S = Range(q)
  BY <1>1 DEF Ascending
<1>5. Ascending(S) \in [1 .. m -> S] /\ (\A j, k \in DOMAIN Ascending(S) : j < k => Ascending(S)[j] < Ascending(S)[k]) /\ S = Range(Ascending(S))
  BY <1>2, <1>3, <1>4
<1>6. Enumerates(Ascending(S), m, S)
  BY <1>2, <1>5
<1> QED BY <1>6, EnumOne

\* There is one for the columns of a matrix.
LEMMA EnumSome ==
  ASSUME NEW n \in Nat, NEW S, S \subseteq 0 .. (n - 1)
  PROVE  \E m, p : Enumerates(p, m, S)
<1> DEFINE Below(k) == {e \in S : e < k}
           Q == {k \in 0 .. n : \E m, p : Enumerates(p, m, Below(k))}
<1>0. \A e \in S : e \in Int /\ e >= 0 /\ e < n
  OBVIOUS
<1>1. 0 \in Q
  <2>1. Below(0) = {}
    <3>1. \A e \in S : ~(e < 0)
      BY <1>0
    <3> QED BY <3>1
  <2>2. PICK p : p = [j \in 1 .. 0 |-> 0]
    OBVIOUS
  <2>3. Enumerates(p, 0, {})
    <3>1. 1 .. 0 = {} /\ 0 \in Nat
      OBVIOUS
    <3> QED BY <2>2, <3>1 DEF Enumerates
  <2>4. 0 \in 0 .. n
    OBVIOUS
  <2> HIDE DEF Below
  <2> QED BY <2>1, <2>3, <2>4
<1>2. ASSUME NEW k \in 1 .. n, k - 1 \in Q PROVE k \in Q
  <2>1. PICK m, p : Enumerates(p, m, Below(k - 1))
    BY <1>2
  <2>2. PICK T, e : T = Below(k - 1) /\ e = k - 1
    OBVIOUS
  <2>3. T \subseteq Int /\ (\A s \in T : s < e) /\ Below(k) = (IF e \in S THEN T \cup {e} ELSE T) /\ e \in Int
    <3>1. e \in Int /\ \A s \in S : (s < k <=> (s < e \/ s = e)) /\ (s < k - 1 <=> s < e)
      BY <1>0, <2>2
    <3>2. T = {s \in S : s < e}
      BY <2>2, <3>1
    <3>3. Below(k) = {s \in S : s < e \/ s = e}
      BY <3>1
    <3> HIDE DEF Below
    <3> QED BY <1>0, <3>1, <3>2, <3>3
  <2>k. k \in 0 .. n
    OBVIOUS
  <2>4. CASE e \notin S
    <3>1. Enumerates(p, m, Below(k))
      BY ONLY <2>1, <2>2, <2>3, <2>4
    <3> HIDE DEF Below
    <3> QED BY <2>k, <3>1
  <2>5. CASE e \in S
    <3>1. m \in Nat /\ p \in [1 .. m -> T] /\ (\A i \in 1 .. m : \A j \in 1 .. m : i < j => p[i] < p[j]) /\ (\A s \in T : \E j \in 1 .. m : p[j] = s)
      BY <2>1, <2>2 DEF Enumerates
    <3>2. PICK U, l, q : U = T \cup {e} /\ l = m + 1 /\ q = [j \in 1 .. l |-> IF j = l THEN e ELSE p[j]]
      OBVIOUS
    <3>3. l \in Nat /\ l \in 1 .. l /\ ~(l \in 1 .. m) /\ \A j \in 1 .. l : j # l => j \in 1 .. m
      BY <3>1, <3>2
    <3>4. \A j \in 1 .. m : j \in 1 .. l /\ j # l
      BY <3>1, <3>2
    <3>5. q[l] = e /\ \A j \in 1 .. m : q[j] = p[j] /\ p[j] \in T
      BY <3>1, <3>2, <3>3, <3>4
    <3>6. q \in [1 .. l -> U]
      <4>1. \A j \in 1 .. l : q[j] \in U
        BY <3>2, <3>3, <3>5
      <4> QED BY ONLY <3>2, <4>1
    <3>7. ASSUME NEW i \in 1 .. l, NEW j \in 1 .. l, i < j PROVE q[i] < q[j]
      <4>1. i \in 1 .. m
        BY <3>2, <3>3, <3>7
      <4>2. CASE j = l
        BY <2>3, <3>5, <4>1, <4>2
      <4>3. CASE j # l
        BY <3>1, <3>3, <3>5, <3>7, <4>1, <4>3
      <4> QED BY <4>2, <4>3
    <3>8. ASSUME NEW s \in U PROVE \E j \in 1 .. l : q[j] = s
      <4>1. CASE s = e
        BY <3>3, <3>5, <4>1
      <4>2. CASE s \in T
        BY <3>1, <3>4, <3>5, <4>2
      <4> QED BY <3>2, <4>1, <4>2
    <3>9. Enumerates(q, l, U)
      <4>1. U \subseteq Int
        BY <2>3, <3>2
      <4> QED BY <3>3, <3>6, <3>7, <3>8, <4>1 DEF Enumerates
    <3>10. U = Below(k)
      BY <2>3, <2>5, <3>2
    <3> HIDE DEF Below
    <3> QED BY <2>k, <3>9, <3>10
  <2> QED BY <2>4, <2>5
<1>3. 0 .. n \subseteq Q
  <2> HIDE DEF Q
  <2> QED BY <1>1, <1>2, UpToAll
<1>4. Below(n) = S
  BY <1>0
<1>5. n \in Q
  <2> HIDE DEF Q
  <2> QED BY <1>3
<1> QED BY <1>4, <1>5

-----------------------------------------------------------------------------
(* The rows of zeros go, from the last one to the first.                   *)

Picked(X, p, m) == [j \in 1 .. m |-> X[p[j]]]
Skipping(p, m, i) == [j \in 1 .. (m - 1) |-> IF j < i THEN p[j] ELSE p[j + 1]]

LEMMA EnumWithout ==
  ASSUME NEW p, NEW m, NEW S, Enumerates(p, m, S), NEW i \in 1 .. m, NEW q, q = Skipping(p, m, i)
  PROVE  Enumerates(q, m - 1, S \ {p[i]})
<1>1. m \in Nat /\ m - 1 \in Nat /\ S \subseteq Int /\ p \in [1 .. m -> S]
  BY DEF Enumerates
<1>2. PICK l, U : l = m - 1 /\ U = S \ {p[i]}
  OBVIOUS
<1>3. \A j \in 1 .. l : q[j] = IF j < i THEN p[j] ELSE p[j + 1]
  BY <1>2 DEF Skipping
<1>4. \A j \in 1 .. l : j \in 1 .. m /\ j + 1 \in 1 .. m /\ (j < i => j # i) /\ (~(j < i) => j + 1 > i)
  BY <1>1, <1>2
<1>5. \A j \in 1 .. m : j # i => p[j] # p[i] /\ p[j] \in U
  <2> SUFFICES ASSUME NEW j \in 1 .. m, j # i PROVE p[j] # p[i] /\ p[j] \in U
    OBVIOUS
  <2>1. p[j] \in Int /\ p[i] \in Int /\ p[j] \in S
    BY <1>1
  <2>2. (j < i => p[j] < p[i]) /\ (i < j => p[i] < p[j])
    BY DEF Enumerates
  <2>3. j < i \/ i < j
    BY <1>1
  <2> QED BY <1>2, <2>1, <2>2, <2>3
<1>6. q \in [1 .. l -> U]
  <2>1. \A j \in 1 .. l : q[j] \in U
    BY <1>1, <1>3, <1>4, <1>5
  <2>2. q = [j \in 1 .. l |-> q[j]]
    BY <1>2 DEF Skipping
  <2> QED BY ONLY <2>1, <2>2
<1>7. ASSUME NEW j \in 1 .. l, NEW k \in 1 .. l, j < k PROVE q[j] < q[k]
  <2>1. PICK a, b : a = (IF j < i THEN j ELSE j + 1) /\ b = (IF k < i THEN k ELSE k + 1)
    OBVIOUS
  <2>2. a \in 1 .. m /\ b \in 1 .. m /\ a < b
    BY <1>1, <1>2, <1>7, <2>1
  <2>3. q[j] = p[a] /\ q[k] = p[b]
    BY <1>3, <2>1
  <2> QED BY <2>2, <2>3 DEF Enumerates
<1>8. ASSUME NEW e \in U PROVE \E j \in 1 .. l : q[j] = e
  <2>1. PICK j \in 1 .. m : p[j] = e
    BY <1>2 DEF Enumerates
  <2>2. j # i
    BY <1>2, <2>1
  <2>3. CASE j < i
    <3>1. j \in 1 .. l
      BY <1>1, <1>2, <2>3
    <3> QED BY <1>3, <2>1, <2>3, <3>1
  <2>4. CASE ~(j < i)
    <3>1. j - 1 \in 1 .. l /\ ~(j - 1 < i) /\ (j - 1) + 1 = j
      BY <1>1, <1>2, <2>2, <2>4
    <3> QED BY <1>3, <2>1, <3>1
  <2> QED BY <2>3, <2>4
<1>9. U \subseteq Int
  BY <1>1, <1>2
<1> QED BY <1>1, <1>2, <1>6, <1>7, <1>8, <1>9 DEF Enumerates

\* The first i rows, and of the others those that are not zero.
Held(X, n, i) == {r \in 1 .. Len(X) : r <= i \/ X[r] # ZeroRow(n)}
Sieve(p, m, X, n, i) == Enumerates(p, m, Held(X, n, i)) /\ \A j \in 1 .. i : j \in 1 .. m /\ p[j] = j
Sieved(T, X, type, n, i) == \E m, p : Sieve(p, m, X, n, i) /\ Grid(T, Picked(X, p, m), type, n)
SieveTurn(B, r) == IF vector_iszero(B.rows[r]) THEN matr_decrease_rows(B, r) ELSE B
SieveAll(A, l) == Downward(LAMBDA B, r : IF vector_iszero(B.rows[r]) THEN matr_decrease_rows(B, r) ELSE B, l, 1, A)

LEMMA SieveTurnIs ==
  ASSUME NEW X, Len(X) \in Nat, NEW type, NEW n, \E r \in 1 .. Len(X) : X[r] # ZeroRow(n), NEW i \in 1 .. Len(X), NEW T, Sieved(T, X, type, n, i),
         NEW W, W = SieveTurn(T, i)
  PROVE  Sieved(W, X, type, n, i - 1)
<1>1. PICK m, p : Sieve(p, m, X, n, i) /\ Grid(T, Picked(X, p, m), type, n)
  BY DEF Sieved
<1>2. PICK S, Y, l : S = Held(X, n, i) /\ Y = Picked(X, p, m) /\ l = Len(X)
  OBVIOUS
<1>3. Enumerates(p, m, S) /\ m \in Nat /\ (\A j \in 1 .. i : j \in 1 .. m /\ p[j] = j) /\ i \in 1 .. m /\ p[i] = i
  <2>1. i \in 1 .. i
    OBVIOUS
  <2> QED BY <1>1, <1>2, <2>1 DEF Sieve, Enumerates
<1>4. Spans(Y, m) /\ (\A j \in 1 .. m : Y[j] = X[p[j]]) /\ Len(Y) = m /\ Len(T.rows) = m
  <2>1. Y = [j \in 1 .. m |-> X[p[j]]]
    BY <1>2 DEF Picked
  <2>2. Len(Y) = Len(T.rows) /\ DOMAIN Y = 1 .. Len(Y) /\ Len(Y) \in Nat
    BY <1>1, <1>2, GridIs
  <2>3. 1 .. m = 1 .. Len(Y)
    BY <2>1, <2>2
  <2>4. m = Len(Y)
    BY <1>3, <2>2, <2>3
  <2> QED BY <2>1, <2>2, <2>4 DEF Spans
<1>5. RowIs(T.rows[i], X[i], type, n)
  BY <1>1, <1>2, <1>3, <1>4, GridRow
<1>6. vector_iszero(T.rows[i]) <=> X[i] = ZeroRow(n)
  BY <1>5, IsZeroIs DEF RowIs
<1>7. i - 1 \in Nat /\ \A j \in 1 .. (i - 1) : j \in 1 .. i /\ j < i /\ j \in 1 .. (m - 1)
  BY <1>3
<1>8. PICK U : U = Held(X, n, i - 1)
  OBVIOUS
<1>9. U = IF X[i] = ZeroRow(n) THEN S \ {i} ELSE S
  <2>1. \A r \in 1 .. l : r <= i - 1 <=> (r <= i /\ r # i)
    BY <1>2
  <2>2. i \in 1 .. l /\ i <= i
    BY <1>2
  <2> QED BY <1>2, <1>8, <2>1, <2>2 DEF Held
<1>10. CASE X[i] # ZeroRow(n)
  <2>1. W = T
    BY <1>6, <1>10 DEF SieveTurn
  <2>2. Sieve(p, m, X, n, i - 1)
    BY <1>3, <1>7, <1>8, <1>9, <1>10 DEF Sieve
  <2> QED BY <1>1, <2>1, <2>2 DEF Sieved
<1>11. CASE X[i] = ZeroRow(n)
  <2>1. PICK q, b : q = Skipping(p, m, i) /\ b = m - 1
    OBVIOUS
  <2>2. Enumerates(q, b, U)
    BY <1>3, <1>9, <1>11, <2>1, EnumWithout
  <2>3. m > 1
    <3>1. PICK r \in 1 .. l : X[r] # ZeroRow(n)
      BY <1>2
    <3>2. r \in S /\ r # i
      BY <1>2, <1>11, <3>1 DEF Held
    <3>3. PICK j \in 1 .. m : p[j] = r
      BY <1>3, <3>2 DEF Enumerates
    <3>4. j # i
      BY <1>3, <3>2, <3>3
    <3> QED BY <1>3, <3>4
  <2>4. W = matr_decrease_rows(T, i)
    BY <1>6, <1>11 DEF SieveTurn
  <2>5. Grid(W, LessAt(Y, i), type, n)
    BY <1>1, <1>2, <1>3, <1>4, <2>3, <2>4, DecreaseHolds
  <2>6. LessAt(Y, i) = Picked(X, q, b)
    <3>1. PICK Z, V : Z = LessAt(Y, i) /\ V = Picked(X, q, b)
      OBVIOUS
    <3>2. Spans(Z, b) /\ \A j \in 1 .. b : Z[j] = IF j < i THEN Y[j] ELSE Y[j + 1]
      BY <1>3, <1>4, <2>1, <3>1, SpansLess
    <3>3. Spans(V, b) /\ \A j \in 1 .. b : V[j] = X[q[j]]
      BY <3>1 DEF Picked, Spans
    <3>4. ASSUME NEW j \in 1 .. b PROVE Z[j] = V[j]
      <4>1. j \in 1 .. m /\ j + 1 \in 1 .. m
        BY <1>3, <2>1
      <4>2. q[j] = IF j < i THEN p[j] ELSE p[j + 1]
        BY <2>1 DEF Skipping
      <4>3. Z[j] = (IF j < i THEN X[p[j]] ELSE X[p[j + 1]])
        BY <1>4, <3>2, <4>1
      <4> QED BY <3>3, <4>2, <4>3
    <3>5. Z = V
      BY ONLY <3>2, <3>3, <3>4 DEF Spans
    <3> QED BY <3>1, <3>5
  <2>7. ASSUME NEW j \in 1 .. (i - 1) PROVE j \in 1 .. b /\ q[j] = j
    <3>1. j \in 1 .. b /\ j < i /\ p[j] = j
      BY <1>3, <1>7, <2>1
    <3>2. q[j] = IF j < i THEN p[j] ELSE p[j + 1]
      BY <2>1, <3>1 DEF Skipping
    <3> QED BY <3>1, <3>2
  <2>8. Sieve(q, b, X, n, i - 1)
    BY <1>8, <2>2, <2>7 DEF Sieve
  <2> QED BY <2>5, <2>6, <2>8 DEF Sieved
<1> QED BY <1>10, <1>11

LEMMA SievedIn ==
  ASSUME NEW X, NEW type, NEW n, NEW i, NEW T, Sieved(T, X, type, n, i)
  PROVE  T \in Matrices
BY GridIn DEF Sieved

LEMMA SieveAllIs ==
  ASSUME NEW X, NEW l \in Nat, Len(X) = l, NEW type, NEW n, \E r \in 1 .. Len(X) : X[r] # ZeroRow(n), NEW A, Sieved(A, X, type, n, l),
         NEW r, r = SieveAll(A, l)
  PROVE  Sieved(r, X, type, n, 0)
<1> DEFINE Q == [k \in 0 .. l |-> {t \in Matrices : Sieved(t, X, type, n, l - (k))}]
           F == [p \in (1 .. l) \X Matrices |-> SieveTurn(p[2], l - p[1] + 1)]
           h == CHOOSE g : g = [k \in 0 .. (l - 1 + 1) |-> IF k = 0 THEN A ELSE SieveTurn(g[k - 1], l - k + 1)]
<1> HIDE DEF Q, F, h
<1>l1. /\ l \in Nat /\ l - 1 + 1 = l /\ (l < 1 <=> l = 0)
       /\ 0 \in 0 .. l /\ \A k \in 1 .. l : k - 1 \in 0 .. l /\ k \in 0 .. l /\ k # 0
  OBVIOUS
<1>l2. A \in Matrices /\ Sieved(A, X, type, n, l - (0))
  <2>1. l - (0) = l
    OBVIOUS
  <2> QED BY <2>1, SievedIn
<1>l3. ASSUME NEW k \in 1 .. l, NEW t \in Matrices, Sieved(t, X, type, n, l - (k - 1)) PROVE SieveTurn(t, l - k + 1) \in Matrices /\ Sieved(SieveTurn(t, l - k + 1), X, type, n, l - (k))
  <2>1. PICK i : i = l - k + 1
    OBVIOUS
  <2>2. i \in 1 .. Len(X) /\ l - (k - 1) = i /\ i - 1 = l - k
    BY <2>1
  <2>3. PICK w : w = SieveTurn(t, i)
    OBVIOUS
  <2>4. Sieved(t, X, type, n, i)
    BY <1>l3, <2>2
  <2>5. Sieved(w, X, type, n, i - 1)
    BY <2>2, <2>3, <2>4, SieveTurnIs
  <2> QED BY <2>1, <2>2, <2>3, <2>5, SievedIn
<1>l4. \A k \in 1 .. l : \A t \in Q[k - 1] : t \in Matrices /\ F[<<k, t>>] = SieveTurn(t, l - k + 1) /\ F[<<k, t>>] \in Q[k]
  <2> SUFFICES ASSUME NEW k \in 1 .. l, NEW t \in Q[k - 1] PROVE t \in Matrices /\ F[<<k, t>>] = SieveTurn(t, l - k + 1) /\ F[<<k, t>>] \in Q[k]
    OBVIOUS
  <2>1. t \in Matrices /\ Sieved(t, X, type, n, l - (k - 1))
    BY ONLY <1>l1, t \in Q[k - 1], k \in 1 .. l DEF Q
  <2>2. F[<<k, t>>] = SieveTurn(t, l - k + 1)
    BY ONLY <2>1, k \in 1 .. l DEF F
  <2>3. SieveTurn(t, l - k + 1) \in Matrices /\ Sieved(SieveTurn(t, l - k + 1), X, type, n, l - (k))
    BY ONLY <1>l3, <2>1, k \in 1 .. l
  <2>4. SieveTurn(t, l - k + 1) \in Q[k]
    BY ONLY <1>l1, <2>3, k \in 1 .. l DEF Q
  <2> QED BY ONLY <2>1, <2>2, <2>4
<1>l0. A \in Q[0]
  BY ONLY <1>l1, <1>l2 DEF Q
<1>l5. h = [k \in 0 .. (l - 1 + 1) |-> IF k = 0 THEN A ELSE SieveTurn(h[k - 1], l - k + 1)]
  <2>1. PICK g : IsCourse(g, l, A, F, Q)
    BY ONLY <1>l1, <1>l0, <1>l4, LoopExists
  <2>2. /\ g = [k \in 0 .. l |-> IF k = 0 THEN A ELSE F[<<k, g[k - 1]>>]]
        /\ \A k \in 0 .. l : g[k] \in Q[k]
    BY ONLY <2>1 DEF IsCourse
  <2>3. \A k \in 0 .. l : k # 0 => k \in 1 .. l /\ k - 1 \in 0 .. l
    BY ONLY <1>l1
  <2>4. g = [k \in 0 .. l |-> IF k = 0 THEN A ELSE SieveTurn(g[k - 1], l - k + 1)]
    BY ONLY <1>l4, <2>2, <2>3
  <2> QED BY ONLY <1>l1, <2>4 DEF h
<1>l6. h[l] \in Q[l]
  <2>1. h[0] = A /\ \A k \in 1 .. l : h[k] = SieveTurn(h[k - 1], l - k + 1)
    BY ONLY <1>l1, <1>l5
  <2>2. h[0] \in Q[0] /\ \A k \in 1 .. l : h[k - 1] \in Q[k - 1] => h[k] \in Q[k]
    BY ONLY <1>l0, <1>l4, <2>1
  <2> QED BY ONLY <1>l1, <2>2, CourseStays
<1>l7. r = IF l < 1 THEN A ELSE h[l - 1 + 1]
  BY DEF Downward, SieveAll, SieveTurn, h
<1>l8. r \in Q[l]
  BY ONLY <1>l0, <1>l1, <1>l6, <1>l7
<1>l9. r \in Matrices /\ Sieved(r, X, type, n, l - (l))
  <2>1. l \in 0 .. l
    BY ONLY <1>l1
  <2> QED BY ONLY <1>l8, <2>1 DEF Q
<1>1. l - l = 0
  OBVIOUS
<1> QED BY <1>1, <1>l9

NotZero(X, n) == {r \in 1 .. Len(X) : X[r] # ZeroRow(n)}

LEMMA RemoveZeroRowsHolds ==
  ASSUME NEW A, NEW X, NEW type, NEW n, Grid(A, X, type, n), NEW kept, kept = Ascending(NotZero(X, n)), kept # << >>,
         NEW B, B = matr_remove_zero_rows(A)
  PROVE  Grid(B, Picked(X, kept, Len(kept)), type, n)
<1>1. PICK l : l = Len(X)
  OBVIOUS
<1>2. l \in Nat /\ Spans(X, l) /\ Len(A.rows) = l /\ n \in Nat
  BY <1>1, GridIs
<1>3. \E r \in 1 .. l : X[r] # ZeroRow(n)
  <2> SUFFICES ASSUME \A r \in 1 .. l : X[r] = ZeroRow(n) PROVE FALSE
    OBVIOUS
  <2>1. NotZero(X, n) = {}
    BY <1>1 DEF NotZero
  <2>2. Enumerates(<< >>, 0, {})
    <3>1. << >> \in [1 .. 0 -> {}] /\ 1 .. 0 = {} /\ 0 \in Nat
      OBVIOUS
    <3> QED BY <3>1 DEF Enumerates
  <2>3. kept = << >>
    BY <2>1, <2>2, AscendingIs
  <2> QED BY <2>3
<1>4. Sieved(A, X, type, n, l)
  <2>1. PICK p : p = [j \in 1 .. l |-> j]
    OBVIOUS
  <2>2. Held(X, n, l) = 1 .. l
    BY <1>1, <1>2 DEF Held
  <2>3. Enumerates(p, l, 1 .. l)
    <3>1. 1 .. l \subseteq Int /\ p \in [1 .. l -> 1 .. l] /\ \A j \in 1 .. l : p[j] = j
      BY <1>2, <2>1
    <3> QED BY <1>2, <3>1 DEF Enumerates
  <2>4. Sieve(p, l, X, n, l)
    BY <2>1, <2>2, <2>3 DEF Sieve
  <2>5. Picked(X, p, l) = X
    <3>1. \A j \in 1 .. l : p[j] = j
      BY <2>1
    <3>2. Picked(X, p, l) = [j \in 1 .. l |-> X[j]]
      BY <3>1 DEF Picked
    <3> QED BY <1>2, <3>2 DEF Spans
  <2> QED BY <2>4, <2>5 DEF Sieved
<1>5. B = SieveAll(A, l)
  BY <1>2 DEF matr_remove_zero_rows, SieveAll
<1>6. Sieved(B, X, type, n, 0)
  BY <1>1, <1>2, <1>3, <1>4, <1>5, SieveAllIs
<1>7. PICK m, p : Sieve(p, m, X, n, 0) /\ Grid(B, Picked(X, p, m), type, n)
  BY <1>6 DEF Sieved
<1>8. Held(X, n, 0) = NotZero(X, n)
  <2>1. \A r \in 1 .. l : ~(r <= 0)
    BY <1>2
  <2> QED BY <1>1, <2>1 DEF Held, NotZero
<1>9. Enumerates(p, m, NotZero(X, n)) /\ m \in Nat
  BY <1>7, <1>8 DEF Sieve, Enumerates
<1>10. kept = p
  BY <1>9, AscendingIs
<1>11. Len(p) = m
  <2>1. PICK U : U = NotZero(X, n)
    OBVIOUS
  <2>2. p \in [1 .. m -> U]
    BY <1>9, <2>1 DEF Enumerates
  <2> QED BY ONLY <1>9, <2>2
<1> QED BY <1>7, <1>10, <1>11

-----------------------------------------------------------------------------
(* The columns no row stores go.                                           *)

PlaceOf(map, m, C) == [c \in C |-> (CHOOSE k \in 1 .. m : map[k] = c) - 1]
Chosen(x, map, m) == [k \in 0 .. (m - 1) |-> x[map[k + 1]]]

LEMMA EnumLow ==
  ASSUME NEW p, NEW m, NEW S, Enumerates(p, m, S), \A e \in S : e >= 0, NEW k \in 1 .. m
  PROVE  k - 1 <= p[k]
<1>1. m \in Nat /\ \A j \in 1 .. m : p[j] \in S /\ p[j] \in Int /\ p[j] >= 0
  BY DEF Enumerates
<1> DEFINE Q == {j \in 0 .. m : j = 0 \/ j - 1 <= p[j]}
<1>2. 0 \in Q
  BY <1>1
<1>3. ASSUME NEW j \in 1 .. m, j - 1 \in Q PROVE j \in Q
  <2>0. j \in 0 .. m
    BY <1>1
  <2>1. CASE j = 1
    BY <1>1, <2>0, <2>1
  <2>2. CASE j # 1
    <3>1. j - 1 \in 1 .. m /\ j - 1 < j /\ j - 1 # 0
      BY <1>1, <2>2
    <3>2. (j - 1) - 1 <= p[j - 1]
      BY <1>3, <3>1
    <3>3. p[j - 1] < p[j]
      BY <3>1 DEF Enumerates
    <3>4. p[j - 1] \in Int /\ p[j] \in Int
      BY <1>1, <3>1
    <3>5. j - 1 <= p[j]
      BY <3>2, <3>3, <3>4
    <3> QED BY <2>0, <3>5
  <2> QED BY <2>1, <2>2
<1>4. 0 .. m \subseteq Q
  <2> HIDE DEF Q
  <2> QED BY <1>1, <1>2, <1>3, UpToAll
<1>5. k \in 0 .. m /\ k # 0
  BY <1>1
<1> QED BY <1>4, <1>5

LEMMA PlaceOfIs ==
  ASSUME NEW map, NEW m, NEW C, Enumerates(map, m, C), NEW place, place = PlaceOf(map, m, C), NEW c \in C
  PROVE  \E k \in 1 .. m : map[k] = c /\ place[c] = k - 1
<1>1. PICK j : j = CHOOSE k \in 1 .. m : map[k] = c
  OBVIOUS
<1>2. j \in 1 .. m /\ map[j] = c
  BY <1>1 DEF Enumerates
<1>3. place[c] = j - 1
  BY <1>1 DEF PlaceOf
<1> QED BY <1>2, <1>3

LEMMA PlaceAscends ==
  ASSUME NEW map, NEW m, NEW C, Enumerates(map, m, C), NEW place, place = PlaceOf(map, m, C), NEW c \in C, NEW d \in C, c < d
  PROVE  place[c] \in Int /\ place[d] \in Int /\ place[c] < place[d]
<1>1. PICK j \in 1 .. m : map[j] = c /\ place[c] = j - 1
  BY PlaceOfIs
<1>2. PICK k \in 1 .. m : map[k] = d /\ place[d] = k - 1
  BY PlaceOfIs
<1>3. m \in Nat /\ c \in Int /\ d \in Int
  BY DEF Enumerates
<1>4. ~(k < j) /\ k # j
  <2>1. k < j => d < c
    BY <1>1, <1>2 DEF Enumerates
  <2> QED BY <1>1, <1>2, <1>3, <2>1
<1> QED BY <1>1, <1>2, <1>3, <1>4

LEMMA PackRenumbers ==
  ASSUME NEW n \in Nat, NEW S, NEW x, Means(S, n, x), NEW map, NEW m, NEW C, Enumerates(map, m, C), C \subseteq 0 .. (n - 1),
         \A c \in 0 .. (n - 1) : x[c] # 0 => c \in C, NEW place, place = PlaceOf(map, m, C)
  PROVE  Renumbers(place, S, 1) /\ \A k \in 1 .. Len(S) : S[k].col \in C
<1>1. Len(S) \in Nat /\ (\A k \in 1 .. Len(S) : S[k].col \in 0 .. (n - 1) /\ S[k].data # 0 /\ x[S[k].col] = S[k].data)
      /\ \A j \in 1 .. Len(S) : \A k \in 1 .. Len(S) : j < k => S[j].col < S[k].col
  BY DEF Means
<1>2. \A k \in 1 .. Len(S) : S[k].col \in C
  BY <1>1
<1>3. ASSUME NEW k \in 1 .. Len(S) PROVE place[S[k].col] \in Int /\ place[S[k].col] <= S[k].col
  <2>1. PICK c : c = S[k].col
    OBVIOUS
  <2>2. PICK j \in 1 .. m : map[j] = c /\ place[c] = j - 1
    BY <1>2, <2>1, PlaceOfIs, SMTT(30)
  <2>3. \A e \in C : e >= 0
    OBVIOUS
  <2>4. j - 1 <= map[j] /\ m \in Nat
    BY <2>3, EnumLow DEF Enumerates
  <2> QED BY <2>1, <2>2, <2>4
<1>4. ASSUME NEW j \in 1 .. Len(S), NEW k \in 1 .. Len(S), j < k PROVE place[S[j].col] < place[S[k].col]
  <2>1. PICK a, b : a = S[j].col /\ b = S[k].col
    OBVIOUS
  <2>2. a \in C /\ b \in C /\ a < b
    BY <1>1, <1>2, <1>4, <2>1
  <2> QED BY <2>1, <2>2, PlaceAscends
<1>5. 1 .. (1 - 1) = {}
  OBVIOUS
<1> QED BY <1>2, <1>3, <1>4, <1>5 DEF Renumbers

LEMMA PackMeans ==
  ASSUME NEW n \in Nat, NEW S, NEW x, Means(S, n, x), NEW map, NEW m, NEW C, Enumerates(map, m, C), C \subseteq 0 .. (n - 1),
         \A c \in 0 .. (n - 1) : x[c] # 0 => c \in C, NEW place, place = PlaceOf(map, m, C),
         NEW T, Renumbered(T, S, place, 1, Len(S) + 1)
  PROVE  Means(T, m, Chosen(x, map, m))
<1>1. /\ S \in Seq(Cell) /\ Len(S) \in Nat /\ x \in [0 .. (n - 1) -> Int]
      /\ (\A k \in 1 .. Len(S) : S[k].col \in 0 .. (n - 1) /\ S[k].data # 0 /\ x[S[k].col] = S[k].data)
      /\ (\A j \in 1 .. Len(S) : \A k \in 1 .. Len(S) : j < k => S[j].col < S[k].col)
      /\ \A c \in 0 .. (n - 1) : x[c] # 0 => \E k \in 1 .. Len(S) : S[k].col = c
  BY ONLY Means(S, n, x) DEF Means
<1>2. \A k \in 1 .. Len(S) : S[k].col \in C
  BY PackRenumbers
<1>3. T \in Seq(Cell) /\ Len(T) = Len(S)
  BY DEF Renumbered
<1>4. ASSUME NEW k \in 1 .. Len(S) PROVE T[k].data = S[k].data /\ T[k].col = place[S[k].col]
  <2>1. k \in 1 .. ((Len(S) + 1) - 1)
    BY <1>1
  <2> QED BY <2>1 DEF Renumbered
<1>5. PICK y : y = Chosen(x, map, m)
  OBVIOUS
<1>6. m \in Nat /\ map \in [1 .. m -> C]
  BY DEF Enumerates
<1>7. ASSUME NEW k \in 1 .. m PROVE k - 1 \in 0 .. (m - 1) /\ y[k - 1] = x[map[k]] /\ map[k] \in C
  <2>1. k - 1 \in 0 .. (m - 1) /\ (k - 1) + 1 = k
    BY <1>6
  <2>2. y[k - 1] = x[map[(k - 1) + 1]]
    BY <1>5, <2>1 DEF Chosen
  <2> QED BY <1>6, <2>1, <2>2
<1>8. y \in [0 .. (m - 1) -> Int]
  <2>1. ASSUME NEW i \in 0 .. (m - 1) PROVE y[i] \in Int
    <3>1. i + 1 \in 1 .. m /\ (i + 1) - 1 = i
      BY <1>6
    <3>2. y[i] = x[map[i + 1]] /\ map[i + 1] \in C
      BY <1>7, <3>1
    <3> QED BY <1>1, <3>2
  <2>2. y = [i \in 0 .. (m - 1) |-> y[i]]
    BY <1>5 DEF Chosen
  <2> QED BY ONLY <2>1, <2>2
<1>9. ASSUME NEW k \in 1 .. Len(T) PROVE T[k].col \in 0 .. (m - 1) /\ T[k].data # 0 /\ y[T[k].col] = T[k].data
  <2>0. k \in 1 .. Len(S)
    BY <1>3
  <2>1. PICK c : c = S[k].col
    OBVIOUS
  <2>2. PICK j \in 1 .. m : map[j] = c /\ place[c] = j - 1
    BY <1>2, <2>0, <2>1, PlaceOfIs
  <2>3. T[k].data = S[k].data /\ T[k].col = j - 1
    BY <1>4, <2>0, <2>1, <2>2
  <2>4. y[j - 1] = x[c] /\ j - 1 \in 0 .. (m - 1)
    BY <1>7, <2>2
  <2> QED BY <1>1, <2>0, <2>1, <2>3, <2>4
<1>10. ASSUME NEW j \in 1 .. Len(T), NEW k \in 1 .. Len(T), j < k PROVE T[j].col < T[k].col
  <2>1. PICK a, b : a = S[j].col /\ b = S[k].col
    OBVIOUS
  <2>2. a \in C /\ b \in C /\ a < b
    BY <1>1, <1>2, <1>3, <1>10, <2>1
  <2>3. place[a] < place[b]
    BY <2>2, PlaceAscends
  <2> QED BY <1>3, <1>4, <2>1, <2>3
<1>11. ASSUME NEW i \in 0 .. (m - 1), y[i] # 0 PROVE \E k \in 1 .. Len(T) : T[k].col = i
  <2>1. PICK j : j = i + 1
    OBVIOUS
  <2>2. j \in 1 .. m /\ j - 1 = i
    BY <1>6, <2>1
  <2>3. PICK c : c = map[j]
    OBVIOUS
  <2>4. x[c] # 0 /\ c \in C
    BY <1>7, <1>11, <2>2, <2>3
  <2>5. PICK k \in 1 .. Len(S) : S[k].col = c
    BY <1>1, <2>4
  <2>6. PICK l \in 1 .. m : map[l] = c /\ place[c] = l - 1
    BY <2>4, PlaceOfIs
  <2>7. l = j
    <3>1. (l < j => map[l] < map[j]) /\ (j < l => map[j] < map[l])
      BY <2>2 DEF Enumerates
    <3>2. c \in Int
      BY <2>4 DEF Enumerates
    <3> QED BY <1>6, <2>2, <2>3, <2>6, <3>1, <3>2
  <2>8. T[k].col = i
    BY <1>4, <2>2, <2>5, <2>6, <2>7
  <2> QED BY <1>3, <2>8
<1> QED BY <1>3, <1>5, <1>8, <1>9, <1>10, <1>11 DEF Means

\* the columns of C are columns of a vector n wide, and they hold all of its cells
Covers(C, x, n) ==
  /\ C \subseteq 0 .. (n - 1)
  /\ \A c \in 0 .. (n - 1) : x[c] # 0 => c \in C

LEMMA PackedHolds ==
  ASSUME NEW v, NEW x, Holds(v, x), ~IsFull(v), NEW n, n = v.dim, n <= MaxTurns, NEW map, NEW m, NEW C, Enumerates(map, m, C),
         Covers(C, x, n), NEW w, w = Packed(map, v)
  PROVE  Holds(w, Chosen(x, map, m)) /\ w.dim = m /\ w.type = v.type /\ w.nz = v.nz
<1>1. PICK S, place, s, z : S = Stored(v) /\ place = PlaceOf(map, m, C) /\ s = FromBeg(v) /\ z = MoveColumns(place, s)
  OBVIOUS
<1>2. n \in Nat /\ Sparse(v) /\ Means(S, n, x) /\ S \in Seq(Cell) /\ Len(S) \in Nat /\ Len(S) <= n /\ v.nz = Len(S)
  BY <1>1, HoldsSparse
<1>3. m \in Nat /\ map \in [1 .. m -> C] /\ (\A e \in C : \E j \in 1 .. m : map[j] = e)
  BY DEF Enumerates
<1>4. DOMAIN map = 1 .. m /\ Range(map) = C /\ Len(map) = m
  <2>1. DOMAIN map = 1 .. m
    BY <1>3
  <2>2. Range(map) = C
    BY <1>3, <2>1 DEF Range
  <2>3. Len(map) = m
    BY ONLY <1>3
  <2> QED BY <2>1, <2>2, <2>3
<1>5. w = Widened(z, m)
  BY <1>1, <1>4 DEF Packed, PlaceOf, Widened
<1>6. IsPair(s) /\ s.v = v /\ Valid(s.it, v) /\ Place(s.it, v) = 1
  <2>1. PICK i : i = vectorit_set_at_beg(v)
    OBVIOUS
  <2>2. s = [v |-> v, it |-> i]
    BY <1>1, <2>1 DEF FromBeg
  <2>3. s.v = v /\ s.it = i
    BY ONLY <2>2
  <2>4. IsPair(s)
    BY ONLY <2>2, <2>3 DEF IsPair
  <2> QED BY <1>2, <2>1, <2>3, <2>4, SeatAtBeg
<1>0. C \subseteq 0 .. (n - 1) /\ \A c \in 0 .. (n - 1) : x[c] # 0 => c \in C
  BY DEF Covers
<1>7. Renumbers(place, S, 1)
  BY <1>0, <1>1, <1>2, PackRenumbers
<1>8. Sparse(z) /\ Like(z, v) /\ Renumbered(Stored(z), S, place, 1, Len(S) + 1)
  <2>1. \A j \in 1 .. Len(S) : \A k \in 1 .. Len(S) : j < k => S[j].col < S[k].col
    BY <1>2 DEF Means
  <2>2. Len(S) <= MaxTurns
    BY <1>1, <1>2, TurnsAssumption
  <2>3. PICK p : p = Place(s.it, v)
    OBVIOUS
  <2>4. p = 1 /\ Renumbers(place, S, p)
    BY <1>6, <1>7, <2>3
  <2>5. Sparse(z) /\ Like(z, v) /\ Renumbered(Stored(z), S, place, p, Len(S) + 1)
    BY <1>1, <1>2, <1>6, <2>1, <2>2, <2>3, <2>4, MoveColumnsIs
  <2> QED BY <2>4, <2>5
<1>9. Means(Stored(z), m, Chosen(x, map, m))
  BY <1>0, <1>1, <1>2, <1>8, PackMeans
<1>10. z.nz = v.nz
  <2>1. z.nz = Len(Stored(z))
    BY <1>8, StoredIs
  <2> QED BY <1>2, <1>8, <2>1 DEF Renumbered
<1>11. Holds(w, Chosen(x, map, m)) /\ w.dim = m /\ w.type = z.type /\ w.nz = z.nz
  BY <1>3, <1>5, <1>8, <1>9, RedimHolds
<1> QED BY <1>8, <1>10, <1>11 DEF Like

LEMMA EnumLen ==
  ASSUME NEW p, NEW m, NEW S, Enumerates(p, m, S)
  PROVE  Len(p) = m /\ m \in Nat /\ DOMAIN p = 1 .. m
<1>1. m \in Nat /\ p \in [1 .. m -> S]
  BY DEF Enumerates
<1> QED BY ONLY <1>1

LEMMA AscendingNone ==
  Ascending({}) = << >>
<1>1. Enumerates(<< >>, 0, {})
  <2>1. << >> \in [1 .. 0 -> {}] /\ 1 .. 0 = {} /\ 0 \in Nat
    OBVIOUS
  <2> QED BY <2>1 DEF Enumerates
<1> QED BY <1>1, AscendingIs

LEMMA TotalAtLeast ==
  ASSUME NEW rows, NEW k \in Nat, NEW t, IsTotal(rows, k, t), \A j \in 1 .. k : rows[j].nz \in Nat, NEW p \in 1 .. k
  PROVE  t >= rows[p].nz
<1>1. PICK h : SumCourse(h, rows, k) /\ t = h[k]
  BY DEF IsTotal
<1>2. h \in [0 .. k -> Int] /\ h[0] = 0 /\ \A j \in 1 .. k : h[j] = h[j - 1] + rows[j].nz
  BY <1>1 DEF SumCourse
<1>3. PICK e : e = rows[p].nz
  OBVIOUS
<1> DEFINE Q == {j \in 0 .. k : h[j] >= 0 /\ (j >= p => h[j] >= e)}
<1>4. 0 \in Q
  BY <1>2
<1>5. ASSUME NEW j \in 1 .. k, j - 1 \in Q PROVE j \in Q
  <2>1. j \in 0 .. k /\ j - 1 \in 0 .. k /\ h[j] \in Int /\ h[j - 1] \in Int /\ h[j] = h[j - 1] + rows[j].nz /\ rows[j].nz \in Nat
    <3>1. j \in 0 .. k /\ j - 1 \in 0 .. k
      OBVIOUS
    <3> QED BY <1>2, <3>1
  <2>2. h[j - 1] >= 0 /\ (j - 1 >= p => h[j - 1] >= e)
    BY <1>5
  <2>3. h[j] >= 0
    BY <2>1, <2>2
  <2>4. j = p => h[j] >= e
    BY <1>3, <2>1, <2>2
  <2>5. j >= p /\ j # p => h[j] >= e
    <3> SUFFICES ASSUME j >= p, j # p PROVE h[j] >= e
      OBVIOUS
    <3>1. j - 1 >= p
      OBVIOUS
    <3>2. e \in Nat
      BY <1>3
    <3> QED BY <2>1, <2>2, <3>1, <3>2
  <2> QED BY <2>1, <2>3, <2>4, <2>5
<1>6. 0 .. k \subseteq Q
  <2> HIDE DEF Q
  <2> QED BY <1>4, <1>5, UpToAll
<1>7. k \in 0 .. k /\ k >= p
  OBVIOUS
<1> QED BY <1>1, <1>3, <1>6, <1>7

ColumnsOf(X, n) == {c \in 0 .. (n - 1) : \E r \in 1 .. Len(X) : X[r][c] # 0}
ChosenRows(X, map, m) == [r \in 1 .. Len(X) |-> Chosen(X[r], map, m)]

LEMMA StoredColumns ==
  ASSUME NEW v, NEW x, NEW type, NEW n, RowIs(v, x, type, n), type # "NON_SPARSE", NEW c \in 0 .. (n - 1)
  PROVE  (x[c] # 0 <=> \E k \in DOMAIN Stored(v) : Stored(v)[k].col = c) /\ (x[c] # 0 => v.nz > 0) /\ v.nz \in Nat
<1>1. Holds(v, x) /\ ~IsFull(v) /\ v.dim = n
  BY DEF RowIs, IsFull
<1>2. PICK S : S = Stored(v)
  OBVIOUS
<1>3. Means(S, n, x) /\ S \in Seq(Cell) /\ Len(S) \in Nat /\ v.nz = Len(S)
  BY <1>1, <1>2, HoldsSparse
<1>4. DOMAIN S = 1 .. Len(S)
  BY ONLY <1>3
<1>5. x[c] # 0 <=> \E k \in 1 .. Len(S) : S[k].col = c
  BY ONLY <1>3, c \in 0 .. (n - 1) DEF Means
<1>6. x[c] # 0 => Len(S) > 0
  <2> SUFFICES ASSUME x[c] # 0 PROVE Len(S) > 0
    OBVIOUS
  <2>1. PICK k \in 1 .. Len(S) : S[k].col = c
    BY <1>5
  <2> QED BY <1>3
<1> QED BY <1>2, <1>3, <1>4, <1>5, <1>6

LEMMA ColumnMapIs ==
  ASSUME NEW A, NEW X, NEW type, NEW n, Grid(A, X, type, n), type # "NON_SPARSE"
  PROVE  ColumnMap(A) = Ascending(ColumnsOf(X, n))
<1>1. A.cols = n /\ DOMAIN A.rows = 1 .. Len(X) /\ Len(A.rows) = Len(X)
  BY GridIs
<1>2. PICK C : C = {c \in 0 .. (A.cols - 1) : \E r \in DOMAIN A.rows : \E k \in DOMAIN Stored(A.rows[r]) : Stored(A.rows[r])[k].col = c}
  OBVIOUS
<1>3. ASSUME NEW c \in 0 .. (n - 1), NEW r \in 1 .. Len(X)
      PROVE  (\E k \in DOMAIN Stored(A.rows[r]) : Stored(A.rows[r])[k].col = c) <=> X[r][c] # 0
  <2>1. RowIs(A.rows[r], X[r], type, n)
    BY <1>1, GridRow
  <2> QED BY <2>1, StoredColumns
<1>4. C = ColumnsOf(X, n)
  <2>1. C = {c \in 0 .. (n - 1) : \E r \in 1 .. Len(X) : \E k \in DOMAIN Stored(A.rows[r]) : Stored(A.rows[r])[k].col = c}
    BY ONLY <1>1, <1>2
  <2>2. \A c \in 0 .. (n - 1) : c \in C <=> \E r \in 1 .. Len(X) : X[r][c] # 0
    BY ONLY <1>3, <2>1
  <2>3. C \subseteq 0 .. (n - 1)
    BY ONLY <2>1
  <2>4. C = {c \in 0 .. (n - 1) : \E r \in 1 .. Len(X) : X[r][c] # 0}
    BY ONLY <2>2, <2>3
  <2> QED BY ONLY <2>4 DEF ColumnsOf
<1> QED BY <1>2, <1>4 DEF ColumnMap

LEMMA RemoveZeroColsHolds ==
  ASSUME NEW A, NEW X, NEW type, NEW n, Grid(A, X, type, n), type # "NON_SPARSE", n <= MaxTurns,
         NEW kept, kept = Ascending(ColumnsOf(X, n)), kept # << >>, NEW B, B = matr_remove_zero_cols(A)
  PROVE  Grid(B, ChosenRows(X, kept, Len(kept)), type, Len(kept))
<1>1. PICK l, C : l = Len(X) /\ C = ColumnsOf(X, n)
  OBVIOUS
<1>2. /\ IsGrid(A) /\ n \in Nat /\ A.cols = n /\ A.type = type /\ A.nz \in Int /\ l \in Nat
      /\ Len(A.rows) = l /\ DOMAIN A.rows = 1 .. l
  BY <1>1, GridIs
<1>3. C \subseteq 0 .. (n - 1)
  BY <1>1 DEF ColumnsOf
<1>4. PICK m, p : Enumerates(p, m, C)
  BY <1>2, <1>3, EnumSome
<1>5. kept = p /\ Len(kept) = m /\ m \in Nat
  BY <1>1, <1>4, AscendingIs, EnumLen
<1>6. C # {}
  BY <1>1, AscendingNone
<1>7. PICK c \in 0 .. (n - 1), r \in 1 .. l : X[r][c] # 0
  BY <1>1, <1>6 DEF ColumnsOf
<1>8. ASSUME NEW j \in 1 .. l PROVE RowIs(A.rows[j], X[j], type, n) /\ A.rows[j].nz \in Nat
  <2>1. RowIs(A.rows[j], X[j], type, n)
    BY <1>2, GridRow
  <2> QED BY <1>7, <2>1, StoredColumns
<1>9. A.nz # 0
  <2>1. IsTotal(A.rows, l, A.nz)
    BY <1>2 DEF Grid, Counted
  <2>2. A.rows[r].nz > 0 /\ A.rows[r].nz \in Nat
    BY <1>7, <1>8, StoredColumns
  <2>3. A.nz >= A.rows[r].nz
    BY <1>2, <1>8, <2>1, TotalAtLeast
  <2> QED BY <1>2, <2>2, <2>3
<1>10. ~(A.cols = 0 \/ A.nz = 0 \/ A.rows = << >> \/ A.type = "NON_SPARSE")
  <2>1. A.rows # << >>
    BY <1>2, <1>7
  <2> QED BY <1>2, <1>7, <1>9, <2>1
<1>11. PICK R, Y : R = [j \in DOMAIN A.rows |-> Packed(kept, A.rows[j])] /\ Y = ChosenRows(X, kept, m)
  OBVIOUS
<1>12. B = GridCols(A, R, m)
  <2>1. ColumnMap(A) = kept
    BY ColumnMapIs
  <2> QED BY <1>5, <1>10, <1>11, <2>1 DEF matr_remove_zero_cols, GridCols
<1>13. Spans(R, l) /\ \A j \in 1 .. l : R[j] = Packed(kept, A.rows[j])
  BY ONLY <1>2, <1>11 DEF Spans
<1>14. Spans(Y, l) /\ \A j \in 1 .. l : Y[j] = Chosen(X[j], kept, m)
  BY <1>1, <1>11 DEF ChosenRows, Spans
<1>15. ASSUME NEW j \in 1 .. l PROVE RowIs(R[j], Y[j], type, m) /\ R[j].nz = A.rows[j].nz
  <2>1. PICK v, w, x : v = A.rows[j] /\ w = R[j] /\ x = X[j]
    OBVIOUS
  <2>2. Holds(v, x) /\ v.dim = n /\ v.type = type /\ ~IsFull(v) /\ w = Packed(p, v)
    BY <1>5, <1>8, <1>13, <2>1 DEF RowIs, IsFull
  <2>3. Covers(C, x, n)
    BY <1>1, <1>4, <2>1 DEF ColumnsOf, Covers
  <2>4. Holds(w, Chosen(x, p, m)) /\ w.dim = m /\ w.type = v.type /\ w.nz = v.nz
    <3>1. n = v.dim /\ n <= MaxTurns
      BY <2>2
    <3> QED BY ONLY <1>4, <2>2, <2>3, <3>1, PackedHolds
  <2> QED BY <1>5, <1>14, <2>1, <2>2, <2>4 DEF RowIs
<1>16. IsGrid(B) /\ B.type = A.type /\ B.cols = m /\ B.size = A.size /\ B.rows = R /\ B.nz = A.nz
  BY <1>2, <1>12, GridColsIs
<1>17. Grid(B, Y, type, m)
  BY ONLY <1>1, <1>5, <1>13, <1>14, <1>15, <1>16, Grid(A, X, type, n), EachRow
<1> QED BY <1>5, <1>11, <1>17

-----------------------------------------------------------------------------
(* Rows of another matrix at the end.                                      *)

Extended(X, k, n) == X \o ZeroRowsOf(k, n)

LEMMA ExtendedIs ==
  ASSUME NEW X, NEW l \in Nat, Spans(X, l), NEW k \in Nat, NEW n, NEW Y, Y = Extended(X, k, n)
  PROVE  Spans(Y, l + k) /\ (\A r \in 1 .. l : Y[r] = X[r]) /\ (\A r \in (l + 1) .. (l + k) : Y[r] = ZeroRow(n))
<1>1. PICK Z, z : Z = ZeroRowsOf(k, n) /\ z = ZeroRow(n)
  OBVIOUS
<1>2. Spans(Z, k) /\ \A j \in 1 .. k : Z[j] = z
  <2>1. Z = [r \in 1 .. k |-> z]
    BY <1>1 DEF ZeroRowsOf
  <2> QED BY ONLY <2>1 DEF Spans
<1>3. l \in Nat /\ k \in Nat /\ Spans(X, l) /\ Y = Joined(X, Z)
  BY <1>1 DEF Joined, Extended
<1>4. Spans(Y, l + k) /\ (\A r \in 1 .. l : Y[r] = X[r]) /\ (\A r \in (l + 1) .. (l + k) : r - l \in 1 .. k /\ Y[r] = Z[r - l])
  BY ONLY <1>2, <1>3, SpansConcat
<1>5. \A r \in (l + 1) .. (l + k) : Y[r] = z
  BY ONLY <1>2, <1>4
<1> QED BY ONLY <1>1, <1>4, <1>5

LEMMA GridMoreRows ==
  ASSUME NEW A, NEW X, NEW type, NEW n, Grid(A, X, type, n), NEW k \in Nat, NEW B, B = matr_add_nrows(A, k)
  PROVE  Grid(B, Extended(X, k, n), type, n)
BY AddNrowsHolds DEF Extended

LEMMA NoneCounted ==
  ASSUME NEW v, NEW type, NEW n, RowIs(v, ZeroRow(n), type, n), type # "NON_SPARSE"
  PROVE  v.nz = 0
<1>1. PICK S, x : S = Stored(v) /\ x = ZeroRow(n)
  OBVIOUS
<1>2. Holds(v, x) /\ ~IsFull(v) /\ v.dim = n
  BY <1>1 DEF RowIs, IsFull
<1>3. Means(S, n, x) /\ Len(S) \in Nat /\ v.nz = Len(S)
  BY <1>1, <1>2, HoldsSparse
<1>4. \A c \in 0 .. (n - 1) : x[c] = 0
  BY ONLY <1>1 DEF ZeroRow
<1>5. Len(S) > 0 => FALSE
  <2>1. \A k \in 1 .. Len(S) : S[k].col \in 0 .. (n - 1) /\ S[k].data # 0 /\ x[S[k].col] = S[k].data
    BY ONLY <1>3 DEF Means
  <2> QED BY ONLY <1>3, <1>4, <2>1
<1> QED BY ONLY <1>3, <1>5

LEMMA WiderZero ==
  ASSUME NEW n \in Nat, NEW m \in Nat, n <= m
  PROVE  Wider(ZeroRow(n), n, m) = ZeroRow(m)
<1>1. PICK z : z = ZeroRow(n)
  OBVIOUS
<1>2. \A c \in 0 .. (m - 1) : c < n => z[c] = 0
  BY ONLY <1>1, n \in Nat, m \in Nat DEF ZeroRow
<1>3. Wider(z, n, m) = [c \in 0 .. (m - 1) |-> IF c < n THEN z[c] ELSE 0]
  BY ONLY DEF Wider
<1>4. Wider(z, n, m) = [c \in 0 .. (m - 1) |-> 0]
  BY ONLY <1>2, <1>3
<1> QED BY <1>1, <1>4 DEF ZeroRow

RowPut(A, r, w, k) == [A EXCEPT !.rows[r] = w, !.nz = @ + k]

LEMMA ShallowHolds ==
  ASSUME NEW A, NEW X, NEW type, NEW n, Grid(A, X, type, n), type # "NON_SPARSE", NEW r \in 1 .. Len(A.rows), X[r] = ZeroRow(n),
         NEW v, NEW x, Holds(v, x), v.type = type, NEW m, m = v.dim, NEW new, new = (IF m > n THEN m ELSE n),
         NEW B, B = matr_shallow_row_copy(A, r, v)
  PROVE  Grid(B, With(WiderRows(X, n, new), r, Wider(x, m, new)), type, new)
<1>1. PICK l, k, long, wide, w, Y, Z : /\ l = Len(X) /\ k = (IF m > n THEN m - n ELSE 0) /\ long = matr_add_nrows(A, 0)
                                    /\ wide = matr_add_ncols(long, k) /\ w = Widened(v, new)
                                    /\ Y = Extended(X, 0, n) /\ Z = WiderRows(X, n, new)
  OBVIOUS
<1>2. /\ n \in Nat /\ A.cols = n /\ A.type = type /\ l \in Nat /\ Len(A.rows) = l /\ Spans(X, l)
  BY <1>1, GridIs
<1>3. ~IsFull(v)
  BY DEF IsFull
<1>4. m \in Nat
  BY <1>3, HoldsSparse
<1>5. k \in Nat /\ new = n + k /\ new \in Nat /\ m <= new /\ n <= new
  BY <1>1, <1>2, <1>4
<1>6. Y = X
  <2>1. PICK z : z = 0 /\ z \in Nat /\ l + z = l
    BY <1>2
  <2>2. Y = Extended(X, z, n)
    BY <1>1, <2>1
  <2>3. Spans(Y, l + z) /\ \A j \in 1 .. l : Y[j] = X[j]
    BY ONLY <1>2, <2>1, <2>2, ExtendedIs
  <2>4. Spans(Y, l)
    BY ONLY <2>1, <2>3
  <2> QED BY ONLY <1>2, <2>3, <2>4 DEF Spans
<1>7. Grid(long, X, type, n)
  <2>1. 0 \in Nat
    OBVIOUS
  <2>2. Grid(long, Y, type, n)
    BY <1>1, <2>1, GridMoreRows
  <2> QED BY <1>6, <2>2
<1>8. Grid(wide, Z, type, new)
  BY <1>1, <1>5, <1>7, AddNcolsHolds
<1>9. Len(Z) = l /\ Len(wide.rows) = l /\ r \in 1 .. Len(wide.rows) /\ Z[r] = Wider(X[r], n, new)
  <2>1. Z = [j \in 1 .. l |-> Wider(X[j], n, new)]
    BY <1>1 DEF WiderRows
  <2>2. Len(wide.rows) = Len(Z)
    BY <1>8, GridIs
  <2> QED BY <1>2, <2>1, <2>2
<1>10. wide.rows[r].nz = 0
  <2>1. RowIs(wide.rows[r], Z[r], type, new)
    BY <1>8, <1>9, GridRow
  <2>2. Z[r] = ZeroRow(new)
    BY <1>2, <1>5, <1>9, WiderZero
  <2> QED BY <2>1, <2>2, NoneCounted
<1>11. RowIs(w, Wider(x, m, new), type, new) /\ w.nz = v.nz /\ v.nz \in Int
  <2>1. Holds(w, Wider(x, m, new)) /\ w.dim = new /\ w.type = type /\ w.nz = v.nz
    BY <1>1, <1>3, <1>5, WidenedHolds
  <2>2. v.nz \in Int
    BY <1>3, HoldsSparse
  <2> QED BY <2>1, <2>2 DEF RowIs
<1>12. B = RowPut(wide, r, w, v.nz)
  <2>1. ~(r > Len(A.rows)) /\ ~(v.type # A.type)
    BY <1>2
  <2>2. A.cols = n /\ long.cols = n /\ wide.cols = new
    BY <1>2, <1>7, <1>8, GridIs
  <2>3. B = [wide EXCEPT !.rows[r] = [v EXCEPT !.dim = wide.cols], !.nz = @ + v.nz]
    BY <1>1, <2>1, <2>2 DEF matr_shallow_row_copy
  <2>4. w = [v EXCEPT !.dim = wide.cols]
    BY <1>1, <2>2 DEF Widened
  <2> QED BY ONLY <2>3, <2>4 DEF RowPut
<1>13. B = RowChanged(wide, r, w)
  <2>1. w.nz - wide.rows[r].nz = v.nz
    BY <1>10, <1>11
  <2> QED BY ONLY <1>12, <2>1 DEF RowPut, RowChanged
<1> QED BY <1>1, <1>8, <1>9, <1>11, <1>13, RowChangedHolds

MoveTo(s, r) == MoveLast(s, r, Len(s.from.rows))

LEMMA OneTurn ==
  ASSUME NEW a \in Int, NEW s
  PROVE  Upward(LAMBDA t, r : MoveLast(t, r, Len(t.from.rows)), a, a, s) = MoveTo(s, a)
<1> DEFINE Course(f) == f = [k \in 0 .. (a - a + 1) |-> IF k = 0 THEN s ELSE MoveTo(f[k - 1], a + k - 1)]
<1>1. PICK g : g = [k \in 0 .. 1 |-> IF k = 0 THEN s ELSE MoveTo(s, a + k - 1)]
  OBVIOUS
<1>2. a - a + 1 = 1 /\ ~(a > a) /\ a + 1 - 1 = a
  OBVIOUS
<1>3. Course(g)
  <2>1. \A k \in 0 .. 1 : k = 0 \/ (k = 1 /\ k - 1 = 0)
    OBVIOUS
  <2>2. g[0] = s
    BY <1>1
  <2>3. [k \in 0 .. 1 |-> IF k = 0 THEN s ELSE MoveTo(g[k - 1], a + k - 1)]
        = [k \in 0 .. 1 |-> IF k = 0 THEN s ELSE MoveTo(s, a + k - 1)]
    BY ONLY <2>1, <2>2
  <2> QED BY <1>1, <1>2, <2>3
<1>4. PICK h : h = CHOOSE f : Course(f)
  OBVIOUS
<1>5. Course(h)
  BY <1>3, <1>4
<1>6. h[1] = MoveTo(s, a)
  <2>1. h = [k \in 0 .. 1 |-> IF k = 0 THEN s ELSE MoveTo(h[k - 1], a + k - 1)]
    BY <1>2, <1>5
  <2>2. h[0] = s
    BY <2>1
  <2>3. h[1] = MoveTo(h[1 - 1], a + 1 - 1)
    BY <2>1
  <2> QED BY <1>2, <2>2, <2>3
<1>7. Upward(LAMBDA t, r : MoveLast(t, r, Len(t.from.rows)), a, a, s) = h[a - a + 1]
  BY <1>2, <1>4 DEF Upward, MoveTo
<1> QED BY <1>2, <1>6, <1>7

Appended(X, n, y, m, new) == WiderRows(X, n, new) \o <<Wider(y, m, new)>>

LEMMA AppendHolds ==
  ASSUME NEW A, NEW X, NEW type, NEW n, Grid(A, X, type, n), type # "NON_SPARSE",
         NEW F, NEW Z, NEW m, Grid(F, Z, type, m), Len(F.rows) = 1,
         NEW new, new = (IF m > n THEN m ELSE n), NEW B, B = matr_append_matr(A, F).to
  PROVE  Grid(B, Appended(X, n, Z[1], m, new), type, new)
<1>1. PICK l, long, Y, v, W, U, s, y : /\ l = Len(X) /\ long = matr_add_nrows(A, 1) /\ Y = Extended(X, 1, n) /\ v = F.rows[1]
                                   /\ W = With(WiderRows(Y, n, new), l + 1, Wider(y, m, new)) /\ U = WiderRows(X, n, new)
                                   /\ s = [to |-> long, from |-> F] /\ y = Z[1]
  OBVIOUS
<1>2. n \in Nat /\ l \in Nat /\ Len(A.rows) = l /\ Spans(X, l)
  BY <1>1, GridIs
<1>3. RowIs(v, y, type, m)
  <2>1. 1 \in 1 .. Len(F.rows)
    OBVIOUS
  <2> QED BY <1>1, <2>1, GridRow
<1>4. Grid(long, Y, type, n)
  <2>1. 1 \in Nat
    OBVIOUS
  <2> QED BY <1>1, <2>1, GridMoreRows
<1>5. Spans(Y, l + 1) /\ (\A r \in 1 .. l : Y[r] = X[r]) /\ Y[l + 1] = ZeroRow(n) /\ Len(Y) = l + 1
  <2>1. Spans(Y, l + 1) /\ (\A r \in 1 .. l : Y[r] = X[r]) /\ (\A r \in (l + 1) .. (l + 1) : Y[r] = ZeroRow(n))
    <3>1. PICK k : k = 1 /\ k \in Nat
      OBVIOUS
    <3>2. Y = Extended(X, k, n)
      BY <1>1, <3>1
    <3>3. Spans(Y, l + k) /\ (\A r \in 1 .. l : Y[r] = X[r]) /\ (\A r \in (l + 1) .. (l + k) : Y[r] = ZeroRow(n))
      <4>1. k \in Nat
        BY <3>1
      <4> QED BY ONLY <1>2, <3>2, <4>1, ExtendedIs
    <3> QED BY ONLY <3>1, <3>3
  <2>2. l + 1 \in (l + 1) .. (l + 1)
    BY <1>2
  <2>3. Len(Y) = l + 1
    BY ONLY <1>2, <2>1 DEF Spans
  <2> QED BY <2>1, <2>2, <2>3
<1>6. B = matr_shallow_row_copy(long, l + 1, v)
  <2>1. matr_append_matr(A, F) = Upward(LAMBDA t, r : MoveLast(t, r, Len(t.from.rows)), l + 1, l + 1, s)
    BY <1>1, <1>2 DEF matr_append_matr
  <2>2. matr_append_matr(A, F) = MoveTo(s, l + 1)
    <3>1. l + 1 \in Int
      BY <1>2
    <3> QED BY <2>1, <3>1, OneTurn
  <2>3. s.to = long /\ s.from = F
    BY ONLY <1>1
  <2>4. MoveTo(s, l + 1) = [to |-> matr_shallow_row_copy(long, l + 1, v), from |-> matr_decrease_rows(F, 1)]
    BY <1>1, <2>3 DEF MoveTo, MoveLast
  <2> QED BY <2>2, <2>4
<1>7. Grid(B, W, type, new)
  <2>1. PICK r : r = l + 1
    OBVIOUS
  <2>2. r \in 1 .. Len(long.rows)
    <3>1. Len(long.rows) = Len(Y)
      BY <1>4, GridIs
    <3> QED BY <1>2, <1>5, <2>1, <3>1
  <2>3. Holds(v, y) /\ v.type = type /\ m = v.dim
    BY <1>3 DEF RowIs
  <2>4. Grid(B, With(WiderRows(Y, n, new), r, Wider(y, m, new)), type, new)
    BY <1>4, <1>5, <1>6, <2>1, <2>2, <2>3, ShallowHolds
  <2> QED BY <1>1, <2>1, <2>4
<1>8. W = Appended(X, n, y, m, new)
  <2>1. PICK x : x = Wider(y, m, new)
    OBVIOUS
  <2>2. W = [r \in 1 .. (l + 1) |-> IF r = l + 1 THEN x ELSE Wider(Y[r], n, new)]
    <3>1. PICK V : V = WiderRows(Y, n, new)
      OBVIOUS
    <3>2. V = [r \in 1 .. (l + 1) |-> Wider(Y[r], n, new)]
      BY <1>5, <3>1 DEF WiderRows
    <3>3. W = [V EXCEPT ![l + 1] = x]
      BY <1>1, <2>1, <3>1 DEF With
    <3> QED BY ONLY <3>2, <3>3
  <2>3. U = [r \in 1 .. l |-> Wider(X[r], n, new)]
    BY <1>1 DEF WiderRows
  <2>4. PICK E : E = <<x>>
    OBVIOUS
  <2>5. Spans(U, l) /\ Spans(E, 1) /\ E[1] = x
    BY ONLY <2>3, <2>4 DEF Spans
  <2>6. PICK T : T = Joined(U, E)
    OBVIOUS
  <2>7. Spans(T, l + 1) /\ (\A r \in 1 .. l : T[r] = U[r]) /\ (\A r \in (l + 1) .. (l + 1) : r - l \in 1 .. 1 /\ T[r] = E[r - l])
    <3>1. PICK k : k = 1 /\ k \in Nat
      OBVIOUS
    <3>2. Spans(E, k)
      BY ONLY <2>5, <3>1
    <3>3. Spans(T, l + k) /\ (\A r \in 1 .. l : T[r] = U[r]) /\ (\A r \in (l + 1) .. (l + k) : r - l \in 1 .. k /\ T[r] = E[r - l])
      <4>1. k \in Nat
        BY <3>1
      <4>2. Spans(U, l)
        BY <2>5
      <4> QED BY ONLY <1>2, <2>6, <3>2, <4>1, <4>2, SpansConcat, SMTT(30)
    <3> QED BY ONLY <3>1, <3>3
  <2>8. ASSUME NEW r \in 1 .. (l + 1) PROVE W[r] = T[r]
    <3>1. CASE r = l + 1
      <4>1. r \in (l + 1) .. (l + 1) /\ r - l = 1
        BY <1>2, <3>1
      <4>2. T[r] = x
        BY <2>5, <2>7, <4>1
      <4> QED BY <2>2, <3>1, <4>2
    <3>2. CASE r # l + 1
      <4>1. r \in 1 .. l
        BY <1>2, <3>2
      <4>2. T[r] = Wider(X[r], n, new)
        BY <2>3, <2>7, <4>1
      <4>3. W[r] = Wider(Y[r], n, new)
        BY <2>2, <3>2
      <4> QED BY <1>5, <4>1, <4>2, <4>3
    <3> QED BY <3>1, <3>2
  <2>9. Spans(W, l + 1)
    BY ONLY <2>2 DEF Spans
  <2>10. W = T
    BY ONLY <2>7, <2>8, <2>9 DEF Spans
  <2> QED BY <1>1, <2>1, <2>4, <2>6, <2>10 DEF Appended, Joined
<1> QED BY <1>1, <1>7, <1>8

-----------------------------------------------------------------------------
(* What a vector that holds x says when it is read off.                    *)

\* The elements of S are values of x at their columns, and none is missing.
ReadsAs(S, n, x) ==
  /\ n \in Nat /\ x = [i \in 0 .. (n - 1) |-> x[i]]
  /\ \A k \in DOMAIN S : S[k].col \in 0 .. (n - 1) /\ x[S[k].col] = S[k].data
  /\ \A i \in 0 .. (n - 1) : x[i] # 0 => \E k \in DOMAIN S : S[k].col = i
At0(S, i) == {k \in DOMAIN S : S[k].col = i}
ReadOff(S, n) == [i \in 0 .. (n - 1) |-> IF At0(S, i) = {} THEN 0 ELSE S[CHOOSE k \in At0(S, i) : TRUE].data]

LEMMA ReadOffIs ==
  ASSUME NEW S, NEW n, NEW x, ReadsAs(S, n, x)
  PROVE  ReadOff(S, n) = x
<1>1. /\ n \in Nat /\ x = [i \in 0 .. (n - 1) |-> x[i]]
      /\ \A k \in DOMAIN S : S[k].col \in 0 .. (n - 1) /\ x[S[k].col] = S[k].data
      /\ \A i \in 0 .. (n - 1) : x[i] # 0 => \E k \in DOMAIN S : S[k].col = i
  BY DEF ReadsAs
<1>2. ASSUME NEW i \in 0 .. (n - 1)
      PROVE  x[i] = IF At0(S, i) = {} THEN 0 ELSE S[CHOOSE k \in At0(S, i) : TRUE].data
  <2>1. CASE At0(S, i) = {}
    <3>1. ~ \E k \in DOMAIN S : S[k].col = i
      BY <2>1 DEF At0
    <3>2. x[i] = 0
      BY <1>1, <3>1
    <3> QED BY <2>1, <3>2
  <2>2. CASE At0(S, i) # {}
    <3>1. PICK k : k = CHOOSE j \in At0(S, i) : TRUE
      OBVIOUS
    <3>2. k \in At0(S, i)
      BY <2>2, <3>1
    <3>3. k \in DOMAIN S /\ S[k].col = i
      BY <3>2 DEF At0
    <3>4. x[i] = S[k].data
      BY <1>1, <3>3
    <3> QED BY ONLY <2>2, <3>1, <3>4
  <2> QED BY <2>1, <2>2
<1>3. ReadOff(S, n) = [i \in 0 .. (n - 1) |-> x[i]]
  BY ONLY <1>2 DEF ReadOff
<1> QED BY ONLY <1>1, <1>3

LEMMA MeaningIs ==
  ASSUME NEW v
  PROVE  Meaning(v) = ReadOff(Stored(v), v.dim)
BY DEF Meaning, ReadOff, At0

LEMMA StandsIs ==
  ASSUME NEW v, NEW x, Holds(v, x)
  PROVE  Stands(v, x)
<1>1. PICK S, n : S = Stored(v) /\ n = v.dim
  OBVIOUS
<1>2. CASE IsFull(v)
  <2>1. n \in Nat /\ v.data = x /\ x \in [0 .. (n - 1) -> Int]
    BY <1>1, <1>2, HoldsFull
  <2>2. S = [k \in 1 .. n |-> [col |-> k - 1, data |-> x[k - 1]]]
    BY <1>1, <1>2, <2>1 DEF Stored
  <2>3. DOMAIN S = 1 .. n /\ \A k \in 1 .. n : S[k].col = k - 1 /\ S[k].data = x[k - 1]
    BY ONLY <2>2
  <2>4. ReadsAs(S, n, x)
    <3>1. \A k \in 1 .. n : k - 1 \in 0 .. (n - 1)
      BY <2>1
    <3>2. \A i \in 0 .. (n - 1) : i + 1 \in 1 .. n /\ S[i + 1].col = i
      BY ONLY <2>1, <2>3
    <3> QED BY ONLY <2>1, <2>3, <3>1, <3>2 DEF ReadsAs
  <2>5. Meaning(v) = x
    BY <1>1, <2>4, MeaningIs, ReadOffIs
  <2>6. Ordered(v)
    <3>1. \A k \in 1 .. n : S[k].col \in 0 .. (n - 1) /\ (k > 1 => k - 1 \in 1 .. n /\ S[k - 1].col < S[k].col)
      BY ONLY <2>1, <2>3
    <3>2. v.type = "NON_SPARSE"
      BY <1>2 DEF IsFull
    <3> QED BY <1>1, <2>3, <3>1, <3>2 DEF Ordered
  <2> QED BY <2>5, <2>6 DEF Stands
<1>3. CASE ~IsFull(v)
  <2>1. n \in Nat /\ Means(S, n, x) /\ S \in Seq(Cell) /\ Len(S) \in Nat
    BY <1>1, <1>3, HoldsSparse
  <2>2. /\ DOMAIN S = 1 .. Len(S) /\ x \in [0 .. (n - 1) -> Int]
        /\ \A k \in 1 .. Len(S) : S[k].col \in 0 .. (n - 1) /\ S[k].data # 0 /\ x[S[k].col] = S[k].data
        /\ \A j \in 1 .. Len(S) : \A k \in 1 .. Len(S) : j < k => S[j].col < S[k].col
        /\ \A c \in 0 .. (n - 1) : x[c] # 0 => \E k \in 1 .. Len(S) : S[k].col = c
    BY ONLY <2>1 DEF Means
  <2>3. ReadsAs(S, n, x)
    BY ONLY <2>1, <2>2 DEF ReadsAs
  <2>4. Meaning(v) = x
    BY <1>1, <2>3, MeaningIs, ReadOffIs
  <2>5. Ordered(v)
    <3>1. \A k \in 1 .. Len(S) : k > 1 => k - 1 \in 1 .. Len(S) /\ k - 1 < k
      BY <2>1
    <3> QED BY <1>1, <2>2, <3>1 DEF Ordered
  <2> QED BY <2>4, <2>5 DEF Stands
<1> QED BY <1>2, <1>3

LEMMA EnumeratedSome ==
  ASSUME NEW n \in Nat, NEW S, S \subseteq 0 .. (n - 1), NEW kept, kept = Ascending(S), kept # << >>
  PROVE  Len(kept) \in Nat /\ Len(kept) > 0
<1>1. PICK m, p : Enumerates(p, m, S)
  BY EnumSome
<1>2. kept = p /\ Len(p) = m /\ m \in Nat /\ DOMAIN p = 1 .. m
  BY <1>1, AscendingIs, EnumLen
<1>3. m = 0 => p = << >>
  <2> SUFFICES ASSUME m = 0 PROVE p = << >>
    OBVIOUS
  <2>1. p \in [1 .. 0 -> S]
    BY <1>1 DEF Enumerates
  <2>2. 1 .. 0 = {}
    OBVIOUS
  <2> QED BY <2>1, <2>2
<1> QED BY <1>2, <1>3

-----------------------------------------------------------------------------
(* The invariant.                                                          *)

\* The matrix stores exactly what its calls mean, and counts it.
Upright(A, X) ==
  /\ Grid(A, X, A.type, A.cols) /\ A.type \in Types
  /\ Len(X) > 0 /\ Len(A.rows) <= MaxRows /\ A.cols <= MaxCols
MatrixInv == Upright(M, dense)

LEMMA UprightIs ==
  ASSUME MatrixInv, NEW n, n = M.cols, NEW l, l = Len(dense), NEW type, type = M.type
  PROVE  /\ Grid(M, dense, type, n) /\ type \in Types /\ type \in VectorTypes
         /\ n \in Nat /\ 2 * n <= MaxTurns /\ n <= MaxTurns
         /\ l \in Nat /\ l > 0 /\ Len(M.rows) = l /\ l <= MaxTurns /\ Rows = 1 .. l
<1>1. Grid(M, dense, type, n) /\ type \in Types /\ l > 0 /\ Len(M.rows) <= MaxRows /\ n <= MaxCols
  BY DEF MatrixInv, Upright
<1>2. type \in VectorTypes /\ n \in Nat /\ l \in Nat /\ Len(M.rows) = l /\ DOMAIN M.rows = 1 .. l
  BY <1>1, GridIs
<1>3. MaxRows \in Nat /\ MaxCols \in Nat /\ MaxTurns \in Nat
  BY MatrixAssumption, TurnsAssumption
<1>4. 2 * n <= MaxTurns /\ n <= MaxTurns /\ l <= MaxTurns
  BY ONLY <1>1, <1>2, <1>3, TurnsSuffice DEF TurnsSuffice
<1> QED BY <1>1, <1>2, <1>4 DEF Rows

LEMMA BecomesUpright ==
  ASSUME NEW B, NEW Y, NEW type, NEW n, Grid(B, Y, type, n), type \in Types, Len(Y) > 0, Becomes(B, Y)
  PROVE  MatrixInv'
<1>1. B.type = type /\ B.cols = n
  BY GridIs
<1>2. Len(B.rows) <= MaxRows /\ B.cols <= MaxCols
  BY DEF Becomes, InBounds
<1>3. Upright(B, Y)
  BY <1>1, <1>2 DEF Upright
<1> QED BY <1>3 DEF Becomes, MatrixInv

\* A sequence in which one place holds something else is as long as before.
LEMMA WithLength ==
  ASSUME NEW X, NEW l \in Nat, Spans(X, l), NEW r, NEW x
  PROVE  Len(With(X, r, x)) = l
<1>1. DOMAIN With(X, r, x) = 1 .. l /\ With(X, r, x) = [j \in 1 .. l |-> With(X, r, x)[j]]
  BY DEF With, Spans
<1> QED BY ONLY <1>1, l \in Nat

LEMMA StartsUpright ==
  ASSUME Init
  PROVE  MatrixInv
<1>1. PICK type \in Types, size \in Sizes, rows \in 1 .. MaxRows, cols \in 1 .. MaxCols :
        M = matr_make_size(rows, cols, type, size) /\ InBounds(M) /\ dense = [r \in 1 .. rows |-> ZeroRow(cols)]
  BY DEF Init
<1>2. type \in VectorTypes /\ size \in Nat /\ rows \in Nat /\ cols \in Nat /\ rows > 0
  BY MatrixAssumption DEF MatrixAssumption
<1>3. Grid(M, ZeroRowsOf(rows, cols), type, cols)
  BY <1>1, <1>2, MakeMatrixHolds
<1>4. dense = ZeroRowsOf(rows, cols)
  BY <1>1 DEF ZeroRowsOf
<1>5. M.type = type /\ M.cols = cols /\ Len(dense) = rows
  <2>1. Grid(M, dense, type, cols)
    BY <1>3, <1>4
  <2>2. Len(dense) = rows
    BY ONLY <1>1, <1>2
  <2> QED BY <2>1, <2>2, GridIs
<1>6. Len(M.rows) <= MaxRows /\ M.cols <= MaxCols
  BY <1>1 DEF InBounds
<1> QED BY <1>2, <1>3, <1>4, <1>5, <1>6 DEF MatrixInv, Upright

LEMMA SetElementUpright ==
  ASSUME MatrixInv, SetElement
  PROVE  MatrixInv'
<1>1. PICK n, l, type : n = M.cols /\ l = Len(dense) /\ type = M.type
  OBVIOUS
<1>2. /\ Grid(M, dense, type, n) /\ type \in Types /\ n \in Nat /\ n <= MaxTurns /\ l \in Nat /\ l > 0
      /\ Len(M.rows) = l /\ Rows = 1 .. l
  BY <1>1, UprightIs
<1>3. PICK r \in Rows, c \in Cols, d \in Values : Becomes(matr_set(M, r, c, d), [dense EXCEPT ![r][c] = d])
  BY DEF SetElement
<1>4. r \in 1 .. Len(M.rows) /\ c \in 0 .. (n - 1) /\ d \in Int
  BY <1>1, <1>2, <1>3, MatrixAssumption DEF Cols, MatrixAssumption
<1>5. PICK B, Y : B = matr_set(M, r, c, d) /\ Y = With(dense, r, With(dense[r], c, d))
  OBVIOUS
<1>6. Grid(B, Y, type, n)
  BY <1>2, <1>4, <1>5, MatrixSetHolds
<1>7. Becomes(B, Y)
  <2>1. Y = [dense EXCEPT ![r][c] = d]
    BY <1>5 DEF With
  <2> QED BY <1>3, <1>5, <2>1
<1>8. Len(Y) > 0
  BY <1>1, <1>2, <1>5, GridIs, WithLength
<1> QED BY <1>2, <1>6, <1>7, <1>8, BecomesUpright

LEMMA SetRowUpright ==
  ASSUME MatrixInv, SetRow
  PROVE  MatrixInv'
<1>1. PICK n, l, type : n = M.cols /\ l = Len(dense) /\ type = M.type
  OBVIOUS
<1>2. /\ Grid(M, dense, type, n) /\ type \in Types /\ type \in VectorTypes /\ n \in Nat /\ n <= MaxTurns /\ 2 * n <= MaxTurns
      /\ l \in Nat /\ l > 0 /\ Len(M.rows) = l /\ Rows = 1 .. l
  BY <1>1, UprightIs
<1>3. PICK r \in Rows, s \in Rows, kind \in {M.type, "NON_SPARSE"} :
        Becomes(matr_set_row(M, r, Made(dense[s], kind)), [dense EXCEPT ![r] = dense[s]])
  BY DEF SetRow
<1>4. PICK x, v, B, Y : x = dense[s] /\ v = Made(x, kind) /\ B = matr_set_row(M, r, v) /\ Y = With(dense, r, x)
  OBVIOUS
<1>5. r \in 1 .. Len(M.rows) /\ s \in 1 .. Len(M.rows) /\ kind \in VectorTypes
  BY <1>1, <1>2, <1>3 DEF VectorTypes
<1>6. x \in [0 .. (n - 1) -> Int]
  BY <1>2, <1>4, <1>5, GridRow
<1>7. Holds(v, x) /\ v.dim = n
  BY <1>2, <1>4, <1>5, <1>6, MadeHolds
<1>8. Grid(B, Y, type, n)
  BY <1>2, <1>4, <1>5, <1>7, SetRowHolds
<1>9. Becomes(B, Y)
  BY <1>3, <1>4 DEF With
<1>10. Len(Y) > 0
  BY <1>1, <1>2, <1>4, GridIs, WithLength
<1> QED BY <1>2, <1>8, <1>9, <1>10, BecomesUpright

LEMMA SetColumnUpright ==
  ASSUME MatrixInv, SetColumn
  PROVE  MatrixInv'
<1>1. PICK n, l, type : n = M.cols /\ l = Len(dense) /\ type = M.type
  OBVIOUS
<1>2. /\ Grid(M, dense, type, n) /\ type \in Types /\ type \in VectorTypes /\ n \in Nat /\ n <= MaxTurns
      /\ l \in Nat /\ l > 0 /\ Len(M.rows) = l /\ Rows = 1 .. l /\ l <= MaxTurns
  BY <1>1, UprightIs
<1>3. PICK c \in Cols, x \in [0 .. (Len(M.rows) - 1) -> Values], kind \in {M.type, "NON_SPARSE"} :
        Becomes(matr_set_col(M, c, Made(x, kind)), [r \in Rows |-> [dense[r] EXCEPT ![c] = x[r - 1]]])
  BY DEF SetColumn
<1>4. PICK v, B, Y : v = Made(x, kind) /\ B = matr_set_col(M, c, v) /\ Y = SoFar(dense, c, x, l)
  OBVIOUS
<1>5. c \in 0 .. (n - 1) /\ kind \in VectorTypes
  BY <1>1, <1>2, <1>3 DEF VectorTypes, Cols
<1>6. x \in [0 .. (l - 1) -> Int]
  <2>1. Values \subseteq Int
    BY MatrixAssumption DEF MatrixAssumption
  <2> QED BY ONLY <1>2, <1>3, <2>1
<1>7. Holds(v, x) /\ v.dim = l
  BY <1>2, <1>4, <1>5, <1>6, MadeHolds
<1>8. Grid(B, Y, type, n)
  <2>1. v.dim = Len(M.rows) /\ v.dim <= MaxTurns
    BY <1>2, <1>7
  <2>2. Grid(B, SoFar(dense, c, x, Len(dense)), type, n)
    BY ONLY <1>2, <1>4, <1>5, <1>7, <2>1, SetColHolds
  <2> QED BY <1>1, <1>4, <2>2
<1>9. Y = [r \in Rows |-> [dense[r] EXCEPT ![c] = x[r - 1]]]
  <2>1. Y = [r \in 1 .. l |-> IF r <= l THEN [dense[r] EXCEPT ![c] = x[r - 1]] ELSE dense[r]]
    BY <1>1, <1>4 DEF SoFar, With
  <2>2. \A r \in 1 .. l : r <= l
    BY <1>2
  <2>3. Y = [r \in 1 .. l |-> [dense[r] EXCEPT ![c] = x[r - 1]]]
    BY ONLY <2>1, <2>2
  <2> QED BY <1>2, <2>3
<1>10. Len(Y) > 0
  BY ONLY <1>2, <1>9
<1> QED BY <1>2, <1>3, <1>4, <1>8, <1>9, <1>10, BecomesUpright

LEMMA AddRowUpright ==
  ASSUME MatrixInv, AddRow
  PROVE  MatrixInv'
<1>1. PICK n, l, type, B, Y : /\ n = M.cols /\ l = Len(dense) /\ type = M.type
                            /\ B = matr_add_row(M) /\ Y = Extended(dense, 1, n)
  OBVIOUS
<1>2. /\ Grid(M, dense, type, n) /\ type \in Types /\ n \in Nat /\ l \in Nat /\ l > 0
  BY <1>1, UprightIs
<1>3. Spans(dense, l)
  BY <1>1, <1>2, GridIs
<1>4. Grid(B, Y, type, n)
  <2>1. 1 \in Nat /\ B = matr_add_nrows(M, 1)
    BY <1>1 DEF matr_add_row
  <2> QED BY <1>1, <1>2, <2>1, GridMoreRows
<1>5. Y = Append(dense, ZeroRow(n)) /\ Len(Y) > 0
  <2>1. PICK z : z = ZeroRow(n)
    OBVIOUS
  <2>2. ZeroRowsOf(1, n) = <<z>>
    <3>1. ZeroRowsOf(1, n) = [r \in 1 .. 1 |-> z]
      BY <2>1 DEF ZeroRowsOf
    <3> QED BY ONLY <3>1
  <2>3. PICK D : D = {z} \cup {dense[r] : r \in 1 .. l}
    OBVIOUS
  <2>4. dense \in Seq(D) /\ z \in D
    <3>1. dense \in [1 .. l -> D]
      BY ONLY <1>3, <2>3 DEF Spans
    <3> QED BY ONLY <1>2, <2>3, <3>1, IsASeq
  <2>5. Append(dense, z) = dense \o <<z>> /\ Len(Append(dense, z)) = Len(dense) + 1
    BY ONLY <2>4
  <2>6. Y = dense \o <<z>>
    BY ONLY <1>1, <2>2 DEF Extended
  <2>7. Y = Append(dense, z) /\ Len(Y) = l + 1
    BY ONLY <1>1, <2>5, <2>6
  <2> QED BY ONLY <1>2, <2>1, <2>7
<1>6. Becomes(B, Y)
  BY <1>1, <1>5 DEF AddRow
<1> QED BY <1>2, <1>4, <1>5, <1>6, BecomesUpright

LEMMA AddColumnUpright ==
  ASSUME MatrixInv, AddColumn
  PROVE  MatrixInv'
<1>1. PICK n, l, type, B, Y, m : /\ n = M.cols /\ l = Len(dense) /\ type = M.type /\ m = n + 1
                               /\ B = matr_add_col(M) /\ Y = WiderRows(dense, n, m)
  OBVIOUS
<1>2. /\ Grid(M, dense, type, n) /\ type \in Types /\ n \in Nat /\ l \in Nat /\ l > 0 /\ Rows = 1 .. l
  BY <1>1, UprightIs
<1>3. Grid(B, Y, type, m)
  BY <1>1, <1>2, AddColHolds
<1>4. Y = [r \in Rows |-> [c \in 0 .. M.cols |-> IF c = M.cols THEN 0 ELSE dense[r][c]]]
  <2>1. Y = [r \in 1 .. l |-> [c \in 0 .. (m - 1) |-> IF c < n THEN dense[r][c] ELSE 0]]
    BY <1>1 DEF WiderRows, Wider
  <2>2. 0 .. (m - 1) = 0 .. n /\ \A c \in 0 .. n : c < n <=> ~(c = n)
    BY <1>1, <1>2
  <2>3. Y = [r \in 1 .. l |-> [c \in 0 .. n |-> IF c = n THEN 0 ELSE dense[r][c]]]
    BY ONLY <2>1, <2>2
  <2> QED BY <1>1, <1>2, <2>3
<1>5. Len(Y) > 0
  BY ONLY <1>2, <1>4
<1>6. Becomes(B, Y)
  BY <1>1, <1>4 DEF AddColumn
<1> QED BY <1>2, <1>3, <1>5, <1>6, BecomesUpright

LEMMA RemoveRowUpright ==
  ASSUME MatrixInv, RemoveRow
  PROVE  MatrixInv'
<1>1. PICK n, l, type : n = M.cols /\ l = Len(dense) /\ type = M.type
  OBVIOUS
<1>2. /\ Grid(M, dense, type, n) /\ type \in Types /\ n \in Nat /\ l \in Nat /\ l > 0 /\ Rows = 1 .. l /\ Len(M.rows) = l
  BY <1>1, UprightIs
<1>3. PICK r \in Rows : Len(M.rows) > 1 /\ Becomes(matr_erase_row(M, r), RemoveAt(dense, r))
  BY DEF RemoveRow
<1>4. PICK B, Y : B = matr_decrease_rows(M, r) /\ Y = LessAt(dense, r)
  OBVIOUS
<1>5. r \in 1 .. Len(M.rows) /\ r \in 1 .. l
  BY <1>2, <1>3
<1>6. Grid(B, Y, type, n)
  BY <1>2, <1>3, <1>4, <1>5, DecreaseHolds
<1>7. Len(Y) > 0
  <2>1. Spans(dense, l)
    BY <1>1, <1>2, GridIs
  <2>2. Spans(Y, l - 1)
    BY <1>2, <1>4, <1>5, <2>1, SpansLess
  <2> QED BY <1>2, <1>3, <2>2 DEF Spans
<1>8. Becomes(B, Y)
  BY <1>3, <1>4 DEF matr_erase_row, LessAt
<1> QED BY <1>2, <1>6, <1>7, <1>8, BecomesUpright

LEMMA RemoveColumnUpright ==
  ASSUME MatrixInv, RemoveColumn
  PROVE  MatrixInv'
<1>1. PICK n, l, type, m : n = M.cols /\ l = Len(dense) /\ type = M.type /\ m = n - 1
  OBVIOUS
<1>2. /\ Grid(M, dense, type, n) /\ type \in Types /\ n \in Nat /\ n <= MaxTurns /\ l \in Nat /\ l > 0 /\ Rows = 1 .. l
      /\ Len(M.rows) = l
  BY <1>1, UprightIs
<1>3. PICK c \in Cols : /\ M.cols > 1
                        /\ Becomes(matr_remove_col(M, c),
                                   [r \in Rows |-> [k \in 0 .. (M.cols - 2) |-> dense[r][IF k < c THEN k ELSE k + 1]]])
  BY DEF RemoveColumn
<1>4. PICK B, Y : B = matr_remove_col(M, c) /\ Y = NarrowedRows(dense, c, n)
  OBVIOUS
<1>5. c \in 0 .. (n - 1)
  BY <1>1, <1>3 DEF Cols
<1>6. Grid(B, Y, type, m)
  <2>1. Len(M.rows) > 0
    BY <1>2
  <2>2. Grid(B, NarrowedRows(dense, c, n), type, n - 1)
    BY ONLY <1>2, <1>4, <1>5, <2>1, MatrixRemoveColHolds
  <2> QED BY <1>1, <1>4, <2>2
<1>7. Y = [r \in Rows |-> [k \in 0 .. (M.cols - 2) |-> dense[r][IF k < c THEN k ELSE k + 1]]]
  BY <1>1, <1>2, <1>4 DEF NarrowedRows, Narrowed
<1>8. Len(Y) > 0
  BY ONLY <1>2, <1>7
<1>9. Becomes(B, Y)
  BY <1>3, <1>4, <1>7
<1> QED BY <1>2, <1>6, <1>8, <1>9, BecomesUpright

LEMMA RemoveZeroRowsUpright ==
  ASSUME MatrixInv, RemoveZeroRows
  PROVE  MatrixInv'
<1>1. PICK n, l, type : n = M.cols /\ l = Len(dense) /\ type = M.type
  OBVIOUS
<1>2. /\ Grid(M, dense, type, n) /\ type \in Types /\ n \in Nat /\ l \in Nat /\ l > 0 /\ Rows = 1 .. l
  BY <1>1, UprightIs
<1>3. PICK kept : kept = Ascending({r \in Rows : dense[r] # ZeroRow(M.cols)})
  OBVIOUS
<1>4. kept # << >> /\ Becomes(matr_remove_zero_rows(M), [k \in 1 .. Len(kept) |-> dense[kept[k]]])
  BY <1>3 DEF RemoveZeroRows
<1>5. PICK S, B, Y, m : S = NotZero(dense, n) /\ B = matr_remove_zero_rows(M) /\ Y = Picked(dense, kept, m) /\ m = Len(kept)
  OBVIOUS
<1>6. kept = Ascending(S)
  <2>1. S = {r \in Rows : dense[r] # ZeroRow(M.cols)}
    BY ONLY <1>1, <1>2, <1>5 DEF NotZero
  <2> QED BY ONLY <1>3, <2>1
<1>7. Grid(B, Y, type, n)
  BY <1>2, <1>4, <1>5, <1>6, RemoveZeroRowsHolds
<1>8. m \in Nat /\ m > 0
  <2>1. PICK h : h = l + 1 /\ h \in Nat /\ h - 1 = l
    BY <1>2
  <2>2. S \subseteq 0 .. (h - 1)
    BY ONLY <1>1, <1>2, <1>5, <2>1 DEF NotZero
  <2> QED BY <1>4, <1>5, <1>6, <2>1, <2>2, EnumeratedSome
<1>9. Becomes(B, Y) /\ Len(Y) = m
  <2>1. Y = [k \in 1 .. m |-> dense[kept[k]]]
    BY ONLY <1>5 DEF Picked
  <2>2. Len(Y) = m
    BY ONLY <1>8, <2>1
  <2> QED BY <1>4, <1>5, <2>1, <2>2
<1> QED BY <1>2, <1>7, <1>8, <1>9, BecomesUpright

LEMMA RemoveZeroColumnsUpright ==
  ASSUME MatrixInv, RemoveZeroColumns
  PROVE  MatrixInv'
<1>1. PICK n, l, type : n = M.cols /\ l = Len(dense) /\ type = M.type
  OBVIOUS
<1>2. /\ Grid(M, dense, type, n) /\ type \in Types /\ n \in Nat /\ n <= MaxTurns /\ l \in Nat /\ l > 0 /\ Rows = 1 .. l
  BY <1>1, UprightIs
<1>3. PICK kept : kept = Ascending({c \in Cols : \E r \in Rows : dense[r][c] # 0})
  OBVIOUS
<1>4. /\ type # "NON_SPARSE" /\ kept # << >>
      /\ Becomes(matr_remove_zero_cols(M), [r \in Rows |-> [k \in 0 .. (Len(kept) - 1) |-> dense[r][kept[k + 1]]]])
  BY <1>1, <1>3 DEF RemoveZeroColumns
<1>5. PICK S, B, Y, m : S = ColumnsOf(dense, n) /\ B = matr_remove_zero_cols(M) /\ Y = ChosenRows(dense, kept, m) /\ m = Len(kept)
  OBVIOUS
<1>6. kept = Ascending(S)
  <2>1. S = {c \in Cols : \E r \in Rows : dense[r][c] # 0}
    BY ONLY <1>1, <1>2, <1>5 DEF ColumnsOf, Cols
  <2> QED BY ONLY <1>3, <2>1
<1>7. Grid(B, Y, type, m)
  BY <1>2, <1>4, <1>5, <1>6, RemoveZeroColsHolds
<1>8. Becomes(B, Y) /\ Len(Y) = l
  <2>1. Y = [r \in Rows |-> [k \in 0 .. (m - 1) |-> dense[r][kept[k + 1]]]]
    BY ONLY <1>1, <1>2, <1>5 DEF ChosenRows, Chosen
  <2>2. Len(Y) = l
    BY ONLY <1>2, <2>1
  <2> QED BY <1>4, <1>5, <2>1, <2>2
<1> QED BY <1>2, <1>7, <1>8, BecomesUpright

LEMMA AppendMatrixUpright ==
  ASSUME MatrixInv, AppendMatrix
  PROVE  MatrixInv'
<1>1. PICK n, l, type : n = M.cols /\ l = Len(dense) /\ type = M.type
  OBVIOUS
<1>2. /\ Grid(M, dense, type, n) /\ type \in Types /\ type \in VectorTypes /\ n \in Nat /\ l \in Nat /\ l > 0 /\ Rows = 1 .. l
  BY <1>1, UprightIs
<1>3. PICK m \in 1 .. MaxCols, x \in Values :
        LET new == IF m > M.cols THEN m ELSE M.cols
            other == matr_set(matr_make_size(1, m, M.type, 0), 1, m - 1, x)
            fill(row) == [c \in 0 .. (new - 1) |-> IF c \in DOMAIN row THEN row[c] ELSE 0]
        IN  /\ M.type # "NON_SPARSE"
            /\ Becomes(matr_append_matr(M, other).to,
                       [r \in Rows |-> fill(dense[r])] \o <<fill([ZeroRow(m) EXCEPT ![m - 1] = x])>>)
  BY DEF AppendMatrix
<1>4. PICK new, E, F, z, y, Z : /\ new = (IF m > n THEN m ELSE n) /\ E = matr_make_size(1, m, type, 0) /\ F = matr_set(E, 1, m - 1, x)
                              /\ z = ZeroRow(m) /\ y = With(z, m - 1, x) /\ Z = ZeroRowsOf(1, m)
  OBVIOUS
<1>5. type # "NON_SPARSE"
  BY ONLY <1>1, <1>3
<1>6. PICK V, e, U : /\ V = [r \in Rows |-> [c \in 0 .. (new - 1) |-> IF c \in DOMAIN dense[r] THEN dense[r][c] ELSE 0]]
                   /\ e = [c \in 0 .. (new - 1) |-> IF c \in DOMAIN y THEN y[c] ELSE 0] /\ U = V \o <<e>>
  OBVIOUS
<1>7. PICK B : B = matr_append_matr(M, F).to
  OBVIOUS
<1>8. Becomes(B, U)
  <2>1. y = [ZeroRow(m) EXCEPT ![m - 1] = x]
    BY ONLY <1>4 DEF With
  <2> QED BY ONLY <1>1, <1>3, <1>4, <1>6, <1>7, <2>1
<1>9. m \in Nat /\ m > 0 /\ m <= MaxTurns /\ x \in Int /\ new \in Nat /\ m <= new /\ n <= new /\ m - 1 \in 0 .. (m - 1)
  <2>1. MaxCols \in Nat /\ MaxTurns \in Nat /\ Values \subseteq Int
    BY MatrixAssumption, TurnsAssumption DEF MatrixAssumption
  <2>2. 2 * MaxCols <= MaxTurns
    BY TurnsSuffice DEF TurnsSuffice
  <2> QED BY ONLY <1>2, <1>3, <1>4, <2>1, <2>2
<1>10. Grid(E, Z, type, m) /\ Len(E.rows) = 1
  <2>1. PICK one, none : one = 1 /\ none = 0
    OBVIOUS
  <2>2. one \in Nat /\ none \in Nat
    BY <2>1
  <2>3. E = matr_make_size(one, m, type, none) /\ Z = ZeroRowsOf(one, m)
    BY ONLY <1>4, <2>1
  <2>4. m \in Nat /\ type \in VectorTypes
    BY <1>2, <1>9
  <2>5. Grid(E, Z, type, m) /\ Len(E.rows) = one
    BY ONLY <2>2, <2>3, <2>4, MakeMatrixHolds
  <2> QED BY ONLY <2>1, <2>5
<1>11. Z = [r \in 1 .. 1 |-> z] /\ Z[1] = z
  <2>1. Z = [r \in 1 .. 1 |-> z]
    BY <1>4 DEF ZeroRowsOf
  <2> QED BY <2>1
<1>12. PICK W : W = With(Z, 1, y)
  OBVIOUS
<1>13. Grid(F, W, type, m) /\ W[1] = y /\ Len(F.rows) = 1
  <2>1. 1 \in 1 .. Len(E.rows)
    BY <1>10
  <2>2. Grid(F, With(Z, 1, With(Z[1], m - 1, x)), type, m)
    BY <1>4, <1>9, <1>10, <2>1, MatrixSetHolds
  <2>3. W[1] = y /\ Len(W) = 1
    BY ONLY <1>11, <1>12 DEF With
  <2>4. Grid(F, W, type, m)
    BY <1>4, <1>11, <1>12, <2>2
  <2> QED BY <2>3, <2>4, GridIs
<1>14. PICK Y : Y = Appended(dense, n, y, m, new)
  OBVIOUS
<1>15. Grid(B, Y, type, new)
  BY <1>2, <1>4, <1>5, <1>7, <1>13, <1>14, AppendHolds
<1>16. ASSUME NEW a, NEW k \in Nat, a \in [0 .. (k - 1) -> Int], k <= new
       PROVE  [c \in 0 .. (new - 1) |-> IF c \in DOMAIN a THEN a[c] ELSE 0] = Wider(a, k, new)
  <2>1. \A c \in 0 .. (new - 1) : c \in DOMAIN a <=> c < k
    BY <1>9, <1>16
  <2>2. [c \in 0 .. (new - 1) |-> IF c \in DOMAIN a THEN a[c] ELSE 0] = [c \in 0 .. (new - 1) |-> IF c < k THEN a[c] ELSE 0]
    BY ONLY <2>1
  <2> QED BY ONLY <2>2 DEF Wider
<1>17. \A r \in 1 .. l : dense[r] \in [0 .. (n - 1) -> Int]
  <2>1. Len(M.rows) = l
    BY <1>1, <1>2, GridIs
  <2> QED BY <1>2, <2>1, GridRow
<1>18. y \in [0 .. (m - 1) -> Int]
  BY ONLY <1>4, <1>9 DEF With, ZeroRow
<1>19. V = WiderRows(dense, n, new)
  <2>1. PICK f : f = [r \in 1 .. l |-> Wider(dense[r], n, new)]
    OBVIOUS
  <2>2. \A r \in 1 .. l : V[r] = f[r]
    <3> SUFFICES ASSUME NEW r \in 1 .. l PROVE V[r] = f[r]
      OBVIOUS
    <3>1. PICK a : a = dense[r]
      OBVIOUS
    <3>2. a \in [0 .. (n - 1) -> Int] /\ n \in Nat /\ n <= new
      BY <1>2, <1>9, <1>17, <3>1
    <3>3. [c \in 0 .. (new - 1) |-> IF c \in DOMAIN a THEN a[c] ELSE 0] = Wider(a, n, new)
      BY <1>16, <3>2
    <3>4. V[r] = [c \in 0 .. (new - 1) |-> IF c \in DOMAIN a THEN a[c] ELSE 0]
      BY <1>2, <1>6, <3>1
    <3>5. f[r] = Wider(a, n, new)
      BY <2>1, <3>1
    <3> QED BY ONLY <3>3, <3>4, <3>5
  <2>3. Spans(V, l) /\ Spans(f, l)
    BY ONLY <1>2, <1>6, <2>1 DEF Spans
  <2>4. V = f
    BY ONLY <2>2, <2>3 DEF Spans
  <2> QED BY ONLY <1>1, <2>1, <2>4 DEF WiderRows
<1>20. e = Wider(y, m, new)
  BY <1>6, <1>9, <1>16, <1>18
<1>21. U = Y
  BY ONLY <1>6, <1>14, <1>19, <1>20 DEF Appended
<1>22. Len(Y) > 0
  <2>1. V \in Seq({V[r] : r \in 1 .. l} \cup {e})
    <3>1. PICK D : D = {V[r] : r \in 1 .. l} \cup {e}
      OBVIOUS
    <3>2. V \in [1 .. l -> D]
      BY ONLY <1>2, <1>6, <3>1
    <3>3. V \in Seq(D)
      BY ONLY <1>2, <3>2, IsASeq
    <3> QED BY ONLY <3>1, <3>3
  <2>2. PICK D : D = {V[r] : r \in 1 .. l} \cup {e}
    OBVIOUS
  <2>3. V \in Seq(D) /\ <<e>> \in Seq(D)
    BY ONLY <2>1, <2>2
  <2>4. Len(V \o <<e>>) = Len(V) + 1 /\ Len(V) \in Nat
    BY ONLY <2>3
  <2> QED BY ONLY <1>6, <1>21, <2>4
<1> QED BY <1>2, <1>8, <1>15, <1>21, <1>22, BecomesUpright

LEMMA ReadBackUpright ==
  ASSUME MatrixInv, ReadBack
  PROVE  MatrixInv'
<1>1. PICK n, l, type, B : n = M.cols /\ l = Len(dense) /\ type = M.type /\ B = matr_read_bin_fp(M)
  OBVIOUS
<1>2. Grid(M, dense, type, n) /\ type \in Types /\ Len(dense) > 0
  BY <1>1, UprightIs
<1>3. Grid(B, dense, type, n)
  BY <1>1, <1>2, ReadBackHolds
<1>4. Becomes(B, dense)
  BY <1>1 DEF ReadBack
<1> QED BY <1>2, <1>3, <1>4, BecomesUpright

LEMMA StaysUpright ==
  ASSUME MatrixInv, [Next]_vars
  PROVE  MatrixInv'
<1>1. CASE UNCHANGED vars
  BY <1>1 DEF vars, MatrixInv
<1>2. CASE Next
  BY <1>2, SetElementUpright, SetRowUpright, SetColumnUpright, AddRowUpright, AddColumnUpright, RemoveRowUpright,
     RemoveColumnUpright, RemoveZeroRowsUpright, RemoveZeroColumnsUpright, AppendMatrixUpright, ReadBackUpright DEF Next
<1> QED BY <1>1, <1>2

-----------------------------------------------------------------------------
\* Every row means what the calls on the matrix say and stores its columns in
\* strict order, without zeros, whatever calls came before, in whatever order,
\* and for every type of vector (crm114_matrix_util.c:157-226, 496-621).
THEOREM MatrixMeansDense == Spec => []MeansDense
<1>1. Init => MatrixInv
  BY StartsUpright
<1>2. MatrixInv /\ [Next]_vars => MatrixInv'
  BY StaysUpright
<1>3. MatrixInv => MeansDense
  <2> SUFFICES ASSUME MatrixInv, NEW r \in Rows PROVE Stands(M.rows[r], dense[r])
    BY DEF MeansDense
  <2>1. PICK n, type, l : n = M.cols /\ type = M.type /\ l = Len(dense)
    OBVIOUS
  <2>2. Grid(M, dense, type, n) /\ r \in 1 .. Len(M.rows)
    BY <2>1, UprightIs
  <2>3. Holds(M.rows[r], dense[r])
    BY <2>2, GridRow DEF RowIs
  <2> QED BY <2>3, StandsIs
<1> QED BY <1>1, <1>2, <1>3, PTL DEF Spec

\* The counts of a sparse matrix are those of its elements, row by row and in
\* all: no call forgets to count what it stores or takes out.
THEOREM MatrixCounts == Spec => []CountsAreTrue
<1>1. Init => MatrixInv
  BY StartsUpright
<1>2. MatrixInv /\ [Next]_vars => MatrixInv'
  BY StaysUpright
<1>3. MatrixInv => CountsAreTrue
  <2> SUFFICES ASSUME MatrixInv, M.type # "NON_SPARSE"
               PROVE  /\ \A r \in Rows : M.rows[r].nz = Len(Stored(M.rows[r]))
                      /\ M.nz = Upward(LAMBDA n, r : n + M.rows[r].nz, 1, Len(M.rows), 0)
    BY DEF CountsAreTrue
  <2>1. PICK n, type, l : n = M.cols /\ type = M.type /\ l = Len(dense)
    OBVIOUS
  <2>2. Grid(M, dense, type, n) /\ Rows = 1 .. l /\ Len(M.rows) = l /\ l \in Nat
    BY <2>1, UprightIs
  <2>3. ASSUME NEW r \in Rows PROVE M.rows[r].nz = Len(Stored(M.rows[r])) /\ M.rows[r].nz \in Int
    <3>1. PICK v, x : v = M.rows[r] /\ x = dense[r]
      OBVIOUS
    <3>2. RowIs(v, x, type, n) /\ v.nz \in Int
      BY <2>2, <3>1, GridRow
    <3>3. Holds(v, x) /\ ~IsFull(v)
      BY <2>1, <3>2 DEF RowIs, IsFull
    <3>4. v.nz = Len(Stored(v))
      BY <3>3, HoldsSparse
    <3> QED BY <3>1, <3>2, <3>4
  <2>4. IsTotal(M.rows, l, M.nz)
    BY <2>1, <2>2 DEF Grid, Counted
  <2>5. PICK t, R : t = Total(R) /\ R = M.rows
    OBVIOUS
  <2>6. IsTotal(R, l, t)
    BY <2>2, <2>3, <2>5, TotalIs
  <2>7. M.nz = t
    BY <2>2, <2>4, <2>5, <2>6, TotalOne
  <2>8. M.nz = Total(M.rows)
    BY ONLY <2>5, <2>7
  <2>9. M.nz = Upward(LAMBDA k, r : k + M.rows[r].nz, 1, Len(M.rows), 0)
    BY ONLY <2>8 DEF Total
  <2> QED BY ONLY <2>3, <2>9
<1> QED BY <1>1, <1>2, <1>3, PTL DEF Spec

=============================================================================
