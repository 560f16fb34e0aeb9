-------------------------- MODULE DataStreamProofs --------------------------
(***************************************************************************)
(* Lemmas about DataStream for both classifiers that keep their examples:  *)
(* what the loops over rows come to, how things written one after the      *)
(* other lie in a file, and that they are read where they lie.             *)
(***************************************************************************)
EXTENDS DataStream, SequenceTheorems, FiniteSetTheorems, FunctionTheorems, WellFoundedInduction, TLAPS

-----------------------------------------------------------------------------
(* Induction, as facts about sets.                                         *)

LEMMA LeastOfSet ==
  ASSUME NEW S, S \subseteq Nat, S # {}
  PROVE  \E n \in S : \A m \in S : n <= m
<1> DEFINE Below == {p \in Nat \X Nat : p[1] < p[2]}
<1>1. IsWellFoundedOn(Below, Nat)
  BY NatLessThanWellFounded DEF OpToRel
<1>2. PICK k \in S : \A l \in S : ~ (<<l, k>> \in Below)
  <2> HIDE DEF Below
  <2> QED BY <1>1, WFMin
<1>3. \A l \in S : ~ (l < k)
  BY <1>2
<1> QED BY <1>3

\* What holds of 0, and of a number when of the one before, holds up to n.
LEMMA UpToAll ==
  ASSUME NEW n \in Nat, NEW Q, 0 \in Q, \A k \in 1 .. n : k - 1 \in Q => k \in Q
  PROVE  0 .. n \subseteq Q
<1> DEFINE Bad == {k \in 0 .. n : k \notin Q}
<1>1. ASSUME Bad # {} PROVE FALSE
  <2>1. PICK k \in Bad : \A l \in Bad : k <= l
    <3>1. Bad \subseteq Nat
      OBVIOUS
    <3> HIDE DEF Bad
    <3> QED BY <1>1, <3>1, LeastOfSet
  <2>2. k \in 1 .. n /\ k - 1 \in 0 .. n
    OBVIOUS
  <2>3. k - 1 \in Q
    <3>1. k - 1 \notin Bad
      BY <2>1, <2>2
    <3> QED BY <2>2, <3>1
  <2> QED BY <2>2, <2>3
<1> QED BY <1>1

\* A set that has the empty sequence, and with a sequence each longer by one,
\* has all.
LEMMA AllSequences ==
  ASSUME NEW X, NEW Q, << >> \in Q, \A s \in Seq(X), x \in X : s \in Q => Append(s, x) \in Q
  PROVE  Seq(X) \subseteq Q
<1> DEFINE Lengths == {n \in Nat : \A s \in Seq(X) : Len(s) = n => s \in Q}
<1>1. 0 \in Lengths
  BY EmptySeq
<1>2. ASSUME NEW k \in Nat, k \in Lengths PROVE k + 1 \in Lengths
  <2> SUFFICES ASSUME NEW s \in Seq(X), Len(s) = k + 1 PROVE s \in Q
    OBVIOUS
  <2>1. s # << >>
    BY EmptySeq
  <2>2. PICK t \in Seq(X), x \in X : s = Append(t, x)
    <3> QED BY <2>1, SequenceEmptyOrAppend
  <2>3. Len(t) = k
    BY <2>2, AppendProperties, LenProperties
  <2> QED BY <1>2, <2>2, <2>3
<1>3. ASSUME NEW s \in Seq(X) PROVE s \in Q
  <2>1. Len(s) \in Nat
    BY LenProperties
  <2>2. 0 .. Len(s) \subseteq Lengths
    <3>1. \A k \in 1 .. Len(s) : k - 1 \in Lengths => k \in Lengths
      <4> SUFFICES ASSUME NEW k \in 1 .. Len(s), k - 1 \in Lengths PROVE k \in Lengths
        OBVIOUS
      <4>1. k - 1 \in Nat /\ (k - 1) + 1 = k
        BY <2>1
      <4> HIDE DEF Lengths
      <4> QED BY <1>2, <4>1
    <3> HIDE DEF Lengths
    <3> QED BY <1>1, <2>1, <3>1, UpToAll
  <2>3. Len(s) \in Lengths
    BY <2>1, <2>2
  <2> QED BY <2>3
<1> QED BY <1>3

-----------------------------------------------------------------------------
(* Loops.                                                                  *)

IsLoop(g, S, start, F, n) ==
  g \in [0 .. n -> S] /\ g[0] = start /\ \A k \in 1 .. n : g[k] = F[<<k, g[k - 1]>>]

\* Every loop has a function of its turns.
LEMMA LoopExists ==
  ASSUME NEW S, NEW start \in S, NEW n \in Nat, NEW F \in [(1 .. n) \X S -> S]
  PROVE  \E g : IsLoop(g, S, start, F, n)
<1> DEFINE Is(m, g) == g \in [0 .. m -> S] /\ g[0] = start /\ \A k \in 1 .. m : g[k] = F[<<k, g[k - 1]>>]
           Bad == {m \in 0 .. n : ~ \E g : Is(m, g)}
<1>1. ASSUME Bad # {} PROVE FALSE
  <2>1. PICK m \in Bad : \A l \in Bad : m <= l
    <3>1. Bad \subseteq Nat
      OBVIOUS
    <3> HIDE DEF Bad
    <3> QED BY <1>1, <3>1, LeastOfSet
  <2>2. m \in Nat /\ m <= n /\ ~ \E g : Is(m, g)
    OBVIOUS
  <2>3. m # 0
    <3>1. Is(0, [k \in 0 .. 0 |-> start])
      OBVIOUS
    <3> HIDE DEF Is
    <3> QED BY <2>2, <3>1
  <2>4. m - 1 \in 0 .. n /\ m - 1 \in Nat /\ m - 1 \notin Bad
    <3>1. m - 1 \in 0 .. n /\ m - 1 \in Nat /\ ~(m <= m - 1)
      BY <2>2, <2>3
    <3> HIDE DEF Bad
    <3> QED BY <2>1, <3>1
  <2>5. PICK g : Is(m - 1, g)
    <3> HIDE DEF Is
    <3> QED BY <2>4
  <2> DEFINE h == [k \in 0 .. m |-> IF k = m THEN F[<<m, g[m - 1]>>] ELSE g[k]]
  <2>6. Is(m, h)
    <3>1. \A k \in 0 .. m : k # m => k \in 0 .. m - 1 /\ h[k] = g[k]
      BY <2>2
    <3>2. h[m] = F[<<m, g[m - 1]>>] /\ m - 1 \in 0 .. m - 1 /\ 0 \in 0 .. m - 1 /\ m \in 1 .. n
      BY <2>2, <2>3, <2>4
    <3>3. g[m - 1] \in S /\ F[<<m, g[m - 1]>>] \in S
      BY <2>5, <3>2
    <3>4. \A k \in 0 .. m : h[k] \in S
      BY <2>5, <3>1, <3>2, <3>3
    <3>5. h \in [0 .. m -> S]
      <4>1. h = [k \in 0 .. m |-> h[k]]
        OBVIOUS
      <4> HIDE DEF h
      <4> QED BY <3>4, <4>1
    <3>6. h[0] = start
      BY <2>2, <2>3, <2>5, <3>1
    <3>7. ASSUME NEW k \in 1 .. m PROVE h[k] = F[<<k, h[k - 1]>>]
      <4>1. k - 1 \in 0 .. m /\ k - 1 # m /\ k \in 0 .. m /\ h[k - 1] = g[k - 1]
        BY <2>2, <3>1
      <4>2. CASE k = m
        BY <3>2, <4>1, <4>2
      <4>3. CASE k # m
        <5>1. k \in 1 .. m - 1 /\ h[k] = g[k]
          BY <2>2, <3>1, <4>1, <4>3
        <5> QED BY <2>5, <4>1, <5>1
      <4> QED BY <4>2, <4>3
    <3> HIDE DEF h
    <3> QED BY <3>5, <3>6, <3>7
  <2> HIDE DEF Is, h
  <2> QED BY <2>2, <2>6
<1>2. \E g : Is(n, g)
  <2> HIDE DEF Is
  <2> QED BY <1>1
<1> QED BY <1>2 DEF IsLoop

-----------------------------------------------------------------------------
(* Totals: the sum of a weight over the rows.  Numbers of documents and of *)
(* features, sizes, lengths and multiplicities all are one.                *)

Total(w, rows) ==
  LET t[k \in 0 .. Len(rows)] == IF k = 0 THEN 0 ELSE t[k - 1] + w[rows[k]]
  IN  t[Len(rows)]

\* The turns by which a total comes about.
IsTotal(g, w, rows) ==
  /\ g \in [0 .. Len(rows) -> Nat] /\ g[0] = 0
  /\ \A k \in 1 .. Len(rows) : g[k] = g[k - 1] + w[rows[k]]

LEMMA TotalIs ==
  ASSUME NEW X, NEW w \in [X -> Nat], NEW rows \in Seq(X)
  PROVE  \E g : IsTotal(g, w, rows) /\ Total(w, rows) = g[Len(rows)]
<1> DEFINE n == Len(rows)
           F == [x \in (1 .. n) \X Nat |-> x[2] + w[rows[x[1]]]]
           Body(g) == [k \in 0 .. n |-> IF k = 0 THEN 0 ELSE g[k - 1] + w[rows[k]]]
           t == CHOOSE g : g = Body(g)
<1>1. n \in Nat /\ \A k \in 1 .. n : rows[k] \in X /\ w[rows[k]] \in Nat
  BY LenProperties, ElementOfSeq
<1>2. F \in [(1 .. n) \X Nat -> Nat]
  <2>1. ASSUME NEW x \in (1 .. n) \X Nat PROVE x[2] + w[rows[x[1]]] \in Nat
    <3>1. x[1] \in 1 .. n /\ x[2] \in Nat
      OBVIOUS
    <3> HIDE DEF n
    <3> QED BY <1>1, <3>1
  <2> HIDE DEF n
  <2> QED BY <2>1
<1>3. PICK g : IsLoop(g, Nat, 0, F, n)
  <2> HIDE DEF n, F
  <2> QED BY <1>1, <1>2, LoopExists
<1>4. g \in [0 .. n -> Nat] /\ g[0] = 0 /\ \A k \in 1 .. n : g[k] = g[k - 1] + w[rows[k]]
  <2>1. g \in [0 .. n -> Nat] /\ g[0] = 0 /\ \A k \in 1 .. n : g[k] = F[<<k, g[k - 1]>>]
    <3> HIDE DEF n, F
    <3> QED BY <1>3 DEF IsLoop
  <2>2. ASSUME NEW k \in 1 .. n PROVE F[<<k, g[k - 1]>>] = g[k - 1] + w[rows[k]]
    <3>1. k - 1 \in 0 .. n
      BY <1>1
    <3>2. <<k, g[k - 1]>> \in (1 .. n) \X Nat
      <4> HIDE DEF n
      <4> QED BY <2>1, <3>1
    <3> HIDE DEF n
    <3> QED BY <3>2
  <2> HIDE DEF n, F
  <2> QED BY <2>1, <2>2
<1>5. g = Body(g)
  <2>1. \A k \in 0 .. n : k # 0 => k \in 1 .. n
    BY <1>1
  <2>2. \A k \in 0 .. n : g[k] = Body(g)[k]
    <3> HIDE DEF n
    <3> QED BY <1>4, <2>1
  <2>3. g = [k \in 0 .. n |-> g[k]]
    <3> HIDE DEF n
    <3> QED BY <1>4
  <2> HIDE DEF n
  <2> QED BY <2>2, <2>3
<1>6. t = Body(t)
  <2> HIDE DEF Body
  <2> QED BY <1>5
<1>7. t[0] = 0 /\ \A k \in 1 .. n : t[k] = t[k - 1] + w[rows[k]]
  <2>1. 0 \in 0 .. n /\ \A k \in 1 .. n : k \in 0 .. n /\ k # 0
    BY <1>1
  <2> HIDE DEF t, n
  <2> QED BY <1>6, <2>1
<1>8. 0 .. n \subseteq {k \in 0 .. n : t[k] \in Nat}
  <2> DEFINE Q == {k \in 0 .. n : t[k] \in Nat}
  <2>1. 0 \in Q
    BY <1>1, <1>7
  <2>2. ASSUME NEW k \in 1 .. n, k - 1 \in Q PROVE k \in Q
    <3> HIDE DEF t, n
    <3> QED BY <1>1, <1>7, <2>2
  <2>3. n \in Nat /\ \A k \in 1 .. n : k - 1 \in Q => k \in Q
    BY <1>1, <2>2
  <2>4. 0 .. n \subseteq Q
    <3> HIDE DEF Q, t, n
    <3> QED BY <2>1, <2>3, UpToAll
  <2> QED BY <2>4
<1>9. t = [k \in 0 .. n |-> t[k]]
  <2> HIDE DEF t, n
  <2> QED BY <1>6
<1>10. t \in [0 .. n -> Nat]
  <2> HIDE DEF t, n
  <2> QED BY <1>8, <1>9
<1>11. IsTotal(t, w, rows)
  <2> HIDE DEF t
  <2> QED BY <1>7, <1>10 DEF IsTotal
<1>12. Total(w, rows) = t[n]
  BY DEF Total
<1> QED BY <1>11, <1>12

LEMMA TotalUnique ==
  ASSUME NEW X, NEW w \in [X -> Nat], NEW rows \in Seq(X), NEW f, f[0] = 0,
         \A k \in 1 .. Len(rows) : f[k - 1] \in Nat => f[k] = f[k - 1] + w[rows[k]]
  PROVE  f[Len(rows)] = Total(w, rows)
<1>1. PICK g : IsTotal(g, w, rows) /\ Total(w, rows) = g[Len(rows)]
  BY TotalIs
<1> DEFINE Q == {k \in 0 .. Len(rows) : f[k] = g[k]}
<1>2. Len(rows) \in Nat
  BY LenProperties
<1>3. 0 .. Len(rows) \subseteq Q
  <2>1. 0 \in Q
    BY <1>1, <1>2 DEF IsTotal
  <2>2. ASSUME NEW k \in 1 .. Len(rows), k - 1 \in Q PROVE k \in Q
    <3>1. k \in 0 .. Len(rows) /\ k - 1 \in 0 .. Len(rows) /\ f[k - 1] = g[k - 1]
      BY <1>2, <2>2
    <3>2. g[k - 1] \in Nat /\ g[k] = g[k - 1] + w[rows[k]]
      BY <1>1, <3>1 DEF IsTotal
    <3> QED BY <3>1, <3>2
  <2> HIDE DEF Q
  <2> QED BY <1>2, <2>1, <2>2, UpToAll
<1> QED BY <1>1, <1>2, <1>3

LEMMA TotalInNat ==
  ASSUME NEW X, NEW w \in [X -> Nat], NEW rows \in Seq(X)
  PROVE  Total(w, rows) \in Nat
<1>1. PICK g : IsTotal(g, w, rows) /\ Total(w, rows) = g[Len(rows)]
  BY TotalIs
<1>2. Len(rows) \in Nat
  BY LenProperties
<1> QED BY <1>1, <1>2 DEF IsTotal

LEMMA TotalOfNone ==
  ASSUME NEW X, NEW w \in [X -> Nat]
  PROVE  Total(w, << >>) = 0
<1>1. << >> \in Seq(X) /\ Len(<< >>) = 0
  BY EmptySeq
<1>2. PICK g : IsTotal(g, w, << >>) /\ Total(w, << >>) = g[Len(<< >>)]
  BY <1>1, TotalIs
<1> QED BY <1>1, <1>2 DEF IsTotal

LEMMA TotalAppend ==
  ASSUME NEW X, NEW w \in [X -> Nat], NEW rows \in Seq(X), NEW e \in X
  PROVE  Total(w, Append(rows, e)) = Total(w, rows) + w[e]
<1> DEFINE more == Append(rows, e)
           n == Len(rows)
<1>1. n \in Nat /\ more \in Seq(X) /\ Len(more) = n + 1 /\ more[n + 1] = e /\ \A k \in 1 .. n : more[k] = rows[k]
  BY AppendProperties, LenProperties
<1> HIDE DEF more
<1>2. PICK g : IsTotal(g, w, more) /\ Total(w, more) = g[Len(more)]
  BY <1>1, TotalIs
<1>3. g[n] = Total(w, rows)
  <2>1. g[0] = 0
    BY <1>2 DEF IsTotal
  <2>2. ASSUME NEW k \in 1 .. Len(rows) PROVE g[k] = g[k - 1] + w[rows[k]]
    <3>1. k \in 1 .. Len(more) /\ more[k] = rows[k]
      BY <1>1
    <3> QED BY <1>2, <3>1 DEF IsTotal
  <2> QED BY <2>1, <2>2, TotalUnique
<1>4. g[n + 1] = g[n] + w[more[n + 1]]
  <2>1. n + 1 \in 1 .. Len(more) /\ (n + 1) - 1 = n
    BY <1>1
  <2>2. g[n + 1] = g[(n + 1) - 1] + w[more[n + 1]]
    BY <1>2, <2>1 DEF IsTotal
  <2> QED BY <2>1, <2>2
<1>5. Total(w, more) = Total(w, rows) + w[e]
  BY <1>1, <1>2, <1>3, <1>4
<1> QED BY <1>5 DEF more

LEMMA TotalConcat ==
  ASSUME NEW X, NEW w \in [X -> Nat], NEW s \in Seq(X), NEW t \in Seq(X)
  PROVE  Total(w, s \o t) = Total(w, s) + Total(w, t)
<1> DEFINE Q == {u \in Seq(X) : Total(w, s \o u) = Total(w, s) + Total(w, u)}
<1>1. << >> \in Q
  <2>1. s \o << >> = s /\ << >> \in Seq(X)
    BY ConcatEmptySeq, EmptySeq
  <2>2. Total(w, << >>) = 0 /\ Total(w, s) \in Nat
    BY TotalOfNone, TotalInNat
  <2> QED BY <2>1, <2>2
<1>2. ASSUME NEW u \in Seq(X), NEW x \in X, u \in Q PROVE Append(u, x) \in Q
  <2>1. s \o Append(u, x) = Append(s \o u, x)
    <3>1. <<x>> \in Seq(X)
      OBVIOUS
    <3>2. Append(u, x) = u \o <<x>> /\ s \o u \in Seq(X) /\ Append(s \o u, x) = (s \o u) \o <<x>>
      BY AppendIsConcat, ConcatProperties
    <3> QED BY <3>1, <3>2, ConcatAssociative
  <2>2. s \o u \in Seq(X) /\ Append(u, x) \in Seq(X)
    BY ConcatProperties, AppendProperties
  <2>3. Total(w, Append(s \o u, x)) = Total(w, s \o u) + w[x] /\ Total(w, Append(u, x)) = Total(w, u) + w[x]
    BY <2>2, TotalAppend
  <2>4. Total(w, s) \in Nat /\ Total(w, u) \in Nat /\ w[x] \in Nat
    BY TotalInNat
  <2>5. Total(w, s \o u) = Total(w, s) + Total(w, u)
    BY <1>2
  <2>6. Total(w, s \o Append(u, x)) = Total(w, s) + Total(w, Append(u, x))
    BY <2>1, <2>3, <2>4, <2>5
  <2> QED BY <2>2, <2>6
<1>3. Seq(X) \subseteq Q
  <2> HIDE DEF Q
  <2> QED BY <1>1, <1>2, AllSequences
<1> QED BY <1>3

\* The other way round they come to the same.
LEMMA ReverseIs ==
  ASSUME NEW X, NEW s \in Seq(X)
  PROVE  Reverse(s) \in Seq(X) /\ Len(Reverse(s)) = Len(s)
<1>1. Len(s) \in Nat /\ \A i \in 1 .. Len(s) : s[i] \in X
  BY LenProperties, ElementOfSeq
<1>2. \A i \in 1 .. Len(s) : (Len(s) - i) + 1 \in 1 .. Len(s)
  BY <1>1
<1>3. Reverse(s) \in [1 .. Len(s) -> X]
  BY <1>1, <1>2 DEF Reverse
<1> QED BY <1>1, <1>3, SeqDef

LEMMA ReverseAppend ==
  ASSUME NEW X, NEW s \in Seq(X), NEW x \in X
  PROVE  Reverse(Append(s, x)) = <<x>> \o Reverse(s)
<1>1. Len(s) \in Nat /\ Append(s, x) \in Seq(X) /\ Len(Append(s, x)) = Len(s) + 1
      /\ Append(s, x)[Len(s) + 1] = x /\ \A i \in 1 .. Len(s) : Append(s, x)[i] = s[i]
  BY LenProperties, AppendProperties
<1>2. Reverse(s) \in Seq(X) /\ Len(Reverse(s)) = Len(s)
      /\ Reverse(Append(s, x)) \in Seq(X) /\ Len(Reverse(Append(s, x))) = Len(s) + 1
  BY <1>1, ReverseIs
<1>3. <<x>> \in Seq(X) /\ Len(<<x>>) = 1 /\ <<x>>[1] = x
  OBVIOUS
<1>4. <<x>> \o Reverse(s) \in Seq(X) /\ Len(<<x>> \o Reverse(s)) = Len(s) + 1
      /\ \A i \in 1 .. Len(s) + 1 : (<<x>> \o Reverse(s))[i] = IF i <= 1 THEN x ELSE Reverse(s)[i - 1]
  <2>1. /\ <<x>> \o Reverse(s) \in Seq(X) /\ Len(<<x>> \o Reverse(s)) = 1 + Len(s)
        /\ \A i \in 1 .. 1 + Len(s) : (<<x>> \o Reverse(s))[i] = IF i <= 1 THEN <<x>>[i] ELSE Reverse(s)[i - 1]
    BY <1>2, <1>3, ConcatProperties
  <2> QED BY <1>1, <1>3, <2>1
<1>5. ASSUME NEW i \in 1 .. Len(s) + 1
      PROVE  Reverse(Append(s, x))[i] = (<<x>> \o Reverse(s))[i]
  <2>1. Reverse(Append(s, x))[i] = Append(s, x)[((Len(s) + 1) - i) + 1]
    BY <1>1 DEF Reverse
  <2>2. CASE i = 1
    BY <1>1, <1>4, <2>1, <2>2
  <2>3. CASE i # 1
    <3>1. i - 1 \in 1 .. Len(s) /\ ((Len(s) + 1) - i) + 1 \in 1 .. Len(s)
          /\ ((Len(s) + 1) - i) + 1 = (Len(s) - (i - 1)) + 1
      BY <1>1, <2>3
    <3>2. Reverse(s)[i - 1] = s[(Len(s) - (i - 1)) + 1]
      BY <3>1 DEF Reverse
    <3>3. ~ (i <= 1)
      BY <1>1, <2>3
    <3> QED BY <1>1, <1>4, <2>1, <3>1, <3>2, <3>3
  <2> QED BY <2>2, <2>3
<1> QED BY <1>2, <1>4, <1>5, SeqEqual

LEMMA TotalOfOne ==
  ASSUME NEW X, NEW w \in [X -> Nat], NEW x \in X
  PROVE  Total(w, <<x>>) = w[x]
<1>1. << >> \in Seq(X) /\ <<x>> = Append(<< >>, x)
  BY EmptySeq
<1>2. Total(w, Append(<< >>, x)) = Total(w, << >>) + w[x] /\ Total(w, << >>) = 0 /\ w[x] \in Nat
  BY <1>1, TotalAppend, TotalOfNone
<1> QED BY <1>1, <1>2

LEMMA TotalReverse ==
  ASSUME NEW X, NEW w \in [X -> Nat], NEW s \in Seq(X)
  PROVE  Total(w, Reverse(s)) = Total(w, s)
<1> DEFINE Q == {u \in Seq(X) : Total(w, Reverse(u)) = Total(w, u)}
<1>1. << >> \in Q
  <2>1. << >> \in Seq(X) /\ Reverse(<< >>) = << >>
    BY EmptySeq, ReverseIs
  <2> QED BY <2>1
<1>2. ASSUME NEW u \in Seq(X), NEW x \in X, u \in Q PROVE Append(u, x) \in Q
  <2>1. Append(u, x) \in Seq(X) /\ Reverse(u) \in Seq(X) /\ <<x>> \in Seq(X)
    BY AppendProperties, ReverseIs
  <2>2. Total(w, Reverse(Append(u, x))) = Total(w, <<x>>) + Total(w, Reverse(u))
    <3>1. Reverse(Append(u, x)) = <<x>> \o Reverse(u)
      BY ReverseAppend
    <3>2. Total(w, <<x>> \o Reverse(u)) = Total(w, <<x>>) + Total(w, Reverse(u))
      BY <2>1, TotalConcat
    <3> QED BY <3>1, <3>2
  <2>3. Total(w, Append(u, x)) = Total(w, u) + w[x] /\ Total(w, <<x>>) = w[x]
    BY TotalAppend, TotalOfOne
  <2>4. Total(w, u) \in Nat /\ w[x] \in Nat /\ Total(w, Reverse(u)) = Total(w, u)
    BY <1>2, TotalInNat
  <2>5. Total(w, Reverse(Append(u, x))) = Total(w, Append(u, x))
    BY <2>2, <2>3, <2>4
  <2> QED BY <2>1, <2>5
<1>3. Seq(X) \subseteq Q
  <2> HIDE DEF Q
  <2> QED BY <1>1, <1>2, AllSequences
<1> QED BY <1>3

LEMMA AppendedTotal ==
  ASSUME NEW X, NEW w \in [X -> Nat], NEW s \in Seq(X), NEW t \in Seq(X)
  PROVE  /\ matr_append_matr(s, t) \in Seq(X)
         /\ Total(w, matr_append_matr(s, t)) = Total(w, s) + Total(w, t)
<1>1. Reverse(t) \in Seq(X) /\ Total(w, Reverse(t)) = Total(w, t)
  BY ReverseIs, TotalReverse
<1>2. s \o Reverse(t) \in Seq(X) /\ Total(w, s \o Reverse(t)) = Total(w, s) + Total(w, Reverse(t))
  BY <1>1, ConcatProperties, TotalConcat
<1> QED BY <1>1, <1>2 DEF matr_append_matr

-----------------------------------------------------------------------------
(* What is kept of the rows.                                               *)

IsKeep(g, X, S, rows) ==
  /\ g \in [0 .. Len(rows) -> Seq(X)] /\ g[0] = << >>
  /\ \A k \in 1 .. Len(rows) : g[k] = IF k \in S THEN Append(g[k - 1], rows[k]) ELSE g[k - 1]

LEMMA KeepIs ==
  ASSUME NEW X, NEW rows \in Seq(X), NEW S
  PROVE  \E g : IsKeep(g, X, S, rows) /\ Keep(rows, S) = g[Len(rows)]
<1> DEFINE n == Len(rows)
           F == [x \in (1 .. n) \X Seq(X) |-> IF x[1] \in S THEN Append(x[2], rows[x[1]]) ELSE x[2]]
           Body(g) == [k \in 0 .. n |-> IF k = 0 THEN << >>
                                        ELSE IF k \in S THEN Append(g[k - 1], rows[k]) ELSE g[k - 1]]
           t == CHOOSE g : g = Body(g)
<1>1. n \in Nat /\ << >> \in Seq(X) /\ \A k \in 1 .. n : rows[k] \in X
  BY LenProperties, ElementOfSeq, EmptySeq
<1>2. \A k \in 1 .. n, s \in Seq(X) : (IF k \in S THEN Append(s, rows[k]) ELSE s) \in Seq(X)
  BY <1>1, AppendProperties
<1>3. F \in [(1 .. n) \X Seq(X) -> Seq(X)]
  <2>1. ASSUME NEW x \in (1 .. n) \X Seq(X)
        PROVE  (IF x[1] \in S THEN Append(x[2], rows[x[1]]) ELSE x[2]) \in Seq(X)
    <3>1. x[1] \in 1 .. n /\ x[2] \in Seq(X)
      OBVIOUS
    <3> HIDE DEF n
    <3> QED BY <1>2, <3>1
  <2> HIDE DEF n
  <2> QED BY <2>1
<1>4. PICK g : IsLoop(g, Seq(X), << >>, F, n)
  <2> HIDE DEF n, F
  <2> QED BY <1>1, <1>3, LoopExists
<1>5. \A k \in 0 .. n : k # 0 => k \in 1 .. n /\ k - 1 \in 0 .. n
  BY <1>1
<1>6. g = Body(g)
  <2>1. g \in [0 .. n -> Seq(X)] /\ g[0] = << >> /\ \A k \in 1 .. n : g[k] = F[<<k, g[k - 1]>>]
    <3> HIDE DEF n, F
    <3> QED BY <1>4 DEF IsLoop
  <2>2. ASSUME NEW k \in 1 .. n
        PROVE  g[k] = IF k \in S THEN Append(g[k - 1], rows[k]) ELSE g[k - 1]
    <3>1. k - 1 \in 0 .. n
      BY <1>1
    <3>2. <<k, g[k - 1]>> \in (1 .. n) \X Seq(X)
      <4> HIDE DEF n
      <4> QED BY <2>1, <3>1
    <3> HIDE DEF n
    <3> QED BY <2>1, <3>2
  <2>3. \A k \in 0 .. n : g[k] = Body(g)[k]
    <3> HIDE DEF n, F
    <3> QED BY <1>5, <2>1, <2>2
  <2>4. g = [k \in 0 .. n |-> g[k]]
    <3> HIDE DEF n, F
    <3> QED BY <2>1
  <2> HIDE DEF n, F
  <2> QED BY <2>3, <2>4
<1>7. t = Body(t)
  <2> HIDE DEF Body
  <2> QED BY <1>6
<1>8. t[0] = << >> /\ \A k \in 1 .. n : t[k] = IF k \in S THEN Append(t[k - 1], rows[k]) ELSE t[k - 1]
  <2>1. 0 \in 0 .. n /\ \A k \in 1 .. n : k \in 0 .. n /\ k # 0
    BY <1>1
  <2> HIDE DEF t, n
  <2> QED BY <1>7, <2>1
<1> DEFINE Q == {k \in 0 .. n : t[k] \in Seq(X)}
<1>9. 0 .. n \subseteq Q
  <2>1. 0 \in Q
    <3>1. 0 \in 0 .. n /\ t[0] \in Seq(X)
      <4> HIDE DEF t, n
      <4> QED BY <1>1, <1>8
    <3> HIDE DEF t, n
    <3> QED BY <3>1
  <2>2. ASSUME NEW k \in 1 .. n, k - 1 \in Q PROVE k \in Q
    <3>1. t[k] \in Seq(X)
      <4>1. t[k - 1] \in Seq(X)
        BY <2>2
      <4> HIDE DEF t, n
      <4> QED BY <1>2, <1>8, <4>1
    <3> HIDE DEF t
    <3> QED BY <1>1, <3>1
  <2>3. n \in Nat /\ \A k \in 1 .. n : k - 1 \in Q => k \in Q
    BY <1>1, <2>2
  <2> HIDE DEF Q, t, n
  <2> QED BY <2>1, <2>3, UpToAll
<1>10. t \in [0 .. n -> Seq(X)]
  <2>1. t = [k \in 0 .. n |-> t[k]]
    <3> HIDE DEF t, n
    <3> QED BY <1>7
  <2> HIDE DEF t, n
  <2> QED BY <1>9, <2>1
<1>11. IsKeep(t, X, S, rows)
  <2> HIDE DEF t
  <2> QED BY <1>8, <1>10 DEF IsKeep
<1>12. Keep(rows, S) = t[n]
  BY DEF Keep
<1> QED BY <1>11, <1>12

LEMMA KeepInSeq ==
  ASSUME NEW X, NEW rows \in Seq(X), NEW S
  PROVE  Keep(rows, S) \in Seq(X)
<1>1. PICK g : IsKeep(g, X, S, rows) /\ Keep(rows, S) = g[Len(rows)]
  BY KeepIs
<1>2. Len(rows) \in Nat
  BY LenProperties
<1> QED BY <1>1, <1>2 DEF IsKeep

\* What is kept and what is not make up the whole.
LEMMA KeepSplits ==
  ASSUME NEW X, NEW w \in [X -> Nat], NEW rows \in Seq(X), NEW S
  PROVE  Total(w, Keep(rows, S)) + Total(w, Keep(rows, DOMAIN rows \ S)) = Total(w, rows)
<1> DEFINE n == Len(rows)
           T == DOMAIN rows \ S
<1>1. n \in Nat /\ DOMAIN rows = 1 .. n /\ \A k \in 1 .. n : rows[k] \in X
  BY LenProperties, ElementOfSeq
<1>2. PICK g : IsKeep(g, X, S, rows) /\ Keep(rows, S) = g[n]
  BY KeepIs
<1>3. PICK h : IsKeep(h, X, T, rows) /\ Keep(rows, T) = h[n]
  <2> HIDE DEF T
  <2> QED BY KeepIs
<1>4. PICK t : IsTotal(t, w, rows) /\ Total(w, rows) = t[n]
  BY TotalIs
<1> DEFINE Q == {k \in 0 .. n : Total(w, g[k]) + Total(w, h[k]) = t[k]}
<1>5. 0 \in Q
  <2>1. g[0] = << >> /\ h[0] = << >> /\ t[0] = 0 /\ Total(w, << >>) = 0
    BY <1>2, <1>3, <1>4, TotalOfNone DEF IsKeep, IsTotal
  <2> QED BY <1>1, <2>1
<1>6. ASSUME NEW k \in 1 .. n, k - 1 \in Q PROVE k \in Q
  <2>1. k - 1 \in 0 .. n /\ k \in 0 .. n /\ k \in DOMAIN rows /\ rows[k] \in X
    BY <1>1
  <2>2. g[k - 1] \in Seq(X) /\ h[k - 1] \in Seq(X)
    <3> HIDE DEF T
    <3> QED BY <1>2, <1>3, <2>1 DEF IsKeep
  <2>3. t[k] = t[k - 1] + w[rows[k]] /\ Total(w, g[k - 1]) + Total(w, h[k - 1]) = t[k - 1]
    BY <1>4, <1>6 DEF IsTotal
  <2>4. Total(w, g[k - 1]) \in Nat /\ Total(w, h[k - 1]) \in Nat /\ w[rows[k]] \in Nat
    BY <2>1, <2>2, TotalInNat
  <2>5. CASE k \in S
    <3>1. g[k] = Append(g[k - 1], rows[k])
      BY <1>2, <2>5 DEF IsKeep
    <3>2. h[k] = h[k - 1]
      BY <1>3, <2>5 DEF IsKeep
    <3>3. Total(w, g[k]) = Total(w, g[k - 1]) + w[rows[k]]
      BY <2>1, <2>2, <3>1, TotalAppend
    <3>4. Total(w, g[k]) + Total(w, h[k]) = t[k]
      BY <2>3, <2>4, <3>2, <3>3
    <3> QED BY <2>1, <3>4
  <2>6. CASE k \notin S
    <3>1. g[k] = g[k - 1]
      BY <1>2, <2>6 DEF IsKeep
    <3>2. k \in T
      BY <2>1, <2>6
    <3>3. h[k] = Append(h[k - 1], rows[k])
      <4> HIDE DEF T
      <4> QED BY <1>3, <3>2 DEF IsKeep
    <3>4. Total(w, h[k]) = Total(w, h[k - 1]) + w[rows[k]]
      BY <2>1, <2>2, <3>3, TotalAppend
    <3>5. Total(w, g[k]) + Total(w, h[k]) = t[k]
      BY <2>3, <2>4, <3>1, <3>4
    <3> QED BY <2>1, <3>5
  <2> QED BY <2>5, <2>6
<1>7. 0 .. n \subseteq Q
  <2> HIDE DEF Q, n
  <2> QED BY <1>1, <1>5, <1>6, UpToAll
<1>8. n \in Q
  <2> HIDE DEF Q, n
  <2> QED BY <1>1, <1>7
<1> QED BY <1>2, <1>3, <1>4, <1>8

LEMMA KeepIsLess ==
  ASSUME NEW X, NEW w \in [X -> Nat], NEW rows \in Seq(X), NEW S
  PROVE  Total(w, Keep(rows, S)) <= Total(w, rows)
<1>1. Total(w, Keep(rows, S)) + Total(w, Keep(rows, DOMAIN rows \ S)) = Total(w, rows)
  BY KeepSplits
<1>2. Total(w, Keep(rows, S)) \in Nat /\ Total(w, Keep(rows, DOMAIN rows \ S)) \in Nat
  BY KeepInSeq, TotalInNat
<1> QED BY <1>1, <1>2

\* Rows kept out of places with rows of Y are rows of Y.
LEMMA KeepElements ==
  ASSUME NEW X, NEW rows \in Seq(X), NEW S, NEW Y, \A k \in DOMAIN rows : k \in S => rows[k] \in Y
  PROVE  Keep(rows, S) \in Seq(Y)
<1> DEFINE n == Len(rows)
<1>1. n \in Nat /\ DOMAIN rows = 1 .. n
  BY LenProperties
<1>2. PICK g : IsKeep(g, X, S, rows) /\ Keep(rows, S) = g[n]
  BY KeepIs
<1> DEFINE Q == {k \in 0 .. n : g[k] \in Seq(Y)}
<1>3. 0 \in Q
  BY <1>1, <1>2, EmptySeq DEF IsKeep
<1>4. ASSUME NEW k \in 1 .. n, k - 1 \in Q PROVE k \in Q
  <2>1. g[k - 1] \in Seq(Y) /\ k \in 0 .. n
    BY <1>1, <1>4
  <2>2. CASE k \in S
    <3>1. g[k] = Append(g[k - 1], rows[k]) /\ rows[k] \in Y
      BY <1>1, <1>2, <2>2 DEF IsKeep
    <3>2. g[k] \in Seq(Y)
      <4> HIDE DEF Q, n
      <4> QED BY <2>1, <3>1, AppendProperties
    <3> QED BY <2>1, <3>2
  <2>3. CASE k \notin S
    <3>1. g[k] = g[k - 1]
      BY <1>2, <2>3 DEF IsKeep
    <3> QED BY <2>1, <3>1
  <2> QED BY <2>2, <2>3
<1>5. 0 .. n \subseteq Q
  <2> HIDE DEF Q, n
  <2> QED BY <1>1, <1>3, <1>4, UpToAll
<1>6. n \in Q
  <2> HIDE DEF Q, n
  <2> QED BY <1>1, <1>5
<1> QED BY <1>2, <1>6

\* The weights.
Unit == [x \in Examples |-> 1]
One(e) == [x \in Examples |-> IF x = e THEN 1 ELSE 0]
SizeOf == [x \in Examples |-> 1 + Cardinality(Columns(x))]
DocsOf(c) == [x \in Examples |-> IF x.class = c THEN 1 ELSE 0]
FeaturesOf(c) == [x \in Examples |-> IF x.class = c THEN Len(x.doc) ELSE 0]

\* A document has no more columns than occurrences of features.
LEMMA DocIs ==
  ASSUME NEW e \in Examples
  PROVE  /\ e.doc \in Seq(Nat \ {0}) /\ e.class \in Classes
         /\ Len(e.doc) \in Nat /\ Cardinality(Columns(e)) \in Nat /\ Cardinality(Columns(e)) <= Len(e.doc)
<1>1. e.doc \in Seq(Nat \ {0}) /\ e.class \in Classes
  BY DataStreamAssumption DEF Classes
<1> DEFINE n == Len(e.doc)
<1>2. n \in Nat /\ DOMAIN e.doc = 1 .. n
  BY <1>1, LenProperties
<1> HIDE DEF n
<1>3. IsFiniteSet(1 .. n) /\ Cardinality(1 .. n) = n
  <2>1. 1 \in Int /\ n \in Int /\ (1 > n => n = 0)
    BY <1>2
  <2>2. IsFiniteSet(1 .. n) /\ Cardinality(1 .. n) = IF 1 > n THEN 0 ELSE n - 1 + 1
    BY <2>1, FS_Interval
  <2> QED BY <1>2, <2>1, <2>2
<1> DEFINE img == {e.doc[i] : i \in 1 .. n}
<1>4. Columns(e) = img
  BY <1>2 DEF Columns, Range
<1>5. IsFiniteSet(img) /\ Cardinality(img) <= n
  <2>1. [i \in 1 .. n |-> e.doc[i]] \in Surjection(1 .. n, img)
    BY DEF Surjection
  <2> HIDE DEF img
  <2>2. IsFiniteSet(img) /\ Cardinality(img) <= Cardinality(1 .. n)
    BY <1>3, <2>1, FS_Surjection
  <2> QED BY <1>3, <2>2
<1>6. Cardinality(Columns(e)) \in Nat
  BY <1>4, <1>5, FS_CardinalityType
<1> QED BY <1>1, <1>2, <1>4, <1>5, <1>6 DEF n

LEMMA Weights ==
  /\ Unit \in [Examples -> Nat] /\ SizeOf \in [Examples -> Nat]
  /\ \A e : One(e) \in [Examples -> Nat]
  /\ \A c : DocsOf(c) \in [Examples -> Nat] /\ FeaturesOf(c) \in [Examples -> Nat]
<1>1. \A e \in Examples : Cardinality(Columns(e)) \in Nat /\ Len(e.doc) \in Nat
  BY DocIs
<1>2. Unit \in [Examples -> Nat]
  BY DEF Unit
<1>3. SizeOf \in [Examples -> Nat]
  BY <1>1 DEF SizeOf
<1>4. \A e : One(e) \in [Examples -> Nat]
  BY DEF One
<1>5. \A c : DocsOf(c) \in [Examples -> Nat]
  BY DEF DocsOf
<1>6. \A c : FeaturesOf(c) \in [Examples -> Nat]
  BY <1>1 DEF FeaturesOf
<1> QED BY <1>2, <1>3, <1>4, <1>5, <1>6

LEMMA LenIsTotal ==
  ASSUME NEW rows \in Seq(Examples)
  PROVE  Total(Unit, rows) = Len(rows)
<1> DEFINE f == [k \in 0 .. Len(rows) |-> k]
<1>1. Len(rows) \in Nat
  BY LenProperties
<1>2. f[0] = 0 /\ f[Len(rows)] = Len(rows)
  BY <1>1
<1>3. \A k \in 1 .. Len(rows) : f[k - 1] \in Nat => f[k] = f[k - 1] + Unit[rows[k]]
  <2> SUFFICES ASSUME NEW k \in 1 .. Len(rows) PROVE f[k] = f[k - 1] + Unit[rows[k]]
    OBVIOUS
  <2>1. k - 1 \in 0 .. Len(rows) /\ k \in 0 .. Len(rows) /\ rows[k] \in Examples
    BY <1>1, ElementOfSeq
  <2> QED BY <1>1, <2>1 DEF Unit
<1> HIDE DEF f
<1> QED BY <1>2, <1>3, TotalUnique, Weights

\* A row of weight zero adds nothing, a sequence of one and the same row
\* weighs as often as much as it is long.
LEMMA TotalOfSame ==
  ASSUME NEW e \in Examples, NEW w \in [Examples -> Nat], NEW s \in Seq({e})
  PROVE  s \in Seq(Examples) /\ Total(w, s) = Len(s) * w[e]
<1> DEFINE Q == {u \in Seq({e}) : u \in Seq(Examples) /\ Total(w, u) = Len(u) * w[e]}
<1>1. << >> \in Q
  <2>1. << >> \in Seq({e}) /\ << >> \in Seq(Examples) /\ Len(<< >>) = 0 /\ Total(w, << >>) = 0
    BY EmptySeq, TotalOfNone
  <2>2. 0 * w[e] = 0
    OBVIOUS
  <2> QED BY <2>1, <2>2
<1>2. ASSUME NEW u \in Seq({e}), NEW x \in {e}, u \in Q PROVE Append(u, x) \in Q
  <2>1. x = e /\ u \in Seq(Examples) /\ Total(w, u) = Len(u) * w[e] /\ Len(u) \in Nat
    BY <1>2, LenProperties
  <2>2. Append(u, x) \in Seq({e}) /\ Append(u, x) \in Seq(Examples) /\ Len(Append(u, x)) = Len(u) + 1
    BY <2>1, AppendProperties
  <2>3. Total(w, Append(u, x)) = Total(w, u) + w[e]
    BY <2>1, TotalAppend
  <2>4. ASSUME NEW n \in Nat, NEW m \in Nat PROVE n * m + m = (n + 1) * m
    OBVIOUS
  <2>5. w[e] \in Nat
    OBVIOUS
  <2>6. Total(w, Append(u, x)) = Len(Append(u, x)) * w[e]
    BY <2>1, <2>2, <2>3, <2>4, <2>5
  <2> QED BY <2>2, <2>6
<1>3. Seq({e}) \subseteq Q
  <2> HIDE DEF Q
  <2> QED BY <1>1, <1>2, AllSequences
<1> QED BY <1>3

\* An example is among the rows when its multiplicity is not zero.
LEMMA RangeIs ==
  ASSUME NEW e \in Examples, NEW rows \in Seq(Examples)
  PROVE  e \in Range(rows) <=> Total(One(e), rows) > 0
<1> DEFINE Q == {u \in Seq(Examples) : e \in Range(u) <=> Total(One(e), u) > 0}
<1>1. << >> \in Q
  <2>1. << >> \in Seq(Examples) /\ Range(<< >>) = {} /\ Total(One(e), << >>) = 0
    BY EmptySeq, TotalOfNone, Weights DEF Range
  <2> QED BY <2>1
<1>2. ASSUME NEW u \in Seq(Examples), NEW x \in Examples, u \in Q PROVE Append(u, x) \in Q
  <2>1. Append(u, x) \in Seq(Examples)
    BY AppendProperties
  <2>2. Range(Append(u, x)) = Range(u) \cup {x}
    <3>1. <<x>> \in Seq(Examples) /\ Append(u, x) = u \o <<x>>
      BY AppendIsConcat
    <3>2. Range(u \o <<x>>) = Range(u) \cup Range(<<x>>)
      BY <3>1, RangeConcatenation
    <3>3. Range(<<x>>) = {x}
      BY DEF Range
    <3> QED BY <3>1, <3>2, <3>3
  <2>3. Total(One(e), Append(u, x)) = Total(One(e), u) + One(e)[x] /\ Total(One(e), u) \in Nat
    BY TotalAppend, TotalInNat, Weights
  <2>4. One(e)[x] = IF x = e THEN 1 ELSE 0
    BY DEF One
  <2>5. e \in Range(u) <=> Total(One(e), u) > 0
    BY <1>2
  <2>6. e \in Range(Append(u, x)) <=> Total(One(e), Append(u, x)) > 0
    BY <2>2, <2>3, <2>4, <2>5
  <2> QED BY <2>1, <2>6
<1>3. Seq(Examples) \subseteq Q
  <2> HIDE DEF Q
  <2> QED BY <1>1, <1>2, AllSequences
<1> QED BY <1>3

\* The comparison that ignores what lies beyond the narrower vector tells the
\* examples apart.
Distinct == \A d, e \in Examples : vector_equals(d, e) <=> d = e

LEMMA ErasedIs ==
  ASSUME Distinct, NEW e \in Examples, NEW rows \in Seq(Examples)
  PROVE  LET left == WithoutEqual(rows, e) IN
         /\ left \in Seq(Examples)
         /\ Len(rows) - Len(left) \in Nat
         /\ \A w \in [Examples -> Nat] : Total(w, left) + (Len(rows) - Len(left)) * w[e] = Total(w, rows)
         /\ e \notin Range(left)
<1> DEFINE S == {i \in DOMAIN rows : ~ vector_equals(e, rows[i])}
           left == Keep(rows, S)
           gone == Keep(rows, DOMAIN rows \ S)
<1>1. DOMAIN rows = 1 .. Len(rows) /\ \A i \in DOMAIN rows : rows[i] \in Examples
  BY LenProperties, ElementOfSeq
<1>2. \A i \in DOMAIN rows : i \in S <=> rows[i] # e
  BY <1>1 DEF Distinct
<1>3. WithoutEqual(rows, e) = left
  BY DEF WithoutEqual
<1>4. left \in Seq(Examples) /\ left \in Seq(Examples \ {e})
  <2>1. \A i \in DOMAIN rows : i \in S => rows[i] \in Examples \ {e}
    BY <1>1, <1>2
  <2> HIDE DEF S
  <2> QED BY <2>1, KeepInSeq, KeepElements
<1>5. gone \in Seq({e})
  <2>1. \A i \in DOMAIN rows : i \in DOMAIN rows \ S => rows[i] \in {e}
    BY <1>2
  <2> HIDE DEF S
  <2> QED BY <2>1, KeepElements
<1>6. \A w \in [Examples -> Nat] : Total(w, left) + Total(w, gone) = Total(w, rows)
  <2> HIDE DEF S
  <2> QED BY KeepSplits
<1> HIDE DEF left, gone
<1>7. gone \in Seq(Examples) /\ \A w \in [Examples -> Nat] : Total(w, gone) = Len(gone) * w[e]
  BY <1>5, TotalOfSame
<1>8. Len(left) \in Nat /\ Len(gone) \in Nat /\ Len(rows) \in Nat /\ Len(left) + Len(gone) = Len(rows)
  <2>1. Total(Unit, left) + Total(Unit, gone) = Total(Unit, rows)
    BY <1>6, Weights
  <2>2. Total(Unit, left) = Len(left) /\ Total(Unit, gone) = Len(gone) /\ Total(Unit, rows) = Len(rows)
    BY <1>4, <1>7, LenIsTotal
  <2> QED BY <1>4, <1>7, <2>1, <2>2, LenProperties
<1>9. Len(gone) = Len(rows) - Len(left)
  BY <1>8
<1>10. e \notin Range(left)
  BY <1>4, RangeOfSeq
<1>11. \A w \in [Examples -> Nat] : Total(w, left) + (Len(rows) - Len(left)) * w[e] = Total(w, rows)
  BY <1>6, <1>7, <1>9
<1> QED BY <1>3, <1>4, <1>8, <1>9, <1>10, <1>11

-----------------------------------------------------------------------------
(* What the model's own loops over rows come to.                           *)

LEMMA RowsSizeIs ==
  ASSUME NEW rows \in Seq(Examples)
  PROVE  RowsSize(rows) = Total(SizeOf, rows)
<1> DEFINE n == Len(rows)
           Body(g) == [k \in 0 .. n |-> IF k = 0 THEN 0 ELSE g[k - 1] + RowThing(rows[k]).size]
           t == CHOOSE g : g = Body(g)
<1>1. n \in Nat /\ \A k \in 1 .. n : rows[k] \in Examples
  BY LenProperties, ElementOfSeq
<1>2. PICK g : IsTotal(g, SizeOf, rows)
  BY TotalIs, Weights
<1>3. g \in [0 .. n -> Nat] /\ g[0] = 0 /\ \A k \in 1 .. n : g[k] = g[k - 1] + SizeOf[rows[k]]
  BY <1>2 DEF IsTotal
<1>4. \A k \in 1 .. n : RowThing(rows[k]).size = SizeOf[rows[k]]
  <2> HIDE DEF n
  <2> QED BY <1>1 DEF RowThing, SizeOf
<1>5. g = Body(g)
  <2>1. \A k \in 0 .. n : k # 0 => k \in 1 .. n
    BY <1>1
  <2>2. \A k \in 0 .. n : g[k] = Body(g)[k]
    <3> HIDE DEF n
    <3> QED BY <1>3, <1>4, <2>1
  <2>3. g = [k \in 0 .. n |-> g[k]]
    <3> HIDE DEF n
    <3> QED BY <1>3
  <2> HIDE DEF n
  <2> QED BY <2>2, <2>3
<1>6. t = Body(t)
  <2> HIDE DEF Body
  <2> QED BY <1>5
<1>7. t[0] = 0 /\ \A k \in 1 .. n : t[k] = t[k - 1] + SizeOf[rows[k]]
  <2>1. 0 \in 0 .. n /\ \A k \in 1 .. n : k \in 0 .. n /\ k # 0
    BY <1>1
  <2> HIDE DEF t, n
  <2> QED BY <1>4, <1>6, <2>1
<1>8. RowsSize(rows) = t[n]
  BY DEF RowsSize
<1> HIDE DEF t
<1> QED BY <1>7, <1>8, TotalUnique, Weights

\* The counts of the rows are added to those of the control block.
CountsOf(rows) ==
  [c \in Classes |-> [documents |-> Total(DocsOf(c), rows), features |-> Total(FeaturesOf(c), rows)]]

AllCounts == [Classes -> [documents : Int, features : Int]]

Plus(a, b) ==
  [c \in Classes |-> [documents |-> a[c].documents + b[c].documents,
                      features  |-> a[c].features + b[c].features]]

LEMMA CountIs ==
  ASSUME NEW counts \in AllCounts, NEW e \in Examples, NEW m \in Int
  PROVE  /\ Count(counts, e, m) \in AllCounts
         /\ \A c \in Classes :
              /\ Count(counts, e, m)[c].documents = counts[c].documents + m * DocsOf(c)[e]
              /\ Count(counts, e, m)[c].features = counts[c].features + m * FeaturesOf(c)[e]
<1>1. e.class \in Classes /\ Len(e.doc) \in Nat /\ m * Len(e.doc) \in Int
  BY DocIs
<1>2. \A c \in Classes : counts[c].documents \in Int /\ counts[c].features \in Int
      /\ counts[c] \in [documents : Int, features : Int]
  BY DEF AllCounts
<1>3. ASSUME NEW c \in Classes, c # e.class
      PROVE  Count(counts, e, m)[c] = counts[c] /\ DocsOf(c)[e] = 0 /\ FeaturesOf(c)[e] = 0
  BY <1>3 DEF Count, AllCounts, DocsOf, FeaturesOf
<1>4. /\ DocsOf(e.class)[e] = 1 /\ FeaturesOf(e.class)[e] = Len(e.doc)
      /\ Count(counts, e, m)[e.class] =
           [documents |-> counts[e.class].documents + m,
            features  |-> counts[e.class].features + m * Len(e.doc)]
  BY <1>1 DEF Count, AllCounts, DocsOf, FeaturesOf
<1>5. m * 0 = 0 /\ m * 1 = m
  OBVIOUS
<1>6. ASSUME NEW c \in Classes
      PROVE  /\ Count(counts, e, m)[c].documents = counts[c].documents + m * DocsOf(c)[e]
             /\ Count(counts, e, m)[c].features = counts[c].features + m * FeaturesOf(c)[e]
             /\ Count(counts, e, m)[c] \in [documents : Int, features : Int]
  <2>1. CASE c = e.class
    BY <1>1, <1>2, <1>4, <1>5, <2>1
  <2>2. CASE c # e.class
    BY <1>2, <1>3, <1>5, <2>2
  <2> QED BY <2>1, <2>2
<1>7. Count(counts, e, m) = [c \in Classes |-> Count(counts, e, m)[c]]
  BY DEF Count, AllCounts
<1>8. Count(counts, e, m) \in AllCounts
  BY <1>6, <1>7 DEF AllCounts
<1> QED BY <1>6, <1>8

LEMMA CountAllIs ==
  ASSUME NEW counts \in AllCounts, NEW rows \in Seq(Examples)
  PROVE  CountAll(counts, rows) = Plus(counts, CountsOf(rows)) /\ CountAll(counts, rows) \in AllCounts
<1> DEFINE n == Len(rows)
           F == [x \in (1 .. n) \X AllCounts |-> Count(x[2], rows[x[1]], 1)]
           Body(g) == [k \in 0 .. n |-> IF k = 0 THEN counts ELSE Count(g[k - 1], rows[k], 1)]
           t == CHOOSE g : g = Body(g)
<1>1. n \in Nat /\ \A k \in 1 .. n : rows[k] \in Examples
  BY LenProperties, ElementOfSeq
<1>2. F \in [(1 .. n) \X AllCounts -> AllCounts]
  <2>1. ASSUME NEW x \in (1 .. n) \X AllCounts PROVE Count(x[2], rows[x[1]], 1) \in AllCounts
    <3>1. x[1] \in 1 .. n /\ x[2] \in AllCounts
      OBVIOUS
    <3> HIDE DEF n
    <3> QED BY <1>1, <3>1, CountIs
  <2> HIDE DEF n
  <2> QED BY <2>1
<1>3. PICK g : IsLoop(g, AllCounts, counts, F, n)
  <2> HIDE DEF n, F
  <2> QED BY <1>1, <1>2, LoopExists
<1>4. \A k \in 0 .. n : k # 0 => k \in 1 .. n /\ k - 1 \in 0 .. n
  BY <1>1
<1>5. g = Body(g)
  <2>1. g \in [0 .. n -> AllCounts] /\ g[0] = counts /\ \A k \in 1 .. n : g[k] = F[<<k, g[k - 1]>>]
    <3> HIDE DEF n, F
    <3> QED BY <1>3 DEF IsLoop
  <2>2. ASSUME NEW k \in 1 .. n
        PROVE  g[k] = Count(g[k - 1], rows[k], 1)
    <3>1. k - 1 \in 0 .. n
      BY <1>1
    <3>2. <<k, g[k - 1]>> \in (1 .. n) \X AllCounts
      <4> HIDE DEF n
      <4> QED BY <2>1, <3>1
    <3> HIDE DEF n
    <3> QED BY <2>1, <3>2
  <2>3. \A k \in 0 .. n : g[k] = Body(g)[k]
    <3> HIDE DEF n, F
    <3> QED BY <1>4, <2>1, <2>2
  <2>4. g = [k \in 0 .. n |-> g[k]]
    <3> HIDE DEF n, F
    <3> QED BY <2>1
  <2> HIDE DEF n, F
  <2> QED BY <2>3, <2>4
<1>6. t = Body(t)
  <2> HIDE DEF Body
  <2> QED BY <1>5
<1>7. t[0] = counts /\ \A k \in 1 .. n : t[k] = Count(t[k - 1], rows[k], 1)
  <2>1. 0 \in 0 .. n /\ \A k \in 1 .. n : k \in 0 .. n /\ k # 0
    BY <1>1
  <2> HIDE DEF t, n
  <2> QED BY <1>6, <2>1
<1>8. CountAll(counts, rows) = t[n]
  BY DEF CountAll
<1> HIDE DEF t
<1> DEFINE Q == {k \in 0 .. n : t[k] \in AllCounts}
<1>9. 0 .. n \subseteq Q
  <2>1. 0 \in Q
    BY <1>1, <1>7
  <2>2. ASSUME NEW k \in 1 .. n, k - 1 \in Q PROVE k \in Q
    <3>1. t[k - 1] \in AllCounts /\ rows[k] \in Examples /\ k \in 0 .. n
      BY <1>1, <2>2
    <3>2. t[k] \in AllCounts
      <4> HIDE DEF n
      <4> QED BY <1>7, <3>1, CountIs
    <3> QED BY <3>1, <3>2
  <2> HIDE DEF Q, n
  <2> QED BY <1>1, <2>1, <2>2, UpToAll
<1>10. ASSUME NEW k \in 1 .. n, NEW c \in Classes
       PROVE  /\ t[k][c].documents = t[k - 1][c].documents + DocsOf(c)[rows[k]]
              /\ t[k][c].features = t[k - 1][c].features + FeaturesOf(c)[rows[k]]
  <2>1. t[k - 1] \in AllCounts /\ rows[k] \in Examples
    <3>1. k - 1 \in 0 .. n
      BY <1>1
    <3>2. k - 1 \in Q
      <4> HIDE DEF Q, n
      <4> QED BY <1>9, <3>1
    <3> QED BY <1>1, <3>2
  <2>2. DocsOf(c)[rows[k]] \in Nat /\ FeaturesOf(c)[rows[k]] \in Nat
    BY <2>1, Weights
  <2>3. \A m \in Nat : 1 * m = m
    OBVIOUS
  <2> HIDE DEF n
  <2>4. t[k] = Count(t[k - 1], rows[k], 1) /\ 1 \in Int
    BY <1>7
  <2>5. /\ Count(t[k - 1], rows[k], 1)[c].documents = t[k - 1][c].documents + 1 * DocsOf(c)[rows[k]]
        /\ Count(t[k - 1], rows[k], 1)[c].features = t[k - 1][c].features + 1 * FeaturesOf(c)[rows[k]]
    BY <2>1, <2>4, CountIs, Zenon
  <2> QED BY <2>2, <2>3, <2>4, <2>5
<1>11. t[n] \in AllCounts
  <2>1. n \in Q
    <3> HIDE DEF Q, n
    <3> QED BY <1>1, <1>9
  <2> QED BY <2>1
<1>12. ASSUME NEW c \in Classes
       PROVE  /\ t[n][c].documents = counts[c].documents + Total(DocsOf(c), rows)
              /\ t[n][c].features = counts[c].features + Total(FeaturesOf(c), rows)
  <2>1. \A k \in 0 .. n : t[k][c].documents \in Int /\ t[k][c].features \in Int
    <3>1. \A k \in 0 .. n : t[k] \in AllCounts
      BY <1>9
    <3> HIDE DEF n
    <3> QED BY <3>1 DEF AllCounts
  <2>2. counts[c].documents \in Int /\ counts[c].features \in Int
    BY DEF AllCounts
  <2> DEFINE fd == [k \in 0 .. n |-> t[k][c].documents - counts[c].documents]
             ff == [k \in 0 .. n |-> t[k][c].features - counts[c].features]
  <2>3. fd[0] = 0 /\ ff[0] = 0 /\ \A k \in 0 .. n : fd[k] \in Int /\ ff[k] \in Int
        /\ fd[k] = t[k][c].documents - counts[c].documents
        /\ ff[k] = t[k][c].features - counts[c].features
    BY <1>1, <1>7, <2>1, <2>2
  <2>4. ASSUME NEW k \in 1 .. n
        PROVE  fd[k] = fd[k - 1] + DocsOf(c)[rows[k]] /\ ff[k] = ff[k - 1] + FeaturesOf(c)[rows[k]]
    <3>1. k \in 0 .. n /\ k - 1 \in 0 .. n /\ rows[k] \in Examples
      BY <1>1
    <3>2. DocsOf(c)[rows[k]] \in Nat /\ FeaturesOf(c)[rows[k]] \in Nat
      BY <3>1, Weights
    <3>3. /\ t[k][c].documents = t[k - 1][c].documents + DocsOf(c)[rows[k]]
          /\ t[k][c].features = t[k - 1][c].features + FeaturesOf(c)[rows[k]]
      BY <1>10
    <3>4. /\ t[k - 1][c].documents \in Int /\ t[k - 1][c].features \in Int
          /\ fd[k - 1] = t[k - 1][c].documents - counts[c].documents
          /\ ff[k - 1] = t[k - 1][c].features - counts[c].features
          /\ fd[k] = t[k][c].documents - counts[c].documents
          /\ ff[k] = t[k][c].features - counts[c].features
      <4> HIDE DEF fd, ff, n
      <4> QED BY <2>1, <2>3, <3>1
    <3> HIDE DEF fd, ff, n
    <3> QED BY <2>2, <3>2, <3>3, <3>4
  <2> HIDE DEF fd, ff
  <2>5. fd[n] = Total(DocsOf(c), rows)
    BY <2>3, <2>4, TotalUnique, Weights
  <2>6. ff[n] = Total(FeaturesOf(c), rows)
    BY <2>3, <2>4, TotalUnique, Weights
  <2>7. n \in 0 .. n
    BY <1>1
  <2> HIDE DEF n
  <2>8. /\ fd[n] = t[n][c].documents - counts[c].documents /\ t[n][c].documents \in Int
        /\ ff[n] = t[n][c].features - counts[c].features /\ t[n][c].features \in Int
    BY <2>1, <2>3, <2>7
  <2> QED BY <2>2, <2>5, <2>6, <2>8
<1>13. t[n] = Plus(counts, CountsOf(rows))
  <2>1. t[n] = [c \in Classes |-> t[n][c]]
    BY <1>11 DEF AllCounts
  <2>2. ASSUME NEW c \in Classes PROVE t[n][c] = Plus(counts, CountsOf(rows))[c]
    <3>1. t[n][c] = [documents |-> t[n][c].documents, features |-> t[n][c].features]
      BY <1>11 DEF AllCounts
    <3> QED BY <1>12, <3>1 DEF Plus, CountsOf
  <2> QED BY <2>1, <2>2 DEF Plus
<1> QED BY <1>8, <1>11, <1>13

\* The counts of a class are what its rows weigh.
LEMMA RealIs ==
  ASSUME NEW x \in Seq(Examples), NEW c \in Classes
  PROVE  /\ NoCounts \in AllCounts /\ CountAll(NoCounts, x) \in AllCounts
         /\ CountAll(NoCounts, x)[c].documents = Total(DocsOf(c), x)
         /\ CountAll(NoCounts, x)[c].features = Total(FeaturesOf(c), x)
         /\ CountAll(NoCounts, x)[c] = [documents |-> Total(DocsOf(c), x), features |-> Total(FeaturesOf(c), x)]
<1>1. NoCounts \in AllCounts
  BY DEF NoCounts, AllCounts
<1>2. CountAll(NoCounts, x) = Plus(NoCounts, CountsOf(x)) /\ CountAll(NoCounts, x) \in AllCounts
  BY <1>1, CountAllIs
<1>3. NoCounts[c].documents = 0 /\ NoCounts[c].features = 0
  BY DEF NoCounts
<1>4. CountsOf(x)[c].documents = Total(DocsOf(c), x) /\ CountsOf(x)[c].features = Total(FeaturesOf(c), x)
  BY DEF CountsOf
<1>5. Total(DocsOf(c), x) \in Nat /\ Total(FeaturesOf(c), x) \in Nat
  BY TotalInNat, Weights
<1>6. CountAll(NoCounts, x)[c] = [documents |-> Total(DocsOf(c), x), features |-> Total(FeaturesOf(c), x)]
  BY <1>2, <1>3, <1>4, <1>5 DEF Plus
<1> QED BY <1>1, <1>2, <1>6

-----------------------------------------------------------------------------
(* The bag of the rows.                                                    *)

SameRows(x, y) == \A w \in [Examples -> Nat] : Total(w, x) = Total(w, y)

FewerRows(x, y) == \A w \in [Examples -> Nat] : Total(w, x) <= Total(w, y)

\* A sequence with no more of anything has nothing that the others have not.
LEMMA RangeWithin ==
  ASSUME NEW x \in Seq(Examples), NEW y \in Seq(Examples), NEW z \in Seq(Examples),
         \A e \in Examples : Total(One(e), x) <= Total(One(e), y) + Total(One(e), z)
  PROVE  Range(x) \subseteq Range(y) \cup Range(z)
<1> SUFFICES ASSUME NEW e \in Range(x) PROVE e \in Range(y) \cup Range(z)
  OBVIOUS
<1>1. e \in Examples
  BY RangeOfSeq
<1>2. Total(One(e), x) \in Nat /\ Total(One(e), y) \in Nat /\ Total(One(e), z) \in Nat
  BY Weights, TotalInNat
<1>3. Total(One(e), x) > 0
  BY <1>1, RangeIs
<1>4. Total(One(e), y) > 0 \/ Total(One(e), z) > 0
  BY <1>1, <1>2, <1>3
<1> QED BY <1>1, <1>4, RangeIs

Places(rows, e) == {i \in DOMAIN rows : rows[i] = e}

LEMMA PlacesAre ==
  ASSUME NEW e \in Examples, NEW rows \in Seq(Examples)
  PROVE  IsFiniteSet(Places(rows, e)) /\ Cardinality(Places(rows, e)) = Total(One(e), rows)
<1> DEFINE Q == {u \in Seq(Examples) : /\ IsFiniteSet(Places(u, e))
                                       /\ Cardinality(Places(u, e)) = Total(One(e), u)}
<1>1. << >> \in Q
  <2>1. << >> \in Seq(Examples) /\ Places(<< >>, e) = {} /\ Total(One(e), << >>) = 0
    BY EmptySeq, TotalOfNone, Weights DEF Places
  <2> QED BY <2>1, FS_EmptySet
<1>2. ASSUME NEW u \in Seq(Examples), NEW x \in Examples, u \in Q PROVE Append(u, x) \in Q
  <2>1. /\ Append(u, x) \in Seq(Examples) /\ Len(u) \in Nat /\ DOMAIN u = 1 .. Len(u)
        /\ DOMAIN Append(u, x) = 1 .. Len(u) + 1
        /\ Append(u, x)[Len(u) + 1] = x /\ \A i \in 1 .. Len(u) : Append(u, x)[i] = u[i]
    BY AppendProperties, LenProperties
  <2>2. Total(One(e), Append(u, x)) = Total(One(e), u) + One(e)[x] /\ Total(One(e), u) \in Nat
    BY TotalAppend, TotalInNat, Weights
  <2>3. IsFiniteSet(Places(u, e)) /\ Cardinality(Places(u, e)) = Total(One(e), u)
    BY <1>2
  <2>4. CASE x = e
    <3>1. Places(Append(u, x), e) = Places(u, e) \cup {Len(u) + 1} /\ Len(u) + 1 \notin Places(u, e)
      BY <2>1, <2>4 DEF Places
    <3>2. IsFiniteSet(Places(Append(u, x), e)) /\ Cardinality(Places(Append(u, x), e)) = Cardinality(Places(u, e)) + 1
      BY <2>3, <3>1, FS_AddElement
    <3>3. One(e)[x] = 1
      BY <2>4 DEF One
    <3> QED BY <2>1, <2>2, <2>3, <3>2, <3>3
  <2>5. CASE x # e
    <3>1. Places(Append(u, x), e) = Places(u, e)
      BY <2>1, <2>5 DEF Places
    <3>2. One(e)[x] = 0
      BY <2>5 DEF One
    <3> QED BY <2>1, <2>2, <2>3, <3>1, <3>2
  <2> QED BY <2>4, <2>5
<1>3. Seq(Examples) \subseteq Q
  <2> HIDE DEF Q
  <2> QED BY <1>1, <1>2, AllSequences
<1> QED BY <1>3

LEMMA BagOfIs ==
  ASSUME NEW rows \in Seq(Examples)
  PROVE  /\ BagOf(rows) = [e \in Range(rows) |-> Total(One(e), rows)]
         /\ Range(rows) \subseteq Examples
<1>1. Range(rows) \subseteq Examples
  BY RangeOfSeq
<1>2. \A e \in Range(rows) : Cardinality({i \in DOMAIN rows : rows[i] = e}) = Total(One(e), rows)
  BY <1>1, PlacesAre DEF Places
<1> QED BY <1>1, <1>2 DEF BagOf

\* Rows of which every example has as many are the same bag.
LEMMA SameBag ==
  ASSUME NEW s \in Seq(Examples), NEW t \in Seq(Examples),
         \A e \in Examples : Total(One(e), s) = Total(One(e), t)
  PROVE  BagOf(s) = BagOf(t)
<1>1. \A e \in Examples : e \in Range(s) <=> e \in Range(t)
  BY RangeIs
<1>2. Range(s) = Range(t)
  BY <1>1, BagOfIs
<1> QED BY <1>2, BagOfIs

LEMMA BagOfMore ==
  ASSUME NEW s \in Seq(Examples), NEW t \in Seq(Examples), NEW x \in Examples,
         \A e \in Examples : Total(One(e), t) = Total(One(e), s) + One(e)[x]
  PROVE  BagOf(t) = BagOf(s) (+) SetToBag({x})
<1>1. ASSUME NEW e \in Examples
      PROVE  e \in Range(t) <=> (e \in Range(s) \/ e = x)
  <2>1. One(e)[x] = IF e = x THEN 1 ELSE 0
    BY DEF One
  <2>2. Total(One(e), s) \in Nat /\ Total(One(e), t) = Total(One(e), s) + One(e)[x]
    BY TotalInNat, Weights
  <2>3. (e \in Range(t) <=> Total(One(e), t) > 0) /\ (e \in Range(s) <=> Total(One(e), s) > 0)
    BY RangeIs
  <2> QED BY <2>1, <2>2, <2>3
<1>2. Range(t) = Range(s) \cup {x}
  BY <1>1, BagOfIs
<1>3. SetToBag({x}) = [e \in {x} |-> 1]
  BY DEF SetToBag
<1>4. ASSUME NEW e \in Range(t)
      PROVE  Total(One(e), t) = (IF e \in Range(s) THEN BagOf(s)[e] ELSE 0) + (IF e \in {x} THEN 1 ELSE 0)
  <2>1. e \in Examples
    BY BagOfIs
  <2>2. One(e)[x] = IF e \in {x} THEN 1 ELSE 0
    BY DEF One
  <2>3. Total(One(e), s) = IF e \in Range(s) THEN BagOf(s)[e] ELSE 0
    <3>1. Total(One(e), s) \in Nat
      BY TotalInNat, Weights
    <3>2. e \in Range(s) <=> Total(One(e), s) > 0
      BY <2>1, RangeIs
    <3>3. e \in Range(s) => BagOf(s)[e] = Total(One(e), s)
      BY BagOfIs
    <3> QED BY <3>1, <3>2, <3>3
  <2> QED BY <2>1, <2>2, <2>3
<1>5. BagOf(s) (+) SetToBag({x}) =
        [e \in Range(s) \cup {x} |-> (IF e \in Range(s) THEN BagOf(s)[e] ELSE 0) + (IF e \in {x} THEN 1 ELSE 0)]
  BY <1>3, BagOfIs DEF (+)
<1> QED BY <1>2, <1>4, <1>5, BagOfIs

Without(bag, x) == [e \in DOMAIN bag \ {x} |-> bag[e]]

\* An example taken out of the rows is taken out of the bag.
LEMMA BagWithout ==
  ASSUME NEW s \in Seq(Examples), NEW t \in Seq(Examples), NEW x \in Examples,
         \A e \in Examples : Total(One(e), t) = IF e = x THEN 0 ELSE Total(One(e), s)
  PROVE  BagOf(t) = Without(BagOf(s), x)
<1>1. \A e \in Examples : e \in Range(t) <=> (e \in Range(s) /\ e # x)
  BY RangeIs
<1>2. Range(t) = Range(s) \ {x} /\ DOMAIN BagOf(s) = Range(s)
  BY <1>1, BagOfIs
<1>3. \A e \in Range(t) : Total(One(e), t) = BagOf(s)[e]
  BY <1>2, BagOfIs
<1> QED BY <1>2, <1>3, BagOfIs DEF Without

\* Fewer of each are a smaller bag.
LEMMA BagOfLess ==
  ASSUME NEW s \in Seq(Examples), NEW t \in Seq(Examples),
         \A e \in Examples : Total(One(e), t) <= Total(One(e), s)
  PROVE  BagOf(t) \sqsubseteq BagOf(s)
<1>1. \A e \in Examples : Total(One(e), s) \in Nat /\ Total(One(e), t) \in Nat
  BY TotalInNat, Weights
<1>2. \A e \in Examples : e \in Range(t) => e \in Range(s)
  BY <1>1, RangeIs
<1>3. Range(t) \subseteq Range(s) /\ DOMAIN BagOf(s) = Range(s) /\ DOMAIN BagOf(t) = Range(t)
  BY <1>2, BagOfIs
<1>4. \A e \in Range(t) : BagOf(t)[e] <= BagOf(s)[e]
  BY <1>3, BagOfIs
<1> QED BY <1>3, <1>4 DEF \sqsubseteq

LEMMA BagOfNone ==
  BagOf(<< >>) = EmptyBag
<1>1. Range(<< >>) = {}
  BY DEF Range
<1>2. BagOf(<< >>) = [e \in {} |-> Cardinality({i \in DOMAIN << >> : << >>[i] = e})]
  BY <1>1 DEF BagOf
<1>3. EmptyBag = [e \in {} |-> 1]
  BY DEF EmptyBag, SetToBag
<1> QED BY <1>2, <1>3

-----------------------------------------------------------------------------
(* Groomed rows are fewer of the same.                                     *)

LEMMA GroomedIs ==
  ASSUME NEW rows \in Seq(Examples), NEW g \in Groomed(rows)
  PROVE  g \in Seq(Examples) /\ \A w \in [Examples -> Nat] : Total(w, g) <= Total(w, rows)
<1>1. PICK S : g = Keep(rows, S)
  BY DEF Groomed
<1> QED BY <1>1, KeepInSeq, KeepIsLess

-----------------------------------------------------------------------------
(* A room doubled until it is large enough.                                *)

LEMMA DoubledIs ==
  ASSUME NEW start \in Nat \ {0}, NEW n \in Nat
  PROVE  /\ DoubledTo(start, n) \in Nat /\ DoubledTo(start, n) >= n /\ DoubledTo(start, n) >= start
         /\ start >= n => DoubledTo(start, n) = start
<1> DEFINE F == [x \in (1 .. n) \X Nat |-> IF x[2] < n THEN 2 * x[2] ELSE x[2]]
           Body(g) == [k \in 0 .. n |-> IF k = 0 THEN start ELSE IF g[k - 1] < n THEN 2 * g[k - 1] ELSE g[k - 1]]
           t == CHOOSE g : g = Body(g)
<1>1. F \in [(1 .. n) \X Nat -> Nat]
  OBVIOUS
<1>2. PICK g : IsLoop(g, Nat, start, F, n)
  <2> HIDE DEF F
  <2> QED BY <1>1, LoopExists
<1>3. \A k \in 0 .. n : k # 0 => k \in 1 .. n /\ k - 1 \in 0 .. n
  OBVIOUS
<1>4. g = Body(g)
  <2>1. g \in [0 .. n -> Nat] /\ g[0] = start /\ \A k \in 1 .. n : g[k] = F[<<k, g[k - 1]>>]
    <3> HIDE DEF F
    <3> QED BY <1>2 DEF IsLoop
  <2>2. ASSUME NEW k \in 1 .. n PROVE g[k] = IF g[k - 1] < n THEN 2 * g[k - 1] ELSE g[k - 1]
    <3>1. <<k, g[k - 1]>> \in (1 .. n) \X Nat
      BY <2>1
    <3> QED BY <2>1, <3>1
  <2>3. \A k \in 0 .. n : g[k] = Body(g)[k]
    <3> HIDE DEF F
    <3> QED BY <1>3, <2>1, <2>2
  <2>4. g = [k \in 0 .. n |-> g[k]]
    <3> HIDE DEF F
    <3> QED BY <2>1
  <2> HIDE DEF F
  <2> QED BY <2>3, <2>4
<1>5. t = Body(t)
  <2> HIDE DEF Body
  <2> QED BY <1>4
<1>6. t[0] = start /\ \A k \in 1 .. n : t[k] = IF t[k - 1] < n THEN 2 * t[k - 1] ELSE t[k - 1]
  <2>1. 0 \in 0 .. n /\ \A k \in 1 .. n : k \in 0 .. n /\ k # 0
    OBVIOUS
  <2> HIDE DEF t
  <2> QED BY <1>5, <2>1
<1>7. DoubledTo(start, n) = t[n]
  BY DEF DoubledTo
<1> HIDE DEF t
<1> DEFINE Q == {k \in 0 .. n : /\ t[k] \in Nat /\ (t[k] >= n \/ t[k] >= start + k) /\ t[k] >= start
                                /\ start >= n => t[k] = start}
<1>8. 0 .. n \subseteq Q
  <2>1. 0 \in Q
    BY <1>6
  <2>2. ASSUME NEW k \in 1 .. n, k - 1 \in Q PROVE k \in Q
    <3>1. /\ t[k - 1] \in Nat /\ (t[k - 1] >= n \/ t[k - 1] >= start + (k - 1)) /\ t[k - 1] >= start
          /\ start >= n => t[k - 1] = start
      BY <2>2
    <3>2. t[k] = IF t[k - 1] < n THEN 2 * t[k - 1] ELSE t[k - 1]
      BY <1>6
    <3> QED BY <3>1, <3>2
  <2> HIDE DEF Q
  <2> QED BY <2>1, <2>2, UpToAll
<1>9. n \in Q
  <2> HIDE DEF Q
  <2> QED BY <1>8
<1> QED BY <1>7, <1>9

-----------------------------------------------------------------------------
(* Things one after the other in a file: off[k] is the offset behind the   *)
(* first k of them.                                                        *)

IsThings(T) == Len(T) \in Nat /\ DOMAIN T = 1 .. Len(T) /\ \A i \in 1 .. Len(T) : T[i].size \in Nat

IsLaid(off, T) ==
  /\ off \in [0 .. Len(T) -> Nat] /\ off[0] = 0
  /\ \A k \in 1 .. Len(T) : off[k] = off[k - 1] + T[k].size

LEMMA LaidExists ==
  ASSUME NEW T, IsThings(T)
  PROVE  \E off : IsLaid(off, T)
<1> DEFINE n == Len(T)
           F == [x \in (1 .. n) \X Nat |-> x[2] + T[x[1]].size]
<1>1. n \in Nat /\ \A k \in 1 .. n : T[k].size \in Nat
  BY DEF IsThings
<1>2. F \in [(1 .. n) \X Nat -> Nat]
  <2>1. ASSUME NEW x \in (1 .. n) \X Nat PROVE x[2] + T[x[1]].size \in Nat
    <3>1. x[1] \in 1 .. n /\ x[2] \in Nat
      OBVIOUS
    <3> HIDE DEF n
    <3> QED BY <1>1, <3>1
  <2> HIDE DEF n
  <2> QED BY <2>1
<1>3. PICK g : IsLoop(g, Nat, 0, F, n)
  <2> HIDE DEF n, F
  <2> QED BY <1>1, <1>2, LoopExists
<1>4. g \in [0 .. n -> Nat] /\ g[0] = 0 /\ \A k \in 1 .. n : g[k] = F[<<k, g[k - 1]>>]
  <2> HIDE DEF n, F
  <2> QED BY <1>3 DEF IsLoop
<1>5. ASSUME NEW k \in 1 .. n PROVE F[<<k, g[k - 1]>>] = g[k - 1] + T[k].size
  <2>1. k - 1 \in 0 .. n
    BY <1>1
  <2>2. <<k, g[k - 1]>> \in (1 .. n) \X Nat
    <3> HIDE DEF n
    <3> QED BY <1>4, <2>1
  <2> HIDE DEF n
  <2> QED BY <2>2
<1>6. g \in [0 .. n -> Nat] /\ g[0] = 0 /\ \A k \in 1 .. n : g[k] = g[k - 1] + T[k].size
  <2> HIDE DEF n, F
  <2> QED BY <1>4, <1>5
<1> QED BY <1>6 DEF IsLaid

LEMMA LaidIs ==
  ASSUME NEW T, IsThings(T), NEW off, IsLaid(off, T)
  PROVE  /\ off[0] = 0 /\ \A k \in 0 .. Len(T) : off[k] \in Nat
         /\ \A k \in 1 .. Len(T) : off[k] = off[k - 1] + T[k].size /\ T[k].size \in Nat /\ off[k - 1] \in Nat
         /\ \A j \in 0 .. Len(T) : \A i \in 0 .. j : off[i] <= off[j]
<1> DEFINE n == Len(T)
           Q == {j \in 0 .. n : \A i \in 0 .. j : off[i] <= off[j]}
<1>1. n \in Nat /\ off \in [0 .. n -> Nat] /\ \A k \in 1 .. n : T[k].size \in Nat /\ off[k] = off[k - 1] + T[k].size
  BY DEF IsThings, IsLaid
<1>2. \A k \in 1 .. n : k \in 0 .. n /\ k - 1 \in 0 .. n
  BY <1>1
<1>3. \A k \in 0 .. n : off[k] \in Nat
  <2> HIDE DEF n
  <2> QED BY <1>1
<1>4. 0 .. n \subseteq Q
  <2>1. 0 \in Q
    BY <1>1, <1>3
  <2>2. ASSUME NEW k \in 1 .. n, k - 1 \in Q PROVE k \in Q
    <3>1. off[k] = off[k - 1] + T[k].size /\ T[k].size \in Nat /\ off[k - 1] \in Nat /\ off[k] \in Nat
      BY <1>1, <1>2, <1>3
    <3>2. ASSUME NEW i \in 0 .. k PROVE off[i] <= off[k]
      <4>1. CASE i = k
        BY <3>1, <4>1
      <4>2. CASE i # k
        <5>1. i \in 0 .. k - 1 /\ i \in 0 .. n
          BY <1>1, <4>2
        <5>2. off[i] <= off[k - 1] /\ off[i] \in Nat
          BY <1>3, <2>2, <5>1
        <5> QED BY <3>1, <5>2
      <4> QED BY <4>1, <4>2
    <3> QED BY <1>2, <3>2
  <2> HIDE DEF Q, n
  <2> QED BY <1>1, <2>1, <2>2, UpToAll
<1> QED BY <1>1, <1>2, <1>3, <1>4 DEF IsLaid

\* The file up to the k-th of them.
IsData(d) == d = [p \in DOMAIN d |-> d[p]] /\ \A p \in DOMAIN d : p \in Nat /\ d[p].size \in Nat

Below(d, off, k, T) ==
  /\ \A p \in DOMAIN d : p < off[k] => \E i \in 1 .. k : T[i].size > 0 /\ p = off[i - 1]
  /\ \A i \in 1 .. k : T[i].size > 0 => off[i - 1] \in DOMAIN d /\ d[off[i - 1]] = T[i]

Holds(d, off, T) ==
  IsData(d) /\ Below(d, off, Len(T), T) /\ \A p \in DOMAIN d : p < off[Len(T)]

At(d, a, p) == [data |-> d, size |-> a, position |-> p, eof |-> FALSE]

LEMMA AtOther ==
  ASSUME NEW d, NEW a, NEW p, NEW q, NEW s, s = At(d, a, p)
  PROVE  [s EXCEPT !.data = q] = At(q, a, p)
<1>1. ASSUME NEW r, r = [s EXCEPT !.data = q] PROVE r = At(q, a, p)
  BY <1>1 DEF At
<1> QED BY <1>1

LEMMA SeekIs ==
  ASSUME NEW d, NEW a \in Nat, NEW p, NEW q \in 0 .. a
  PROVE  dbseek(At(d, a, p), q) = At(d, a, q)
<1>1. At(d, a, p).size = a
  BY DEF At
<1>2. ASSUME NEW r, r = dbseek(At(d, a, p), q) PROVE r = At(d, a, q)
  BY <1>1, <1>2 DEF dbseek, At
<1> QED BY <1>2

LEMMA PastIs ==
  ASSUME NEW d, NEW a \in Nat, NEW p \in Nat, NEW n \in Nat, p + n <= a
  PROVE  Past(At(d, a, p), n) = At(d, a, p + n)
<1>1. At(d, a, p).size = a /\ At(d, a, p).position = p
  BY DEF At
<1>2. ASSUME NEW r, r = Past(At(d, a, p), n) PROVE r = At(d, a, p + n)
  BY <1>1, <1>2 DEF Past, Fits, At
<1> QED BY <1>2

LEMMA HereIs ==
  ASSUME NEW T, IsThings(T), NEW off, IsLaid(off, T), NEW d, Below(d, off, Len(T), T),
         NEW a \in Nat, off[Len(T)] <= a, NEW i \in 1 .. Len(T), T[i].size > 0
  PROVE  Here(At(d, a, off[i - 1])) = T[i]
<1>1. /\ off[i] = off[i - 1] + T[i].size /\ T[i].size \in Nat /\ off[i - 1] \in Nat
      /\ off[i] <= off[Len(T)] /\ off[Len(T)] \in Nat
  <2>1. i \in 0 .. Len(T) /\ Len(T) \in 0 .. Len(T)
    BY DEF IsThings
  <2> QED BY <2>1, LaidIs
<1>2. Fits(At(d, a, off[i - 1]), 1)
  BY <1>1 DEF Fits, At
<1>3. off[i - 1] \in DOMAIN d /\ d[off[i - 1]] = T[i]
  BY DEF Below
<1> QED BY <1>2, <1>3 DEF Here, At

\* What a thing written over others leaves of them.
IsOver(o, d, from, thing) ==
  /\ IsData(o)
  /\ \A p \in DOMAIN o : p = from \/ (p \in DOMAIN d /\ o[p] = d[p] /\ (p < from \/ p >= from + thing.size))
  /\ \A p \in DOMAIN d : (p + d[p].size <= from \/ p >= from + thing.size) /\ p # from
                            => p \in DOMAIN o /\ o[p] = d[p]
  /\ from \in DOMAIN o /\ o[from] = thing

LEMMA OverIs ==
  ASSUME NEW d, IsData(d), NEW from \in Nat, NEW thing, thing.size \in Nat, thing.size > 0
  PROVE  IsOver(Over(d, from, thing.size, thing), d, from, thing)
<1> DEFINE kept == {p \in DOMAIN d : p + d[p].size <= from \/ p >= from + thing.size}
           q == [p \in kept \cup {from} |-> IF p = from THEN thing ELSE d[p]]
<1>1. \A p \in DOMAIN d : p \in Nat /\ d[p].size \in Nat
  BY DEF IsData
<1>2. \A p \in kept : p # from => p < from \/ p >= from + thing.size
  BY <1>1
<1>3. IsData(q)
  <2>1. q = [p \in DOMAIN q |-> q[p]]
    OBVIOUS
  <2>2. ASSUME NEW p \in DOMAIN q PROVE p \in Nat /\ q[p].size \in Nat
    BY <1>1
  <2> HIDE DEF q
  <2> QED BY <2>1, <2>2 DEF IsData
<1>4. Over(d, from, thing.size, thing) = q
  BY DEF Over
<1>5. \A p \in DOMAIN q : p = from \/ (p \in DOMAIN d /\ q[p] = d[p] /\ (p < from \/ p >= from + thing.size))
  BY <1>2
<1>6. \A p \in DOMAIN d : (p + d[p].size <= from \/ p >= from + thing.size) /\ p # from
                                   => p \in DOMAIN q /\ q[p] = d[p]
  OBVIOUS
<1>7. from \in DOMAIN q /\ q[from] = thing
  OBVIOUS
<1> HIDE DEF q
<1> QED BY <1>3, <1>4, <1>5, <1>6, <1>7 DEF IsOver

\* One thing more.
LEMMA OneMore ==
  ASSUME NEW T, IsThings(T), NEW off, IsLaid(off, T), NEW k \in 1 .. Len(T), T[k].size > 0,
         NEW d, IsData(d), Below(d, off, k - 1, T)
  PROVE  LET o == Over(d, off[k - 1], T[k].size, T[k]) IN IsData(o) /\ Below(o, off, k, T)
<1>1. /\ off[k] = off[k - 1] + T[k].size /\ T[k].size \in Nat /\ off[k - 1] \in Nat /\ off[k] \in Nat
      /\ \A i \in 1 .. k - 1 : off[i] <= off[k - 1] /\ off[i] = off[i - 1] + T[i].size /\ T[i].size \in Nat
                               /\ off[i - 1] \in Nat /\ off[i] \in Nat
  <2>1. k - 1 \in 0 .. Len(T) /\ k \in 0 .. Len(T)
        /\ \A i \in 1 .. k - 1 : i \in 0 .. k - 1 /\ i \in 1 .. Len(T) /\ i \in 0 .. Len(T)
    BY DEF IsThings
  <2> QED BY <2>1, LaidIs
<1> DEFINE o == Over(d, off[k - 1], T[k].size, T[k])
<1>2. IsOver(o, d, off[k - 1], T[k])
  BY <1>1, OverIs
<1> HIDE DEF o
<1>3. ASSUME NEW p \in DOMAIN o, p < off[k] PROVE \E i \in 1 .. k : T[i].size > 0 /\ p = off[i - 1]
  <2>1. CASE p = off[k - 1]
    <3>1. k \in 1 .. k
      OBVIOUS
    <3> QED BY <2>1, <3>1
  <2>2. CASE p # off[k - 1]
    <3>1. p \in DOMAIN d /\ (p < off[k - 1] \/ p >= off[k - 1] + T[k].size) /\ p \in Nat
      BY <1>2, <2>2 DEF IsOver, IsData
    <3>2. p < off[k - 1]
      BY <1>1, <1>3, <3>1
    <3>3. PICK i \in 1 .. k - 1 : T[i].size > 0 /\ p = off[i - 1]
      BY <3>1, <3>2 DEF Below
    <3>4. i \in 1 .. k
      OBVIOUS
    <3> QED BY <3>3, <3>4
  <2> QED BY <2>1, <2>2
<1>4. ASSUME NEW i \in 1 .. k, T[i].size > 0 PROVE off[i - 1] \in DOMAIN o /\ o[off[i - 1]] = T[i]
  <2>1. CASE i = k
    BY <1>2, <2>1 DEF IsOver
  <2>2. CASE i # k
    <3>1. i \in 1 .. k - 1
      BY <2>2
    <3>2. off[i - 1] \in DOMAIN d /\ d[off[i - 1]] = T[i]
      BY <1>4, <3>1 DEF Below
    <3>3. off[i - 1] + d[off[i - 1]].size <= off[k - 1] /\ off[i - 1] # off[k - 1]
      BY <1>1, <1>4, <3>1, <3>2
    <3> QED BY <1>2, <3>2, <3>3 DEF IsOver
  <2> QED BY <2>1, <2>2
<1> QED BY <1>2, <1>3, <1>4 DEF Below, IsOver, o

\* One of them changed for another of the same size.
LEMMA OneChanged ==
  ASSUME NEW T, IsThings(T), NEW off, IsLaid(off, T), NEW d, IsData(d), Below(d, off, Len(T), T),
         NEW i \in 1 .. Len(T), NEW t, t.size = T[i].size, t.size > 0
  PROVE  LET o == Over(d, off[i - 1], t.size, t)
             U == [T EXCEPT ![i] = t]
         IN  /\ IsThings(U) /\ Len(U) = Len(T) /\ IsLaid(off, U)
             /\ IsData(o) /\ Below(o, off, Len(U), U)
             /\ (\A p \in DOMAIN d : p < off[Len(T)]) => \A p \in DOMAIN o : p < off[Len(T)]
<1> DEFINE o == Over(d, off[i - 1], t.size, t)
           U == [T EXCEPT ![i] = t]
           n == Len(T)
<1>1. n \in Nat /\ DOMAIN T = 1 .. n /\ \A j \in 1 .. n : T[j].size \in Nat
  BY DEF IsThings
<1>2. /\ DOMAIN U = 1 .. n /\ U[i] = t /\ \A j \in 1 .. n : j # i => U[j] = T[j]
      /\ \A j \in 1 .. n : U[j].size = T[j].size
  BY <1>1
<1>3. Len(U) = n
  BY <1>1, <1>2, LenProperties
<1> HIDE DEF U
<1>4. IsThings(U) /\ IsLaid(off, U)
  BY <1>1, <1>2, <1>3 DEF IsThings, IsLaid
<1>5. /\ \A j \in 1 .. n : off[j] = off[j - 1] + T[j].size /\ off[j] \in Nat /\ off[j - 1] \in Nat
      /\ \A j \in 1 .. i - 1 : off[j] <= off[i - 1]
      /\ \A j \in i + 1 .. n : off[i] <= off[j - 1]
      /\ off[i] <= off[n] /\ off[n] \in Nat
  <2>1. /\ \A j \in 1 .. n : j \in 0 .. n /\ j - 1 \in 0 .. n
        /\ \A j \in 1 .. i - 1 : j \in 0 .. i - 1 /\ i - 1 \in 0 .. n
        /\ \A j \in i + 1 .. n : i \in 0 .. j - 1 /\ j - 1 \in 0 .. n
        /\ i \in 0 .. n /\ n \in 0 .. n
    BY <1>1
  <2> HIDE DEF n
  <2> QED BY <2>1, LaidIs DEF n
<1>6. IsOver(o, d, off[i - 1], t)
  BY <1>1, <1>5, OverIs
<1> HIDE DEF o
<1>7. ASSUME NEW p \in DOMAIN o, p < off[n] PROVE \E j \in 1 .. n : U[j].size > 0 /\ p = off[j - 1]
  <2>1. CASE p = off[i - 1]
    BY <1>2, <2>1
  <2>2. CASE p # off[i - 1]
    <3>1. p \in DOMAIN d
      BY <1>6, <2>2 DEF IsOver
    <3>2. PICK j \in 1 .. n : T[j].size > 0 /\ p = off[j - 1]
      BY <1>7, <3>1 DEF Below
    <3> QED BY <1>2, <3>2
  <2> QED BY <2>1, <2>2
<1>8. ASSUME NEW j \in 1 .. n, U[j].size > 0 PROVE off[j - 1] \in DOMAIN o /\ o[off[j - 1]] = U[j]
  <2>1. CASE j = i
    BY <1>2, <1>6, <2>1 DEF IsOver
  <2>2. CASE j # i
    <3>1. off[j - 1] \in DOMAIN d /\ d[off[j - 1]] = T[j] /\ T[j].size > 0 /\ U[j] = T[j]
      BY <1>2, <1>8, <2>2 DEF Below
    <3>2. CASE j < i
      <4>1. j \in 1 .. i - 1
        BY <3>2
      <4>2. off[j - 1] + d[off[j - 1]].size <= off[i - 1] /\ off[j - 1] # off[i - 1]
        BY <1>1, <1>5, <3>1, <4>1
      <4> QED BY <1>6, <3>1, <4>2 DEF IsOver
    <3>3. CASE j > i
      <4>1. j \in i + 1 .. n
        BY <3>3
      <4>2. off[j - 1] >= off[i - 1] + t.size /\ off[j - 1] # off[i - 1]
        BY <1>1, <1>5, <4>1
      <4> QED BY <1>6, <3>1, <4>2 DEF IsOver
    <3> QED BY <1>1, <2>2, <3>2, <3>3
  <2> QED BY <2>1, <2>2
<1>9. (\A p \in DOMAIN d : p < off[n]) => \A p \in DOMAIN o : p < off[n]
  <2> SUFFICES ASSUME \A p \in DOMAIN d : p < off[n], NEW p \in DOMAIN o PROVE p < off[n]
    OBVIOUS
  <2>1. p = off[i - 1] \/ p \in DOMAIN d
    BY <1>6 DEF IsOver
  <2>2. off[i - 1] < off[n]
    BY <1>1, <1>5
  <2> QED BY <2>1, <2>2
<1>10. IsData(o)
  BY <1>6 DEF IsOver
<1>11. Below(o, off, Len(U), U)
  BY <1>3, <1>7, <1>8 DEF Below
<1> QED BY <1>3, <1>4, <1>9, <1>10, <1>11 DEF o, U

\* Things of the same sizes lie at the same places.
LEMMA SamePlaces ==
  ASSUME NEW T, IsThings(T), NEW off, IsLaid(off, T), NEW U, IsThings(U), NEW uff, IsLaid(uff, U),
         NEW n \in Nat, n <= Len(T), n <= Len(U), \A i \in 1 .. n : T[i].size = U[i].size
  PROVE  \A k \in 0 .. n : off[k] = uff[k]
<1> DEFINE Q == {k \in 0 .. n : off[k] = uff[k]}
<1>1. /\ off[0] = 0 /\ uff[0] = 0
      /\ \A k \in 1 .. n : off[k] = off[k - 1] + T[k].size /\ uff[k] = uff[k - 1] + U[k].size
  <2>1. \A k \in 1 .. n : k \in 1 .. Len(T) /\ k \in 1 .. Len(U)
    BY DEF IsThings
  <2> QED BY <2>1 DEF IsLaid
<1>2. 0 .. n \subseteq Q
  <2>1. 0 \in Q
    BY <1>1
  <2>2. ASSUME NEW k \in 1 .. n, k - 1 \in Q PROVE k \in Q
    BY <1>1, <2>2
  <2> HIDE DEF Q
  <2> QED BY <2>1, <2>2, UpToAll
<1> QED BY <1>2

\* One more behind the end.
LEMMA OneAdded ==
  ASSUME NEW T, IsThings(T), NEW off, IsLaid(off, T), NEW d, Holds(d, off, T),
         NEW U, IsThings(U), NEW uff, IsLaid(uff, U), Len(U) = Len(T) + 1,
         \A i \in 1 .. Len(T) : U[i] = T[i], U[Len(U)].size > 0,
         NEW t, t = U[Len(U)]
  PROVE  Holds(Over(d, off[Len(T)], t.size, t), uff, U)
<1> DEFINE n == Len(T)
           o == Over(d, off[n], t.size, t)
<1>1. /\ n \in Nat /\ Len(U) = n + 1 /\ n + 1 \in 1 .. Len(U) /\ (n + 1) - 1 = n
      /\ U[n + 1] = t /\ t.size \in Nat /\ n \in 0 .. n
      /\ \A i \in 1 .. n : i - 1 \in 0 .. n /\ T[i] = U[i]
  BY DEF IsThings
<1>2. \A k \in 0 .. n : off[k] = uff[k]
  BY <1>1, SamePlaces
<1>3. Below(d, off, n, T) /\ IsData(d) /\ \A p \in DOMAIN d : p < off[n]
  BY DEF Holds
<1> HIDE DEF n
<1>4. Below(d, uff, n, U)
  <2>0. /\ \A p \in DOMAIN d : p < off[n] => \E i \in 1 .. n : T[i].size > 0 /\ p = off[i - 1]
        /\ \A i \in 1 .. n : T[i].size > 0 => off[i - 1] \in DOMAIN d /\ d[off[i - 1]] = T[i]
    BY ONLY <1>3 DEF Below
  <2>3. \A i \in 1 .. n : off[i - 1] = uff[i - 1] /\ T[i] = U[i]
    BY ONLY <1>1, <1>2
  <2>1. ASSUME NEW p \in DOMAIN d, p < uff[n] PROVE \E i \in 1 .. n : U[i].size > 0 /\ p = uff[i - 1]
    <3>1. p < off[n]
      BY ONLY <1>1, <1>2, <2>1
    <3>2. PICK i \in 1 .. n : T[i].size > 0 /\ p = off[i - 1]
      BY ONLY <2>0, <2>1, <3>1
    <3> QED BY ONLY <2>3, <3>2
  <2>2. \A i \in 1 .. n : U[i].size > 0 => uff[i - 1] \in DOMAIN d /\ d[uff[i - 1]] = U[i]
    BY ONLY <2>0, <2>3
  <2> QED BY <2>1, <2>2 DEF Below
<1>5. t.size > 0 /\ U[n + 1].size > 0 /\ uff[(n + 1) - 1] = off[n] /\ off[n] \in Nat
  <2>1. off[n] \in Nat
    BY <1>1, LaidIs DEF n
  <2> QED BY <1>1, <1>2, <2>1
<1>6. IsData(o) /\ Below(o, uff, n + 1, U)
  <2> DEFINE k == n + 1
  <2>1. k \in 1 .. Len(U) /\ U[k].size > 0 /\ Below(d, uff, k - 1, U)
    BY <1>1, <1>4, <1>5
  <2>2. LET q == Over(d, uff[k - 1], U[k].size, U[k]) IN IsData(q) /\ Below(q, uff, k, U)
    <3> HIDE DEF k
    <3> QED BY <1>3, <2>1, OneMore
  <2>3. Over(d, uff[k - 1], U[k].size, U[k]) = o
    BY <1>1, <1>5
  <2> QED BY <2>2, <2>3
<1>7. ASSUME NEW p \in DOMAIN o PROVE p < uff[n + 1]
  <2>1. IsOver(o, d, off[n], t)
    BY <1>1, <1>3, <1>5, OverIs
  <2>2. p = off[n] \/ p \in DOMAIN d
    BY <2>1 DEF IsOver
  <2>3. p <= off[n] /\ p \in Nat
    BY <1>3, <1>5, <2>2 DEF IsData
  <2>4. uff[n + 1] = uff[(n + 1) - 1] + U[n + 1].size
    BY <1>1 DEF IsLaid
  <2> QED BY <1>1, <1>5, <2>3, <2>4
<1> QED BY <1>1, <1>6, <1>7 DEF Holds, n

-----------------------------------------------------------------------------
(* Writing things one after the other.                                     *)

\* The turns of WriteAll.
IsWriting(t, ds, T) ==
  /\ t[0] = [ds |-> ds, rows |-> << >>, matrices |-> << >>]
  /\ \A k \in 1 .. Len(T) : t[k] = Written1(t[k - 1], T[k])

LEMMA WriteAllTurns ==
  ASSUME NEW T, IsThings(T), NEW ds
  PROVE  \E t : IsWriting(t, ds, T) /\ WriteAll(ds, T) = t[Len(T)]
<1> DEFINE n == Len(T)
           start == [ds |-> ds, rows |-> << >>, matrices |-> << >>]
           Is(m, g) == /\ g = [k \in 0 .. m |-> g[k]] /\ g[0] = start
                       /\ \A k \in 1 .. m : g[k] = Written1(g[k - 1], T[k])
           Q == {m \in 0 .. n : \E g : Is(m, g)}
           Body(g) == [k \in 0 .. n |-> IF k = 0 THEN start ELSE Written1(g[k - 1], T[k])]
           t == CHOOSE g : g = Body(g)
<1>1. n \in Nat
  BY DEF IsThings
<1> HIDE DEF start, n
<1>2. 0 \in Q
  <2>1. Is(0, [k \in 0 .. 0 |-> start])
    OBVIOUS
  <2> HIDE DEF Is
  <2> QED BY <1>1, <2>1
<1>3. ASSUME NEW m \in 1 .. n, m - 1 \in Q PROVE m \in Q
  <2>1. PICK g : Is(m - 1, g)
    <3> HIDE DEF Is
    <3> QED BY <1>3
  <2> DEFINE h == [k \in 0 .. m |-> IF k = m THEN Written1(g[m - 1], T[m]) ELSE g[k]]
  <2>2. m \in Nat /\ m # 0
    BY <1>1
  <2>3. \A k \in 0 .. m : k # m => h[k] = g[k]
    BY <2>2
  <2>4. h[m] = Written1(g[m - 1], T[m]) /\ h = [k \in 0 .. m |-> h[k]]
    BY <2>2
  <2> HIDE DEF h
  <2>5. h[0] = start
    <3>1. 0 \in 0 .. m /\ 0 # m
      BY <2>2
    <3>2. g[0] = start
      BY <2>1
    <3> HIDE DEF Is
    <3> QED BY <2>3, <3>1, <3>2
  <2>6. ASSUME NEW k \in 1 .. m PROVE h[k] = Written1(h[k - 1], T[k])
    <3>1. k - 1 \in 0 .. m /\ k - 1 # m /\ k \in 0 .. m
      BY <2>2
    <3>2. h[k - 1] = g[k - 1]
      BY <2>3, <3>1
    <3>3. CASE k = m
      BY <2>4, <3>2, <3>3
    <3>4. CASE k # m
      <4>1. k \in 1 .. m - 1 /\ h[k] = g[k]
        BY <2>2, <2>3, <3>1, <3>4
      <4> QED BY <2>1, <3>2, <4>1
    <3> QED BY <3>3, <3>4
  <2>7. Is(m, h)
    BY <2>4, <2>5, <2>6
  <2> HIDE DEF Is
  <2> QED BY <1>1, <2>7
<1>4. n \in Q
  <2>1. 0 .. n \subseteq Q
    <3> HIDE DEF Q
    <3> QED BY <1>1, <1>2, <1>3, UpToAll
  <2> QED BY <1>1, <2>1
<1>5. PICK g : Is(n, g)
  <2> HIDE DEF Is
  <2> QED BY <1>4
<1>6. g = Body(g)
  <2>1. \A k \in 0 .. n : k # 0 => k \in 1 .. n
    BY <1>1
  <2>2. \A k \in 0 .. n : g[k] = Body(g)[k]
    BY <1>5, <2>1
  <2> QED BY <1>5, <2>2
<1>7. t = Body(t)
  <2> HIDE DEF Body
  <2> QED BY <1>6
<1>8. t[0] = start /\ \A k \in 1 .. n : t[k] = Written1(t[k - 1], T[k])
  <2>1. 0 \in 0 .. n /\ \A k \in 1 .. n : k \in 0 .. n /\ k # 0
    BY <1>1
  <2> HIDE DEF t
  <2> QED BY <1>7, <2>1
<1>9. WriteAll(ds, T) = t[n]
  BY DEF WriteAll, n, start
<1> HIDE DEF t
<1>10. IsWriting(t, ds, T)
  BY <1>8 DEF IsWriting, n, start
<1> QED BY <1>9, <1>10 DEF n

\* One thing written, where it fits.
LEMMA WriteIs ==
  ASSUME NEW T, IsThings(T), NEW off, IsLaid(off, T), NEW k \in 1 .. Len(T),
         NEW d, IsData(d), Below(d, off, k - 1, T), NEW a \in Nat, off[Len(T)] <= a
  PROVE  \E o : /\ dbwrite(At(d, a, off[k - 1]), T[k]) = At(o, a, off[k])
                /\ IsData(o) /\ Below(o, off, k, T)
<1>1. /\ off[k] = off[k - 1] + T[k].size /\ T[k].size \in Nat /\ off[k - 1] \in Nat
      /\ off[k] <= off[Len(T)] /\ off[Len(T)] \in Nat /\ off[k] \in Nat
  <2>1. k \in 0 .. Len(T) /\ Len(T) \in 0 .. Len(T)
    BY DEF IsThings
  <2> QED BY <2>1, LaidIs
<1>2. CASE T[k].size = 0
  <2>1. off[k] = off[k - 1]
    BY <1>1, <1>2
  <2>2. dbwrite(At(d, a, off[k - 1]), T[k]) = At(d, a, off[k])
    BY <1>2, <2>1 DEF dbwrite
  <2>3. Below(d, off, k, T)
    <3>1. ASSUME NEW p \in DOMAIN d, p < off[k] PROVE \E i \in 1 .. k : T[i].size > 0 /\ p = off[i - 1]
      <4>1. PICK i \in 1 .. k - 1 : T[i].size > 0 /\ p = off[i - 1]
        BY <2>1, <3>1 DEF Below
      <4>2. i \in 1 .. k
        OBVIOUS
      <4> QED BY <4>1, <4>2
    <3>2. ASSUME NEW i \in 1 .. k, T[i].size > 0 PROVE off[i - 1] \in DOMAIN d /\ d[off[i - 1]] = T[i]
      <4>1. i # k
        BY <1>2, <3>2
      <4>2. i \in 1 .. k - 1
        BY <4>1
      <4> QED BY <3>2, <4>2 DEF Below
    <3> QED BY <3>1, <3>2 DEF Below
  <2> QED BY <2>2, <2>3
<1>3. CASE T[k].size # 0
  <2> DEFINE o == Over(d, off[k - 1], T[k].size, T[k])
             ds == At(d, a, off[k - 1])
  <2>1. T[k].size > 0
    BY <1>1, <1>3
  <2>2. IsData(o) /\ Below(o, off, k, T)
    BY <2>1, OneMore
  <2>3. /\ ds.position = off[k - 1] /\ ds.size = a /\ ds.data = d
        /\ Fits(ds, 1) /\ Fits(ds, T[k].size)
    BY <1>1, <2>1 DEF At, Fits
  <2>4. Past(ds, T[k].size) = At(d, a, off[k])
    BY <1>1, PastIs
  <2>5. dbwrite(ds, T[k]) = [Past(ds, T[k].size) EXCEPT !.data = Over(@, ds.position, T[k].size, T[k])]
    BY <1>3, <2>3 DEF dbwrite
  <2>6. dbwrite(ds, T[k]) = At(o, a, off[k])
    <3>1. [At(d, a, off[k]) EXCEPT !.data = o] = At(o, a, off[k])
      <4> HIDE DEF o
      <4> QED BY AtOther
    <3>2. At(d, a, off[k]).data = d
      BY DEF At
    <3>3. [Past(ds, T[k].size) EXCEPT !.data = Over(@, ds.position, T[k].size, T[k])]
             = [At(d, a, off[k]) EXCEPT !.data = o]
      <4> HIDE DEF ds
      <4> QED BY <2>3, <2>4, <3>2
    <3> HIDE DEF o, ds
    <3> QED BY <2>5, <3>1, <3>3
  <2> HIDE DEF o
  <2> QED BY <2>2, <2>6
<1> QED BY <1>2, <1>3

\* Turn by turn, the stream stands where the things are laid, and those written
\* so far are there.
WrittenSoFar(t, a, off, T) ==
  \A k \in 0 .. Len(T) : \E o : t[k].ds = At(o, a, off[k]) /\ IsData(o) /\ Below(o, off, k, T)

LEMMA WritingIs ==
  ASSUME NEW T, IsThings(T), NEW off, IsLaid(off, T),
         NEW d, IsData(d), NEW a \in Nat, off[Len(T)] <= a,
         NEW t, IsWriting(t, At(d, a, 0), T)
  PROVE  WrittenSoFar(t, a, off, T)
<1> DEFINE n == Len(T)
           Is(k) == \E o : t[k].ds = At(o, a, off[k]) /\ IsData(o) /\ Below(o, off, k, T)
           Q == {k \in 0 .. n : Is(k)}
<1>1. n \in Nat /\ off[0] = 0
  BY DEF IsThings, IsLaid
<1>2. 0 \in Q
  <2>1. t[0].ds = At(d, a, off[0])
    BY <1>1 DEF IsWriting
  <2>2. Below(d, off, 0, T)
    BY <1>1 DEF Below, IsData
  <2> QED BY <1>1, <2>1, <2>2
<1>3. ASSUME NEW k \in 1 .. n, k - 1 \in Q PROVE k \in Q
  <2>1. PICK o : t[k - 1].ds = At(o, a, off[k - 1]) /\ IsData(o) /\ Below(o, off, k - 1, T)
    BY <1>3
  <2>2. t[k] = Written1(t[k - 1], T[k])
    BY DEF IsWriting
  <2>3. t[k].ds = dbwrite(At(o, a, off[k - 1]), T[k])
    BY <2>1, <2>2 DEF Written1
  <2>4. PICK q : /\ dbwrite(At(o, a, off[k - 1]), T[k]) = At(q, a, off[k])
                 /\ IsData(q) /\ Below(q, off, k, T)
    BY <2>1, WriteIs
  <2>5. Is(k)
    BY <2>3, <2>4
  <2> HIDE DEF Is
  <2> QED BY <1>1, <2>5
<1>4. 0 .. n \subseteq Q
  <2> HIDE DEF Q, n
  <2> QED BY <1>1, <1>2, <1>3, UpToAll
<1> QED BY <1>4 DEF WrittenSoFar

\* WriteAll leaves the things where they are laid, whatever was there before.
LEMMA WriteAllIs ==
  ASSUME NEW T, IsThings(T), NEW off, IsLaid(off, T),
         NEW d, IsData(d), NEW a \in Nat, off[Len(T)] <= a
  PROVE  \E o : /\ WriteAll(At(d, a, 0), T).ds = At(o, a, off[Len(T)])
                /\ IsData(o) /\ Below(o, off, Len(T), T)
<1>1. PICK t : IsWriting(t, At(d, a, 0), T) /\ WriteAll(At(d, a, 0), T) = t[Len(T)]
  BY WriteAllTurns
<1>2. WrittenSoFar(t, a, off, T)
  BY <1>1, WritingIs
<1>3. Len(T) \in 0 .. Len(T)
  BY DEF IsThings
<1> QED BY <1>1, <1>2, <1>3 DEF WrittenSoFar

\* The places collected on the way: count says how many there are after each
\* thing, at which thing each of them is.
IsIndex(count, at, kind, T) ==
  /\ count \in [0 .. Len(T) -> Nat] /\ count[0] = 0
  /\ \A k \in 1 .. Len(T) :
       IF T[k].kind = kind THEN count[k] = count[k - 1] + 1 /\ at[count[k]] = k
       ELSE count[k] = count[k - 1]

Collected(places, n, off, at) ==
  places \in Seq(Nat) /\ Len(places) = n /\ \A j \in 1 .. n : places[j] = off[at[j] - 1]

LEMMA CollectedMore ==
  ASSUME NEW n \in Nat, NEW off, NEW at, NEW places, Collected(places, n, off, at),
         NEW p \in Nat, p = off[at[n + 1] - 1]
  PROVE  Collected(Append(places, p), n + 1, off, at)
<1>1. places \in Seq(Nat) /\ Len(places) = n /\ \A j \in 1 .. n : places[j] = off[at[j] - 1]
  BY DEF Collected
<1> DEFINE q == Append(places, p)
<1>2. /\ q \in Seq(Nat) /\ Len(q) = n + 1 /\ q[n + 1] = p
      /\ \A j \in 1 .. n : q[j] = places[j]
  BY <1>1, AppendProperties
<1> HIDE DEF q
<1>3. ASSUME NEW j \in 1 .. n + 1 PROVE q[j] = off[at[j] - 1]
  <2>1. j \in 1 .. n \/ j = n + 1
    OBVIOUS
  <2> QED BY <1>1, <1>2, <2>1
<1> QED BY <1>2, <1>3 DEF Collected, q

LEMMA RowsCollected ==
  ASSUME NEW T, IsThings(T), NEW off, IsLaid(off, T), NEW a \in Nat, NEW ds,
         NEW t, IsWriting(t, ds, T), WrittenSoFar(t, a, off, T),
         NEW rowCount, NEW rowAt, IsIndex(rowCount, rowAt, "row", T),
         NEW matrixCount, NEW matrixAt, IsIndex(matrixCount, matrixAt, "matrix", T)
  PROVE  /\ Collected(t[Len(T)].rows, rowCount[Len(T)], off, rowAt)
         /\ Collected(t[Len(T)].matrices, matrixCount[Len(T)], off, matrixAt)
<1> DEFINE n == Len(T)
           Is(k) == /\ Collected(t[k].rows, rowCount[k], off, rowAt)
                    /\ Collected(t[k].matrices, matrixCount[k], off, matrixAt)
           Q == {k \in 0 .. n : Is(k)}
<1>1. n \in Nat
  BY DEF IsThings
<1>2. 0 \in Q
  <2>1. t[0].rows = << >> /\ t[0].matrices = << >> /\ rowCount[0] = 0 /\ matrixCount[0] = 0
    BY DEF IsWriting, IsIndex
  <2>2. << >> \in Seq(Nat) /\ Len(<< >>) = 0
    OBVIOUS
  <2>3. Is(0)
    BY <2>1, <2>2 DEF Collected
  <2> HIDE DEF Is
  <2> QED BY <1>1, <2>3
<1>3. ASSUME NEW k \in 1 .. n, k - 1 \in Q PROVE k \in Q
  <2>0. k \in 0 .. n /\ k - 1 \in 0 .. n
    BY <1>1
  <2>1. Is(k - 1)
    BY <1>3
  <2>2. t[k] = Written1(t[k - 1], T[k])
    BY DEF IsWriting
  <2>3. PICK o : t[k - 1].ds = At(o, a, off[k - 1])
    BY <2>0 DEF WrittenSoFar
  <2>4. t[k - 1].ds.position = off[k - 1]
    BY <2>3 DEF At
  <2>5. off[k - 1] \in Nat /\ rowCount[k - 1] \in Nat /\ matrixCount[k - 1] \in Nat
    BY <2>0 DEF IsLaid, IsIndex
  <2>6. Collected(t[k].rows, rowCount[k], off, rowAt)
    <3> DEFINE m == rowCount[k - 1]
    <3>1. CASE T[k].kind = "row"
      <4>1. rowCount[k] = m + 1 /\ rowAt[m + 1] = k
        BY <3>1 DEF IsIndex
      <4>2. t[k].rows = Append(t[k - 1].rows, off[k - 1])
        BY <2>2, <2>4, <3>1 DEF Written1
      <4> QED BY <2>1, <2>5, <4>1, <4>2, CollectedMore
    <3>2. CASE T[k].kind # "row"
      <4>1. rowCount[k] = m
        BY <3>2 DEF IsIndex
      <4>2. t[k].rows = t[k - 1].rows
        BY <2>2, <3>2 DEF Written1
      <4> QED BY <2>1, <4>1, <4>2
    <3> QED BY <3>1, <3>2
  <2>7. Collected(t[k].matrices, matrixCount[k], off, matrixAt)
    <3> DEFINE m == matrixCount[k - 1]
    <3>1. CASE T[k].kind = "matrix"
      <4>1. matrixCount[k] = m + 1 /\ matrixAt[m + 1] = k
        BY <3>1 DEF IsIndex
      <4>2. t[k].matrices = Append(t[k - 1].matrices, off[k - 1])
        BY <2>2, <2>4, <3>1 DEF Written1
      <4> QED BY <2>1, <2>5, <4>1, <4>2, CollectedMore
    <3>2. CASE T[k].kind # "matrix"
      <4>1. matrixCount[k] = m
        BY <3>2 DEF IsIndex
      <4>2. t[k].matrices = t[k - 1].matrices
        BY <2>2, <3>2 DEF Written1
      <4> QED BY <2>1, <4>1, <4>2
    <3> QED BY <3>1, <3>2
  <2> QED BY <2>0, <2>6, <2>7
<1>4. 0 .. n \subseteq Q
  <2> HIDE DEF Q, n
  <2> QED BY <1>1, <1>2, <1>3, UpToAll
<1>5. Is(n)
  <2>1. n \in 0 .. n
    BY <1>1
  <2> QED BY <1>4, <2>1
<1> QED BY <1>5

-----------------------------------------------------------------------------
(* Reading the rows that follow.                                           *)

IsReading(t, ds, end) ==
  /\ t[0] = [ds |-> ds, rows |-> << >>]
  /\ \A k \in 1 .. ds.size : t[k] = RowRead(t[k - 1], end)

LEMMA RowsFromTurns ==
  ASSUME NEW ds, ds.size \in Nat, NEW end
  PROVE  \E t : IsReading(t, ds, end) /\ RowsFrom(ds, end) = t[ds.size].rows
<1> DEFINE n == ds.size
           start == [ds |-> ds, rows |-> << >>]
           Is(m, g) == /\ g = [k \in 0 .. m |-> g[k]] /\ g[0] = start
                       /\ \A k \in 1 .. m : g[k] = RowRead(g[k - 1], end)
           Q == {m \in 0 .. n : \E g : Is(m, g)}
           Body(g) == [k \in 0 .. n |-> IF k = 0 THEN start ELSE RowRead(g[k - 1], end)]
           t == CHOOSE g : g = Body(g)
<1>1. n \in Nat
  OBVIOUS
<1> HIDE DEF start, n
<1>2. 0 \in Q
  <2>1. Is(0, [k \in 0 .. 0 |-> start])
    OBVIOUS
  <2> HIDE DEF Is
  <2> QED BY <1>1, <2>1
<1>3. ASSUME NEW m \in 1 .. n, m - 1 \in Q PROVE m \in Q
  <2>1. PICK g : Is(m - 1, g)
    <3> HIDE DEF Is
    <3> QED BY <1>3
  <2> DEFINE h == [k \in 0 .. m |-> IF k = m THEN RowRead(g[m - 1], end) ELSE g[k]]
  <2>2. m \in Nat /\ m # 0
    BY <1>1
  <2>3. \A k \in 0 .. m : k # m => h[k] = g[k]
    BY <2>2
  <2>4. h[m] = RowRead(g[m - 1], end) /\ h = [k \in 0 .. m |-> h[k]]
    BY <2>2
  <2> HIDE DEF h
  <2>5. h[0] = start
    <3>1. 0 \in 0 .. m /\ 0 # m
      BY <2>2
    <3>2. g[0] = start
      BY <2>1
    <3> HIDE DEF Is
    <3> QED BY <2>3, <3>1, <3>2
  <2>6. ASSUME NEW k \in 1 .. m PROVE h[k] = RowRead(h[k - 1], end)
    <3>1. k - 1 \in 0 .. m /\ k - 1 # m /\ k \in 0 .. m
      BY <2>2
    <3>2. h[k - 1] = g[k - 1]
      BY <2>3, <3>1
    <3>3. CASE k = m
      BY <2>4, <3>2, <3>3
    <3>4. CASE k # m
      <4>1. k \in 1 .. m - 1 /\ h[k] = g[k]
        BY <2>2, <2>3, <3>1, <3>4
      <4> QED BY <2>1, <3>2, <4>1
    <3> QED BY <3>3, <3>4
  <2>7. Is(m, h)
    BY <2>4, <2>5, <2>6
  <2> HIDE DEF Is
  <2> QED BY <1>1, <2>7
<1>4. n \in Q
  <2>1. 0 .. n \subseteq Q
    <3> HIDE DEF Q
    <3> QED BY <1>1, <1>2, <1>3, UpToAll
  <2> QED BY <1>1, <2>1
<1>5. PICK g : Is(n, g)
  <2> HIDE DEF Is
  <2> QED BY <1>4
<1>6. g = Body(g)
  <2>1. \A k \in 0 .. n : k # 0 => k \in 1 .. n
    BY <1>1
  <2>2. \A k \in 0 .. n : g[k] = Body(g)[k]
    BY <1>5, <2>1
  <2> QED BY <1>5, <2>2
<1>7. t = Body(t)
  <2> HIDE DEF Body
  <2> QED BY <1>6
<1>8. t[0] = start /\ \A k \in 1 .. n : t[k] = RowRead(t[k - 1], end)
  <2>1. 0 \in 0 .. n /\ \A k \in 1 .. n : k \in 0 .. n /\ k # 0
    BY <1>1
  <2> HIDE DEF t
  <2> QED BY <1>7, <2>1
<1>9. RowsFrom(ds, end) = t[n].rows
  BY DEF RowsFrom, n, start
<1> HIDE DEF t
<1>10. IsReading(t, ds, end)
  BY <1>8 DEF IsReading, n, start
<1> QED BY <1>9, <1>10 DEF n

RowsBehind(T, m) == [i \in 1 .. Len(T) - m |-> T[m + i].row]

\* The rows behind the m-th thing, when there are only rows behind it.
LEMMA RowsFromIs ==
  ASSUME NEW T, IsThings(T), NEW off, IsLaid(off, T), NEW d, Below(d, off, Len(T), T),
         NEW a \in Nat, off[Len(T)] <= a, NEW m \in 0 .. Len(T),
         \A i \in m + 1 .. Len(T) : IsRow(T[i]) /\ T[i].size > 0
  PROVE  RowsFrom(At(d, a, off[m]), off[Len(T)]) = RowsBehind(T, m)
<1> DEFINE n == Len(T)
           c == n - m
           ds == At(d, a, off[m])
           Read(j) == [ds |-> At(d, a, off[m + j]), rows |-> [i \in 1 .. j |-> T[m + i].row]]
<1>1. n \in Nat /\ m \in Nat /\ c \in Nat /\ m + c = n
  BY DEF IsThings
<1>2. ds.size = a
  BY DEF At
<1>3. PICK t : IsReading(t, ds, off[n]) /\ RowsFrom(ds, off[n]) = t[a].rows
  BY <1>2, RowsFromTurns
<1>4. \A j \in 1 .. c : /\ off[m + j] = off[m + (j - 1)] + T[m + j].size
                        /\ T[m + j].size \in Nat /\ T[m + j].size > 0 /\ off[m + (j - 1)] \in Nat
                        /\ off[m + j] <= off[n] /\ off[n] \in Nat
                        /\ IsRow(T[m + j]) /\ m + j \in 1 .. n
  <2> SUFFICES ASSUME NEW j \in 1 .. c
               PROVE  /\ off[m + j] = off[m + (j - 1)] + T[m + j].size
                      /\ T[m + j].size \in Nat /\ T[m + j].size > 0 /\ off[m + (j - 1)] \in Nat
                      /\ off[m + j] <= off[n] /\ off[n] \in Nat
                      /\ IsRow(T[m + j]) /\ m + j \in 1 .. n
    OBVIOUS
  <2> DEFINE x == m + j
  <2>1. x \in m + 1 .. n /\ x \in 1 .. n /\ x \in 0 .. n /\ n \in 0 .. n /\ x - 1 = m + (j - 1)
    BY <1>1
  <2>2. IsRow(T[x]) /\ T[x].size > 0
    BY <2>1
  <2>3. off[x] = off[x - 1] + T[x].size /\ T[x].size \in Nat /\ off[x - 1] \in Nat
        /\ off[x] <= off[n] /\ off[n] \in Nat
    <3> HIDE DEF x
    <3> QED BY <2>1, LaidIs
  <2> QED BY <2>1, <2>2, <2>3
<1> HIDE DEF n, c
\* There are units enough for as many turns as rows.
<1>5. c <= a
  <2> DEFINE R == {j \in 0 .. c : j <= off[m + j]}
  <2>1. 0 \in R
    <3>1. off[m + 0] \in Nat
      BY <1>1, LaidIs DEF n
    <3> QED BY <1>1, <3>1
  <2>2. ASSUME NEW k \in 1 .. c, k - 1 \in R PROVE k \in R
    BY <1>1, <1>4, <2>2
  <2>3. 0 .. c \subseteq R
    <3> HIDE DEF R
    <3> QED BY <1>1, <2>1, <2>2, UpToAll
  <2>4. c <= off[m + c] /\ off[n] \in Nat /\ off[n] <= a
    <3>1. c \in R /\ n \in 0 .. n
      BY <1>1, <2>3
    <3>2. off[n] \in Nat
      BY <3>1, LaidIs DEF n
    <3> QED BY <3>1, <3>2 DEF n
  <2> QED BY <1>1, <2>4
<1> DEFINE X == {T[i].row : i \in 1 .. n}
<1>6. \A j \in 1 .. c : T[m + j].row \in X
  BY <1>4
<1>7. \A j \in 1 .. c : Append([i \in 1 .. j - 1 |-> T[m + i].row], T[m + j].row) = [i \in 1 .. j |-> T[m + i].row]
  <2> SUFFICES ASSUME NEW j \in 1 .. c
               PROVE  Append([i \in 1 .. j - 1 |-> T[m + i].row], T[m + j].row) = [i \in 1 .. j |-> T[m + i].row]
    OBVIOUS
  <2> DEFINE s == [i \in 1 .. j - 1 |-> T[m + i].row]
             u == [i \in 1 .. j |-> T[m + i].row]
  <2>1. s \in [1 .. j - 1 -> X] /\ u \in [1 .. j -> X]
    <3>1. \A i \in 1 .. j : i \in 1 .. c
      BY <1>1
    <3>2. \A i \in 1 .. j - 1 : i \in 1 .. j
      BY <1>1
    <3> HIDE DEF X
    <3> QED BY <1>6, <3>1, <3>2
  <2>2. s \in Seq(X) /\ Len(s) = j - 1 /\ u \in Seq(X) /\ Len(u) = j
    <3>1. j \in Nat /\ j - 1 \in Nat
      BY <1>1
    <3> HIDE DEF X, s, u
    <3> QED BY <2>1, <3>1, SeqDef, LenProperties
  <2>3. Append(s, T[m + j].row) \in Seq(X) /\ Len(Append(s, T[m + j].row)) = j
        /\ Append(s, T[m + j].row)[j] = T[m + j].row
        /\ \A i \in 1 .. j - 1 : Append(s, T[m + j].row)[i] = s[i]
    <3>1. T[m + j].row \in X /\ (j - 1) + 1 = j
      BY <1>6
    <3> HIDE DEF X, s
    <3> QED BY <2>2, <3>1, AppendProperties
  <2>4. \A i \in 1 .. j : Append(s, T[m + j].row)[i] = u[i]
    <3> SUFFICES ASSUME NEW i \in 1 .. j PROVE Append(s, T[m + j].row)[i] = u[i]
      OBVIOUS
    <3>1. CASE i = j
      BY <2>3, <3>1
    <3>2. CASE i # j
      <4>1. i \in 1 .. j - 1
        BY <3>2
      <4>2. s[i] = T[m + i].row /\ u[i] = T[m + i].row
        BY <4>1
      <4> HIDE DEF s, u
      <4> QED BY <2>3, <4>1, <4>2
    <3> QED BY <3>1, <3>2
  <2> HIDE DEF X, s, u
  <2> QED BY <2>2, <2>3, <2>4, SeqEqual DEF s, u
<1> DEFINE Q == {k \in 0 .. a : t[k] = Read(Smaller(k, c))}
<1>8. 0 \in Q
  <2>1. t[0] = [ds |-> ds, rows |-> << >>]
    BY <1>3 DEF IsReading
  <2>2. Smaller(0, c) = 0
    BY <1>1 DEF Smaller
  <2>3. [i \in 1 .. 0 |-> T[m + i].row] = << >>
    OBVIOUS
  <2>4. Read(0) = [ds |-> ds, rows |-> << >>]
    BY <1>1, <2>3
  <2> HIDE DEF Read, ds
  <2> QED BY <2>1, <2>2, <2>4
<1>9. ASSUME NEW k \in 1 .. a, k - 1 \in Q PROVE k \in Q
  <2>1. t[k] = RowRead(t[k - 1], off[n])
    BY <1>2, <1>3 DEF IsReading
  <2>2. CASE k <= c
    <3>1. Smaller(k - 1, c) = k - 1 /\ Smaller(k, c) = k /\ k \in 1 .. c
      BY <1>1, <2>2 DEF Smaller
    <3>2. t[k - 1] = Read(k - 1)
      BY <1>9, <3>1
    <3>3. /\ off[m + k] = off[m + (k - 1)] + T[m + k].size
          /\ T[m + k].size \in Nat /\ T[m + k].size > 0 /\ off[m + (k - 1)] \in Nat
          /\ off[m + k] <= off[n] /\ off[n] \in Nat
          /\ IsRow(T[m + k]) /\ m + k \in 1 .. n
      BY <1>4, <3>1
    <3> DEFINE here == At(d, a, off[m + (k - 1)])
    <3>4. Here(here) = T[m + k]
      <4> DEFINE x == m + k
      <4>1. x \in 1 .. Len(T) /\ T[x].size > 0 /\ off[Len(T)] <= a
        BY <3>3 DEF n
      <4>2. Here(At(d, a, off[x - 1])) = T[x]
        <5> HIDE DEF x
        <5> QED BY <4>1, HereIs
      <4>3. x - 1 = m + (k - 1)
        BY <1>1
      <4> QED BY <4>2, <4>3
    <3>5. Past(here, T[m + k].size) = At(d, a, off[m + k])
      <4>1. off[m + (k - 1)] + T[m + k].size <= a
        BY <3>3 DEF n
      <4> QED BY <3>3, <4>1, PastIs
    <3>6. here.position = off[m + (k - 1)] /\ off[m + (k - 1)] < off[n]
      BY <3>3 DEF At
    <3>7. t[k - 1].ds = here /\ t[k - 1].rows = [i \in 1 .. k - 1 |-> T[m + i].row]
      BY <3>2
    <3> HIDE DEF here
    <3>8. RowRead(t[k - 1], off[n]) =
            [ds |-> At(d, a, off[m + k]), rows |-> Append(t[k - 1].rows, T[m + k].row)]
      BY <3>3, <3>4, <3>5, <3>6, <3>7 DEF RowRead
    <3>9. Append(t[k - 1].rows, T[m + k].row) = [i \in 1 .. k |-> T[m + i].row]
      BY <1>7, <3>1, <3>7
    <3>10. t[k] = Read(k)
      BY <2>1, <3>8, <3>9
    <3> HIDE DEF Read
    <3> QED BY <3>1, <3>10
  <2>3. CASE ~ (k <= c)
    <3>1. Smaller(k - 1, c) = c /\ Smaller(k, c) = c
      BY <1>1, <2>3 DEF Smaller
    <3>2. t[k - 1] = Read(c)
      BY <1>9, <3>1
    <3>3. t[k - 1].ds.position = off[n] /\ off[n] \in Nat
      <4>1. Read(c).ds.position = off[n]
        BY <1>1 DEF At
      <4>2. off[n] \in Nat
        BY <1>1, LaidIs DEF n
      <4> QED BY <3>2, <4>1, <4>2
    <3>4. RowRead(t[k - 1], off[n]) = t[k - 1]
      BY <3>3 DEF RowRead
    <3> HIDE DEF Read
    <3> QED BY <2>1, <3>1, <3>2, <3>4
  <2> QED BY <2>2, <2>3
<1>10. a \in Q
  <2>1. 0 .. a \subseteq Q
    <3> HIDE DEF Q
    <3> QED BY <1>8, <1>9, UpToAll
  <2> HIDE DEF Q
  <2> QED BY <2>1
<1>11. Smaller(a, c) = c
  BY <1>1, <1>5 DEF Smaller
<1>12. t[a].rows = [i \in 1 .. c |-> T[m + i].row]
  <2>1. t[a] = Read(c)
    <3> HIDE DEF Read
    <3> QED BY <1>10, <1>11
  <2> QED BY <2>1
<1> QED BY <1>3, <1>12 DEF n, c, RowsBehind

-----------------------------------------------------------------------------
(* What is in the file, and nothing else.                                  *)

LEMMA UpToIs ==
  ASSUME NEW T, IsThings(T), NEW off, IsLaid(off, T), NEW d, IsData(d), Below(d, off, Len(T), T)
  PROVE  Holds(UpTo(d, off[Len(T)]), off, T)
<1> DEFINE e == off[Len(T)]
           D == {q \in DOMAIN d : q < e}
           o == [p \in D |-> d[p]]
<1>1. UpTo(d, e) = o
  BY DEF UpTo
<1>2. o = [p \in DOMAIN o |-> o[p]] /\ DOMAIN o = D /\ \A p \in D : o[p] = d[p]
  OBVIOUS
<1> HIDE DEF o
<1>3. IsData(o)
  BY <1>2 DEF IsData
<1>4. \A i \in 1 .. Len(T) : T[i].size > 0 => off[i - 1] < e
  <2> SUFFICES ASSUME NEW i \in 1 .. Len(T), T[i].size > 0 PROVE off[i - 1] < e
    OBVIOUS
  <2>1. i \in 0 .. Len(T) /\ Len(T) \in 0 .. Len(T)
    BY DEF IsThings
  <2>2. off[i] = off[i - 1] + T[i].size /\ T[i].size \in Nat /\ off[i - 1] \in Nat /\ off[i] <= e /\ e \in Nat
    BY <2>1, LaidIs
  <2> HIDE DEF e
  <2> QED BY <2>2
<1>5. Below(o, off, Len(T), T)
  <2>1. \A p \in DOMAIN o : p < e => \E i \in 1 .. Len(T) : T[i].size > 0 /\ p = off[i - 1]
    BY <1>2 DEF Below
  <2>2. \A i \in 1 .. Len(T) : T[i].size > 0 => off[i - 1] \in DOMAIN o /\ o[off[i - 1]] = T[i]
    BY <1>2, <1>4 DEF Below
  <2> QED BY <2>1, <2>2 DEF Below
<1>6. \A p \in DOMAIN o : p < e
  BY <1>2
<1> QED BY <1>1, <1>3, <1>5, <1>6 DEF Holds

\* Everything in the file lies before its end.
LEMMA HeldWithin ==
  ASSUME NEW T, IsThings(T), NEW off, IsLaid(off, T), NEW d, Holds(d, off, T), NEW p \in DOMAIN d
  PROVE  \E i \in 1 .. Len(T) : /\ T[i].size > 0 /\ p = off[i - 1] /\ d[p] = T[i]
                                /\ p + d[p].size = off[i] /\ off[i] <= off[Len(T)]
<1>1. PICK i \in 1 .. Len(T) : T[i].size > 0 /\ p = off[i - 1]
  BY DEF Holds, Below
<1>2. d[p] = T[i]
  BY <1>1 DEF Holds, Below
<1>3. off[i] = off[i - 1] + T[i].size /\ off[i] <= off[Len(T)]
  <2>1. i \in 0 .. Len(T) /\ Len(T) \in 0 .. Len(T)
    BY DEF IsThings
  <2> QED BY <2>1, LaidIs
<1> QED BY <1>1, <1>2, <1>3

\* Things that take room lie at places of their own.
LEMMA LaidApart ==
  ASSUME NEW T, IsThings(T), NEW off, IsLaid(off, T), NEW i \in 1 .. Len(T), NEW j \in 1 .. Len(T),
         T[i].size > 0, T[j].size > 0, off[i - 1] = off[j - 1]
  PROVE  i = j
<1>1. ASSUME NEW x \in 1 .. Len(T), NEW y \in 1 .. Len(T), x < y, T[x].size > 0 PROVE off[x - 1] < off[y - 1]
  <2>1. x \in 0 .. y - 1 /\ y - 1 \in 0 .. Len(T)
    BY <1>1 DEF IsThings
  <2>2. off[x] <= off[y - 1] /\ off[y - 1] \in Nat /\ off[x] = off[x - 1] + T[x].size /\ T[x].size \in Nat /\ off[x - 1] \in Nat
    BY <2>1, LaidIs
  <2> QED BY <1>1, <2>2
<1>2. i \in Nat /\ j \in Nat
  BY DEF IsThings
<1>3. off[i - 1] \in Nat
  BY LaidIs
<1> QED BY <1>1, <1>2, <1>3

\* The things that are rows are those at pos, c of them.
HasRowsAt(T, c, pos) ==
  /\ c \in Nat /\ pos \in [1 .. c -> 1 .. Len(T)]
  /\ \A j, k \in 1 .. c : pos[j] = pos[k] => j = k
  /\ \A i \in 1 .. Len(T) : IsRow(T[i]) <=> \E j \in 1 .. c : i = pos[j]
  /\ \A i \in 1 .. Len(T) : IsRow(T[i]) => T[i].size > 0

RowsIn(d) == {p \in DOMAIN d : IsRow(d[p])}

\* As many rows as things that are rows.
LEMMA RowsHeld ==
  ASSUME NEW T, IsThings(T), NEW off, IsLaid(off, T), NEW d, Holds(d, off, T),
         NEW c, NEW pos, HasRowsAt(T, c, pos)
  PROVE  /\ RowsIn(d) = {off[pos[j] - 1] : j \in 1 .. c}
         /\ Cardinality(RowsIn(d)) = c
<1>0. /\ c \in Nat /\ pos \in [1 .. c -> 1 .. Len(T)]
      /\ \A j, k \in 1 .. c : pos[j] = pos[k] => j = k
      /\ \A i \in 1 .. Len(T) : IsRow(T[i]) <=> \E j \in 1 .. c : i = pos[j]
      /\ \A i \in 1 .. Len(T) : IsRow(T[i]) => T[i].size > 0
  BY DEF HasRowsAt
<1> DEFINE R == {p \in DOMAIN d : IsRow(d[p])}
           f == [j \in 1 .. c |-> off[pos[j] - 1]]
<1>1. \A j \in 1 .. c : pos[j] \in 1 .. Len(T) /\ IsRow(T[pos[j]]) /\ T[pos[j]].size > 0
  BY <1>0
<1>2. \A j \in 1 .. c : off[pos[j] - 1] \in DOMAIN d /\ d[off[pos[j] - 1]] = T[pos[j]]
  BY <1>1 DEF Holds, Below
<1>3. \A j \in 1 .. c : off[pos[j] - 1] \in R
  BY <1>1, <1>2
<1>4. \A p \in R : \E j \in 1 .. c : p = off[pos[j] - 1]
  <2> SUFFICES ASSUME NEW p \in R PROVE \E j \in 1 .. c : p = off[pos[j] - 1]
    OBVIOUS
  <2>1. PICK i \in 1 .. Len(T) : p = off[i - 1] /\ d[p] = T[i]
    BY HeldWithin
  <2> QED BY <1>0, <2>1
<1>5. R = {off[pos[j] - 1] : j \in 1 .. c}
  BY <1>3, <1>4
<1>6. \A j, k \in 1 .. c : off[pos[j] - 1] = off[pos[k] - 1] => j = k
  <2> SUFFICES ASSUME NEW j \in 1 .. c, NEW k \in 1 .. c, off[pos[j] - 1] = off[pos[k] - 1] PROVE pos[j] = pos[k]
    BY <1>0
  <2> DEFINE x == pos[j]
             y == pos[k]
  <2>1. x \in 1 .. Len(T) /\ y \in 1 .. Len(T) /\ T[x].size > 0 /\ T[y].size > 0 /\ off[x - 1] = off[y - 1]
    BY <1>1
  <2>2. x = y
    <3> HIDE DEF x, y
    <3> QED BY <2>1, LaidApart
  <2> QED BY <2>2
<1> HIDE DEF R
<1>7. f \in [1 .. c -> R] /\ \A j \in 1 .. c : f[j] = off[pos[j] - 1]
  BY <1>3
<1> HIDE DEF f
<1>8. f \in Bijection(1 .. c, R)
  <2>1. \A j, k \in 1 .. c : f[j] = f[k] => j = k
    BY <1>6, <1>7
  <2>2. ASSUME NEW p \in R PROVE \E j \in 1 .. c : f[j] = p
    <3>1. PICK j \in 1 .. c : p = off[pos[j] - 1]
      BY <1>4
    <3> QED BY <1>7, <3>1
  <2> QED BY <1>7, <2>1, <2>2, Fun_IsBij
<1>9. Cardinality(R) = c
  <2>1. ExistsBijection(1 .. c, R)
    BY <1>8 DEF ExistsBijection
  <2> QED BY <1>0, <2>1, FS_CountingElements
<1> QED BY <1>5, <1>9 DEF R, RowsIn

-----------------------------------------------------------------------------
(* The weight vector and its free room.                                    *)

Thetas == {None} \cup [kind : {"theta"}, size : Nat \ {0}, knows : SUBSET Examples]

ThetaRoom(theta) == IF theta = None THEN DefaultSize ELSE RoomAbove(theta.size)

LEMMA ThetaThingsAre ==
  ASSUME NEW theta \in Thetas
  PROVE  \E free \in Nat \ {0} :
           /\ ThetaThings(theta) = <<theta, [kind |-> "fill", size |-> 1, free |-> free],
                                            [kind |-> "zeroes", size |-> free]>>
           /\ theta.size + free = ThetaRoom(theta)
           /\ theta.size \in Nat /\ (theta # None => theta.size > 0 /\ theta.kind = "theta" /\ theta.knows \subseteq Examples)
           /\ (theta = None => theta.size = 0)
<1> DEFINE free == ThetaRoom(theta) - theta.size
<1>1. DefaultSize \in Nat \ {0}
  BY DataStreamAssumption
<1>2. CASE theta = None
  <2>1. theta.size = 0 /\ ThetaRoom(theta) = DefaultSize
    BY <1>2 DEF None, ThetaRoom
  <2>2. free \in Nat \ {0} /\ theta.size + free = ThetaRoom(theta)
    BY <1>1, <2>1
  <2>3. ThetaThings(theta) = <<theta, [kind |-> "fill", size |-> 1, free |-> free],
                                      [kind |-> "zeroes", size |-> free]>>
    BY DEF ThetaThings, ThetaRoom
  <2> HIDE DEF free
  <2> QED BY <1>2, <2>1, <2>2, <2>3
<1>3. CASE theta # None
  <2>1. theta.size \in Nat \ {0} /\ theta.kind = "theta" /\ theta.knows \subseteq Examples
    BY <1>3 DEF Thetas
  <2>2. RoomAbove(theta.size) \in Nat /\ RoomAbove(theta.size) >= theta.size + 1
    <3>1. theta.size + 1 \in Nat
      BY <2>1
    <3> QED BY <1>1, <3>1, DoubledIs DEF RoomAbove
  <2>3. ThetaRoom(theta) = RoomAbove(theta.size)
    BY <1>3 DEF ThetaRoom
  <2>4. free \in Nat \ {0} /\ theta.size + free = ThetaRoom(theta)
    BY <2>1, <2>2, <2>3
  <2>5. ThetaThings(theta) = <<theta, [kind |-> "fill", size |-> 1, free |-> free],
                                      [kind |-> "zeroes", size |-> free]>>
    BY DEF ThetaThings, ThetaRoom
  <2> HIDE DEF free
  <2> QED BY <1>3, <2>1, <2>4, <2>5
<1> QED BY <1>2, <1>3

HasFree(T, i, free) ==
  /\ free \in Nat \ {0}
  /\ T[i + 1] = [kind |-> "fill", size |-> 1, free |-> free]
  /\ T[i + 2] = [kind |-> "zeroes", size |-> free]

\* Read past the weight vector and its free room, the stream stands behind it.
LEMMA AfterThetaIs ==
  ASSUME NEW T, IsThings(T), NEW off, IsLaid(off, T), NEW d, Below(d, off, Len(T), T),
         NEW a \in Nat, off[Len(T)] <= a, NEW i \in 1 .. Len(T), i + 2 <= Len(T),
         NEW theta, theta = T[i], NEW free, HasFree(T, i, free)
  PROVE  /\ AfterTheta(At(d, a, off[i - 1]), theta) = At(d, a, off[i + 2])
         /\ off[i + 2] = off[i - 1] + theta.size + 1 + free
<1> DEFINE j == i + 1
           k == i + 2
<1>1. /\ i \in Nat /\ j \in 1 .. Len(T) /\ k \in 1 .. Len(T) /\ j - 1 = i /\ k - 1 = j
      /\ i \in 0 .. Len(T) /\ j \in 0 .. Len(T) /\ k \in 0 .. Len(T) /\ Len(T) \in 0 .. Len(T)
      /\ T[j].size = 1 /\ T[k].size = free /\ T[j].kind = "fill" /\ T[j].free = free
      /\ T[j] = [kind |-> "fill", size |-> 1, free |-> free] /\ free \in Nat \ {0}
  BY DEF IsThings, HasFree
<1> HIDE DEF j, k
<1>2. /\ off[i] = off[i - 1] + theta.size /\ theta.size \in Nat /\ off[i - 1] \in Nat
      /\ off[j] = off[i] + 1 /\ off[k] = off[j] + free
      /\ off[i] \in Nat /\ off[j] \in Nat /\ off[k] \in Nat /\ off[k] <= off[Len(T)] /\ off[Len(T)] \in Nat
  BY <1>1, LaidIs
<1>3. Past(At(d, a, off[i - 1]), theta.size) = At(d, a, off[i])
  <2>1. off[i - 1] + theta.size <= a /\ off[i - 1] \in Nat /\ theta.size \in Nat
    BY <1>1, <1>2
  <2> DEFINE p == off[i - 1]
             n == theta.size
  <2>2. Past(At(d, a, p), n) = At(d, a, p + n)
    <3>1. p + n <= a /\ p \in Nat /\ n \in Nat
      BY <2>1
    <3> HIDE DEF p, n
    <3> QED BY <3>1, PastIs
  <2> QED BY <1>2, <2>2
<1>4. Here(At(d, a, off[i])) = T[j]
  BY <1>1, HereIs
<1>5. Past(At(d, a, off[i]), 1) = At(d, a, off[j])
  <2>1. off[i] + 1 <= a /\ off[i] \in Nat
    BY <1>1, <1>2
  <2>2. Past(At(d, a, off[i]), 1) = At(d, a, off[i] + 1)
    BY <2>1, PastIs
  <2> QED BY <1>2, <2>2
<1>6. dbseek(At(d, a, off[j]), off[k]) = At(d, a, off[k])
  BY <1>2, SeekIs
<1>7. At(d, a, off[i]).position = off[i]
  BY DEF At
<1>8. off[i] + 1 + free = off[k]
  BY <1>1, <1>2
<1>9. AfterTheta(At(d, a, off[i - 1]), theta) = At(d, a, off[k])
  BY <1>1, <1>3, <1>4, <1>5, <1>6, <1>7, <1>8 DEF AfterTheta
<1>10. off[k] = off[i - 1] + theta.size + 1 + free
  BY <1>1, <1>2
<1> QED BY <1>9, <1>10 DEF k

-----------------------------------------------------------------------------
(* Rows among the things of a file.                                        *)

LEMMA RowThingsAre ==
  ASSUME NEW X, NEW rows \in Seq(Examples), \A e \in Examples : RowThing(e) \in X
  PROVE  /\ RowThings(rows) \in Seq(X) /\ Len(RowThings(rows)) = Len(rows)
         /\ \A i \in 1 .. Len(rows) : RowThings(rows)[i] = RowThing(rows[i]) /\ rows[i] \in Examples
<1>1. Len(rows) \in Nat /\ DOMAIN rows = 1 .. Len(rows) /\ \A i \in 1 .. Len(rows) : rows[i] \in Examples
  BY LenProperties, ElementOfSeq
<1>2. RowThings(rows) \in [1 .. Len(rows) -> X]
  BY <1>1 DEF RowThings
<1>3. \A i \in 1 .. Len(rows) : RowThings(rows)[i] = RowThing(rows[i])
  BY <1>1 DEF RowThings
<1>4. RowThings(rows) \in Seq(X) /\ Len(RowThings(rows)) = Len(rows)
  BY <1>1, <1>2, SeqDef, LenProperties
<1> QED BY <1>1, <1>3, <1>4

LEMMA RowThingIs ==
  ASSUME NEW e \in Examples
  PROVE  /\ RowThing(e).size = SizeOf[e] /\ RowThing(e).size \in Nat /\ RowThing(e).size > 0
         /\ IsRow(RowThing(e)) /\ RowThing(e).row = e
<1>1. Cardinality(Columns(e)) \in Nat
  BY DocIs
<1> QED BY <1>1 DEF RowThing, IsRow, SizeOf

\* They take the sum of their sizes.
LEMMA RowsLaid ==
  ASSUME NEW T, IsThings(T), NEW off, IsLaid(off, T), NEW rows \in Seq(Examples),
         NEW m \in 0 .. Len(T), m + Len(rows) <= Len(T),
         \A i \in 1 .. Len(rows) : T[m + i] = RowThing(rows[i])
  PROVE  off[m + Len(rows)] = off[m] + Total(SizeOf, rows)
<1> DEFINE n == Len(rows)
           f == [k \in 0 .. n |-> off[m + k] - off[m]]
<1>1. n \in Nat /\ m \in Nat /\ off[m] \in Nat /\ \A k \in 1 .. n : rows[k] \in Examples
  BY LenProperties, ElementOfSeq, LaidIs DEF IsThings
<1>2. \A k \in 0 .. n : off[m + k] \in Nat
  <2> SUFFICES ASSUME NEW k \in 0 .. n PROVE off[m + k] \in Nat
    OBVIOUS
  <2> DEFINE x == m + k
  <2>1. x \in 0 .. Len(T)
    BY <1>1 DEF IsThings
  <2> HIDE DEF x
  <2>2. off[x] \in Nat
    BY <2>1, LaidIs
  <2> QED BY <2>2 DEF x
<1>3. ASSUME NEW k \in 1 .. n PROVE off[m + k] = off[m + (k - 1)] + SizeOf[rows[k]]
  <2> DEFINE x == m + k
  <2>1. x \in 1 .. Len(T) /\ x - 1 = m + (k - 1)
    BY <1>1 DEF IsThings
  <2>2. T[x].size = SizeOf[rows[k]]
    BY <1>1, RowThingIs
  <2> HIDE DEF x
  <2>3. off[x] = off[x - 1] + T[x].size
    BY <2>1, LaidIs
  <2> QED BY <2>1, <2>2, <2>3 DEF x
<1>4. f[0] = 0 /\ f[n] = off[m + n] - off[m]
  <2>1. off[m + 0] = off[m]
    BY <1>1
  <2> QED BY <1>1, <2>1
<1>5. ASSUME NEW k \in 1 .. n PROVE f[k] = f[k - 1] + SizeOf[rows[k]]
  <2>1. k \in 0 .. n /\ k - 1 \in 0 .. n /\ SizeOf[rows[k]] \in Nat
    BY <1>1, Weights
  <2>2. f[k] = off[m + k] - off[m] /\ f[k - 1] = off[m + (k - 1)] - off[m]
    BY <2>1
  <2>3. off[m + k] \in Nat /\ off[m + (k - 1)] \in Nat
    BY <1>2, <2>1
  <2> HIDE DEF f
  <2> QED BY <1>1, <1>3, <2>1, <2>2, <2>3
<1> HIDE DEF f
<1>6. f[n] = Total(SizeOf, rows)
  BY <1>4, <1>5, TotalUnique, Weights
<1>7. n \in 0 .. n
  BY <1>1
<1>8. off[m + n] \in Nat
  BY <1>2, <1>7
<1> QED BY <1>1, <1>4, <1>6, <1>8

=============================================================================
