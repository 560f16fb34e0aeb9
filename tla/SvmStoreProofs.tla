--------------------------- MODULE SvmStoreProofs ---------------------------
(***************************************************************************)
(* Theorems about SvmStore.  A file that has a header holds a block: its   *)
(* things lie one after the other, the map says where the rows written     *)
(* with it are, and those appended follow.  So every step is one from      *)
(* block to block, whatever was in the memory the file is written to.      *)
(*                                                                         *)
(* What is set aside for a weight vector (RoomFor) must be what it takes   *)
(* (RoomAbove): where a vector fills its first room exactly it is not, and *)
(* the file is cut off.                                                    *)
(***************************************************************************)
EXTENDS SvmStore, DataStreamProofs

Fits1(n) == RoomFor(n) = RoomAbove(n)

\* No weight vector fills its room exactly.
ThetaFits ==
  \A knows \in SUBSET Examples :
    knows # {} => Fits1(ThetaSize[Cardinality(UNION {Columns(e) : e \in knows})])

Fitting == {theta \in Thetas : theta # None => Fits1(theta.size)}

Blocks ==
  [theta : Fitting, num : Nat, sv : Seq(Examples), old : Seq(Examples), new : Seq(Examples),
   n_old : Nat, counts : AllCounts, map_size : Nat \ {0}]

-----------------------------------------------------------------------------
(* The things of a file.                                                   *)

\* At which thing the i-th row is: the matrix of the old rows is among them.
RowIndex(b, i) == IF i <= Len(b.sv) THEN 7 + i ELSE 8 + i

NumberOf(b) == [kind |-> "number", size |-> 1, n |-> b.num]

HasTheta(T, b) ==
  /\ T[3] = b.theta /\ T[6] = NumberOf(b)
  /\ \E free \in Nat \ {0} : HasFree(T, 3, free) /\ b.theta.size + free = ThetaRoom(b.theta)

HasRows(T, b) ==
  /\ Len(T) = 8 + Len(Rows(b))
  /\ T[7] = MatrixThing(b.sv) /\ T[8 + Len(b.sv)] = MatrixThing(b.old)
  /\ \A i \in 1 .. Len(Rows(b)) : T[RowIndex(b, i)] = RowThing(Rows(b)[i])

\* The things from the weight vector on.
IsBody(T, b) == IsThings(T) /\ HasTheta(T, b) /\ HasRows(T, b)

IsConcat(u, X, s, t, m, n) ==
  /\ u \in Seq(X) /\ Len(u) = m + n
  /\ \A i \in 1 .. m : u[i] = s[i]
  /\ \A i \in 1 .. n : u[m + i] = t[i]

LEMMA ConcatIs ==
  ASSUME NEW X, NEW s \in Seq(X), NEW t \in Seq(X), NEW m \in Nat, NEW n \in Nat, Len(s) = m, Len(t) = n
  PROVE  IsConcat(s \o t, X, s, t, m, n)
<1> DEFINE u == s \o t
<1>1. /\ u \in Seq(X) /\ Len(u) = m + n
      /\ \A i \in 1 .. m + n : u[i] = IF i <= m THEN s[i] ELSE t[i - m]
  BY ConcatProperties
<1> HIDE DEF u
<1>2. \A i \in 1 .. m : i \in 1 .. m + n /\ i <= m
  OBVIOUS
<1>3. \A i \in 1 .. n : m + i \in 1 .. m + n /\ ~ (m + i <= m) /\ (m + i) - m = i
  OBVIOUS
<1>4. \A i \in 1 .. n : u[m + i] = t[i]
  BY <1>1, <1>3
<1> QED BY <1>1, <1>2, <1>4 DEF IsConcat, u

LEMMA RowsAre ==
  ASSUME NEW b \in Blocks
  PROVE  /\ Rows(b) \in Seq(Examples) /\ Len(Rows(b)) = Len(b.sv) + Len(b.old) + Len(b.new)
         /\ Len(b.sv) \in Nat /\ Len(b.old) \in Nat /\ Len(b.new) \in Nat
         /\ \A i \in 1 .. Len(b.sv) : Rows(b)[i] = b.sv[i]
         /\ \A i \in 1 .. Len(b.old) : Rows(b)[Len(b.sv) + i] = b.old[i]
         /\ \A i \in 1 .. Len(b.new) : Rows(b)[Len(b.sv) + Len(b.old) + i] = b.new[i]
<1>1. b.sv \in Seq(Examples) /\ b.old \in Seq(Examples) /\ b.new \in Seq(Examples)
      /\ Len(b.sv) \in Nat /\ Len(b.old) \in Nat /\ Len(b.new) \in Nat
  BY LenProperties DEF Blocks
<1> DEFINE s == Len(b.sv)
           o == Len(b.old)
           n == Len(b.new)
           u == b.sv \o b.old
           k == s + o
<1>2. IsConcat(u, Examples, b.sv, b.old, s, o)
  BY <1>1, ConcatIs
<1>7. s \in Nat /\ o \in Nat /\ n \in Nat
  BY <1>1
<1> HIDE DEF u, s, o, n
<1>3. u \in Seq(Examples) /\ Len(u) = k /\ k \in Nat
  BY <1>2, <1>7 DEF IsConcat
<1> HIDE DEF k
<1>4. IsConcat(u \o b.new, Examples, u, b.new, k, n)
  <2>1. n = Len(b.new)
    BY DEF n
  <2> QED BY <1>1, <1>3, <1>7, <2>1, ConcatIs
<1>5. Rows(b) = u \o b.new
  BY DEF Rows, u
<1>6. IsConcat(Rows(b), Examples, u, b.new, s + o, n)
  BY <1>4, <1>5 DEF k
<1>8. ASSUME NEW i \in 1 .. s PROVE Rows(b)[i] = b.sv[i]
  <2>1. i \in 1 .. s + o
    BY <1>7
  <2> QED BY <1>2, <1>6, <2>1 DEF IsConcat
<1>9. ASSUME NEW i \in 1 .. o PROVE Rows(b)[s + i] = b.old[i]
  <2>1. s + i \in 1 .. s + o
    BY <1>7
  <2> QED BY <1>2, <1>6, <2>1 DEF IsConcat
<1>10. Rows(b) \in Seq(Examples) /\ Len(Rows(b)) = s + o + n
       /\ \A i \in 1 .. n : Rows(b)[s + o + i] = b.new[i]
  BY <1>6 DEF IsConcat
<1> QED BY <1>1, <1>8, <1>9, <1>10 DEF s, o, n

LEMMA RowCountIs ==
  ASSUME NEW b \in Blocks
  PROVE  /\ Len(Rows(b)) \in Nat /\ Len(Rows(b)) >= Len(b.sv) /\ Rows(b) \in Seq(Examples)
         /\ Len(Rows(b)) >= Len(b.sv) + Len(b.old) /\ Len(b.sv) \in Nat
<1> DEFINE s == Len(b.sv)
           o == Len(b.old)
           n == Len(b.new)
           r == Len(Rows(b))
<1>1. r = s + o + n /\ s \in Nat /\ o \in Nat /\ n \in Nat /\ Rows(b) \in Seq(Examples)
  BY RowsAre
<1> HIDE DEF s, o, n, r
<1>2. r \in Nat /\ r >= s /\ r >= s + o
  BY <1>1
<1> QED BY <1>1, <1>2 DEF s, o, n, r

\* What write_svm_db_dsp writes first.
LEMMA ThingsAre ==
  ASSUME NEW b \in Blocks
  PROVE  /\ IsBody(Things(b), b)
         /\ Things(b)[1] = HeaderOf(b) /\ Things(b)[2] = MapThing(b, << >>)
<1> DEFINE T == Things(b)
           s == Len(b.sv)
           o == Len(b.old)
           n == Len(b.new)
<1>1. /\ b.theta \in Thetas /\ b.sv \in Seq(Examples) /\ b.old \in Seq(Examples) /\ b.new \in Seq(Examples)
      /\ s \in Nat /\ o \in Nat /\ n \in Nat /\ b.map_size \in Nat \ {0}
  BY LenProperties DEF Blocks, Fitting
<1>2. PICK free \in Nat \ {0} :
           /\ ThetaThings(b.theta) = <<b.theta, [kind |-> "fill", size |-> 1, free |-> free],
                                                [kind |-> "zeroes", size |-> free]>>
           /\ b.theta.size + free = ThetaRoom(b.theta) /\ b.theta.size \in Nat
  BY <1>1, ThetaThingsAre
<1> DEFINE H == HeaderOf(b)
           M == MapThing(b, << >>)
           F == [kind |-> "fill", size |-> 1, free |-> free]
           Z == [kind |-> "zeroes", size |-> free]
           N == NumberOf(b)
           V == MatrixThing(b.sv)
           O == MatrixThing(b.old)
           X == {H, M, b.theta, F, Z, N, V, O} \cup {RowThing(e) : e \in Examples}
           s1 == <<H, M>>
           s2 == <<b.theta, F, Z>>
           s3 == <<N, V>>
           s4 == RowThings(b.sv)
           s5 == <<O>>
           s6 == RowThings(b.old)
           s7 == RowThings(b.new)
<1>3. \A x \in X : x.size \in Nat
  <2>1. H.size = 1 /\ F.size = 1 /\ Z.size = free /\ N.size = 1 /\ V.size = 1 /\ O.size = 1
    BY DEF HeaderOf, NumberOf, MatrixThing
  <2>2. \A e \in Examples : RowThing(e).size \in Nat
    BY RowThingIs
  <2>3. M.size \in Nat
    <3>1. Len(Rows(b)) \in Nat
      BY RowsAre
    <3>2. MapFor(b) \in Nat
      BY <1>1, <3>1, DoubledIs DEF MapFor
    <3> QED BY <3>2 DEF MapThing
  <2> QED BY <1>2, <2>1, <2>2, <2>3
<1>4. /\ s1 \in Seq(X) /\ Len(s1) = 2 /\ s1[1] = H /\ s1[2] = M
      /\ s2 \in Seq(X) /\ Len(s2) = 3 /\ s2[1] = b.theta /\ s2[2] = F /\ s2[3] = Z
      /\ s3 \in Seq(X) /\ Len(s3) = 2 /\ s3[1] = N /\ s3[2] = V
      /\ s5 \in Seq(X) /\ Len(s5) = 1 /\ s5[1] = O
  <2>1. H \in X /\ M \in X /\ b.theta \in X /\ F \in X /\ Z \in X /\ N \in X /\ V \in X /\ O \in X
    OBVIOUS
  <2> HIDE DEF X, H, M, F, Z, N, V, O
  <2> QED BY <2>1
<1>5. /\ s4 \in Seq(X) /\ Len(s4) = s /\ \A i \in 1 .. s : s4[i] = RowThing(b.sv[i])
      /\ s6 \in Seq(X) /\ Len(s6) = o /\ \A i \in 1 .. o : s6[i] = RowThing(b.old[i])
      /\ s7 \in Seq(X) /\ Len(s7) = n /\ \A i \in 1 .. n : s7[i] = RowThing(b.new[i])
  <2>1. \A e \in Examples : RowThing(e) \in X
    OBVIOUS
  <2> HIDE DEF X
  <2> QED BY <1>1, <2>1, RowThingsAre
<1>6. T = (((((s1 \o s2) \o s3) \o s4) \o s5) \o s6) \o s7
  BY <1>2 DEF Things, NumberOf
<1> HIDE DEF X, H, M, F, Z, N, V, O, s1, s2, s3, s4, s5, s6, s7, T, s, o, n
<1> DEFINE u2 == s1 \o s2
           u3 == u2 \o s3
           u4 == u3 \o s4
           u5 == u4 \o s5
           u6 == u5 \o s6
           u7 == u6 \o s7
<1>7. /\ u2 \in Seq(X) /\ Len(u2) = 5 /\ u2[1] = H /\ u2[2] = M
      /\ u2[3] = b.theta /\ u2[4] = F /\ u2[5] = Z
  <2>0. IsConcat(u2, X, s1, s2, 2, 3)
    BY <1>4, ConcatIs
  <2> HIDE DEF u2
  <2>1. /\ u2 \in Seq(X) /\ Len(u2) = 2 + 3
        /\ \A i \in 1 .. 2 : u2[i] = s1[i]
        /\ \A i \in 1 .. 3 : u2[2 + i] = s2[i]
    BY <2>0 DEF IsConcat
  <2>2. u2[2 + 1] = s2[1] /\ u2[2 + 2] = s2[2] /\ u2[2 + 3] = s2[3] /\ u2[1] = s1[1] /\ u2[2] = s1[2]
    BY <2>1
  <2> QED BY <1>4, <2>1, <2>2
<1> HIDE DEF u2
<1>8. /\ u3 \in Seq(X) /\ Len(u3) = 7 /\ \A i \in 1 .. 5 : u3[i] = u2[i]
      /\ u3[6] = N /\ u3[7] = V
  <2>0. IsConcat(u3, X, u2, s3, 5, 2)
    BY <1>4, <1>7, ConcatIs
  <2> HIDE DEF u3
  <2>1. /\ u3 \in Seq(X) /\ Len(u3) = 5 + 2
        /\ \A i \in 1 .. 5 : u3[i] = u2[i]
        /\ \A i \in 1 .. 2 : u3[5 + i] = s3[i]
    BY <2>0 DEF IsConcat
  <2>2. u3[5 + 1] = s3[1] /\ u3[5 + 2] = s3[2]
    BY <2>1
  <2> QED BY <1>4, <2>1, <2>2
<1> HIDE DEF u3
<1>9. /\ u4 \in Seq(X) /\ Len(u4) = 7 + s /\ \A i \in 1 .. 7 : u4[i] = u3[i]
      /\ \A i \in 1 .. s : u4[7 + i] = s4[i]
  <2>1. s \in Nat
    BY <1>1 DEF s
  <2>2. IsConcat(u4, X, u3, s4, 7, s)
    BY <1>5, <1>8, <2>1, ConcatIs
  <2> HIDE DEF u4
  <2> QED BY <2>2 DEF IsConcat
<1> HIDE DEF u4
<1>10. /\ u5 \in Seq(X) /\ Len(u5) = 8 + s /\ \A i \in 1 .. 7 + s : u5[i] = u4[i]
       /\ u5[8 + s] = O
  <2> DEFINE k == 7 + s
  <2>1. k \in Nat /\ 1 \in Nat /\ u4 \in Seq(X) /\ s5 \in Seq(X) /\ Len(u4) = k /\ Len(s5) = 1
    BY <1>1, <1>4, <1>9
  <2>2. k + 1 = 8 + s /\ k = 7 + s /\ 1 \in 1 .. 1
    BY <1>1
  <2> HIDE DEF k
  <2>0. IsConcat(u5, X, u4, s5, k, 1)
    BY <2>1, ConcatIs
  <2> HIDE DEF u5
  <2>3. /\ u5 \in Seq(X) /\ Len(u5) = k + 1 /\ \A i \in 1 .. k : u5[i] = u4[i]
        /\ \A i \in 1 .. 1 : u5[k + i] = s5[i]
    BY <2>0 DEF IsConcat
  <2>4. u5[k + 1] = s5[1]
    BY <2>2, <2>3
  <2> QED BY <1>4, <2>2, <2>3, <2>4
<1> HIDE DEF u5
<1>11. /\ u6 \in Seq(X) /\ Len(u6) = 8 + s + o /\ \A i \in 1 .. 8 + s : u6[i] = u5[i]
       /\ \A i \in 1 .. o : u6[8 + s + i] = s6[i]
  <2> DEFINE k == 8 + s
  <2>1. k \in Nat /\ o \in Nat /\ u5 \in Seq(X) /\ s6 \in Seq(X) /\ Len(u5) = k /\ Len(s6) = o
    BY <1>1, <1>5, <1>10
  <2> HIDE DEF k
  <2>0. IsConcat(u6, X, u5, s6, k, o)
    BY <2>1, ConcatIs
  <2> HIDE DEF u6
  <2>2. /\ u6 \in Seq(X) /\ Len(u6) = k + o /\ \A i \in 1 .. k : u6[i] = u5[i]
        /\ \A i \in 1 .. o : u6[k + i] = s6[i]
    BY <2>0 DEF IsConcat
  <2> QED BY <2>2 DEF k
<1> HIDE DEF u6
<1>12. /\ u7 \in Seq(X) /\ Len(u7) = 8 + s + o + n /\ \A i \in 1 .. 8 + s + o : u7[i] = u6[i]
       /\ \A i \in 1 .. n : u7[8 + s + o + i] = s7[i]
  <2> DEFINE k == 8 + s + o
  <2>1. k \in Nat /\ n \in Nat /\ u6 \in Seq(X) /\ s7 \in Seq(X) /\ Len(u6) = k /\ Len(s7) = n
    BY <1>1, <1>5, <1>11
  <2> HIDE DEF k
  <2>0. IsConcat(u7, X, u6, s7, k, n)
    BY <2>1, ConcatIs
  <2> HIDE DEF u7
  <2>2. /\ u7 \in Seq(X) /\ Len(u7) = k + n /\ \A i \in 1 .. k : u7[i] = u6[i]
        /\ \A i \in 1 .. n : u7[k + i] = s7[i]
    BY <2>0 DEF IsConcat
  <2> QED BY <2>2 DEF k
<1>13. T = u7
  BY <1>6 DEF u2, u3, u4, u5, u6
<1> HIDE DEF u7
<1>14. \A i \in 1 .. 7 : T[i] = u3[i]
  <2>1. \A i \in 1 .. 7 : i \in 1 .. 7 + s /\ i \in 1 .. 8 + s /\ i \in 1 .. 8 + s + o
    BY <1>1
  <2> QED BY <1>9, <1>10, <1>11, <1>12, <1>13, <2>1
<1>15. T[8 + s] = O
  <2>1. 8 + s \in 1 .. 8 + s /\ 8 + s \in 1 .. 8 + s + o
    BY <1>1
  <2> QED BY <1>10, <1>11, <1>12, <1>13, <2>1
<1>16. /\ T[1] = H /\ T[2] = M /\ T[3] = b.theta /\ T[4] = F /\ T[5] = Z /\ T[6] = N /\ T[7] = V
  <2>1. \A i \in 1 .. 5 : T[i] = u2[i]
    <3>1. \A i \in 1 .. 5 : i \in 1 .. 7
      OBVIOUS
    <3> QED BY <1>8, <1>14, <3>1
  <2>2. T[1] = u2[1] /\ T[2] = u2[2] /\ T[3] = u2[3] /\ T[4] = u2[4] /\ T[5] = u2[5]
    BY <2>1
  <2>3. T[6] = u3[6] /\ T[7] = u3[7]
    BY <1>14
  <2> QED BY <1>7, <1>8, <2>2, <2>3
<1>17. /\ Len(Rows(b)) = s + o + n
       /\ \A i \in 1 .. s : Rows(b)[i] = b.sv[i]
       /\ \A i \in 1 .. o : Rows(b)[s + i] = b.old[i]
       /\ \A i \in 1 .. n : Rows(b)[s + o + i] = b.new[i]
  BY RowsAre DEF s, o, n
<1>18. ASSUME NEW i \in 1 .. Len(Rows(b)) PROVE T[RowIndex(b, i)] = RowThing(Rows(b)[i])
  <2>1. CASE i <= s
    <3>1. i \in 1 .. s /\ 7 + i \in 1 .. 7 + s /\ 7 + i \in 1 .. 8 + s /\ 7 + i \in 1 .. 8 + s + o
      BY <1>1, <1>17, <2>1
    <3>2. RowIndex(b, i) = 7 + i
      BY <2>1 DEF RowIndex, s
    <3>3. T[7 + i] = s4[i]
      BY <1>9, <1>10, <1>11, <1>12, <1>13, <3>1
    <3> QED BY <1>5, <1>17, <3>1, <3>2, <3>3
  <2>2. CASE s < i /\ i <= s + o
    <3> DEFINE j == i - s
    <3>1. j \in 1 .. o /\ s + j = i /\ 8 + i = 8 + s + j /\ 8 + s + j \in 1 .. 8 + s + o
      BY <1>1, <1>17, <2>2
    <3>2. RowIndex(b, i) = 8 + i
      BY <1>1, <1>17, <2>2 DEF RowIndex, s
    <3> HIDE DEF j
    <3>3. T[8 + s + j] = s6[j]
      BY <1>11, <1>12, <1>13, <3>1
    <3>4. T[8 + i] = s6[j]
      BY <3>1, <3>3
    <3>5. Rows(b)[i] = b.old[j]
      BY <1>17, <3>1
    <3> QED BY <1>5, <3>1, <3>2, <3>4, <3>5
  <2>3. CASE s + o < i
    <3> DEFINE j == i - (s + o)
    <3>1. j \in 1 .. n /\ s + o + j = i /\ 8 + i = 8 + s + o + j
      BY <1>1, <1>17, <2>3
    <3>2. RowIndex(b, i) = 8 + i
      BY <1>1, <1>17, <2>3 DEF RowIndex, s
    <3> HIDE DEF j
    <3>3. T[8 + s + o + j] = s7[j]
      BY <1>12, <1>13, <3>1
    <3>4. T[8 + i] = s7[j]
      BY <3>1, <3>3
    <3>5. Rows(b)[i] = b.new[j]
      BY <1>17, <3>1
    <3> QED BY <1>5, <3>1, <3>2, <3>4, <3>5
  <2> QED BY <1>1, <1>17, <2>1, <2>2, <2>3
<1>19. IsThings(T)
  <2>1. T \in Seq(X)
    BY <1>12, <1>13
  <2>2. Len(T) \in Nat /\ DOMAIN T = 1 .. Len(T) /\ \A i \in 1 .. Len(T) : T[i] \in X
    BY <2>1, LenProperties, ElementOfSeq
  <2> QED BY <1>3, <2>2 DEF IsThings
<1>20. HasTheta(T, b)
  <2>1. HasFree(T, 3, free)
    <3>1. T[3 + 1] = F /\ T[3 + 2] = Z
      BY <1>16
    <3> QED BY <3>1 DEF HasFree, F, Z
  <2> QED BY <1>2, <1>16, <2>1 DEF HasTheta, N
<1>21. HasRows(T, b)
  <2>1. Len(T) = 8 + Len(Rows(b))
    BY <1>1, <1>12, <1>13, <1>17
  <2> QED BY <1>15, <1>16, <1>18, <2>1 DEF HasRows, V, O, s
<1> QED BY <1>16, <1>19, <1>20, <1>21 DEF IsBody, T, H, M
-----------------------------------------------------------------------------
(* Where the things of a file are.                                         *)

LEMMA BodyRows ==
  ASSUME NEW b \in Blocks, NEW T, IsBody(T, b)
  PROVE  /\ \A i \in 1 .. Len(b.sv) : T[7 + i] = RowThing(b.sv[i])
         /\ \A i \in 1 .. Len(b.old) : T[8 + Len(b.sv) + i] = RowThing(b.old[i])
         /\ \A i \in 1 .. Len(b.new) : T[8 + Len(b.sv) + Len(b.old) + i] = RowThing(b.new[i])
<1> DEFINE s == Len(b.sv)
           o == Len(b.old)
           n == Len(b.new)
           R == Rows(b)
<1>1. /\ Len(R) = s + o + n /\ s \in Nat /\ o \in Nat /\ n \in Nat
      /\ \A i \in 1 .. s : R[i] = b.sv[i]
      /\ \A i \in 1 .. o : R[s + i] = b.old[i]
      /\ \A i \in 1 .. n : R[s + o + i] = b.new[i]
  BY RowsAre
<1>2. \A i \in 1 .. Len(R) : T[IF i <= s THEN 7 + i ELSE 8 + i] = RowThing(R[i])
  BY DEF IsBody, HasRows, RowIndex
<1> HIDE DEF s, o, n, R
<1>3. ASSUME NEW i \in 1 .. s PROVE T[7 + i] = RowThing(b.sv[i])
  <2>1. i \in 1 .. Len(R) /\ i <= s
    BY <1>1
  <2> QED BY <1>1, <1>2, <2>1
<1>4. ASSUME NEW i \in 1 .. o PROVE T[8 + s + i] = RowThing(b.old[i])
  <2> DEFINE j == s + i
  <2>1. j \in 1 .. Len(R) /\ ~ (j <= s) /\ 8 + j = 8 + s + i
    BY <1>1
  <2>2. R[j] = b.old[i]
    BY <1>1
  <2> HIDE DEF j
  <2>3. T[8 + j] = RowThing(R[j])
    BY <1>2, <2>1
  <2> QED BY <2>1, <2>2, <2>3
<1>5. ASSUME NEW i \in 1 .. n PROVE T[8 + s + o + i] = RowThing(b.new[i])
  <2> DEFINE j == s + o + i
  <2>1. j \in 1 .. Len(R) /\ ~ (j <= s) /\ 8 + j = 8 + s + o + i
    BY <1>1
  <2>2. R[j] = b.new[i]
    BY <1>1
  <2> HIDE DEF j
  <2>3. T[8 + j] = RowThing(R[j])
    BY <1>2, <2>1
  <2> QED BY <2>1, <2>2, <2>3
<1> QED BY <1>3, <1>4, <1>5 DEF s, o, n

LEMMA SizesAre ==
  ASSUME NEW b \in Blocks
  PROVE  /\ RowsSize(b.sv) = Total(SizeOf, b.sv) /\ Total(SizeOf, b.sv) \in Nat
         /\ RowsSize(b.old) = Total(SizeOf, b.old) /\ Total(SizeOf, b.old) \in Nat
         /\ RowsSize(b.new) = Total(SizeOf, b.new) /\ Total(SizeOf, b.new) \in Nat
         /\ ThetaRoom(b.theta) \in Nat /\ ThetaRoom(b.theta) <= RoomFor(IF b.theta = None THEN 1 ELSE b.theta.size)
         /\ RoomFor(IF b.theta = None THEN 1 ELSE b.theta.size) \in Nat
         /\ MapFor(b) \in Nat \ {0} /\ MapFor(b) >= Len(Rows(b)) /\ MapFor(b) >= b.map_size
<1>1. /\ b.sv \in Seq(Examples) /\ b.old \in Seq(Examples) /\ b.new \in Seq(Examples)
      /\ b.theta \in Thetas /\ (b.theta # None => Fits1(b.theta.size)) /\ b.map_size \in Nat \ {0}
  BY DEF Blocks, Fitting
<1>2. /\ RowsSize(b.sv) = Total(SizeOf, b.sv) /\ Total(SizeOf, b.sv) \in Nat
      /\ RowsSize(b.old) = Total(SizeOf, b.old) /\ Total(SizeOf, b.old) \in Nat
      /\ RowsSize(b.new) = Total(SizeOf, b.new) /\ Total(SizeOf, b.new) \in Nat
  BY <1>1, RowsSizeIs, TotalInNat, Weights
<1>3. DefaultSize \in Nat \ {0}
  BY DataStreamAssumption
<1>4. RoomFor(1) \in Nat /\ RoomFor(1) >= DefaultSize
  BY <1>3, DoubledIs DEF RoomFor
<1>5. ASSUME b.theta # None
      PROVE  RoomFor(b.theta.size) \in Nat /\ ThetaRoom(b.theta) = RoomFor(b.theta.size)
  <2>1. b.theta.size \in Nat
    BY <1>1, <1>5 DEF Thetas
  <2> QED BY <1>1, <1>3, <1>5, <2>1, DoubledIs DEF RoomFor, ThetaRoom, Fits1
<1>6. b.theta = None => ThetaRoom(b.theta) = DefaultSize
  BY DEF ThetaRoom
<1>7. MapFor(b) \in Nat \ {0} /\ MapFor(b) >= Len(Rows(b)) /\ MapFor(b) >= b.map_size
  <2> DEFINE n == Len(Rows(b))
  <2>1. n \in Nat
    BY RowsAre
  <2> HIDE DEF n
  <2>2. /\ DoubledTo(b.map_size, n) \in Nat /\ DoubledTo(b.map_size, n) >= n
        /\ DoubledTo(b.map_size, n) >= b.map_size
    BY <1>1, <2>1, DoubledIs
  <2>3. MapFor(b) = DoubledTo(b.map_size, n)
    BY DEF MapFor, n
  <2> QED BY <1>1, <2>2, <2>3 DEF n
<1> QED BY <1>2, <1>3, <1>4, <1>5, <1>6, <1>7

LaidOut(off, b, m, last_thing) ==
  /\ off[0] = 0 /\ off[1] = 1 /\ off[2] = 1 + m
  /\ off[5] = 2 + m + ThetaRoom(b.theta) /\ off[6] = off[5] + 1 /\ off[7] = off[6] + 1
  /\ off[7 + Len(b.sv)] = off[7] + RowsSize(b.sv)
  /\ off[8 + Len(b.sv)] = off[7 + Len(b.sv)] + 1
  /\ off[8 + Len(b.sv) + Len(b.old)] = off[8 + Len(b.sv)] + RowsSize(b.old)
  /\ off[last_thing] = off[8 + Len(b.sv) + Len(b.old)] + RowsSize(b.new)

LEMMA BodyPlaces ==
  ASSUME NEW b \in Blocks, NEW T, IsBody(T, b), NEW off, IsLaid(off, T),
         NEW m \in Nat, T[1].size = 1, T[2].size = m
  PROVE  LaidOut(off, b, m, Len(T))
<1> DEFINE s == Len(b.sv)
           o == Len(b.old)
           n == Len(b.new)
<1>1. /\ IsThings(T) /\ Len(T) = 8 + s + o + n /\ s \in Nat /\ o \in Nat /\ n \in Nat
      /\ T[3] = b.theta /\ T[6] = NumberOf(b) /\ T[7] = MatrixThing(b.sv) /\ T[8 + s] = MatrixThing(b.old)
  <2>1. Len(Rows(b)) = s + o + n /\ s \in Nat /\ o \in Nat /\ n \in Nat
    BY RowsAre
  <2>2. /\ IsThings(T) /\ Len(T) = 8 + Len(Rows(b))
        /\ T[3] = b.theta /\ T[6] = NumberOf(b) /\ T[7] = MatrixThing(b.sv) /\ T[8 + s] = MatrixThing(b.old)
    BY DEF IsBody, HasRows, HasTheta
  <2> HIDE DEF s, o, n
  <2> QED BY <2>1, <2>2
<1>2. PICK free \in Nat \ {0} : HasFree(T, 3, free) /\ b.theta.size + free = ThetaRoom(b.theta)
  BY DEF IsBody, HasTheta
<1>3. T[3 + 1].size = 1 /\ T[3 + 2].size = free
  BY <1>2 DEF HasFree
<1>4. T[6].size = 1 /\ T[7].size = 1 /\ T[8 + s].size = 1
  BY <1>1 DEF NumberOf, MatrixThing
<1> HIDE DEF s, o, n
<1>5. \A k \in 1 .. 8 + s : off[k] = off[k - 1] + T[k].size /\ T[k].size \in Nat /\ off[k - 1] \in Nat
  <2>1. \A k \in 1 .. 8 + s : k \in 1 .. Len(T)
    BY <1>1
  <2> QED BY <1>1, <2>1, LaidIs
<1>6. off[0] = 0 /\ off[1] = 1 /\ off[2] = 1 + m /\ off[5] = 2 + m + ThetaRoom(b.theta)
      /\ off[6] = off[5] + 1 /\ off[7] = off[6] + 1
  <2>1. off[0] = 0
    BY DEF IsLaid
  <2>2. 1 \in 1 .. 8 + s /\ 2 \in 1 .. 8 + s /\ 3 \in 1 .. 8 + s /\ 4 \in 1 .. 8 + s
        /\ 5 \in 1 .. 8 + s /\ 6 \in 1 .. 8 + s /\ 7 \in 1 .. 8 + s
    BY <1>1
  <2>3. off[1] = off[1 - 1] + T[1].size /\ off[2] = off[2 - 1] + T[2].size /\ off[3] = off[3 - 1] + T[3].size
        /\ off[4] = off[4 - 1] + T[4].size /\ off[5] = off[5 - 1] + T[5].size
        /\ off[6] = off[6 - 1] + T[6].size /\ off[7] = off[7 - 1] + T[7].size /\ T[3].size \in Nat
    BY <1>5, <2>2
  <2>4. T[4].size = 1 /\ T[5].size = free
    BY <1>3
  <2>5. off[3] = 1 + m + T[3].size /\ off[4] = off[3] + 1 /\ off[5] = off[4] + free
        /\ T[3].size + free = ThetaRoom(b.theta) /\ off[1] = 1 /\ off[2] = 1 + m
    BY <1>1, <1>2, <2>1, <2>3, <2>4
  <2> QED BY <1>4, <2>1, <2>3, <2>5
<1>7. off[8 + s] = off[7 + s] + 1
  <2> DEFINE k == 8 + s
  <2>1. k \in 1 .. 8 + s /\ k - 1 = 7 + s /\ T[k].size = 1
    BY <1>1, <1>4
  <2>2. off[k] = off[k - 1] + T[k].size
    BY <1>5, <2>1
  <2> QED BY <2>1, <2>2
<1>8. b.sv \in Seq(Examples) /\ b.old \in Seq(Examples) /\ b.new \in Seq(Examples)
      /\ Len(b.sv) = s /\ Len(b.old) = o /\ Len(b.new) = n
  BY DEF Blocks, s, o, n
<1>9. /\ \A i \in 1 .. s : T[7 + i] = RowThing(b.sv[i])
      /\ \A i \in 1 .. o : T[8 + s + i] = RowThing(b.old[i])
      /\ \A i \in 1 .. n : T[8 + s + o + i] = RowThing(b.new[i])
  BY BodyRows DEF s, o, n
<1>10. ASSUME NEW k \in 0 .. Len(T), NEW rows \in Seq(Examples), NEW c, c = Len(rows), k + c <= Len(T),
              \A i \in 1 .. c : T[k + i] = RowThing(rows[i])
       PROVE  off[k + c] = off[k] + Total(SizeOf, rows)
  BY <1>1, <1>10, RowsLaid
<1>11. off[7 + s] = off[7] + Total(SizeOf, b.sv)
  <2> DEFINE k == 7
  <2>1. k \in 0 .. Len(T) /\ k + s <= Len(T) /\ \A i \in 1 .. s : T[k + i] = RowThing(b.sv[i])
    BY <1>1, <1>9
  <2> HIDE DEF k
  <2>2. off[k + s] = off[k] + Total(SizeOf, b.sv)
    BY <1>8, <1>10, <2>1
  <2> QED BY <2>2 DEF k
<1>12. off[8 + s + o] = off[8 + s] + Total(SizeOf, b.old)
  <2> DEFINE k == 8 + s
  <2>1. k \in 0 .. Len(T) /\ k + o <= Len(T) /\ \A i \in 1 .. o : T[k + i] = RowThing(b.old[i])
    BY <1>1, <1>9
  <2> HIDE DEF k
  <2>2. off[k + o] = off[k] + Total(SizeOf, b.old)
    BY <1>8, <1>10, <2>1
  <2> QED BY <2>2 DEF k
<1>13. off[8 + s + o + n] = off[8 + s + o] + Total(SizeOf, b.new)
  <2> DEFINE k == 8 + s + o
  <2>1. k \in 0 .. Len(T) /\ k + n <= Len(T) /\ \A i \in 1 .. n : T[k + i] = RowThing(b.new[i])
    BY <1>1, <1>9
  <2> HIDE DEF k
  <2>2. off[k + n] = off[k] + Total(SizeOf, b.new)
    BY <1>8, <1>10, <2>1
  <2> QED BY <2>2 DEF k
<1>14. Len(T) = 8 + s + o + n
  BY <1>1
<1> QED BY <1>6, <1>7, <1>11, <1>12, <1>13, <1>14, SizesAre DEF s, o, n, LaidOut

LEMMA BlockSizeIs ==
  ASSUME NEW b \in Blocks
  PROVE  block_size(b) \in Nat
<1> DEFINE r == RoomFor(IF b.theta = None THEN 1 ELSE b.theta.size)
<1>1. block_size(b) = 1 + MapFor(b) + (1 + r) + 1 + 1 + RowsSize(b.sv) + 1 + RowsSize(b.old) + RowsSize(b.new)
  BY DEF block_size
<1>2. /\ RowsSize(b.sv) \in Nat /\ RowsSize(b.old) \in Nat /\ RowsSize(b.new) \in Nat
      /\ r \in Nat /\ MapFor(b) \in Nat
  BY SizesAre
<1> HIDE DEF r
<1> QED BY <1>1, <1>2

\* What is written takes no more than block_size says.
LEMMA BodyEnd ==
  ASSUME NEW b \in Blocks, NEW T, IsBody(T, b), NEW off, IsLaid(off, T),
         T[1].size = 1, T[2].size = MapFor(b)
  PROVE  off[Len(T)] \in Nat /\ off[Len(T)] <= block_size(b) /\ off[Len(T)] >= 1 + MapFor(b)
<1>1. MapFor(b) \in Nat
  BY SizesAre
<1> DEFINE m == MapFor(b)
           end == off[Len(T)]
           r == RoomFor(IF b.theta = None THEN 1 ELSE b.theta.size)
<1>2. end = 5 + m + ThetaRoom(b.theta) + RowsSize(b.sv) + RowsSize(b.old) + RowsSize(b.new)
  <2> DEFINE p0 == off[7]
             p1 == off[7 + Len(b.sv)]
             p2 == off[8 + Len(b.sv)]
             p3 == off[8 + Len(b.sv) + Len(b.old)]
  <2>1. m \in Nat /\ T[2].size = m
    BY <1>1
  <2> HIDE DEF m
  <2>2. LaidOut(off, b, m, Len(T))
    BY <2>1, BodyPlaces
  <2>3. /\ off[5] = 2 + m + ThetaRoom(b.theta) /\ off[6] = off[5] + 1 /\ p0 = off[6] + 1
        /\ p1 = p0 + RowsSize(b.sv) /\ p2 = p1 + 1 /\ p3 = p2 + RowsSize(b.old) /\ end = p3 + RowsSize(b.new)
    BY <2>2 DEF LaidOut
  <2>4. /\ ThetaRoom(b.theta) \in Nat /\ RowsSize(b.sv) \in Nat
        /\ RowsSize(b.old) \in Nat /\ RowsSize(b.new) \in Nat
    BY SizesAre
  <2> HIDE DEF p0, p1, p2, p3, end
  <2> QED BY <2>1, <2>3, <2>4
<1>3. block_size(b) = 1 + m + (1 + r) + 1 + 1 + RowsSize(b.sv) + 1 + RowsSize(b.old) + RowsSize(b.new)
  BY DEF block_size
<1>4. /\ RowsSize(b.sv) \in Nat /\ RowsSize(b.old) \in Nat /\ RowsSize(b.new) \in Nat
      /\ ThetaRoom(b.theta) \in Nat /\ ThetaRoom(b.theta) <= r /\ r \in Nat /\ m \in Nat
  BY SizesAre
<1> HIDE DEF m, end, r
<1>5. end \in Nat /\ end <= block_size(b) /\ end >= 1 + m
  BY <1>2, <1>3, <1>4
<1> QED BY <1>5 DEF m, end

-----------------------------------------------------------------------------
(* The file of a block.                                                    *)

HeadOf(b, c, end, old, new) ==
  [kind |-> "header", size |-> 1, end |-> end, old |-> old, new |-> new,
   n_new |-> c, n_old |-> b.n_old, has_solution |-> b.theta # None,
   counts |-> b.counts, map_size |-> b.map_size]

RowPlaces(b, n) == [i \in 1 .. n |-> RowIndex(b, i)]

\* The first c of the new rows are in the map, the others were appended.
IsFile(T, off, b, c) ==
  /\ IsBody(T, b) /\ IsLaid(off, T) /\ c \in 0 .. Len(b.new)
  /\ T[1] = HeadOf(b, c, off[Len(T)], off[7 + Len(b.sv)], off[8 + Len(b.sv) + Len(b.old) + c])
  /\ T[2] = [kind |-> "map", size |-> b.map_size, at |-> T[2].at]
  /\ Collected(T[2].at, Len(b.sv) + Len(b.old) + c, off, RowPlaces(b, Len(b.sv) + Len(b.old) + c))

FileIs(d, b) ==
  \E T, off, c : IsFile(T, off, b, c) /\ Holds(d.data, off, T) /\ off[Len(T)] <= d.alloc

Dbs(d) == d = [alloc |-> d.alloc, data |-> d.data, cb |-> d.cb] /\ d.alloc \in Nat /\ IsData(d.data)

LEMMA KindsAre ==
  ASSUME NEW b \in Blocks, NEW T, IsBody(T, b), T[1].kind = "header", T[2].kind = "map",
         NEW k \in 1 .. Len(T)
  PROVE  /\ k <= 6 => T[k].kind # "row" /\ T[k].kind # "matrix"
         /\ k = 7 \/ k = 8 + Len(b.sv) => T[k].kind = "matrix"
         /\ k > 7 /\ k # 8 + Len(b.sv) =>
              /\ T[k].kind = "row" /\ T[k].size > 0
              /\ (IF k <= 7 + Len(b.sv) THEN k - 7 ELSE k - 8) \in 1 .. Len(Rows(b))
              /\ RowIndex(b, IF k <= 7 + Len(b.sv) THEN k - 7 ELSE k - 8) = k
<1> DEFINE s == Len(b.sv)
<1>1. /\ s \in Nat /\ Len(Rows(b)) \in Nat /\ Len(Rows(b)) >= s /\ Rows(b) \in Seq(Examples)
  BY RowCountIs
<1>2. /\ Len(T) = 8 + Len(Rows(b)) /\ T[7] = MatrixThing(b.sv) /\ T[8 + s] = MatrixThing(b.old)
      /\ T[3] = b.theta /\ T[6] = NumberOf(b)
      /\ \A i \in 1 .. Len(Rows(b)) : T[RowIndex(b, i)] = RowThing(Rows(b)[i])
  BY DEF IsBody, HasRows, HasTheta
<1>3. PICK free : T[3 + 1] = [kind |-> "fill", size |-> 1, free |-> free]
                  /\ T[3 + 2] = [kind |-> "zeroes", size |-> free]
  BY DEF IsBody, HasTheta, HasFree
<1>4. b.theta.kind \in {"none", "theta"}
  BY DEF Blocks, Fitting, Thetas, None
<1>5. /\ T[1].kind = "header" /\ T[2].kind = "map" /\ T[3].kind \in {"none", "theta"} /\ T[4].kind = "fill"
      /\ T[5].kind = "zeroes" /\ T[6].kind = "number" /\ T[7].kind = "matrix" /\ T[8 + s].kind = "matrix"
  <2>1. T[4].kind = "fill" /\ T[5].kind = "zeroes"
    BY <1>3
  <2> QED BY <1>2, <1>4, <2>1 DEF NumberOf, MatrixThing
<1>6. k <= 6 => k \in {1, 2, 3, 4, 5, 6}
  BY <1>1, <1>2
<1>7. k <= 6 => T[k].kind # "row" /\ T[k].kind # "matrix"
  BY <1>5, <1>6
<1> HIDE DEF s
<1>8. ASSUME k > 7, k # 8 + s
      PROVE  /\ T[k].kind = "row" /\ T[k].size > 0
             /\ (IF k <= 7 + s THEN k - 7 ELSE k - 8) \in 1 .. Len(Rows(b))
             /\ RowIndex(b, IF k <= 7 + s THEN k - 7 ELSE k - 8) = k
  <2> DEFINE i == IF k <= 7 + s THEN k - 7 ELSE k - 8
  <2>1. i \in 1 .. Len(Rows(b))
    BY <1>1, <1>2, <1>8
  <2>2. RowIndex(b, i) = k
    <3>1. i <= s <=> k <= 7 + s
      BY <1>1, <1>2, <1>8
    <3>2. RowIndex(b, i) = IF i <= s THEN 7 + i ELSE 8 + i
      BY DEF RowIndex, s
    <3> QED BY <1>1, <1>2, <3>1, <3>2
  <2> HIDE DEF i
  <2>3. T[k] = RowThing(Rows(b)[i]) /\ Rows(b)[i] \in Examples
    BY <1>1, <1>2, <2>1, <2>2, ElementOfSeq
  <2>4. T[k].kind = "row" /\ T[k].size > 0
    BY <2>3, RowThingIs DEF IsRow
  <2> QED BY <2>1, <2>2, <2>4 DEF i
<1> QED BY <1>5, <1>7, <1>8 DEF s

LEMMA SameBody ==
  ASSUME NEW b, NEW T, IsBody(T, b), NEW U, IsThings(U), Len(U) = Len(T),
         NEW b1, b1.theta = b.theta, b1.num = b.num, b1.sv = b.sv, b1.old = b.old, b1.new = b.new,
         Len(Rows(b)) \in Nat, Len(b.sv) \in Nat,
         \A i \in 3 .. Len(T) : U[i] = T[i], Len(b.sv) <= Len(Rows(b))
  PROVE  IsBody(U, b1)
<1>1. Rows(b1) = Rows(b) /\ NumberOf(b1) = NumberOf(b) /\ \A i : RowIndex(b1, i) = RowIndex(b, i)
  BY DEF Rows, NumberOf, RowIndex
<1>2. Len(T) = 8 + Len(Rows(b))
  BY DEF IsBody, HasRows
<1>3. 3 \in 3 .. Len(T) /\ 4 \in 3 .. Len(T) /\ 5 \in 3 .. Len(T) /\ 6 \in 3 .. Len(T) /\ 7 \in 3 .. Len(T)
      /\ 8 + Len(b.sv) \in 3 .. Len(T) /\ \A i \in 1 .. Len(Rows(b)) : RowIndex(b, i) \in 3 .. Len(T)
  BY <1>2 DEF RowIndex
<1>4. HasTheta(U, b1)
  <2>1. U[3] = T[3] /\ U[3 + 1] = T[3 + 1] /\ U[3 + 2] = T[3 + 2] /\ U[6] = T[6]
    BY <1>3
  <2> QED BY <1>1, <2>1 DEF IsBody, HasTheta, HasFree
<1>5. HasRows(U, b1)
  <2>1. U[7] = T[7] /\ U[8 + Len(b.sv)] = T[8 + Len(b.sv)]
        /\ \A i \in 1 .. Len(Rows(b)) : U[RowIndex(b, i)] = T[RowIndex(b, i)]
    BY <1>3
  <2> QED BY <1>1, <2>1 DEF IsBody, HasRows
<1> QED BY <1>4, <1>5 DEF IsBody

\* A thing written over one of its size.
IsRewritten(U, T, off, o, a, i, h) ==
  /\ IsThings(U) /\ Len(U) = Len(T) /\ IsLaid(off, U) /\ U[i] = h
  /\ \A j \in 1 .. Len(T) : j # i => U[j] = T[j]
  /\ \E q : /\ dbwrite(At(o, a, off[i - 1]), h) = At(q, a, off[i])
            /\ IsData(q) /\ Below(q, off, Len(U), U)

LEMMA Rewritten ==
  ASSUME NEW T, IsThings(T), NEW off, IsLaid(off, T), NEW o, IsData(o), Below(o, off, Len(T), T),
         NEW a \in Nat, off[Len(T)] <= a, NEW i \in 1 .. Len(T), NEW h, h.size = T[i].size, h.size > 0,
         NEW U, U = [T EXCEPT ![i] = h]
  PROVE  IsRewritten(U, T, off, o, a, i, h)
<1>1. DOMAIN T = 1 .. Len(T)
  BY DEF IsThings
<1>2. U[i] = h /\ \A j \in 1 .. Len(T) : j # i => U[j] = T[j]
  BY <1>1
<1>3. IsThings(U) /\ Len(U) = Len(T) /\ IsLaid(off, U)
  BY OneChanged
<1>4. PICK q : /\ q = Over(o, off[i - 1], h.size, h)
               /\ IsData(q) /\ Below(q, off, Len(U), U)
  BY OneChanged
<1>5. /\ off[i] = off[i - 1] + h.size /\ h.size \in Nat /\ off[i - 1] \in Nat
      /\ off[i] <= off[Len(T)] /\ off[Len(T)] \in Nat /\ off[i] \in Nat
  <2>1. i \in 0 .. Len(T) /\ Len(T) \in 0 .. Len(T)
    BY DEF IsThings
  <2> QED BY <2>1, LaidIs
<1> DEFINE ds == At(o, a, off[i - 1])
<1>6. /\ ds.position = off[i - 1] /\ ds.size = a /\ ds.data = o
      /\ Fits(ds, 1) /\ Fits(ds, h.size)
  BY <1>5 DEF At, Fits
<1>7. Past(ds, h.size) = At(o, a, off[i])
  BY <1>5, PastIs
<1>8. dbwrite(ds, h) = [Past(ds, h.size) EXCEPT !.data = Over(@, ds.position, h.size, h)]
  <2>1. h.size # 0
    BY <1>5
  <2> HIDE DEF ds
  <2> QED BY <1>6, <2>1 DEF dbwrite
<1>9. [At(o, a, off[i]) EXCEPT !.data = q] = At(q, a, off[i]) /\ At(o, a, off[i]).data = o
  <2>1. [At(o, a, off[i]) EXCEPT !.data = q] = At(q, a, off[i])
    BY AtOther
  <2> QED BY <2>1 DEF At
<1> HIDE DEF ds
<1>10. dbwrite(ds, h) = At(q, a, off[i])
  BY <1>4, <1>6, <1>7, <1>8, <1>9
<1> QED BY <1>2, <1>3, <1>4, <1>10 DEF ds, IsRewritten

LEMMA WriteTwo ==
  ASSUME NEW ds, NEW f, f.size \in Nat, NEW m, m.size \in Nat
  PROVE  WriteAll(ds, <<f, m>>).ds = dbwrite(dbwrite(ds, f), m)
<1> DEFINE T == <<f, m>>
<1>1. IsThings(T) /\ Len(T) = 2 /\ T[1] = f /\ T[2] = m
  <2>1. Len(T) = 2 /\ DOMAIN T = 1 .. 2 /\ T[1] = f /\ T[2] = m
    OBVIOUS
  <2> HIDE DEF T
  <2>2. \A i \in 1 .. 2 : i = 1 \/ i = 2
    OBVIOUS
  <2> QED BY <2>1, <2>2 DEF IsThings
<1> HIDE DEF T
<1>2. PICK t : IsWriting(t, ds, T) /\ WriteAll(ds, T) = t[Len(T)]
  BY <1>1, WriteAllTurns
<1>3. t[0].ds = ds /\ t[1] = Written1(t[1 - 1], T[1]) /\ t[2] = Written1(t[2 - 1], T[2])
  <2>1. 1 \in 1 .. Len(T) /\ 2 \in 1 .. Len(T)
    BY <1>1
  <2>2. t[0].ds = ds
    BY <1>2 DEF IsWriting
  <2>3. \A k \in 1 .. Len(T) : t[k] = Written1(t[k - 1], T[k])
    BY <1>2 DEF IsWriting
  <2> QED BY <2>1, <2>2, <2>3
<1>4. t[1] = Written1(t[0], f) /\ t[2] = Written1(t[1], m)
  BY <1>1, <1>3
<1>5. t[1].ds = dbwrite(t[0].ds, f) /\ t[2].ds = dbwrite(t[1].ds, m)
  BY <1>4 DEF Written1
<1> QED BY <1>1, <1>2, <1>3, <1>5 DEF T

\* Which row, and which matrix, each thing is.
RowCount(b, n) == [k \in 0 .. n |-> IF k <= 7 THEN 0 ELSE IF k <= 7 + Len(b.sv) THEN k - 7 ELSE k - 8]
MatrixCount(b, n) == [k \in 0 .. n |-> IF k < 7 THEN 0 ELSE IF k < 8 + Len(b.sv) THEN 1 ELSE 2]
MatrixPlaces(b) == <<7, 8 + Len(b.sv)>>

LEMMA IndexOfRows ==
  ASSUME NEW b \in Blocks, NEW T, IsBody(T, b), T[1].kind = "header", T[2].kind = "map"
  PROVE  /\ IsIndex(RowCount(b, Len(T)), RowPlaces(b, Len(Rows(b))), "row", T)
         /\ IsIndex(MatrixCount(b, Len(T)), MatrixPlaces(b), "matrix", T)
         /\ RowCount(b, Len(T))[Len(T)] = Len(Rows(b)) /\ MatrixCount(b, Len(T))[Len(T)] = 2
<1> DEFINE s == Len(b.sv)
           r == Len(Rows(b))
           n == Len(T)
           f == RowCount(b, n)
           g == MatrixCount(b, n)
<1>1. s \in Nat /\ r \in Nat /\ n = 8 + r /\ s <= r
  <2>1. s \in Nat /\ r \in Nat /\ s <= r
    BY RowCountIs
  <2> QED BY <2>1 DEF IsBody, HasRows
<1>2. /\ f = [k \in 0 .. n |-> IF k <= 7 THEN 0 ELSE IF k <= 7 + s THEN k - 7 ELSE k - 8]
      /\ g = [k \in 0 .. n |-> IF k < 7 THEN 0 ELSE IF k < 8 + s THEN 1 ELSE 2]
  BY DEF RowCount, MatrixCount
<1>3. ASSUME NEW k \in 1 .. n
      PROVE  /\ k <= 6 => T[k].kind # "row" /\ T[k].kind # "matrix"
             /\ k = 7 \/ k = 8 + s => T[k].kind = "matrix"
             /\ k > 7 /\ k # 8 + s =>
                  /\ T[k].kind = "row"
                  /\ (IF k <= 7 + s THEN k - 7 ELSE k - 8) \in 1 .. r
                  /\ RowIndex(b, IF k <= 7 + s THEN k - 7 ELSE k - 8) = k
  BY KindsAre
<1>4. RowPlaces(b, r) = [i \in 1 .. r |-> RowIndex(b, i)]
  BY DEF RowPlaces
<1>5. MatrixPlaces(b)[1] = 7 /\ MatrixPlaces(b)[2] = 8 + s
  BY DEF MatrixPlaces
<1> HIDE DEF s, r, n, f, g
<1>6. f \in [0 .. n -> Nat] /\ g \in [0 .. n -> Nat] /\ f[0] = 0 /\ g[0] = 0 /\ f[n] = r /\ g[n] = 2
  <2>1. ASSUME NEW k \in 0 .. n PROVE (IF k <= 7 THEN 0 ELSE IF k <= 7 + s THEN k - 7 ELSE k - 8) \in Nat
    BY <1>1
  <2>2. 0 \in 0 .. n /\ n \in 0 .. n
    BY <1>1
  <2> QED BY <1>1, <1>2, <2>1, <2>2
<1>7. ASSUME NEW k \in 1 .. n
      PROVE  IF T[k].kind = "row" THEN f[k] = f[k - 1] + 1 /\ RowPlaces(b, r)[f[k]] = k ELSE f[k] = f[k - 1]
  <2>1. k \in 0 .. n /\ k - 1 \in 0 .. n
    BY <1>1
  <2>2. /\ f[k] = (IF k <= 7 THEN 0 ELSE IF k <= 7 + s THEN k - 7 ELSE k - 8)
        /\ f[k - 1] = (IF k - 1 <= 7 THEN 0 ELSE IF k - 1 <= 7 + s THEN k - 1 - 7 ELSE k - 1 - 8)
    BY <1>2, <2>1
  <2>3. CASE T[k].kind = "row"
    <3>1. k > 7 /\ k # 8 + s
      BY <1>3, <1>1, <2>3
    <3>2. f[k] = (IF k <= 7 + s THEN k - 7 ELSE k - 8)
      BY <1>1, <2>2, <3>1
    <3>3. f[k] \in 1 .. r /\ RowIndex(b, f[k]) = k
      BY <1>3, <3>1, <3>2
    <3>4. f[k] = f[k - 1] + 1
      BY <1>1, <2>2, <3>1
    <3> QED BY <1>4, <2>3, <3>3, <3>4
  <2>4. CASE T[k].kind # "row"
    <3>1. k <= 7 \/ k = 8 + s
      BY <1>1, <1>3, <2>4
    <3> QED BY <1>1, <2>2, <2>4, <3>1
  <2> QED BY <2>3, <2>4
<1>8. ASSUME NEW k \in 1 .. n
      PROVE  IF T[k].kind = "matrix" THEN g[k] = g[k - 1] + 1 /\ MatrixPlaces(b)[g[k]] = k ELSE g[k] = g[k - 1]
  <2>1. k \in 0 .. n /\ k - 1 \in 0 .. n
    BY <1>1
  <2>2. /\ g[k] = (IF k < 7 THEN 0 ELSE IF k < 8 + s THEN 1 ELSE 2)
        /\ g[k - 1] = (IF k - 1 < 7 THEN 0 ELSE IF k - 1 < 8 + s THEN 1 ELSE 2)
    BY <1>2, <2>1
  <2>3. CASE k = 7 \/ k = 8 + s
    <3>1. T[k].kind = "matrix"
      BY <1>3, <2>3
    <3>2. g[k] = g[k - 1] + 1 /\ MatrixPlaces(b)[g[k]] = k
      BY <1>1, <1>5, <2>2, <2>3
    <3> QED BY <3>1, <3>2
  <2>4. CASE ~ (k = 7 \/ k = 8 + s)
    <3>1. T[k].kind # "matrix"
      <4>1. k <= 6 \/ (k > 7 /\ k # 8 + s)
        BY <1>1, <2>4
      <4>2. k > 7 /\ k # 8 + s => T[k].kind = "row"
        BY <1>3
      <4>3. k <= 6 => T[k].kind # "matrix"
        BY <1>3
      <4> QED BY <4>1, <4>2, <4>3
    <3>2. g[k] = g[k - 1]
      BY <1>1, <2>2, <2>4
    <3> QED BY <3>1, <3>2
  <2> QED BY <2>3, <2>4
<1> QED BY <1>6, <1>7, <1>8 DEF IsIndex, n, r, f, g

WithMap(b, m) ==
  [theta |-> b.theta, num |-> b.num, sv |-> b.sv, old |-> b.old, new |-> b.new,
   n_old |-> b.n_old, counts |-> b.counts, map_size |-> m]

LEMMA WithMapIs ==
  ASSUME NEW b \in Blocks, NEW m \in Nat \ {0}, NEW b1, b1 = WithMap(b, m)
  PROVE  /\ b1 \in Blocks /\ b1.theta = b.theta /\ b1.num = b.num
         /\ b1.sv = b.sv /\ b1.old = b.old /\ b1.new = b.new /\ Rows(b1) = Rows(b)
         /\ b1.n_old = b.n_old /\ b1.counts = b.counts /\ b1.map_size = m
<1>1. b1 = [theta |-> b.theta, num |-> b.num, sv |-> b.sv, old |-> b.old, new |-> b.new,
            n_old |-> b.n_old, counts |-> b.counts, map_size |-> m]
  BY DEF WithMap
<1>2. /\ b.theta \in Fitting /\ b.num \in Nat /\ b.sv \in Seq(Examples) /\ b.old \in Seq(Examples)
      /\ b.new \in Seq(Examples) /\ b.n_old \in Nat /\ b.counts \in AllCounts
  BY DEF Blocks
<1>3. b1 \in Blocks
  BY <1>1, <1>2 DEF Blocks
<1>4. /\ b1.theta = b.theta /\ b1.num = b.num
      /\ b1.sv = b.sv /\ b1.old = b.old /\ b1.new = b.new
      /\ b1.n_old = b.n_old /\ b1.counts = b.counts /\ b1.map_size = m
  BY <1>1
<1> QED BY <1>3, <1>4 DEF Rows

\* A written block's file.
FinalHead(b, end, old) == [HeaderOf(b) EXCEPT !.end = end, !.new = end, !.old = old]

LEMMA FinalHeadIs ==
  ASSUME NEW b \in Blocks, NEW end, NEW old, NEW b1, b1 = WithMap(b, MapFor(b))
  PROVE  FinalHead(b, end, old) = HeadOf(b1, Len(b.new), end, old, end)
<1>0. PICK z : z = (b.theta # None)
  OBVIOUS
<1>1. HeaderOf(b) = [kind |-> "header", size |-> 1, end |-> 0, old |-> 0, new |-> 0,
                     n_new |-> Len(b.new), n_old |-> b.n_old, has_solution |-> z,
                     counts |-> b.counts, map_size |-> MapFor(b)]
  BY <1>0 DEF HeaderOf
<1>2. FinalHead(b, end, old)
        = [kind |-> "header", size |-> 1, end |-> end, old |-> old, new |-> end,
           n_new |-> Len(b.new), n_old |-> b.n_old, has_solution |-> z,
           counts |-> b.counts, map_size |-> MapFor(b)]
  <2> DEFINE n == Len(b.new)
             no == b.n_old
             k == b.counts
             m == MapFor(b)
             h == HeaderOf(b)
             r == FinalHead(b, end, old)
  <2>1. h = [kind |-> "header", size |-> 1, end |-> 0, old |-> 0, new |-> 0,
             n_new |-> n, n_old |-> no, has_solution |-> z, counts |-> k, map_size |-> m]
    BY <1>1
  <2>2. r = [h EXCEPT !.end = end, !.new = end, !.old = old]
    BY DEF FinalHead
  <2> HIDE DEF n, no, k, m, h, r
  <2>3. r = [kind |-> "header", size |-> 1, end |-> end, old |-> old, new |-> end,
             n_new |-> n, n_old |-> no, has_solution |-> z, counts |-> k, map_size |-> m]
    BY <2>1, <2>2
  <2> QED BY <2>3 DEF n, no, k, m, r
<1>3. b1.n_old = b.n_old /\ b1.theta = b.theta /\ b1.counts = b.counts /\ b1.map_size = MapFor(b)
  BY DEF WithMap
<1>4. HeadOf(b1, Len(b.new), end, old, end)
        = [kind |-> "header", size |-> 1, end |-> end, old |-> old, new |-> end,
           n_new |-> Len(b.new), n_old |-> b.n_old, has_solution |-> z,
           counts |-> b.counts, map_size |-> MapFor(b)]
  BY <1>0, <1>3 DEF HeadOf
<1> QED BY <1>2, <1>4

\* Everything written once, the places collected.
FirstPass(w, b, T, off, o, a) ==
  /\ w.ds = At(o, a, off[Len(T)]) /\ IsData(o) /\ Below(o, off, Len(T), T)
  /\ Collected(w.rows, Len(Rows(b)), off, RowPlaces(b, Len(Rows(b))))
  /\ Collected(w.matrices, 2, off, MatrixPlaces(b))

LEMMA FirstPassIs ==
  ASSUME NEW b \in Blocks, NEW T, IsBody(T, b), T[1].kind = "header", T[2].kind = "map",
         NEW off, IsLaid(off, T), NEW d, IsData(d), NEW a \in Nat, off[Len(T)] <= a
  PROVE  \E o : FirstPass(WriteAll(At(d, a, 0), T), b, T, off, o, a)
<1>1. IsThings(T)
  BY DEF IsBody
<1> DEFINE ds == At(d, a, 0)
<1>2. PICK t : IsWriting(t, ds, T) /\ WriteAll(ds, T) = t[Len(T)]
  <2> HIDE DEF ds
  <2> QED BY <1>1, WriteAllTurns
<1>3. WrittenSoFar(t, a, off, T)
  BY <1>1, <1>2, WritingIs
<1>4. PICK o : t[Len(T)].ds = At(o, a, off[Len(T)]) /\ IsData(o) /\ Below(o, off, Len(T), T)
  <2>1. Len(T) \in 0 .. Len(T)
    BY <1>1 DEF IsThings
  <2> QED BY <1>3, <2>1 DEF WrittenSoFar
<1> DEFINE rc == RowCount(b, Len(T))
           ra == RowPlaces(b, Len(Rows(b)))
           mc == MatrixCount(b, Len(T))
           ma == MatrixPlaces(b)
<1>5. /\ IsIndex(rc, ra, "row", T) /\ IsIndex(mc, ma, "matrix", T)
      /\ rc[Len(T)] = Len(Rows(b)) /\ mc[Len(T)] = 2
  BY IndexOfRows
<1> HIDE DEF rc, ra, mc, ma, ds
<1>6. /\ Collected(t[Len(T)].rows, rc[Len(T)], off, ra)
      /\ Collected(t[Len(T)].matrices, mc[Len(T)], off, ma)
  BY <1>1, <1>2, <1>3, <1>5, RowsCollected
<1>7. FirstPass(t[Len(T)], b, T, off, o, a)
  BY <1>4, <1>5, <1>6 DEF FirstPass, ra, ma
<1> QED BY <1>2, <1>7 DEF ds

\* The header and the map written once more.
SecondPass(w, U, T, off, f, m, q, a) ==
  /\ w.ds = At(q, a, off[2]) /\ IsData(q) /\ Below(q, off, Len(U), U)
  /\ IsThings(U) /\ Len(U) = Len(T) /\ IsLaid(off, U) /\ U[1] = f /\ U[2] = m
  /\ \A i \in 3 .. Len(T) : U[i] = T[i]

LEMMA SecondPassIs ==
  ASSUME NEW T, IsThings(T), Len(T) >= 2, NEW off, IsLaid(off, T),
         NEW o, IsData(o), Below(o, off, Len(T), T), NEW a \in Nat, off[Len(T)] <= a,
         NEW f, f.size = T[1].size, f.size > 0, NEW m, m.size = T[2].size, m.size > 0
  PROVE  \E U, q : SecondPass(WriteAll(dbseek(At(o, a, off[Len(T)]), 0), <<f, m>>), U, T, off, f, m, q, a)
<1>1. /\ Len(T) \in Nat /\ 1 \in 1 .. Len(T) /\ 2 \in 1 .. Len(T) /\ Len(T) \in 0 .. Len(T)
      /\ T[1].size \in Nat /\ T[2].size \in Nat
  BY DEF IsThings
<1>2. dbseek(At(o, a, off[Len(T)]), 0) = At(o, a, 0)
  <2>1. 0 \in 0 .. a
    OBVIOUS
  <2> QED BY <2>1, SeekIs
<1> DEFINE ds == At(o, a, 0)
<1>3. WriteAll(ds, <<f, m>>).ds = dbwrite(dbwrite(ds, f), m)
  <2> HIDE DEF ds
  <2> QED BY <1>1, WriteTwo
<1>4. PICK q, U : /\ IsThings(U) /\ Len(U) = Len(T) /\ IsLaid(off, U) /\ U[1] = f
                  /\ \A j \in 1 .. Len(T) : j # 1 => U[j] = T[j]
                  /\ dbwrite(At(o, a, off[1 - 1]), f) = At(q, a, off[1])
                  /\ IsData(q) /\ Below(q, off, Len(U), U)
  <2> DEFINE i == 1
             U == [T EXCEPT ![i] = f]
  <2>1. i \in 1 .. Len(T) /\ f.size = T[i].size
    BY <1>1
  <2>2. U = [T EXCEPT ![i] = f]
    OBVIOUS
  <2> HIDE DEF U, i
  <2>3. IsRewritten(U, T, off, o, a, i, f)
    BY <2>1, <2>2, Rewritten
  <2> QED BY <2>3 DEF i, IsRewritten
<1>5. /\ 2 \in 1 .. Len(U) /\ m.size = U[2].size /\ off[Len(U)] <= a
  BY <1>1, <1>4
<1>6. PICK p, V : /\ IsThings(V) /\ Len(V) = Len(U) /\ IsLaid(off, V) /\ V[2] = m
                  /\ \A j \in 1 .. Len(U) : j # 2 => V[j] = U[j]
                  /\ dbwrite(At(q, a, off[2 - 1]), m) = At(p, a, off[2])
                  /\ IsData(p) /\ Below(p, off, Len(V), V)
  <2> DEFINE i == 2
             V == [U EXCEPT ![i] = m]
  <2>1. i \in 1 .. Len(U) /\ m.size = U[i].size
    BY <1>5
  <2>2. V = [U EXCEPT ![i] = m]
    OBVIOUS
  <2> HIDE DEF V, i
  <2>3. IsRewritten(V, U, off, q, a, i, m)
    BY <1>4, <1>5, <2>1, <2>2, Rewritten
  <2> QED BY <2>3 DEF i, IsRewritten
<1>7. dbwrite(dbwrite(ds, f), m) = At(p, a, off[2])
  <2>1. 1 - 1 = 0 /\ 2 - 1 = 1 /\ off[0] = 0
    BY DEF IsLaid
  <2> QED BY <1>4, <1>6, <2>1
<1>8. V[1] = f /\ \A i \in 3 .. Len(T) : V[i] = T[i]
  <2>1. \A i \in 3 .. Len(T) : i \in 1 .. Len(T) /\ i # 1 /\ i # 2
    OBVIOUS
  <2> QED BY <1>1, <1>4, <1>6, <2>1
<1>9. SecondPass(WriteAll(ds, <<f, m>>), V, T, off, f, m, p, a)
  <2> HIDE DEF ds
  <2> QED BY <1>3, <1>4, <1>6, <1>7, <1>8 DEF SecondPass
<1> QED BY <1>2, <1>9

\* The file of a block, from the things in it.
LEMMA FileOf ==
  ASSUME NEW b \in Blocks, NEW T, IsBody(T, b), NEW off, NEW w, NEW a,
         Collected(w.rows, Len(Rows(b)), off, RowPlaces(b, Len(Rows(b)))),
         Collected(w.matrices, 2, off, MatrixPlaces(b)),
         NEW f, f = FinalHead(b, off[Len(T)], w.matrices[2]), NEW m, m = MapThing(b, w.rows),
         NEW U, NEW q, NEW ds, SecondPass(ds, U, T, off, f, m, q, a),
         NEW b1, b1 = WithMap(b, MapFor(b))
  PROVE  IsFile(U, off, b1, Len(b.new))
<1> DEFINE s == Len(b.sv)
           o == Len(b.old)
           c == Len(b.new)
           r == Len(Rows(b))
<1>1. r = s + o + c /\ s \in Nat /\ o \in Nat /\ c \in Nat /\ r \in Nat
  <2>1. r = s + o + c /\ s \in Nat /\ o \in Nat /\ c \in Nat
    BY RowsAre
  <2> HIDE DEF s, o, c, r
  <2> QED BY <2>1
<1>2. /\ IsThings(U) /\ Len(U) = Len(T) /\ IsLaid(off, U) /\ U[1] = f /\ U[2] = m
      /\ \A i \in 3 .. Len(T) : U[i] = T[i]
  BY DEF SecondPass
<1>3. MapFor(b) \in Nat \ {0}
  BY SizesAre
<1>4. /\ b1 \in Blocks /\ b1.theta = b.theta /\ b1.num = b.num
      /\ b1.sv = b.sv /\ b1.old = b.old /\ b1.new = b.new /\ Rows(b1) = Rows(b)
      /\ b1.map_size = MapFor(b)
  <2> DEFINE mm == MapFor(b)
  <2>1. mm \in Nat \ {0} /\ b1 = WithMap(b, mm)
    BY <1>3
  <2> HIDE DEF mm
  <2>2. /\ b1 \in Blocks /\ b1.theta = b.theta /\ b1.num = b.num
        /\ b1.sv = b.sv /\ b1.old = b.old /\ b1.new = b.new /\ Rows(b1) = Rows(b)
        /\ b1.map_size = mm
    BY <2>1, WithMapIs
  <2> QED BY <2>2 DEF mm
<1>5. IsBody(U, b1)
  <2>1. s <= r
    <3> HIDE DEF s, o, c, r
    <3> QED BY <1>1
  <2> QED BY <1>1, <1>2, <1>4, <2>1, SameBody
<1>6. Len(T) = 8 + r
  BY DEF IsBody, HasRows
<1>7. w.matrices[2] = off[7 + s]
  <2>1. w.matrices[2] = off[MatrixPlaces(b)[2] - 1]
    BY DEF Collected
  <2>2. MatrixPlaces(b)[2] - 1 = 7 + s
    <3>1. MatrixPlaces(b)[2] = 8 + s
      BY DEF MatrixPlaces
    <3> HIDE DEF s
    <3> QED BY <1>1, <3>1
  <2> QED BY <2>1, <2>2
<1>8. U[1] = HeadOf(b1, c, off[Len(U)], off[7 + s], off[8 + s + o + c])
  <2> DEFINE end == off[Len(T)]
             old == w.matrices[2]
  <2>1. FinalHead(b, end, old) = HeadOf(b1, Len(b.new), end, old, end)
    <3> HIDE DEF end, old
    <3> QED BY FinalHeadIs
  <2>2. 8 + s + o + c = Len(T)
    <3> HIDE DEF s, o, c, r
    <3> QED BY <1>1, <1>6
  <2>3. off[8 + s + o + c] = end /\ old = off[7 + s]
    BY <1>7, <2>2
  <2> HIDE DEF s, o
  <2> QED BY <1>2, <2>1, <2>3
<1>9. U[2] = [kind |-> "map", size |-> b1.map_size, at |-> U[2].at] /\ U[2].at = w.rows
  BY <1>2, <1>4 DEF MapThing
<1>10. RowPlaces(b1, r) = RowPlaces(b, r)
  BY <1>4 DEF RowPlaces, RowIndex
<1>11. c \in 0 .. Len(b1.new)
  BY <1>1, <1>4
<1>12. Collected(U[2].at, s + o + c, off, RowPlaces(b1, s + o + c))
  <2>1. Collected(w.rows, r, off, RowPlaces(b1, r))
    BY <1>10
  <2> HIDE DEF s, o, c, r
  <2> QED BY <1>1, <1>9, <2>1
<1> QED BY <1>2, <1>4, <1>5, <1>8, <1>9, <1>11, <1>12 DEF IsFile

LEMMA WrittenIs ==
  ASSUME NEW b \in Blocks, NEW d, Dbs(d), block_size(b) <= d.alloc,
         NEW b1, b1 = WithMap(b, MapFor(b))
  PROVE  /\ Dbs(Written(b, d)) /\ FileIs(Written(b, d), b1)
         /\ Written(b, d).alloc = d.alloc /\ Written(b, d).cb = d.cb
<1> DEFINE T == Things(b)
           a == d.alloc
<1>1. /\ IsBody(T, b) /\ T[1] = HeaderOf(b) /\ T[2] = MapThing(b, << >>)
  BY ThingsAre
<1>2. /\ T[1].kind = "header" /\ T[1].size = 1 /\ T[2].kind = "map" /\ T[2].size = MapFor(b)
  BY <1>1 DEF HeaderOf, MapThing
<1>3. MapFor(b) \in Nat \ {0} /\ block_size(b) \in Nat
  BY SizesAre, BlockSizeIs
<1>4. a \in Nat /\ IsData(d.data) /\ dbopen(d) = At(d.data, a, 0)
  BY DEF Dbs, dbopen, At
<1>5. IsThings(T) /\ Len(T) \in Nat /\ Len(T) >= 2
  <2>1. IsThings(T) /\ Len(T) = 8 + Len(Rows(b)) /\ Len(Rows(b)) \in Nat
    BY <1>1, RowCountIs DEF IsBody, HasRows
  <2> HIDE DEF T
  <2> QED BY <2>1
<1> HIDE DEF T
<1>6. PICK off : IsLaid(off, T)
  BY <1>5, LaidExists
<1>7. off[Len(T)] \in Nat /\ off[Len(T)] <= a
  <2>1. off[Len(T)] \in Nat /\ off[Len(T)] <= block_size(b)
    BY <1>1, <1>2, <1>6, BodyEnd
  <2> QED BY <1>3, <1>4, <2>1
<1> DEFINE w == WriteAll(dbopen(d), T)
<1>8. PICK o : FirstPass(w, b, T, off, o, a)
  <2>1. \E o : FirstPass(WriteAll(At(d.data, a, 0), T), b, T, off, o, a)
    <3> DEFINE data == d.data
    <3>1. IsData(data)
      BY <1>4
    <3> HIDE DEF data, a
    <3>2. \E o : FirstPass(WriteAll(At(data, a, 0), T), b, T, off, o, a)
      BY <1>1, <1>2, <1>4, <1>6, <1>7, <3>1, FirstPassIs
    <3> QED BY <3>2 DEF data
  <2> QED BY <1>4, <2>1
<1> HIDE DEF w
<1>9. /\ w.ds = At(o, a, off[Len(T)]) /\ IsData(o) /\ Below(o, off, Len(T), T)
      /\ Collected(w.rows, Len(Rows(b)), off, RowPlaces(b, Len(Rows(b))))
      /\ Collected(w.matrices, 2, off, MatrixPlaces(b))
  BY <1>8 DEF FirstPass
<1> DEFINE f == FinalHead(b, off[Len(T)], w.matrices[2])
           m == MapThing(b, w.rows)
           again == WriteAll(dbseek(w.ds, 0), <<f, m>>)
<1>10. f.size = 1 /\ m.size = MapFor(b)
  <2>1. f.size = 1
    <3>0. HeaderOf(b).size = 1
      BY DEF HeaderOf
    <3>1. PICK h : h = HeaderOf(b) /\ h.size = 1
      BY <3>0
    <3>2. f = [h EXCEPT !.end = off[Len(T)], !.new = off[Len(T)], !.old = w.matrices[2]]
      BY <3>1 DEF FinalHead
    <3> HIDE DEF f
    <3> QED BY <3>1, <3>2
  <2> QED BY <2>1 DEF MapThing
<1>11. PICK U, q : SecondPass(again, U, T, off, f, m, q, a)
  <2>1. /\ f.size = T[1].size /\ f.size > 0 /\ m.size = T[2].size /\ m.size > 0
    <3> HIDE DEF f, m
    <3> QED BY <1>2, <1>3, <1>10
  <2> HIDE DEF f, m, a
  <2>2. \E U, q : SecondPass(WriteAll(dbseek(At(o, a, off[Len(T)]), 0), <<f, m>>), U, T, off, f, m, q, a)
    BY <1>4, <1>5, <1>6, <1>7, <1>9, <2>1, SecondPassIs
  <2> QED BY <1>9, <2>2
<1>12. IsFile(U, off, b1, Len(b.new))
  <2>1. f = FinalHead(b, off[Len(T)], w.matrices[2]) /\ m = MapThing(b, w.rows)
    OBVIOUS
  <2> HIDE DEF f, m, again, a
  <2> QED BY <1>1, <1>9, <1>11, <2>1, FileOf
<1> DEFINE data == UpTo(again.ds.data, w.ds.position)
<1>13. Holds(data, off, U) /\ off[Len(U)] <= a /\ Len(U) = Len(T)
  <2> HIDE DEF again, f, m, a
  <2>1. /\ again.ds = At(q, a, off[2]) /\ IsData(q) /\ Below(q, off, Len(U), U)
        /\ IsThings(U) /\ Len(U) = Len(T) /\ IsLaid(off, U)
    BY <1>11 DEF SecondPass
  <2>2. again.ds.data = q /\ w.ds.position = off[Len(U)]
    BY <1>9, <2>1 DEF At
  <2>3. Holds(UpTo(q, off[Len(U)]), off, U)
    BY <2>1, UpToIs
  <2> QED BY <1>7, <2>1, <2>2, <2>3
<1>14. Written(b, d) = [d EXCEPT !.data = data]
  <2>1. w.ds.position = off[Len(T)]
    BY <1>9 DEF At
  <2>2. f = FinalHead(b, w.ds.position, w.matrices[2])
    BY <2>1
  <2>3. Written(b, d) =
          LET g == FinalHead(b, w.ds.position, w.matrices[2])
          IN  [d EXCEPT !.data = UpTo(WriteAll(dbseek(w.ds, 0), <<g, m>>).ds.data, w.ds.position)]
    BY DEF Written, FinalHead, w, T
  <2> HIDE DEF f, m
  <2> QED BY <2>2, <2>3
<1> HIDE DEF data
<1>15. Written(b, d) = [alloc |-> a, data |-> data, cb |-> d.cb]
  BY <1>14 DEF Dbs
<1>16. IsData(data)
  BY <1>13 DEF Holds
<1>17. Dbs(Written(b, d)) /\ Written(b, d).alloc = d.alloc /\ Written(b, d).cb = d.cb /\ Written(b, d).data = data
  BY <1>4, <1>15, <1>16 DEF Dbs
<1>18. FileIs(Written(b, d), b1)
  BY <1>12, <1>13, <1>17 DEF FileIs
<1> QED BY <1>17, <1>18

-----------------------------------------------------------------------------
(* What reads back from the file of a block.                               *)

Opened(d, T, off, b, c) ==
  Dbs(d) /\ IsFile(T, off, b, c) /\ Holds(d.data, off, T) /\ off[Len(T)] <= d.alloc

\* Without a weight vector there are no support vectors, and where no old
\* examples are counted there are none.
Whole(b) == (b.theta = None => b.sv = << >> /\ b.num = 0) /\ (b.n_old = 0 => b.old = << >>)

LEMMA LengthIs ==
  ASSUME NEW b \in Blocks, NEW T, IsBody(T, b)
  PROVE  /\ Len(T) = 8 + Len(b.sv) + Len(b.old) + Len(b.new) /\ Len(T) = 8 + Len(Rows(b))
         /\ Len(b.sv) \in Nat /\ Len(b.old) \in Nat /\ Len(b.new) \in Nat /\ IsThings(T)
         /\ Len(T) \in Nat /\ Len(T) >= 8 + Len(b.sv) /\ Len(T) >= 8
<1>1. /\ Len(T) = 8 + Len(Rows(b)) /\ IsThings(T)
  BY DEF IsBody, HasRows
<1> DEFINE s == Len(b.sv)
           o == Len(b.old)
           n == Len(b.new)
           r == Len(Rows(b))
<1>2. r = s + o + n /\ s \in Nat /\ o \in Nat /\ n \in Nat
  BY RowsAre
<1> HIDE DEF s, o, n, r
<1>3. 8 + r = 8 + s + o + n /\ 8 + r \in Nat /\ 8 + r >= 8 + s /\ 8 + r >= 8
  BY <1>2
<1> QED BY <1>1, <1>2, <1>3 DEF s, o, n, r

LEMMA SeekHere ==
  ASSUME NEW d, NEW T, NEW off, NEW b, NEW c, Opened(d, T, off, b, c)
  PROVE  /\ dbopen(d) = At(d.data, d.alloc, 0) /\ d.alloc \in Nat
         /\ \A k \in 0 .. Len(T) : dbseek(dbopen(d), off[k]) = At(d.data, d.alloc, off[k])
         /\ \A i \in 1 .. Len(T) : T[i].size > 0 => /\ Here(At(d.data, d.alloc, off[i - 1])) = T[i]
                                                    /\ Here(dbseek(dbopen(d), off[i - 1])) = T[i]
<1>1. /\ IsThings(T) /\ IsLaid(off, T) /\ Below(d.data, off, Len(T), T) /\ off[Len(T)] <= d.alloc
      /\ d.alloc \in Nat /\ dbopen(d) = At(d.data, d.alloc, 0)
  BY DEF Opened, IsFile, IsBody, Holds, Dbs, dbopen, At
<1>2. ASSUME NEW k \in 0 .. Len(T) PROVE dbseek(dbopen(d), off[k]) = At(d.data, d.alloc, off[k])
  <2> DEFINE q == off[k]
             a == d.alloc
  <2>1. q \in 0 .. a
    <3>1. Len(T) \in 0 .. Len(T)
      BY <1>1 DEF IsThings
    <3>2. off[k] \in Nat /\ off[k] <= off[Len(T)] /\ off[Len(T)] \in Nat
      BY <1>1, <3>1, LaidIs
    <3> QED BY <1>1, <3>2
  <2> HIDE DEF q, a
  <2>2. dbseek(At(d.data, a, 0), q) = At(d.data, a, q)
    BY <1>1, <2>1, SeekIs DEF a
  <2> QED BY <1>1, <2>2 DEF q, a
<1>3. ASSUME NEW i \in 1 .. Len(T), T[i].size > 0
      PROVE  Here(At(d.data, d.alloc, off[i - 1])) = T[i] /\ Here(dbseek(dbopen(d), off[i - 1])) = T[i]
  <2>1. Here(At(d.data, d.alloc, off[i - 1])) = T[i]
    BY <1>1, <1>3, HereIs
  <2>2. i - 1 \in 0 .. Len(T)
    BY <1>1 DEF IsThings
  <2> QED BY <1>2, <2>1, <2>2
<1> QED BY <1>1, <1>2, <1>3

HeaderSays(fh, d, T, off, b, c) ==
  /\ fh = T[1] /\ fh # None /\ fh = FileHeader(d) /\ 0 \in DOMAIN d.data /\ fh.size = 1
  /\ fh.end = off[Len(T)] /\ fh.old = off[7 + Len(b.sv)] /\ fh.new = off[8 + Len(b.sv) + Len(b.old) + c]
  /\ fh.n_new = c /\ fh.n_old = b.n_old /\ fh.counts = b.counts /\ fh.map_size = b.map_size
  /\ fh.has_solution <=> b.theta # None
  /\ off[0] = 0 /\ off[1] = 1 /\ off[2] = 1 + b.map_size /\ fh.end \in Nat /\ fh.end <= d.alloc
  /\ LaidOut(off, b, b.map_size, Len(T)) /\ T[1].kind = "header" /\ T[2].kind = "map"

LEMMA HeaderRead ==
  ASSUME NEW b \in Blocks, NEW d, NEW T, NEW off, NEW c, Opened(d, T, off, b, c),
         NEW fh, fh = Header(d)
  PROVE  HeaderSays(fh, d, T, off, b, c)
<1>1. /\ IsBody(T, b) /\ IsLaid(off, T)
      /\ T[1] = HeadOf(b, c, off[Len(T)], off[7 + Len(b.sv)], off[8 + Len(b.sv) + Len(b.old) + c])
      /\ T[2] = [kind |-> "map", size |-> b.map_size, at |-> T[2].at]
  BY DEF Opened, IsFile
<1>2. /\ T[1].kind = "header" /\ T[1].size = 1
      /\ T[1].end = off[Len(T)] /\ T[1].old = off[7 + Len(b.sv)]
      /\ T[1].new = off[8 + Len(b.sv) + Len(b.old) + c]
      /\ T[1].n_new = c /\ T[1].n_old = b.n_old /\ T[1].counts = b.counts /\ T[1].map_size = b.map_size
  <2> DEFINE end == off[Len(T)]
             old == off[7 + Len(b.sv)]
             new == off[8 + Len(b.sv) + Len(b.old) + c]
  <2>1. T[1] = HeadOf(b, c, end, old, new)
    BY <1>1
  <2> HIDE DEF end, old, new
  <2>2. /\ T[1].kind = "header" /\ T[1].size = 1
        /\ T[1].end = end /\ T[1].old = old /\ T[1].new = new
        /\ T[1].n_new = c /\ T[1].n_old = b.n_old /\ T[1].counts = b.counts /\ T[1].map_size = b.map_size
    BY <2>1 DEF HeadOf
  <2> QED BY <2>2 DEF end, old, new
<1>3. T[1].has_solution <=> b.theta # None
  <2>1. PICK z : z = (b.theta # None)
    OBVIOUS
  <2> DEFINE end == off[Len(T)]
             old == off[7 + Len(b.sv)]
             new == off[8 + Len(b.sv) + Len(b.old) + c]
  <2>2. T[1] = HeadOf(b, c, end, old, new)
    BY <1>1
  <2> HIDE DEF end, old, new
  <2>3. T[1] = [kind |-> "header", size |-> 1, end |-> end, old |-> old, new |-> new,
                n_new |-> c, n_old |-> b.n_old, has_solution |-> z,
                counts |-> b.counts, map_size |-> b.map_size]
    BY <2>1, <2>2 DEF HeadOf
  <2>4. T[1].has_solution = z
    BY <2>3
  <2> QED BY <2>1, <2>4
<1>4. T[2].size = b.map_size /\ T[2].kind = "map" /\ b.map_size \in Nat \ {0}
  <2>1. b.map_size \in Nat \ {0}
    BY DEF Blocks
  <2>2. T[2].size = b.map_size
    BY <1>1
  <2>3. T[2].kind = "map"
    BY <1>1
  <2> QED BY <2>1, <2>2, <2>3
<1>5. LaidOut(off, b, b.map_size, Len(T))
  BY <1>1, <1>2, <1>4, BodyPlaces
<1>6. off[0] = 0 /\ off[1] = 1 /\ off[2] = 1 + b.map_size
  BY <1>5 DEF LaidOut
<1>7. Len(T) >= 8 /\ Len(T) \in Nat /\ IsThings(T)
  <2> DEFINE s == Len(b.sv)
             o == Len(b.old)
             n == Len(b.new)
  <2>1. Len(T) = 8 + s + o + n /\ s \in Nat /\ o \in Nat /\ n \in Nat /\ IsThings(T)
    BY <1>1, LengthIs
  <2> HIDE DEF s, o, n
  <2> QED BY <2>1
<1>8. off[2] <= off[Len(T)] /\ off[Len(T)] \in Nat
  <2>1. 2 \in 0 .. Len(T) /\ Len(T) \in 0 .. Len(T)
    BY <1>7
  <2> QED BY <1>1, <1>7, <2>1, LaidIs
<1>9. Here(dbopen(d)) = T[1]
  <2>1. 1 \in 1 .. Len(T) /\ T[1].size > 0 /\ 1 - 1 = 0
    BY <1>2, <1>7
  <2>2. Here(At(d.data, d.alloc, off[1 - 1])) = T[1] /\ dbopen(d) = At(d.data, d.alloc, 0)
    BY <2>1, SeekHere
  <2> QED BY <1>6, <2>1, <2>2
<1>10. T[1] # None
  BY <1>2 DEF None
<1>11. FileHeader(d) = T[1]
  BY <1>2, <1>9 DEF FileHeader
<1>12. Header(d) = T[1]
  <2>1. ~ (T[1].end < 1 + T[1].map_size)
    BY <1>2, <1>4, <1>6, <1>8
  <2> QED BY <1>10, <1>11, <2>1 DEF Header
<1>13. off[Len(T)] <= d.alloc
  BY DEF Opened
<1>14. 0 \in DOMAIN d.data
  <2>1. 1 \in 1 .. Len(T) /\ T[1].size > 0 /\ 1 - 1 = 0
    BY <1>2, <1>7
  <2>2. off[1 - 1] \in DOMAIN d.data
    BY <2>1 DEF Opened, Holds, Below
  <2> QED BY <1>6, <2>1, <2>2
<1> QED BY <1>2, <1>3, <1>4, <1>5, <1>6, <1>8, <1>10, <1>11, <1>12, <1>13, <1>14 DEF HeaderSays

\* The weight vector, the number of examples, and the matrix behind it.
LEMMA SolutionRead ==
  ASSUME NEW b \in Blocks, NEW d, NEW T, NEW off, NEW c, Opened(d, T, off, b, c),
         NEW fh, fh = Header(d), b.theta # None
  PROVE  /\ ThetaOf(d, fh) = b.theta /\ b.theta.kind = "theta"
         /\ Numbered(d, fh) = At(d.data, d.alloc, off[5])
         /\ Here(Numbered(d, fh)) = NumberOf(b)
         /\ Here(Past(Numbered(d, fh), 1)) = MatrixThing(b.sv)
<1>1. fh.map_size = b.map_size /\ off[2] = 1 + b.map_size /\ LaidOut(off, b, b.map_size, Len(T))
  <2>1. HeaderSays(fh, d, T, off, b, c)
    BY HeaderRead
  <2> QED BY <2>1 DEF HeaderSays
<1>2. /\ IsThings(T) /\ IsLaid(off, T) /\ IsBody(T, b) /\ Below(d.data, off, Len(T), T)
      /\ off[Len(T)] <= d.alloc
  BY DEF Opened, IsFile, IsBody, Holds
<1>3. Len(T) \in Nat /\ Len(T) >= 8
  <2> DEFINE s == Len(b.sv)
             o == Len(b.old)
             n == Len(b.new)
  <2>1. Len(T) = 8 + s + o + n /\ s \in Nat /\ o \in Nat /\ n \in Nat
    BY <1>2, LengthIs
  <2> HIDE DEF s, o, n
  <2> QED BY <2>1
<1>4. PICK free : HasFree(T, 3, free)
  BY <1>2 DEF IsBody, HasTheta
<1>5. T[3] = b.theta /\ T[6] = NumberOf(b) /\ T[7] = MatrixThing(b.sv)
  BY <1>2 DEF IsBody, HasTheta, HasRows
<1>6. b.theta.size \in Nat /\ b.theta.size > 0 /\ b.theta.kind = "theta"
  BY DEF Blocks, Fitting, Thetas
<1>7. T[6].size = 1 /\ T[7].size = 1
  BY <1>5 DEF NumberOf, MatrixThing
<1>8. /\ dbseek(dbopen(d), off[2]) = At(d.data, d.alloc, off[2])
      /\ Here(At(d.data, d.alloc, off[2])) = T[3]
      /\ Here(At(d.data, d.alloc, off[5])) = T[6]
      /\ Here(At(d.data, d.alloc, off[6])) = T[7] /\ d.alloc \in Nat
  <2>1. /\ 2 \in 0 .. Len(T) /\ 3 \in 1 .. Len(T) /\ 6 \in 1 .. Len(T) /\ 7 \in 1 .. Len(T)
        /\ 3 - 1 = 2 /\ 6 - 1 = 5 /\ 7 - 1 = 6
    BY <1>3
  <2>2. /\ dbseek(dbopen(d), off[2]) = At(d.data, d.alloc, off[2])
        /\ Here(At(d.data, d.alloc, off[3 - 1])) = T[3]
        /\ Here(At(d.data, d.alloc, off[6 - 1])) = T[6]
        /\ Here(At(d.data, d.alloc, off[7 - 1])) = T[7] /\ d.alloc \in Nat
    BY <1>5, <1>6, <1>7, <2>1, SeekHere
  <2> QED BY <2>1, <2>2
<1>9. ThetaOf(d, fh) = b.theta
  BY <1>1, <1>5, <1>8 DEF ThetaOf
<1>10. AfterTheta(At(d.data, d.alloc, off[2]), b.theta) = At(d.data, d.alloc, off[5])
  <2> DEFINE i == 3
             data == d.data
             a == d.alloc
  <2>1. i \in 1 .. Len(T) /\ i + 2 <= Len(T) /\ b.theta = T[i] /\ HasFree(T, i, free) /\ a \in Nat
        /\ Below(data, off, Len(T), T) /\ off[Len(T)] <= a
    BY <1>2, <1>3, <1>4, <1>5, <1>8
  <2>2. i - 1 = 2 /\ i + 2 = 5
    OBVIOUS
  <2> HIDE DEF i, data, a
  <2>3. AfterTheta(At(data, a, off[i - 1]), b.theta) = At(data, a, off[i + 2])
    BY <1>2, <2>1, AfterThetaIs
  <2> QED BY <2>2, <2>3 DEF data, a
<1>11. Numbered(d, fh) = At(d.data, d.alloc, off[5])
  <2>1. Numbered(d, fh) = AfterTheta(dbseek(dbopen(d), 1 + fh.map_size), Here(dbseek(dbopen(d), 1 + fh.map_size)))
    BY DEF Numbered
  <2> QED BY <1>1, <1>5, <1>8, <1>10, <2>1
<1>12. Past(At(d.data, d.alloc, off[5]), 1) = At(d.data, d.alloc, off[6])
  <2>1. off[6] = off[5] + 1
    BY <1>1 DEF LaidOut
  <2>2. off[5] \in Nat /\ off[6] <= off[Len(T)] /\ off[6] \in Nat /\ off[Len(T)] \in Nat
    <3>1. 5 \in 0 .. Len(T) /\ 6 \in 0 .. Len(T) /\ Len(T) \in 0 .. Len(T)
      BY <1>3
    <3> QED BY <1>2, <3>1, LaidIs
  <2> DEFINE p == off[5]
             n == 1
             a == d.alloc
  <2>3. p \in Nat /\ n \in Nat /\ p + n <= a /\ a \in Nat /\ off[6] = p + n
    BY <1>2, <1>8, <2>1, <2>2
  <2> HIDE DEF p, n, a
  <2>4. Past(At(d.data, a, p), n) = At(d.data, a, p + n)
    BY <2>3, PastIs
  <2>5. Past(At(d.data, a, p), n) = At(d.data, a, off[6])
    BY <2>3, <2>4
  <2> QED BY <2>5 DEF p, n, a
<1> QED BY <1>5, <1>6, <1>8, <1>9, <1>11, <1>12

HasPlaces(d, fh, at, s, o, c) ==
  PlacesOf(d, fh) = [sv  |-> SubSeq(at, 1, s),
                     old |-> SubSeq(at, s + 1, s + o),
                     new |-> SubSeq(at, s + o + 1, s + o + c)]

LEMMA PlacesRead ==
  ASSUME NEW b \in Blocks, Whole(b), NEW d, NEW T, NEW off, NEW c, Opened(d, T, off, b, c),
         NEW fh, fh = Header(d), NEW s, s = Len(b.sv), NEW o, o = Len(b.old)
  PROVE  HasPlaces(d, fh, T[2].at, s, o, c)
<1>1. /\ fh.map_size = b.map_size /\ off[1] = 1 /\ fh.n_new = c /\ fh.n_old = b.n_old
      /\ fh.old = off[7 + s] /\ (fh.has_solution <=> b.theta # None)
  <2>1. HeaderSays(fh, d, T, off, b, c)
    BY HeaderRead
  <2> QED BY <2>1 DEF HeaderSays
<1>2. /\ IsThings(T) /\ IsBody(T, b) /\ T[2] = [kind |-> "map", size |-> b.map_size, at |-> T[2].at]
  BY DEF Opened, IsFile, IsBody
<1>3. /\ s \in Nat /\ o \in Nat /\ Len(T) \in Nat /\ Len(T) >= 8 + s
  BY <1>2, LengthIs
<1>4. T[8 + s] = MatrixThing(b.old)
  BY <1>2 DEF IsBody, HasRows
<1>5. Here(dbseek(dbopen(d), 1)) = T[2]
  <2>1. T[2].size > 0 /\ 2 \in 1 .. Len(T) /\ 2 - 1 = 1
    <3>1. T[2].size = b.map_size
      BY <1>2
    <3>2. b.map_size \in Nat \ {0}
      BY DEF Blocks
    <3> QED BY <1>3, <3>1, <3>2
  <2>2. Here(dbseek(dbopen(d), off[2 - 1])) = T[2]
    BY <2>1, SeekHere
  <2> QED BY <1>1, <2>1, <2>2
<1>6. Here(dbseek(dbopen(d), fh.old)) = MatrixThing(b.old)
  <2> DEFINE i == 8 + s
  <2>1. i \in 1 .. Len(T) /\ i - 1 = 7 + s
    BY <1>3
  <2>2. T[i].size > 0 /\ T[i] = MatrixThing(b.old)
    BY <1>4 DEF MatrixThing
  <2> HIDE DEF i
  <2>3. Here(dbseek(dbopen(d), off[i - 1])) = T[i]
    BY <2>1, <2>2, SeekHere
  <2> QED BY <1>1, <2>1, <2>2, <2>3
<1>7. MatrixRows(MatrixThing(b.old)) = o /\ MatrixRows(MatrixThing(b.sv)) = s
  BY DEF MatrixRows, MatrixThing
<1>8. (IF fh.has_solution THEN MatrixRows(Here(Past(Numbered(d, fh), 1))) ELSE 0) = s
  <2>1. CASE b.theta = None
    <3>1. b.sv = << >>
      BY <2>1 DEF Whole
    <3>2. s = 0
      BY <3>1, EmptySeq
    <3> QED BY <1>1, <2>1, <3>2
  <2>2. CASE b.theta # None
    <3>1. Here(Past(Numbered(d, fh), 1)) = MatrixThing(b.sv)
      BY <2>2, SolutionRead
    <3> QED BY <1>1, <1>7, <2>2, <3>1
  <2> QED BY <2>1, <2>2
<1>9. (IF fh.n_old # 0 THEN MatrixRows(Here(dbseek(dbopen(d), fh.old))) ELSE 0) = o
  <2>1. CASE b.n_old = 0
    <3>1. b.old = << >>
      BY <2>1 DEF Whole
    <3>2. o = 0
      BY <3>1, EmptySeq
    <3> QED BY <1>1, <2>1, <3>2
  <2>2. CASE b.n_old # 0
    BY <1>1, <1>6, <1>7, <2>2
  <2> QED BY <2>1, <2>2
<1>10. PlacesOf(d, fh) = [sv  |-> SubSeq(T[2].at, 1, s),
                          old |-> SubSeq(T[2].at, s + 1, s + o),
                          new |-> SubSeq(T[2].at, s + o + 1, s + o + fh.n_new)]
  BY <1>5, <1>8, <1>9 DEF PlacesOf
<1> QED BY <1>1, <1>10 DEF HasPlaces

\* Pieces of the map.
LEMMA PieceIs ==
  ASSUME NEW X, NEW at \in Seq(X), NEW m \in Nat, NEW k \in Nat, m + k <= Len(at),
         NEW p, p = SubSeq(at, m + 1, m + k)
  PROVE  p \in Seq(X) /\ Len(p) = k /\ DOMAIN p = 1 .. k /\ \A i \in 1 .. k : p[i] = at[m + i]
<1>1. Len(at) \in Nat /\ \A i \in 1 .. Len(at) : at[i] \in X
  BY LenProperties, ElementOfSeq
<1> DEFINE x == m + 1
           y == m + k
<1>2. x \in Int /\ y \in Int /\ \A i \in x .. y : at[i] \in X
  BY <1>1
<1>3. (IF x <= y THEN (y - x) + 1 ELSE 0) = k /\ (y - x) + 1 = k /\ \A i \in 1 .. k : (x + i) - 1 = m + i
  OBVIOUS
<1> HIDE DEF x, y
<1>4. /\ SubSeq(at, x, y) \in Seq(X)
      /\ Len(SubSeq(at, x, y)) = IF x <= y THEN (y - x) + 1 ELSE 0
      /\ \A i \in 1 .. (y - x) + 1 : SubSeq(at, x, y)[i] = at[(x + i) - 1]
  BY <1>2, SubSeqProperties
<1>5. p = SubSeq(at, x, y)
  BY DEF x, y
<1>6. p \in Seq(X) /\ Len(p) = k /\ \A i \in 1 .. k : p[i] = at[m + i]
  BY <1>3, <1>4, <1>5
<1>7. DOMAIN p = 1 .. k
  BY <1>6, LenProperties
<1> QED BY <1>6, <1>7

LEMMA PiecesJoin ==
  ASSUME NEW X, NEW at \in Seq(X), NEW s \in Nat, NEW o \in Nat, NEW c \in Nat, Len(at) = s + o + c
  PROVE  (SubSeq(at, 1, s) \o SubSeq(at, s + 1, s + o)) \o SubSeq(at, s + o + 1, s + o + c) = at
<1> DEFINE k == s + o
           p == SubSeq(at, 0 + 1, 0 + s)
           q == SubSeq(at, s + 1, s + o)
           r == SubSeq(at, k + 1, k + c)
           z == 0
<1>1. p \in Seq(X) /\ Len(p) = s /\ \A i \in 1 .. s : p[i] = at[z + i]
  <2>1. z \in Nat /\ z + s <= Len(at) /\ p = SubSeq(at, z + 1, z + s)
    OBVIOUS
  <2> HIDE DEF z, p
  <2>2. p \in Seq(X) /\ Len(p) = s
    BY <2>1, PieceIs
  <2>3. \A i \in 1 .. s : p[i] = at[z + i]
    BY <2>1, PieceIs
  <2> QED BY <2>2, <2>3
<1>2. q \in Seq(X) /\ Len(q) = o /\ \A i \in 1 .. o : q[i] = at[s + i]
  <2>1. s + o <= Len(at) /\ q = SubSeq(at, s + 1, s + o)
    OBVIOUS
  <2> HIDE DEF q
  <2> QED BY <2>1, PieceIs
<1>3. r \in Seq(X) /\ Len(r) = c /\ \A i \in 1 .. c : r[i] = at[k + i]
  <2>1. k \in Nat /\ k + c <= Len(at) /\ r = SubSeq(at, k + 1, k + c)
    OBVIOUS
  <2> HIDE DEF k, r
  <2>2. r \in Seq(X) /\ Len(r) = c
    BY <2>1, PieceIs
  <2>3. \A i \in 1 .. c : r[i] = at[k + i]
    BY <2>1, PieceIs
  <2> QED BY <2>2, <2>3
<1>4. k \in Nat /\ \A i \in 1 .. s : z + i = i
  OBVIOUS
<1> DEFINE u == p \o q
           v == u \o r
<1> HIDE DEF p, q, r, z
<1>5. IsConcat(u, X, p, q, s, o)
  BY <1>1, <1>2, ConcatIs
<1> HIDE DEF u
<1>6. IsConcat(v, X, u, r, k, c)
  <2>1. u \in Seq(X) /\ Len(u) = k
    BY <1>5 DEF IsConcat
  <2> HIDE DEF k
  <2> QED BY <1>3, <1>4, <2>1, ConcatIs
<1> HIDE DEF v
<1>7. ASSUME NEW i \in 1 .. Len(at) PROVE v[i] = at[i]
  <2>1. CASE i <= s
    <3>1. i \in 1 .. s /\ i \in 1 .. k
      BY <2>1
    <3>2. v[i] = u[i] /\ u[i] = p[i]
      BY <1>5, <1>6, <3>1 DEF IsConcat
    <3> QED BY <1>1, <1>4, <3>1, <3>2
  <2>2. CASE s < i /\ i <= k
    <3> DEFINE j == i - s
    <3>1. j \in 1 .. o /\ s + j = i /\ i \in 1 .. k
      BY <2>2
    <3> HIDE DEF j
    <3>2. v[i] = u[i] /\ u[s + j] = q[j]
      BY <1>5, <1>6, <3>1 DEF IsConcat
    <3> QED BY <1>2, <3>1, <3>2
  <2>3. CASE k < i
    <3> DEFINE j == i - k
    <3>1. j \in 1 .. c /\ k + j = i
      BY <2>3
    <3> HIDE DEF j, k
    <3>2. v[k + j] = r[j]
      BY <1>6, <3>1 DEF IsConcat
    <3> QED BY <1>3, <3>1, <3>2
  <2> QED BY <1>4, <2>1, <2>2, <2>3
<1>8. v \in Seq(X) /\ Len(v) = Len(at)
  BY <1>6 DEF IsConcat
<1>9. v = at
  <2>1. Len(v) = Len(at) /\ \A i \in 1 .. Len(v) : v[i] = at[i]
    BY <1>7, <1>8
  <2> QED BY <1>8, <2>1, SeqEqual
<1>10. v = (SubSeq(at, 1, s) \o SubSeq(at, s + 1, s + o)) \o SubSeq(at, s + o + 1, s + o + c)
  <2>1. 0 + 1 = 1 /\ 0 + s = s
    OBVIOUS
  <2> QED BY <2>1 DEF v, u, p, q, r
<1> QED BY <1>9, <1>10

\* Where the map says a row is, it is.
RowHere(d, T, off, b, i) ==
  /\ RowIndex(b, i) \in 1 .. Len(T) /\ T[2].at[i] = off[RowIndex(b, i) - 1]
  /\ Here(dbseek(dbopen(d), T[2].at[i])) = RowThing(Rows(b)[i]) /\ Rows(b)[i] \in Examples
  /\ i \in 1 .. Len(Rows(b))

IsMapped(n, b, c) == n = Len(b.sv) + Len(b.old) + c

LEMMA RowHereIs ==
  ASSUME NEW b \in Blocks, NEW d, NEW T, NEW off, NEW c, Opened(d, T, off, b, c),
         NEW n, IsMapped(n, b, c)
  PROVE  /\ T[2].at \in Seq(Nat) /\ Len(T[2].at) = n /\ n \in Nat /\ n <= Len(Rows(b)) /\ c \in Nat
         /\ \A i \in 1 .. n : RowHere(d, T, off, b, i)
<1>1. IsBody(T, b) /\ IsThings(T) /\ IsLaid(off, T) /\ c \in 0 .. Len(b.new)
      /\ Collected(T[2].at, n, off, RowPlaces(b, n))
  BY DEF Opened, IsFile, IsBody, IsMapped
<1>2. n \in Nat /\ n <= Len(Rows(b)) /\ c \in Nat /\ Len(Rows(b)) \in Nat
  <2> DEFINE s == Len(b.sv)
             o == Len(b.old)
             m == Len(b.new)
             r == Len(Rows(b))
  <2>1. r = s + o + m /\ s \in Nat /\ o \in Nat /\ m \in Nat /\ n = s + o + c /\ c \in 0 .. m
    BY <1>1, RowsAre DEF IsMapped
  <2> HIDE DEF s, o, m, r
  <2>2. c \in Nat /\ r \in Nat
    BY <2>1
  <2>3. s + o + c \in Nat /\ s + o + c <= r
    BY <2>1
  <2>4. n \in Nat /\ n <= r
    BY <2>1, <2>3
  <2> QED BY <2>2, <2>4 DEF r
<1>3. ASSUME NEW i \in 1 .. n PROVE RowHere(d, T, off, b, i)
  <2>1. T[2].at[i] = off[RowPlaces(b, n)[i] - 1] /\ RowPlaces(b, n)[i] = RowIndex(b, i)
    BY <1>1, <1>3 DEF Collected, RowPlaces
  <2>2. i \in 1 .. Len(Rows(b)) /\ i \in Nat
    <3> DEFINE r == Len(Rows(b))
    <3>1. n \in Nat /\ r \in Nat /\ n <= r
      BY <1>2
    <3> HIDE DEF r
    <3>2. i \in 1 .. r /\ i \in Nat
      BY <3>1
    <3> QED BY <3>2 DEF r
  <2>3. /\ T[RowIndex(b, i)] = RowThing(Rows(b)[i]) /\ Rows(b)[i] \in Examples /\ Len(T) = 8 + Len(Rows(b))
    <3>1. Rows(b) \in Seq(Examples)
      BY RowCountIs
    <3> QED BY <1>1, <2>2, <3>1, ElementOfSeq DEF IsBody, HasRows
  <2> DEFINE k == RowIndex(b, i)
  <2>4. k \in 1 .. Len(T)
    <3> DEFINE r == Len(Rows(b))
    <3>1. k = 7 + i \/ k = 8 + i
      BY DEF RowIndex
    <3>2. i \in 1 .. r /\ r \in Nat /\ Len(T) = 8 + r
      BY <1>2, <2>2, <2>3
    <3> HIDE DEF r, k
    <3> QED BY <3>1, <3>2
  <2>5. T[k].size > 0
    BY <2>3, RowThingIs
  <2>6. T[2].at[i] = off[k - 1] /\ T[k] = RowThing(Rows(b)[i])
    BY <2>1, <2>3
  <2> HIDE DEF k
  <2>7. Here(dbseek(dbopen(d), off[k - 1])) = T[k]
    BY <2>4, <2>5, SeekHere
  <2>8. Here(dbseek(dbopen(d), T[2].at[i])) = RowThing(Rows(b)[i])
    BY <2>6, <2>7
  <2> QED BY <2>2, <2>3, <2>4, <2>6, <2>8 DEF RowHere, k
<1>4. T[2].at \in Seq(Nat) /\ Len(T[2].at) = n
  BY <1>1 DEF Collected
<1> QED BY <1>2, <1>3, <1>4

\* The rows a piece of the map leads to.
Piece(b, m, k) == [i \in 1 .. k |-> Rows(b)[m + i]]

Leads(d, p, b, m, k) == [i \in DOMAIN p |-> RowsAt(d, p)[i].row] = Piece(b, m, k)

LEMMA PieceRead ==
  ASSUME NEW b \in Blocks, NEW d, NEW T, NEW off, NEW c, Opened(d, T, off, b, c),
         NEW n, IsMapped(n, b, c), NEW m \in Nat, NEW k \in Nat, m + k <= n,
         NEW p, p = SubSeq(T[2].at, m + 1, m + k)
  PROVE  Leads(d, p, b, m, k)
<1>1. /\ T[2].at \in Seq(Nat) /\ Len(T[2].at) = n /\ n \in Nat
      /\ \A i \in 1 .. n : RowHere(d, T, off, b, i)
  BY RowHereIs
<1> DEFINE at == T[2].at
<1>2. DOMAIN p = 1 .. k /\ \A i \in 1 .. k : p[i] = at[m + i]
  <2>1. at \in Seq(Nat) /\ m + k <= Len(at) /\ p = SubSeq(at, m + 1, m + k)
    BY <1>1
  <2> HIDE DEF at
  <2>2. DOMAIN p = 1 .. k
    BY <2>1, PieceIs
  <2>3. \A i \in 1 .. k : p[i] = at[m + i]
    BY <2>1, PieceIs
  <2> QED BY <2>2, <2>3
<1>3. ASSUME NEW i \in 1 .. k PROVE RowsAt(d, p)[i].row = Rows(b)[m + i]
  <2>1. m + i \in 1 .. n
    BY <1>1
  <2>2. RowsAt(d, p)[i] = Here(dbseek(dbopen(d), at[m + i]))
    BY <1>2 DEF RowsAt
  <2>3. RowHere(d, T, off, b, m + i)
    BY <1>1, <2>1
  <2>4. RowsAt(d, p)[i] = RowThing(Rows(b)[m + i]) /\ Rows(b)[m + i] \in Examples
    BY <2>2, <2>3 DEF RowHere
  <2> QED BY <2>4, RowThingIs
<1> QED BY <1>2, <1>3 DEF Piece, Leads

\* Those behind the rows written with the file.
LEMMA AppendedRead ==
  ASSUME NEW b \in Blocks, NEW d, NEW T, NEW off, NEW c, Opened(d, T, off, b, c),
         NEW fh, fh = Header(d)
  PROVE  RowsFrom(dbseek(dbopen(d), fh.new), fh.end) = [i \in 1 .. Len(b.new) - c |-> b.new[c + i]]
<1> DEFINE s == Len(b.sv)
           o == Len(b.old)
           n == Len(b.new)
           m == 8 + s + o + c
           a == d.alloc
           data == d.data
<1>1. /\ IsBody(T, b) /\ IsThings(T) /\ IsLaid(off, T) /\ Below(data, off, Len(T), T)
      /\ c \in 0 .. n /\ off[Len(T)] <= a
  BY DEF Opened, IsFile, IsBody, Holds
<1>2. fh.end = off[Len(T)] /\ fh.new = off[m]
  <2>1. HeaderSays(fh, d, T, off, b, c)
    BY HeaderRead
  <2> QED BY <2>1 DEF HeaderSays
<1>3. Len(T) = 8 + s + o + n /\ s \in Nat /\ o \in Nat /\ n \in Nat
  BY <1>1, LengthIs
<1>4. /\ \A i \in 1 .. n : T[8 + s + o + i] = RowThing(b.new[i]) /\ b.new[i] \in Examples
  <2>1. \A i \in 1 .. n : T[8 + s + o + i] = RowThing(b.new[i])
    BY <1>1, BodyRows
  <2>2. b.new \in Seq(Examples)
    BY DEF Blocks
  <2> QED BY <2>1, <2>2, ElementOfSeq
<1>5. dbopen(d) = At(data, a, 0) /\ a \in Nat /\ dbseek(dbopen(d), off[m]) = At(data, a, off[m]) /\ m \in 0 .. Len(T)
  <2>1. m \in 0 .. Len(T)
    <3> HIDE DEF s, o, n
    <3> QED BY <1>1, <1>3
  <2> HIDE DEF m
  <2>2. dbseek(dbopen(d), off[m]) = At(d.data, d.alloc, off[m]) /\ dbopen(d) = At(d.data, d.alloc, 0) /\ d.alloc \in Nat
    BY <2>1, SeekHere
  <2> QED BY <2>1, <2>2
<1>6. \A i \in m + 1 .. Len(T) : IsRow(T[i]) /\ T[i].size > 0
  <2> SUFFICES ASSUME NEW i \in m + 1 .. Len(T) PROVE IsRow(T[i]) /\ T[i].size > 0
    OBVIOUS
  <2> DEFINE j == i - (8 + s + o)
  <2>1. j \in 1 .. n /\ 8 + s + o + j = i
    <3> HIDE DEF s, o, n
    <3> QED BY <1>1, <1>3
  <2> HIDE DEF j, s, o, n
  <2>2. T[8 + s + o + j] = RowThing(b.new[j]) /\ b.new[j] \in Examples
    BY <1>4, <2>1
  <2>3. T[i] = RowThing(b.new[j])
    BY <2>1, <2>2
  <2> QED BY <2>2, <2>3, RowThingIs
<1>7. RowsFrom(At(data, a, off[m]), off[Len(T)]) = RowsBehind(T, m)
  <2> HIDE DEF m, a, data
  <2> QED BY <1>1, <1>5, <1>6, RowsFromIs
<1>8. RowsBehind(T, m) = [i \in 1 .. n - c |-> b.new[c + i]]
  <2>1. Len(T) - m = n - c /\ \A i \in 1 .. n - c : c + i \in 1 .. n /\ m + i = 8 + s + o + (c + i)
    <3> HIDE DEF s, o, n
    <3> QED BY <1>1, <1>3
  <2>2. ASSUME NEW i \in 1 .. n - c PROVE T[m + i].row = b.new[c + i]
    <3> DEFINE j == c + i
    <3>1. j \in 1 .. n /\ m + i = 8 + s + o + j
      BY <2>1
    <3> HIDE DEF j, m
    <3>2. T[8 + s + o + j] = RowThing(b.new[j]) /\ b.new[j] \in Examples
      BY <1>4, <3>1
    <3>3. T[m + i] = RowThing(b.new[j])
      BY <3>1, <3>2
    <3>4. T[m + i].row = b.new[j]
      BY <3>2, <3>3, RowThingIs
    <3> QED BY <3>4 DEF j
  <2> HIDE DEF m
  <2> QED BY <2>1, <2>2 DEF RowsBehind
<1> QED BY <1>2, <1>5, <1>7, <1>8

LEMMA PiecesAre ==
  ASSUME NEW b \in Blocks, NEW s, s = Len(b.sv), NEW o, o = Len(b.old), NEW c \in 0 .. Len(b.new)
  PROVE  /\ Piece(b, 0, s) = b.sv /\ Piece(b, s, o) = b.old
         /\ Piece(b, s + o, c) \o [i \in 1 .. Len(b.new) - c |-> b.new[c + i]] = b.new
<1> DEFINE n == Len(b.new)
           R == Rows(b)
<1>1. /\ s \in Nat /\ o \in Nat /\ n \in Nat
      /\ \A i \in 1 .. s : R[i] = b.sv[i]
      /\ \A i \in 1 .. o : R[s + i] = b.old[i]
      /\ \A i \in 1 .. n : R[s + o + i] = b.new[i]
  BY RowsAre
<1>2. b.sv \in Seq(Examples) /\ b.old \in Seq(Examples) /\ b.new \in Seq(Examples)
  BY DEF Blocks
<1>3. /\ b.sv = [i \in 1 .. s |-> b.sv[i]] /\ b.old = [i \in 1 .. o |-> b.old[i]]
      /\ \A i \in 1 .. n : b.new[i] \in Examples
  <2>1. \A x \in Seq(Examples) : x = [i \in 1 .. Len(x) |-> x[i]]
    <3> SUFFICES ASSUME NEW x \in Seq(Examples) PROVE x = [i \in 1 .. Len(x) |-> x[i]]
      OBVIOUS
    <3>1. x \in [1 .. Len(x) -> Examples]
      BY LenProperties
    <3> QED BY <3>1
  <2> QED BY <1>2, <2>1, ElementOfSeq
<1> HIDE DEF n, R
<1>4. Piece(b, 0, s) = b.sv
  <2>1. \A i \in 1 .. s : R[0 + i] = b.sv[i]
    <3>1. \A i \in 1 .. s : 0 + i = i
      BY <1>1
    <3> QED BY <1>1, <3>1
  <2> QED BY <1>3, <2>1 DEF Piece, R
<1>5. Piece(b, s, o) = b.old
  BY <1>1, <1>3 DEF Piece, R
<1> DEFINE p == Piece(b, s + o, c)
           q == [i \in 1 .. n - c |-> b.new[c + i]]
           m == n - c
<1>6. /\ c \in Nat /\ m \in Nat /\ c + m = n /\ c <= n /\ \A i \in 1 .. c : i \in 1 .. n
      /\ \A i \in 1 .. m : c + i \in 1 .. n
  BY <1>1 DEF n
<1>7. p \in Seq(Examples) /\ Len(p) = c /\ \A i \in 1 .. c : p[i] = b.new[i]
  <2>1. p = [i \in 1 .. c |-> R[s + o + i]] /\ \A i \in 1 .. c : R[s + o + i] = b.new[i] /\ b.new[i] \in Examples
    <3>1. \A i \in 1 .. c : R[s + o + i] = b.new[i] /\ b.new[i] \in Examples
      BY <1>1, <1>3, <1>6
    <3> QED BY <3>1 DEF Piece, R
  <2> HIDE DEF p
  <2>2. p \in [1 .. c -> Examples]
    BY <2>1
  <2>3. p \in Seq(Examples)
    BY <1>6, <2>2, SeqDef
  <2>4. Len(p) = c
    BY <1>6, <2>2, <2>3, LenProperties
  <2> QED BY <2>1, <2>3, <2>4
<1>8. q \in Seq(Examples) /\ Len(q) = m /\ \A i \in 1 .. m : q[i] = b.new[c + i]
  <2>1. q \in [1 .. m -> Examples]
    <3>1. \A i \in 1 .. m : b.new[c + i] \in Examples
      BY <1>3, <1>6
    <3> HIDE DEF m
    <3> QED BY <3>1 DEF m
  <2>2. \A i \in 1 .. m : q[i] = b.new[c + i]
    OBVIOUS
  <2> HIDE DEF q, m
  <2>3. q \in Seq(Examples)
    BY <1>6, <2>1, SeqDef
  <2>4. Len(q) = m
    BY <1>6, <2>1, <2>3, LenProperties
  <2> QED BY <2>2, <2>3, <2>4
<1> HIDE DEF p, q, m
<1>9. IsConcat(p \o q, Examples, p, q, c, m)
  BY <1>6, <1>7, <1>8, ConcatIs
<1> DEFINE u == p \o q
<1> HIDE DEF u
<1>10. u = b.new
  <2>1. u \in Seq(Examples) /\ Len(u) = n
    BY <1>6, <1>9 DEF IsConcat, u
  <2>2. ASSUME NEW i \in 1 .. n PROVE u[i] = b.new[i]
    <3>1. CASE i <= c
      <4>1. i \in 1 .. c
        BY <1>6, <3>1
      <4> QED BY <1>7, <1>9, <4>1 DEF IsConcat, u
    <3>2. CASE c < i
      <4> DEFINE j == i - c
      <4>1. j \in 1 .. m /\ c + j = i
        BY <1>1, <1>6, <3>2
      <4> HIDE DEF j
      <4>2. u[c + j] = q[j]
        BY <1>9, <4>1 DEF IsConcat, u
      <4> QED BY <1>8, <4>1, <4>2
    <3> QED BY <1>1, <1>6, <3>1, <3>2
  <2>3. Len(b.new) = n
    BY DEF n
  <2> QED BY <1>2, <2>1, <2>2, <2>3, SeqEqual
<1> QED BY <1>4, <1>5, <1>10 DEF u, p, q, n

\* What was written and appended reads back whole.
LEMMA BlockRead ==
  ASSUME NEW b \in Blocks, Whole(b), NEW d, NEW T, NEW off, NEW c, Opened(d, T, off, b, c)
  PROVE  read_svm_db(d) = b /\ Readable(d)
<1> DEFINE s == Len(b.sv)
           o == Len(b.old)
           n == s + o + c
           m == s + o
           fh == Header(d)
           at == T[2].at
           p == SubSeq(at, 1, s)
           q == SubSeq(at, s + 1, s + o)
           r == SubSeq(at, s + o + 1, s + o + c)
           rows(x) == [i \in DOMAIN x |-> RowsAt(d, x)[i].row]
<1>1. c \in 0 .. Len(b.new)
  BY DEF Opened, IsFile
<1>2. IsMapped(n, b, c)
  BY DEF IsMapped
<1>3. /\ at \in Seq(Nat) /\ Len(at) = n /\ n \in Nat /\ c \in Nat
      /\ \A i \in 1 .. n : RowHere(d, T, off, b, i)
  <2> HIDE DEF n
  <2> QED BY <1>2, RowHereIs
<1>4. s \in Nat /\ o \in Nat /\ m \in Nat
  <2>1. s \in Nat /\ o \in Nat
    BY RowsAre
  <2> HIDE DEF s, o
  <2> QED BY <2>1
<1>5. PlacesOf(d, fh) = [sv |-> p, old |-> q, new |-> r]
  <2>1. s = Len(b.sv) /\ o = Len(b.old) /\ fh = Header(d)
    OBVIOUS
  <2> HIDE DEF s, o, fh
  <2>2. HasPlaces(d, fh, T[2].at, s, o, c)
    BY <2>1, PlacesRead
  <2> QED BY <2>2 DEF HasPlaces
<1>6. HeaderSays(fh, d, T, off, b, c)
  <2> HIDE DEF fh
  <2> QED BY HeaderRead DEF fh
<1>7. rows(p) = b.sv /\ rows(q) = b.old
  <2>1. rows(p) = Piece(b, 0, s)
    <3> DEFINE z == 0
    <3>1. z \in Nat /\ z + s <= n /\ p = SubSeq(at, z + 1, z + s)
      <4> HIDE DEF s, o, at
      <4> QED BY <1>3, <1>4
    <3> HIDE DEF z, p, n, s
    <3>2. Leads(d, p, b, z, s)
      BY <1>2, <1>4, <3>1, PieceRead
    <3> QED BY <3>2 DEF z, Leads
  <2>2. rows(q) = Piece(b, s, o)
    <3>1. s + o <= n
      <4> HIDE DEF s, o, at
      <4> QED BY <1>3, <1>4
    <3>2. q = SubSeq(at, s + 1, s + o)
      OBVIOUS
    <3> HIDE DEF n, s, o, q
    <3>3. Leads(d, q, b, s, o)
      BY <1>2, <1>4, <3>1, <3>2, PieceRead
    <3> QED BY <3>3 DEF Leads
  <2> QED BY <1>1, <2>1, <2>2, PiecesAre
<1>8. rows(r) = Piece(b, s + o, c)
  <2>1. m + c <= n /\ r = SubSeq(at, m + 1, m + c)
    <3> HIDE DEF s, o, at
    <3> QED BY <1>3, <1>4
  <2> HIDE DEF n, m, r
  <2>2. Leads(d, r, b, m, c)
    BY <1>2, <1>3, <1>4, <2>1, PieceRead
  <2> QED BY <2>2 DEF m, Leads
<1> DEFINE appended == RowsFrom(dbseek(dbopen(d), fh.new), fh.end)
<1>9. rows(r) \o appended = b.new
  <2>1. appended = [i \in 1 .. Len(b.new) - c |-> b.new[c + i]]
    <3> HIDE DEF fh
    <3> QED BY AppendedRead DEF fh
  <2> HIDE DEF appended
  <2>2. Piece(b, s + o, c) \o [i \in 1 .. Len(b.new) - c |-> b.new[c + i]] = b.new
    BY <1>1, PiecesAre
  <2> QED BY <1>8, <2>1, <2>2
<1> DEFINE theta == IF fh.has_solution THEN ThetaOf(d, fh) ELSE None
           num == IF fh.has_solution THEN Here(Numbered(d, fh)).n ELSE 0
<1>10. theta = b.theta /\ num = b.num
  <2> HIDE DEF fh
  <2>1. fh.has_solution <=> b.theta # None
    BY <1>6 DEF HeaderSays
  <2>2. CASE b.theta = None
    BY <2>1, <2>2 DEF Whole
  <2>3. CASE b.theta # None
    <3>1. ThetaOf(d, fh) = b.theta /\ Here(Numbered(d, fh)) = NumberOf(b)
      BY <2>3, SolutionRead DEF fh
    <3>2. NumberOf(b).n = b.num
      BY DEF NumberOf
    <3> QED BY <2>1, <2>3, <3>1, <3>2
  <2> QED BY <2>2, <2>3
<1>11. read_svm_db(d) =
         [theta |-> theta, num |-> num, sv |-> rows(p), old |-> rows(q), new |-> rows(r) \o appended,
          n_old |-> fh.n_old, counts |-> fh.counts, map_size |-> fh.map_size]
  <2>1. PlacesOf(d, fh).sv = p /\ PlacesOf(d, fh).old = q /\ PlacesOf(d, fh).new = r
    <3> HIDE DEF p, q, r, fh
    <3> QED BY <1>5
  <2> HIDE DEF p, q, r
  <2> QED BY <2>1 DEF read_svm_db
<1>12. fh.n_old = b.n_old /\ fh.counts = b.counts /\ fh.map_size = b.map_size
  <2> HIDE DEF fh
  <2> QED BY <1>6 DEF HeaderSays
<1>13. b = [theta |-> b.theta, num |-> b.num, sv |-> b.sv, old |-> b.old, new |-> b.new,
            n_old |-> b.n_old, counts |-> b.counts, map_size |-> b.map_size]
  BY DEF Blocks
<1>14. read_svm_db(d) = b
  <2> HIDE DEF theta, num, rows, appended, fh, p, q, r
  <2> QED BY <1>7, <1>9, <1>10, <1>11, <1>12, <1>13
<1>15. (p \o q) \o r = at
  <2>1. Len(at) = s + o + c /\ at \in Seq(Nat)
    BY <1>3
  <2> HIDE DEF s, o, at
  <2> QED BY <1>3, <1>4, <2>1, PiecesJoin
<1>16. \A thing \in Range(RowsAt(d, (p \o q) \o r)) : IsRow(thing)
  <2>1. DOMAIN at = 1 .. n
    BY <1>3, LenProperties
  <2>2. ASSUME NEW i \in 1 .. n PROVE IsRow(RowsAt(d, at)[i])
    <3>1. RowsAt(d, at)[i] = Here(dbseek(dbopen(d), at[i]))
      BY <2>1 DEF RowsAt
    <3>2. RowHere(d, T, off, b, i)
      BY <1>3
    <3>3. RowsAt(d, at)[i] = RowThing(Rows(b)[i]) /\ Rows(b)[i] \in Examples
      BY <3>1, <3>2 DEF RowHere
    <3> QED BY <3>3, RowThingIs
  <2>3. DOMAIN RowsAt(d, at) = 1 .. n
    BY <2>1 DEF RowsAt
  <2> HIDE DEF p, q, r, n, at
  <2>4. \A thing \in Range(RowsAt(d, at)) : IsRow(thing)
    BY <2>2, <2>3 DEF Range
  <2> QED BY <1>15, <2>4
<1>17. ASSUME fh.has_solution
       PROVE  /\ ThetaOf(d, fh).kind = "theta" /\ ~ Numbered(d, fh).eof
              /\ Here(Numbered(d, fh)).kind = "number"
  <2> HIDE DEF fh
  <2>1. b.theta # None
    BY <1>6, <1>17 DEF HeaderSays
  <2>2. /\ ThetaOf(d, fh) = b.theta /\ b.theta.kind = "theta"
        /\ Numbered(d, fh) = At(d.data, d.alloc, off[5])
        /\ Here(Numbered(d, fh)) = NumberOf(b)
    BY <2>1, SolutionRead DEF fh
  <2>3. ~ Numbered(d, fh).eof
    BY <2>2 DEF At
  <2> QED BY <2>2, <2>3 DEF NumberOf
<1>18. fh # None
  <2> HIDE DEF fh
  <2> QED BY <1>6 DEF HeaderSays
<1>19. Readable(d)
  <2>1. PlacesOf(d, fh).sv = p /\ PlacesOf(d, fh).old = q /\ PlacesOf(d, fh).new = r
    <3> HIDE DEF p, q, r, fh
    <3> QED BY <1>5
  <2> HIDE DEF p, q, r
  <2> QED BY <1>16, <1>17, <1>18, <2>1 DEF Readable
<1> QED BY <1>14, <1>19

LEMMA RowsOfBody ==
  ASSUME NEW b \in Blocks, NEW T, IsBody(T, b), T[1].kind = "header", T[2].kind = "map",
         NEW r, r = Len(Rows(b))
  PROVE  HasRowsAt(T, r, RowPlaces(b, r))
<1> DEFINE s == Len(b.sv)
           pos == RowPlaces(b, r)
<1>1. r \in Nat /\ s \in Nat /\ Len(T) = 8 + r /\ r >= s
  BY RowCountIs DEF IsBody, HasRows
<1>2. ASSUME NEW k \in 1 .. Len(T)
      PROVE  /\ k <= 6 => T[k].kind # "row" /\ T[k].kind # "matrix"
             /\ k = 7 \/ k = 8 + s => T[k].kind = "matrix"
             /\ k > 7 /\ k # 8 + s =>
                  /\ T[k].kind = "row" /\ T[k].size > 0
                  /\ (IF k <= 7 + s THEN k - 7 ELSE k - 8) \in 1 .. r
                  /\ RowIndex(b, IF k <= 7 + s THEN k - 7 ELSE k - 8) = k
  BY KindsAre
<1> HIDE DEF s
<1>3. \A j \in 1 .. r : pos[j] = IF j <= s THEN 7 + j ELSE 8 + j
  BY DEF RowPlaces, RowIndex, s
<1>4. \A j \in 1 .. r : pos[j] \in 1 .. Len(T) /\ pos[j] > 7 /\ pos[j] # 8 + s
  BY <1>1, <1>3
<1>5. pos \in [1 .. r -> 1 .. Len(T)]
  <2>1. pos = [j \in 1 .. r |-> pos[j]]
    BY DEF RowPlaces
  <2> HIDE DEF pos
  <2> QED BY <1>4, <2>1
<1>6. \A j, k \in 1 .. r : pos[j] = pos[k] => j = k
  <2> HIDE DEF pos
  <2> QED BY <1>1, <1>3
<1>7. ASSUME NEW i \in 1 .. Len(T), IsRow(T[i])
      PROVE  (\E j \in 1 .. r : i = pos[j]) /\ T[i].size > 0
  <2>1. i > 7 /\ i # 8 + s
    <3>1. T[i].kind = "row"
      BY <1>7 DEF IsRow
    <3>2. ~ (i <= 6) /\ i # 7 /\ i # 8 + s
      BY <1>2, <3>1
    <3> QED BY <1>1, <3>2
  <2> DEFINE j == IF i <= 7 + s THEN i - 7 ELSE i - 8
  <2>2. T[i].size > 0 /\ j \in 1 .. r /\ RowIndex(b, j) = i
    BY <1>2, <2>1
  <2> HIDE DEF j
  <2>3. pos[j] = i
    BY <2>2 DEF RowPlaces
  <2> QED BY <2>2, <2>3
<1>8. ASSUME NEW j \in 1 .. r PROVE IsRow(T[pos[j]])
  <2> DEFINE k == pos[j]
  <2>1. k \in 1 .. Len(T) /\ k > 7 /\ k # 8 + s
    BY <1>4
  <2> HIDE DEF k
  <2>2. T[k].kind = "row"
    BY <1>2, <2>1
  <2> QED BY <2>2 DEF IsRow, k
<1>9. \A i \in 1 .. Len(T) : IsRow(T[i]) <=> \E j \in 1 .. r : i = pos[j]
  BY <1>7, <1>8
<1> QED BY <1>1, <1>5, <1>6, <1>7, <1>9 DEF HasRowsAt

\* Every row is at a place of the map or behind the end of what was written.
LEMMA RowsWithin ==
  ASSUME NEW b \in Blocks, Whole(b), NEW d, NEW T, NEW off, NEW c, Opened(d, T, off, b, c),
         NEW fh, fh = Header(d), NEW places, places = PlacesOf(d, fh)
  PROVE  /\ Range((places.sv \o places.old) \o places.new) = {p \in RowsIn(d.data) : p < fh.new}
         /\ Cardinality(RowsIn(d.data)) = Len(Rows(b))
<1> DEFINE r == Len(Rows(b))
           at == T[2].at
           s == Len(b.sv)
           o == Len(b.old)
           n == s + o + c
           pos == RowPlaces(b, r)
<1>1. /\ IsBody(T, b) /\ IsThings(T) /\ IsLaid(off, T) /\ Holds(d.data, off, T) /\ c \in 0 .. Len(b.new)
  BY DEF Opened, IsFile, IsBody
<1>2. HeaderSays(fh, d, T, off, b, c)
  BY HeaderRead
<1>3. T[1].kind = "header" /\ T[2].kind = "map" /\ fh.new = off[8 + s + o + c]
  BY <1>2 DEF HeaderSays
<1>4. HasRowsAt(T, r, pos)
  BY <1>1, <1>3, RowsOfBody
<1>5. /\ RowsIn(d.data) = {off[pos[j] - 1] : j \in 1 .. r}
      /\ Cardinality(RowsIn(d.data)) = r
  <2> DEFINE data == d.data
  <2> HIDE DEF pos, r
  <2>1. Holds(data, off, T)
    BY <1>1
  <2> HIDE DEF data
  <2>2. /\ RowsIn(data) = {off[pos[j] - 1] : j \in 1 .. r}
        /\ Cardinality(RowsIn(data)) = r
    BY <1>1, <1>4, <2>1, RowsHeld
  <2> QED BY <2>2 DEF data
<1>6. /\ at \in Seq(Nat) /\ Len(at) = n /\ n \in Nat /\ n <= r /\ c \in Nat
      /\ \A i \in 1 .. n : RowHere(d, T, off, b, i)
  <2>1. IsMapped(n, b, c)
    BY DEF IsMapped
  <2> HIDE DEF n
  <2> QED BY <2>1, RowHereIs
<1>7. s \in Nat /\ o \in Nat /\ r \in Nat /\ Len(T) = 8 + r /\ Len(T) \in Nat /\ s <= n
  <2>1. s \in Nat /\ o \in Nat
    BY RowsAre
  <2>2. r \in Nat /\ Len(T) = 8 + r /\ Len(T) \in Nat
    BY <1>1, RowCountIs, LengthIs
  <2>3. s <= n
    <3> HIDE DEF s, o
    <3> QED BY <1>6, <2>1
  <2> QED BY <2>1, <2>2, <2>3
<1>8. (places.sv \o places.old) \o places.new = at
  <2>1. HasPlaces(d, fh, at, s, o, c)
    <3>1. s = Len(b.sv) /\ o = Len(b.old)
      OBVIOUS
    <3> HIDE DEF s, o
    <3> QED BY <3>1, PlacesRead
  <2> DEFINE p == SubSeq(at, 1, s)
             q == SubSeq(at, s + 1, s + o)
             u == SubSeq(at, s + o + 1, s + o + c)
  <2>2. places = [sv |-> p, old |-> q, new |-> u]
    BY <2>1 DEF HasPlaces
  <2>3. places.sv = p /\ places.old = q /\ places.new = u
    <3> HIDE DEF p, q, u
    <3> QED BY <2>2
  <2>4. (p \o q) \o u = at
    <3>1. Len(at) = s + o + c /\ at \in Seq(Nat)
      BY <1>6
    <3>2. s \in Nat /\ o \in Nat /\ c \in Nat
      BY <1>6, <1>7
    <3> HIDE DEF s, o, at
    <3> QED BY <3>1, <3>2, PiecesJoin
  <2> HIDE DEF p, q, u
  <2> QED BY <2>3, <2>4
<1>9. Range(at) = {off[pos[j] - 1] : j \in 1 .. n}
  <2>1. DOMAIN at = 1 .. n
    BY <1>6, LenProperties
  <2>2. \A i \in 1 .. n : i \in 1 .. r /\ at[i] = off[pos[i] - 1]
    <3> SUFFICES ASSUME NEW i \in 1 .. n PROVE i \in 1 .. r /\ at[i] = off[pos[i] - 1]
      OBVIOUS
    <3>1. i \in 1 .. r /\ at[i] = off[RowIndex(b, i) - 1]
      BY <1>6 DEF RowHere
    <3> QED BY <3>1 DEF RowPlaces
  <2> HIDE DEF at, pos, n
  <2> QED BY <2>1, <2>2 DEF Range
<1>10. ASSUME NEW j \in 1 .. r PROVE off[pos[j] - 1] < fh.new <=> j <= n
  <2> DEFINE k == RowIndex(b, j)
             e == 8 + n
  <2>1. pos[j] = k /\ k \in 1 .. Len(T) /\ IsRow(T[k])
    <3>1. pos[j] = k
      BY DEF RowPlaces
    <3>2. pos[j] \in 1 .. Len(T) /\ IsRow(T[pos[j]])
      <4> HIDE DEF pos
      <4> QED BY <1>4 DEF HasRowsAt
    <3> QED BY <3>1, <3>2
  <2>2. k = IF j <= s THEN 7 + j ELSE 8 + j
    BY DEF RowIndex
  <2>3. T[k].size > 0
    <3> HIDE DEF k
    <3> QED BY <1>4, <2>1 DEF HasRowsAt
  <2>4. fh.new = off[e] /\ e \in 0 .. Len(T) /\ Len(T) \in 0 .. Len(T)
    <3>1. 8 + s + o + c = e
      <4> HIDE DEF s, o, r
      <4> QED BY <1>6, <1>7
    <3>2. e \in 0 .. Len(T) /\ Len(T) \in 0 .. Len(T)
      <4> HIDE DEF n, r
      <4> QED BY <1>6, <1>7
    <3> HIDE DEF s, o
    <3> QED BY <1>3, <3>1, <3>2
  <2> HIDE DEF k
  <2>5. off[k] = off[k - 1] + T[k].size /\ off[k - 1] \in Nat /\ T[k].size \in Nat /\ off[k] \in Nat
    <3>1. k \in 0 .. Len(T)
      BY <1>7, <2>1
    <3> QED BY <1>1, <2>1, <3>1, LaidIs
  <2> DEFINE x == off[e]
  <2>6. x \in Nat
    <3> HIDE DEF e
    <3> QED BY <1>1, <2>4, LaidIs
  <2>7. CASE j <= n
    <3>1. k <= e /\ k \in 0 .. e
      <4> HIDE DEF s, n, r
      <4> QED BY <1>6, <1>7, <2>1, <2>2, <2>7
    <3>2. off[k] <= x
      <4> HIDE DEF e
      <4> QED BY <1>1, <2>4, <3>1, LaidIs DEF x
    <3> HIDE DEF x, n
    <3>3. off[k - 1] < x
      BY <2>3, <2>5, <2>6, <3>2
    <3> QED BY <2>1, <2>4, <2>7, <3>3 DEF x
  <2>8. CASE ~ (j <= n)
    <3>1. k - 1 \in 0 .. Len(T) /\ e \in 0 .. k - 1
      <4> HIDE DEF s, n, r
      <4> QED BY <1>6, <1>7, <2>1, <2>2, <2>8
    <3>2. x <= off[k - 1]
      <4> DEFINE l == k - 1
      <4>1. l \in 0 .. Len(T) /\ e \in 0 .. l
        BY <3>1
      <4> HIDE DEF e, l
      <4>2. off[e] <= off[l]
        BY <1>1, <4>1, LaidIs
      <4> QED BY <4>2 DEF x, l
    <3> HIDE DEF x, n
    <3>3. ~ (off[k - 1] < x)
      BY <2>5, <2>6, <3>2
    <3> QED BY <2>1, <2>4, <2>8, <3>3 DEF x
  <2> QED BY <2>7, <2>8
<1>11. {off[pos[j] - 1] : j \in 1 .. n} = {p \in RowsIn(d.data) : p < fh.new}
  <2>1. \A j \in 1 .. r : j <= n => j \in 1 .. n
    <3> HIDE DEF n, r
    <3> QED BY <1>6, <1>7
  <2>2. \A j \in 1 .. n : j \in 1 .. r /\ j <= n
    <3> HIDE DEF n, r
    <3> QED BY <1>6, <1>7
  <2> HIDE DEF pos, n, r
  <2> QED BY <1>5, <1>10, <2>1, <2>2
<1>12. Range((places.sv \o places.old) \o places.new) = {p \in RowsIn(d.data) : p < fh.new}
  <2> HIDE DEF pos, n, r, at
  <2> QED BY <1>8, <1>9, <1>11
<1> QED BY <1>5, <1>12

\* A file read back.
IsRead(d, b) ==
  /\ 0 \in DOMAIN d.data /\ Header(d) # None /\ Header(d) = FileHeader(d)
  /\ Header(d).end \in Nat /\ Header(d).end <= d.alloc
  /\ Header(d).counts = b.counts
  /\ Readable(d) /\ read_svm_db(d) = b /\ Kept(d) = Rows(b)
  /\ \A p \in DOMAIN d.data : p + d.data[p].size <= Header(d).end
  /\ Range((PlacesOf(d, Header(d)).sv \o PlacesOf(d, Header(d)).old) \o PlacesOf(d, Header(d)).new)
       = {p \in RowsIn(d.data) : p < Header(d).new}
  /\ Cardinality(RowsIn(d.data)) = Len(Rows(b))
  /\ has_new_vectors(d) <=> b.new # << >>
  /\ get_theta_from_svm_db(d) = b.theta

LEMMA ReadBack ==
  ASSUME NEW b \in Blocks, Whole(b), NEW d, Dbs(d), FileIs(d, b)
  PROVE  IsRead(d, b)
<1>1. PICK T, off, c : Opened(d, T, off, b, c)
  BY DEF FileIs, Opened
<1> DEFINE fh == Header(d)
<1>2. HeaderSays(fh, d, T, off, b, c)
  <2> HIDE DEF fh
  <2> QED BY <1>1, HeaderRead DEF fh
<1>3. /\ 0 \in DOMAIN d.data /\ fh # None /\ fh = FileHeader(d) /\ fh.end \in Nat /\ fh.end <= d.alloc
      /\ fh.counts = b.counts /\ fh.end = off[Len(T)] /\ fh.n_new = c
  <2> HIDE DEF fh
  <2> QED BY <1>2 DEF HeaderSays
<1>4. fh.has_solution <=> b.theta # None
  <2> HIDE DEF fh
  <2> QED BY <1>2 DEF HeaderSays
<1>5. Readable(d) /\ read_svm_db(d) = b
  BY <1>1, BlockRead
<1>6. Kept(d) = Rows(b)
  BY <1>5 DEF Kept
<1>7. ASSUME NEW p \in DOMAIN d.data PROVE p + d.data[p].size <= fh.end
  <2>1. IsThings(T) /\ IsLaid(off, T) /\ Holds(d.data, off, T)
    BY <1>1 DEF Opened, IsFile, IsBody
  <2>2. \E i \in 1 .. Len(T) : p + d.data[p].size = off[i] /\ off[i] <= off[Len(T)]
    BY <2>1, HeldWithin
  <2> HIDE DEF fh
  <2> QED BY <1>3, <2>2
<1>8. /\ Range((PlacesOf(d, fh).sv \o PlacesOf(d, fh).old) \o PlacesOf(d, fh).new)
           = {p \in RowsIn(d.data) : p < fh.new}
      /\ Cardinality(RowsIn(d.data)) = Len(Rows(b))
  <2> DEFINE places == PlacesOf(d, fh)
  <2> HIDE DEF fh, places
  <2>1. /\ Range((places.sv \o places.old) \o places.new) = {p \in RowsIn(d.data) : p < fh.new}
        /\ Cardinality(RowsIn(d.data)) = Len(Rows(b))
    BY <1>1, RowsWithin DEF fh, places
  <2> QED BY <2>1 DEF places
<1>9. has_new_vectors(d) <=> b.new # << >>
  <2> DEFINE appended == RowsFrom(dbseek(dbopen(d), fh.new), fh.end)
             n == Len(b.new)
  <2>1. appended = [i \in 1 .. n - c |-> b.new[c + i]]
    <3> HIDE DEF fh
    <3> QED BY <1>1, AppendedRead DEF fh
  <2>2. c \in 0 .. n /\ n \in Nat /\ b.new \in Seq(Examples)
    <3>1. b.new \in Seq(Examples)
      BY DEF Blocks
    <3> QED BY <1>1, <3>1, LenProperties DEF Opened, IsFile
  <2>3. has_new_vectors(d) <=> (c > 0 \/ appended # << >>)
    <3> HIDE DEF appended
    <3>1. has_new_vectors(d) <=> (fh # None /\ (fh.n_new > 0 \/ appended # << >>))
      BY DEF has_new_vectors, appended
    <3> HIDE DEF fh
    <3> QED BY <1>3, <3>1
  <2>4. appended = << >> <=> n - c <= 0
    <3>1. DOMAIN appended = 1 .. n - c
      <4> HIDE DEF fh
      <4> QED BY <2>1
    <3>2. CASE n - c <= 0
      <4>1. 1 .. n - c = {}
        <5> HIDE DEF n
        <5> QED BY <2>2, <3>2
      <4>2. appended = [i \in {} |-> b.new[c + i]]
        <5> HIDE DEF appended
        <5> QED BY <2>1, <4>1
      <4> HIDE DEF appended
      <4> QED BY <3>2, <4>2
    <3>3. CASE ~ (n - c <= 0)
      <4>1. 1 \in 1 .. n - c
        <5> HIDE DEF n
        <5> QED BY <2>2, <3>3
      <4>2. DOMAIN << >> = {}
        OBVIOUS
      <4> HIDE DEF appended, n
      <4> QED BY <3>1, <3>3, <4>1, <4>2
    <3> QED BY <3>2, <3>3
  <2>5. b.new = << >> <=> n = 0
    BY <2>2, EmptySeq
  <2> HIDE DEF n, appended
  <2> QED BY <2>2, <2>3, <2>4, <2>5
<1>10. get_theta_from_svm_db(d) = b.theta
  <2>1. get_theta_from_svm_db(d) = IF fh = None THEN None ELSE IF fh.has_solution THEN ThetaOf(d, fh) ELSE None
    BY DEF get_theta_from_svm_db
  <2>2. b.theta # None => ThetaOf(d, fh) = b.theta
    <3> HIDE DEF fh
    <3> QED BY <1>1, SolutionRead DEF fh
  <2> HIDE DEF fh
  <2> QED BY <1>3, <1>4, <2>1, <2>2
<1> HIDE DEF fh
<1> QED BY <1>3, <1>5, <1>6, <1>7, <1>8, <1>9, <1>10 DEF IsRead, fh

-----------------------------------------------------------------------------
(* An example appended to the file of a block.                             *)

Longer(b, e) ==
  [theta |-> b.theta, num |-> b.num, sv |-> b.sv, old |-> b.old, new |-> Append(b.new, e),
   n_old |-> b.n_old, counts |-> b.counts, map_size |-> b.map_size]

LEMMA LongerIs ==
  ASSUME NEW b \in Blocks, NEW e \in Examples, NEW b1, b1 = Longer(b, e)
  PROVE  /\ b1 \in Blocks /\ b1.theta = b.theta /\ b1.num = b.num /\ b1.sv = b.sv /\ b1.old = b.old
         /\ b1.new = Append(b.new, e) /\ b1.n_old = b.n_old /\ b1.counts = b.counts
         /\ b1.map_size = b.map_size /\ Rows(b1) = Append(Rows(b), e)
         /\ Len(b1.new) = Len(b.new) + 1 /\ Len(Rows(b1)) = Len(Rows(b)) + 1
         /\ \A i : RowIndex(b1, i) = RowIndex(b, i)
<1>1. /\ b.theta \in Fitting /\ b.num \in Nat /\ b.sv \in Seq(Examples) /\ b.old \in Seq(Examples)
      /\ b.new \in Seq(Examples) /\ b.n_old \in Nat /\ b.counts \in AllCounts /\ b.map_size \in Nat \ {0}
  BY DEF Blocks
<1>2. /\ b1.theta = b.theta /\ b1.num = b.num /\ b1.sv = b.sv /\ b1.old = b.old
      /\ b1.new = Append(b.new, e) /\ b1.n_old = b.n_old /\ b1.counts = b.counts
      /\ b1.map_size = b.map_size
  BY DEF Longer
<1>3. Append(b.new, e) \in Seq(Examples) /\ Len(Append(b.new, e)) = Len(b.new) + 1
  BY <1>1, AppendProperties
<1>4. b1 \in Blocks
  BY <1>1, <1>3 DEF Longer, Blocks
<1>5. Rows(b1) = Append(Rows(b), e)
  <2> DEFINE x == b.sv \o b.old
             n == b.new
             o == <<e>>
  <2>1. x \in Seq(Examples) /\ n \in Seq(Examples) /\ o \in Seq(Examples)
    BY <1>1, ConcatProperties
  <2>2. Append(n, e) = n \o o
    BY <2>1, AppendIsConcat
  <2>3. Append(x \o n, e) = (x \o n) \o o
    <3>1. x \o n \in Seq(Examples)
      BY <2>1, ConcatProperties
    <3> HIDE DEF x, n
    <3> QED BY <3>1, AppendIsConcat
  <2>4. x \o (n \o o) = (x \o n) \o o
    <3> HIDE DEF x, n, o
    <3> QED BY <2>1, ConcatAssociative
  <2> QED BY <1>2, <2>2, <2>3, <2>4 DEF Rows
<1>6. Len(Rows(b1)) = Len(Rows(b)) + 1
  BY <1>5, RowCountIs, AppendProperties
<1>7. \A i : RowIndex(b1, i) = RowIndex(b, i)
  BY <1>2 DEF RowIndex
<1> QED BY <1>2, <1>3, <1>4, <1>5, <1>6, <1>7

\* A thing added behind the others, and another written for the first.
IsAdded(U, uff, T, off, D, t, h) ==
  /\ IsThings(U) /\ Len(U) = Len(T) + 1 /\ U[1] = h /\ U[Len(U)] = t
  /\ \A i \in 2 .. Len(T) : U[i] = T[i]
  /\ IsLaid(uff, U) /\ uff[Len(U)] = off[Len(T)] + t.size
  /\ \A k \in 0 .. Len(T) : uff[k] = off[k]
  /\ Holds(Over(Over(D, off[Len(T)], t.size, t), 0, h.size, h), uff, U)

LEMMA AddedIs ==
  ASSUME NEW T, IsThings(T), NEW off, IsLaid(off, T), NEW D, Holds(D, off, T), Len(T) >= 1,
         NEW t, t.size \in Nat, t.size > 0, NEW h, h.size = T[1].size, h.size > 0
  PROVE  \E U, uff : IsAdded(U, uff, T, off, D, t, h)
<1> DEFINE n == Len(T)
           m == n + 1
           V == [i \in 1 .. m |-> IF i = m THEN t ELSE T[i]]
<1>1. n \in Nat /\ n >= 1 /\ m \in Nat /\ \A i \in 1 .. n : T[i].size \in Nat
  BY DEF IsThings
<1>2. /\ DOMAIN V = 1 .. m /\ V[m] = t /\ \A i \in 1 .. n : V[i] = T[i]
  <2> HIDE DEF n
  <2>1. \A i \in 1 .. n : i # m /\ i \in 1 .. m
    BY <1>1
  <2> QED BY <1>1, <2>1
<1> HIDE DEF n
<1>3. Len(V) = m
  <2> HIDE DEF V
  <2> QED BY <1>1, <1>2, LenProperties
<1> HIDE DEF V
<1>4. IsThings(V)
  <2>1. \A i \in 1 .. m : i = m \/ i \in 1 .. n
    BY <1>1
  <2>2. \A i \in 1 .. m : V[i].size \in Nat
    BY <1>1, <1>2, <2>1
  <2> QED BY <1>1, <1>2, <1>3, <2>2 DEF IsThings
<1>5. PICK uff : IsLaid(uff, V)
  BY <1>4, LaidExists
<1>6. \A k \in 0 .. n : off[k] = uff[k]
  <2>1. n \in Nat /\ n <= Len(T) /\ n <= Len(V) /\ \A i \in 1 .. n : T[i].size = V[i].size
    <3>1. Len(T) = n
      BY DEF n
    <3> QED BY <1>1, <1>2, <1>3, <3>1
  <2> QED BY <1>4, <1>5, <2>1, SamePlaces
<1> DEFINE o == Over(D, off[n], t.size, t)
<1>7. Holds(o, uff, V)
  <2>1. V[Len(V)].size > 0 /\ Len(V) = Len(T) + 1 /\ t = V[Len(V)] /\ \A i \in 1 .. Len(T) : V[i] = T[i]
    BY <1>2, <1>3 DEF n
  <2>2. Holds(Over(D, off[Len(T)], t.size, t), uff, V)
    BY <1>4, <1>5, <2>1, OneAdded
  <2> QED BY <2>2 DEF n
<1>8. uff[m] = off[n] + t.size /\ uff[0] = 0
  <2>1. m \in 1 .. Len(V) /\ m - 1 = n /\ n \in 0 .. n
    BY <1>1, <1>3
  <2>2. uff[m] = uff[m - 1] + V[m].size
    BY <1>5, <2>1 DEF IsLaid
  <2> QED BY <1>2, <1>5, <1>6, <2>1, <2>2 DEF IsLaid
<1> DEFINE i == 1
           U == [V EXCEPT ![i] = h]
           q == Over(o, uff[i - 1], h.size, h)
<1>9. i \in 1 .. Len(V) /\ h.size = V[i].size /\ uff[i - 1] = 0
  <2>1. 1 \in 1 .. Len(V) /\ 1 \in 1 .. n /\ 1 - 1 = 0
    BY <1>1, <1>3
  <2> QED BY <1>2, <1>8, <2>1
<1>10. IsThings(U) /\ Len(U) = Len(V) /\ IsLaid(uff, U) /\ Holds(q, uff, U)
  <2>1. IsData(o) /\ Below(o, uff, Len(V), V) /\ \A p \in DOMAIN o : p < uff[Len(V)]
    BY <1>7 DEF Holds
  <2>2. /\ IsThings(U) /\ Len(U) = Len(V) /\ IsLaid(uff, U)
        /\ IsData(q) /\ Below(q, uff, Len(U), U) /\ \A p \in DOMAIN q : p < uff[Len(V)]
    <3> HIDE DEF i, o
    <3> QED BY <1>4, <1>5, <1>9, <2>1, OneChanged
  <2> HIDE DEF U, q
  <2> QED BY <2>2 DEF Holds
<1>11. U[1] = h /\ U[m] = t /\ \A j \in 2 .. n : U[j] = T[j]
  <2>1. 1 \in 1 .. m /\ m # 1 /\ \A j \in 2 .. n : j \in 1 .. m /\ j # 1 /\ j \in 1 .. n
    BY <1>1
  <2>2. m \in 1 .. m
    BY <1>1
  <2>3. U[1] = h /\ \A j \in 1 .. m : j # 1 => U[j] = V[j]
    BY <1>2, <2>1
  <2> HIDE DEF U, m
  <2> QED BY <1>2, <2>1, <2>2, <2>3
<1>12. q = Over(Over(D, off[n], t.size, t), 0, h.size, h)
  BY <1>9
<1> HIDE DEF U, q, o, m
<1>13. Len(U) = m /\ m = Len(T) + 1
  BY <1>3, <1>10 DEF m, n
<1>14. IsAdded(U, uff, T, off, D, t, h)
  BY <1>6, <1>8, <1>10, <1>11, <1>12, <1>13 DEF IsAdded, n
<1> QED BY <1>14

\* What appending does to a database whose header is fh: the room it needs,
\* the row and the header.
LEMMA AppendedSays ==
  ASSUME NEW d, Dbs(d), NEW fh, fh.end \in Nat, fh.end <= d.alloc, NEW e \in Examples,
         NEW t, t = RowThing(e), NEW h, h = [fh EXCEPT !.end = fh.end + t.size],
         NEW q, q = Over(Over(d.data, fh.end, t.size, t), 0, 1, h), IsData(q)
  PROVE  /\ Dbs(Appended(d, fh, e)) /\ Appended(d, fh, e).data = q
         /\ fh.end + t.size <= Appended(d, fh, e).alloc
<1> DEFINE a == d.alloc
           D == d.data
           end == fh.end
           g == Greater((a * 11) \div 10, a + t.size)
           room == maybe_expand_db(d, end + t.size, g)
<1>1. t.size \in Nat /\ t.size > 0 /\ end \in Nat /\ end <= a /\ a \in Nat
  BY RowThingIs DEF Dbs
<1>2. g \in Nat /\ g >= a + t.size
  BY <1>1 DEF Greater
<1>3. d = [alloc |-> a, data |-> D, cb |-> d.cb]
  BY DEF Dbs
<1>4. Appended(d, fh, e) = [room EXCEPT !.data = q]
  <2>1. Appended(d, fh, e) = [room EXCEPT !.data = Over(Over(@, end, t.size, t), 0, 1, h)]
    BY DEF Appended
  <2>2. room.data = D
    <3> HIDE DEF g, end, a, D
    <3>1. ASSUME NEW r, r = [d EXCEPT !.alloc = g] PROVE r.data = D
      BY <1>3, <3>1
    <3> QED BY <1>3, <3>1 DEF maybe_expand_db
  <2>3. Over(Over(room.data, end, t.size, t), 0, 1, h) = q
    BY <2>2
  <2> HIDE DEF room, end
  <2> QED BY <2>1, <2>3
<1>5. room.cb = d.cb /\ room.alloc \in Nat /\ end + t.size <= room.alloc
      /\ room = [alloc |-> room.alloc, data |-> D, cb |-> d.cb]
  <2> HIDE DEF g, a, D, end
  <2>1. ASSUME NEW r, r = [d EXCEPT !.alloc = g] PROVE r = [alloc |-> g, data |-> D, cb |-> d.cb]
    BY <1>3, <2>1
  <2>2. room = IF end + t.size > a THEN [alloc |-> g, data |-> D, cb |-> d.cb] ELSE d
    BY <2>1 DEF maybe_expand_db, MustExpand, a
  <2> HIDE DEF room
  <2>3. CASE end + t.size > a
    <3>1. room = [alloc |-> g, data |-> D, cb |-> d.cb]
      BY <2>2, <2>3
    <3> QED BY <1>1, <1>2, <3>1
  <2>4. CASE ~ (end + t.size > a)
    <3>1. room = [alloc |-> a, data |-> D, cb |-> d.cb]
      BY <1>3, <2>2, <2>4
    <3> QED BY <1>1, <2>4, <3>1
  <2> QED BY <2>3, <2>4
<1> HIDE DEF room, g, D
<1>6. Appended(d, fh, e) = [alloc |-> room.alloc, data |-> q, cb |-> d.cb]
  <2>1. ASSUME NEW r, r = [room EXCEPT !.data = q] PROVE r = [alloc |-> room.alloc, data |-> q, cb |-> d.cb]
    BY <1>5, <2>1
  <2> QED BY <1>4, <2>1
<1> QED BY <1>5, <1>6 DEF Dbs

LEMMA MovedHeader ==
  ASSUME NEW b, NEW e, NEW b1, b1 = Longer(b, e), NEW c, NEW end, NEW old, NEW new, NEW to,
         NEW h, h = HeadOf(b, c, end, old, new), NEW r, r = [h EXCEPT !.end = to]
  PROVE  r = HeadOf(b1, c, to, old, new) /\ r.size = 1 /\ h.size = 1
<1>0. PICK z : z = (b.theta # None)
  OBVIOUS
<1> DEFINE no == b.n_old
           k == b.counts
           m == b.map_size
<1>1. h = [kind |-> "header", size |-> 1, end |-> end, old |-> old, new |-> new,
           n_new |-> c, n_old |-> no, has_solution |-> z, counts |-> k, map_size |-> m]
  BY <1>0 DEF HeadOf
<1>2. HeadOf(b1, c, to, old, new)
        = [kind |-> "header", size |-> 1, end |-> to, old |-> old, new |-> new,
           n_new |-> c, n_old |-> no, has_solution |-> z, counts |-> k, map_size |-> m]
  <2>1. b1.theta = b.theta /\ b1.n_old = no /\ b1.counts = k /\ b1.map_size = m
    BY DEF Longer
  <2> HIDE DEF no, k, m
  <2> QED BY <1>0, <2>1 DEF HeadOf
<1> HIDE DEF no, k, m
<1>3. r = [kind |-> "header", size |-> 1, end |-> to, old |-> old, new |-> new,
           n_new |-> c, n_old |-> no, has_solution |-> z, counts |-> k, map_size |-> m]
  BY <1>1
<1>4. h.size = 1 /\ r.size = 1
  BY <1>1, <1>3
<1> QED BY <1>2, <1>3, <1>4

\* The things with one row more are those of the longer block.
LEMMA LongerBody ==
  ASSUME NEW b \in Blocks, NEW e \in Examples, NEW b1, b1 = Longer(b, e),
         NEW T, IsBody(T, b), NEW U, NEW uff, NEW off, NEW D, NEW h,
         IsAdded(U, uff, T, off, D, RowThing(e), h)
  PROVE  IsBody(U, b1)
<1> DEFINE s == Len(b.sv)
           r == Len(Rows(b))
           n == Len(T)
<1>1. /\ b1.theta = b.theta /\ b1.num = b.num /\ b1.sv = b.sv /\ b1.old = b.old
      /\ Rows(b1) = Append(Rows(b), e) /\ Len(Rows(b1)) = r + 1
      /\ \A i : RowIndex(b1, i) = RowIndex(b, i)
  BY LongerIs
<1>2. s \in Nat /\ r \in Nat /\ r >= s /\ Rows(b) \in Seq(Examples)
  BY RowCountIs
<1>3. /\ IsThings(U) /\ Len(U) = n + 1 /\ U[Len(U)] = RowThing(e)
      /\ \A i \in 2 .. n : U[i] = T[i]
  BY DEF IsAdded
<1>4. n = 8 + r /\ T[7] = MatrixThing(b.sv) /\ T[8 + s] = MatrixThing(b.old)
      /\ \A i \in 1 .. r : T[RowIndex(b, i)] = RowThing(Rows(b)[i])
  BY DEF IsBody, HasRows
<1>5. T[3] = b.theta /\ T[6] = NumberOf(b)
  BY DEF IsBody, HasTheta
<1>6. PICK free \in Nat \ {0} : HasFree(T, 3, free) /\ b.theta.size + free = ThetaRoom(b.theta)
  BY DEF IsBody, HasTheta
<1>7. \A i \in 1 .. r : Rows(b1)[i] = Rows(b)[i]
  BY <1>1, <1>2, AppendProperties
<1>8. Rows(b1)[r + 1] = e
  BY <1>1, <1>2, AppendProperties
<1> HIDE DEF s, r, n
<1>9. 3 \in 2 .. n /\ 4 \in 2 .. n /\ 5 \in 2 .. n /\ 6 \in 2 .. n /\ 7 \in 2 .. n /\ 8 + s \in 2 .. n
  BY <1>2, <1>4
<1>10. HasTheta(U, b1)
  <2>1. U[3] = b1.theta /\ U[6] = NumberOf(b1)
    BY <1>1, <1>3, <1>5, <1>9 DEF NumberOf
  <2>2. HasFree(U, 3, free)
    <3>1. 3 + 1 = 4 /\ 3 + 2 = 5
      OBVIOUS
    <3>2. U[4] = T[4] /\ U[5] = T[5]
      BY <1>3, <1>9
    <3> QED BY <1>6, <3>1, <3>2 DEF HasFree
  <2> QED BY <1>1, <1>6, <2>1, <2>2 DEF HasTheta
<1>11. ASSUME NEW i \in 1 .. r + 1 PROVE U[RowIndex(b, i)] = RowThing(Rows(b1)[i])
  <2>1. CASE i \in 1 .. r
    <3>1. RowIndex(b, i) \in 2 .. n
      BY <1>2, <1>4, <2>1 DEF RowIndex, s
    <3> QED BY <1>3, <1>4, <1>7, <2>1, <3>1
  <2>2. CASE i = r + 1
    <3>1. RowIndex(b, i) = n + 1
      <4>1. ~ (i <= s) /\ 8 + i = n + 1
        BY <1>2, <1>4, <2>2
      <4> QED BY <4>1 DEF RowIndex, s
    <3> QED BY <1>3, <1>8, <2>2, <3>1
  <2> QED BY <1>2, <2>1, <2>2
<1>12. HasRows(U, b1)
  <2>1. Len(U) = 8 + (r + 1)
    BY <1>2, <1>3, <1>4
  <2>2. U[7] = MatrixThing(b1.sv) /\ U[8 + s] = MatrixThing(b1.old)
    BY <1>1, <1>3, <1>4, <1>9
  <2>3. Len(b1.sv) = s
    BY <1>1 DEF s
  <2> QED BY <1>1, <1>11, <2>1, <2>2, <2>3 DEF HasRows
<1> QED BY <1>3, <1>10, <1>12 DEF IsBody

\* The places in the map stay: they lie before the new row.
LEMMA LongerFile ==
  ASSUME NEW b \in Blocks, NEW e \in Examples, NEW b1, b1 = Longer(b, e),
         NEW T, NEW off, NEW c, IsFile(T, off, b, c), NEW U, NEW uff, NEW D, NEW h,
         IsAdded(U, uff, T, off, D, RowThing(e), h),
         NEW to, to = off[Len(T)] + RowThing(e).size,
         h = HeadOf(b1, c, to, off[7 + Len(b.sv)], off[8 + Len(b.sv) + Len(b.old) + c])
  PROVE  IsFile(U, uff, b1, c)
<1> DEFINE s == Len(b.sv)
           o == Len(b.old)
           w == Len(b.new)
           n == Len(T)
           m == s + o + c
<1>1. /\ b1.sv = b.sv /\ b1.old = b.old /\ b1.map_size = b.map_size
      /\ Len(b1.new) = w + 1 /\ \A i : RowIndex(b1, i) = RowIndex(b, i)
  BY LongerIs
<1>2. /\ IsBody(T, b) /\ c \in 0 .. w
      /\ T[2] = [kind |-> "map", size |-> b.map_size, at |-> T[2].at]
      /\ Collected(T[2].at, m, off, RowPlaces(b, m))
  BY DEF IsFile
<1>3. n = 8 + s + o + w /\ s \in Nat /\ o \in Nat /\ w \in Nat
  BY <1>2, LengthIs
<1>4. /\ IsLaid(uff, U) /\ Len(U) = n + 1 /\ U[1] = h /\ uff[Len(U)] = to
      /\ \A i \in 2 .. n : U[i] = T[i]
      /\ \A k \in 0 .. n : uff[k] = off[k]
  BY DEF IsAdded
<1>5. IsBody(U, b1)
  <2>1. IsBody(T, b)
    BY <1>2
  <2> QED BY <2>1, LongerBody
<1> HIDE DEF s, o, w, n
<1>6. c \in 0 .. w + 1 /\ 7 + s \in 0 .. n /\ 8 + s + o + c \in 0 .. n /\ 2 \in 2 .. n
  BY <1>2, <1>3
<1>7. U[1] = HeadOf(b1, c, uff[Len(U)], uff[7 + s], uff[8 + s + o + c])
  <2>1. h = HeadOf(b1, c, to, off[7 + s], off[8 + s + o + c])
    BY DEF s, o
  <2> QED BY <1>4, <1>6, <2>1
<1>8. U[2] = T[2]
  BY <1>4, <1>6
<1>9. Collected(T[2].at, m, uff, RowPlaces(b1, m))
  <2>0. c \in Nat
    BY <1>3, <1>6
  <2>1. m \in Nat /\ m = s + o + c
    BY <1>3, <2>0
  <2> HIDE DEF m
  <2>2. /\ T[2].at \in Seq(Nat) /\ Len(T[2].at) = m
        /\ \A j \in 1 .. m : T[2].at[j] = off[RowPlaces(b, m)[j] - 1]
    BY <1>2 DEF Collected
  <2>3. ASSUME NEW j \in 1 .. m PROVE T[2].at[j] = uff[RowPlaces(b1, m)[j] - 1]
    <3>1. RowPlaces(b1, m)[j] = RowIndex(b, j) /\ RowPlaces(b, m)[j] = RowIndex(b, j)
      BY <1>1 DEF RowPlaces
    <3>2. RowIndex(b, j) = 7 + j \/ RowIndex(b, j) = 8 + j
      BY DEF RowIndex
    <3>3. RowIndex(b, j) - 1 \in 0 .. n
      BY <1>2, <1>3, <2>1, <3>2
    <3> QED BY <1>4, <2>2, <3>1, <3>3
  <2> QED BY <2>2, <2>3 DEF Collected
<1>10. Len(b1.sv) = s /\ Len(b1.old) = o
  BY <1>1 DEF s, o
<1> QED BY <1>1, <1>2, <1>4, <1>5, <1>6, <1>7, <1>8, <1>9, <1>10 DEF IsFile

LEMMA AppendedIs ==
  ASSUME NEW b \in Blocks, NEW d, Dbs(d), FileIs(d, b), NEW e \in Examples,
         NEW fh, fh = Header(d), NEW b1, b1 = Longer(b, e)
  PROVE  Dbs(Appended(d, fh, e)) /\ FileIs(Appended(d, fh, e), b1)
<1>1. PICK T, off, c : Opened(d, T, off, b, c)
  BY DEF FileIs, Opened
<1>0. HeaderSays(fh, d, T, off, b, c)
  BY <1>1, HeaderRead
<1> DEFINE old == off[7 + Len(b.sv)]
           new == off[8 + Len(b.sv) + Len(b.old) + c]
           end == off[Len(T)]
           t == RowThing(e)
           to == end + t.size
           h == [fh EXCEPT !.end = to]
<1>2. /\ IsFile(T, off, b, c) /\ Holds(d.data, off, T) /\ IsThings(T) /\ IsLaid(off, T)
      /\ fh = HeadOf(b, c, end, old, new)
  <2>1. IsFile(T, off, b, c) /\ Holds(d.data, off, T) /\ IsBody(T, b)
    BY <1>1 DEF Opened, IsFile
  <2>2. fh = T[1]
    BY <1>0 DEF HeaderSays
  <2>3. T[1] = HeadOf(b, c, end, old, new)
    BY <2>1 DEF IsFile
  <2> QED BY <2>1, <2>2, <2>3 DEF IsBody, IsFile
<1>3. fh.end = end /\ end \in Nat /\ end <= d.alloc /\ fh.size = 1 /\ fh = T[1]
  BY <1>0 DEF HeaderSays
<1>4. Len(T) >= 1
  <2>1. Len(T) \in Nat /\ Len(T) >= 8
    BY <1>2, LengthIs DEF IsFile
  <2> QED BY <2>1
<1>5. t.size \in Nat /\ t.size > 0
  BY RowThingIs
<1> HIDE DEF end, old, new, t
<1>6. h = HeadOf(b1, c, to, old, new) /\ h.size = 1
  <2> HIDE DEF to
  <2>1. ASSUME NEW r, r = [fh EXCEPT !.end = to] PROVE r = HeadOf(b1, c, to, old, new) /\ r.size = 1
    BY <1>2, <2>1, MovedHeader
  <2> QED BY <2>1
<1> HIDE DEF h
<1>7. PICK U, uff : IsAdded(U, uff, T, off, d.data, t, h)
  <2>1. h.size = T[1].size /\ h.size > 0
    BY <1>3, <1>6
  <2> QED BY <1>2, <1>4, <1>5, <2>1, AddedIs
<1>8. IsFile(U, uff, b1, c)
  <2>1. h = HeadOf(b1, c, to, off[7 + Len(b.sv)], off[8 + Len(b.sv) + Len(b.old) + c])
    BY <1>6 DEF old, new
  <2>2. to = off[Len(T)] + RowThing(e).size /\ IsAdded(U, uff, T, off, d.data, RowThing(e), h)
    BY <1>7 DEF end, t
  <2> HIDE DEF to
  <2> QED BY <1>2, <2>1, <2>2, LongerFile
<1> DEFINE q == Over(Over(d.data, end, t.size, t), 0, 1, h)
<1>9. Holds(q, uff, U) /\ uff[Len(U)] = to
  BY <1>6, <1>7 DEF IsAdded, end
<1>10. IsData(q)
  BY <1>9 DEF Holds
<1>11. /\ Dbs(Appended(d, fh, e)) /\ Appended(d, fh, e).data = q
       /\ to <= Appended(d, fh, e).alloc
  <2>1. h = [fh EXCEPT !.end = fh.end + t.size]
    BY <1>3 DEF h
  <2>2. q = Over(Over(d.data, fh.end, t.size, t), 0, 1, h)
    BY <1>3
  <2>3. fh.end \in Nat /\ fh.end <= d.alloc /\ t = RowThing(e)
    BY <1>3 DEF t
  <2> HIDE DEF q
  <2>4. /\ Dbs(Appended(d, fh, e)) /\ Appended(d, fh, e).data = q
        /\ fh.end + t.size <= Appended(d, fh, e).alloc
    BY <1>10, <2>1, <2>2, <2>3, AppendedSays
  <2> QED BY <1>3, <2>4
<1> HIDE DEF q, to
<1> QED BY <1>8, <1>9, <1>11 DEF FileIs

-----------------------------------------------------------------------------
(* A database without a file, and a block written back.                    *)

NoFile(d) == d.data = << >>

LEMMA NothingThere ==
  ASSUME NEW d, NoFile(d)
  PROVE  /\ Header(d) = None /\ ~ Readable(d) /\ Kept(d) = << >> /\ ~ has_new_vectors(d)
         /\ get_theta_from_svm_db(d) = None /\ 0 \notin DOMAIN d.data
<1>1. dbopen(d).position = 0 /\ dbopen(d).data = << >>
  BY DEF dbopen, NoFile
<1>2. 0 \notin DOMAIN << >>
  OBVIOUS
<1>3. Here(dbopen(d)) = None \/ Here(dbopen(d)) = Garbage
  BY <1>1, <1>2 DEF Here
<1>4. None.kind # "header" /\ Garbage.kind # "header"
  BY DEF None, Garbage
<1>5. Header(d) = None
  BY <1>3, <1>4 DEF Header, FileHeader
<1>6. 0 \notin DOMAIN d.data
  BY <1>2 DEF NoFile
<1> QED BY <1>5, <1>6 DEF Readable, Kept, has_new_vectors, get_theta_from_svm_db

\* Only the data and the size of a database say what it holds.
LEMMA SameFile ==
  ASSUME NEW b, NEW d, Dbs(d), NEW counts, NEW d1, d1 = [d EXCEPT !.cb = counts]
  PROVE  Dbs(d1) /\ d1.data = d.data /\ d1.alloc = d.alloc /\ (FileIs(d, b) => FileIs(d1, b))
<1>1. d1 = [alloc |-> d.alloc, data |-> d.data, cb |-> counts]
  BY DEF Dbs
<1>2. d1.data = d.data /\ d1.alloc = d.alloc /\ d1.cb = counts
  BY <1>1
<1>3. Dbs(d1)
  BY <1>1, <1>2 DEF Dbs
<1>4. FileIs(d, b) => FileIs(d1, b)
  BY <1>2 DEF FileIs
<1> QED BY <1>2, <1>3, <1>4

LEMMA WriteBackIs ==
  ASSUME NEW d, Dbs(d), NEW b \in Blocks, NEW b1, b1 = WithMap(b, MapFor(b))
  PROVE  Dbs(WriteBack(d, b)) /\ FileIs(WriteBack(d, b), b1)
<1> DEFINE n == block_size(b)
           g == (n * 3) \div 2
           room == maybe_expand_db(d, n, g)
<1>1. n \in Nat /\ d.alloc \in Nat
  BY BlockSizeIs DEF Dbs
<1> HIDE DEF n
<1>2. g \in Nat /\ g >= n
  BY <1>1
<1> HIDE DEF g
<1>3. ASSUME NEW r, r = [d EXCEPT !.alloc = g] PROVE r = [alloc |-> g, data |-> d.data, cb |-> d.cb]
  BY <1>3 DEF Dbs
<1>4. Dbs(room) /\ n <= room.alloc
  <2>1. CASE n > d.alloc
    <3>1. room = [alloc |-> g, data |-> d.data, cb |-> d.cb]
      BY <1>3, <2>1 DEF maybe_expand_db, MustExpand
    <3> HIDE DEF room
    <3> QED BY <1>2, <3>1 DEF Dbs
  <2>2. CASE ~ (n > d.alloc)
    <3>1. room = d
      BY <2>2 DEF maybe_expand_db, MustExpand
    <3> QED BY <1>1, <2>2, <3>1
  <2> QED BY <2>1, <2>2
<1>5. WriteBack(d, b) = Written(b, room)
  BY DEF WriteBack, n, g
<1> HIDE DEF room
<1> QED BY <1>4, <1>5, WrittenIs DEF n

LEMMA InitBlock ==
  /\ svm_block_init \in Blocks /\ svm_block_init.theta = None /\ svm_block_init.num = 0
  /\ svm_block_init.sv = << >> /\ svm_block_init.old = << >> /\ svm_block_init.new = << >>
  /\ svm_block_init.n_old = 0 /\ svm_block_init.counts = NoCounts /\ Rows(svm_block_init) = << >>
<1>1. NoCounts \in AllCounts
  BY DEF NoCounts, AllCounts
<1>2. << >> \in Seq(Examples)
  OBVIOUS
<1>3. None \in Fitting
  BY DEF Fitting, Thetas
<1>4. MapSize \in Nat \ {0}
  BY SvmStoreAssumption
<1>5. svm_block_init \in Blocks
  BY <1>1, <1>2, <1>3, <1>4 DEF svm_block_init, Blocks
<1>6. (<< >> \o << >>) \o << >> = << >>
  BY <1>2, ConcatEmptySeq
<1> QED BY <1>5, <1>6 DEF svm_block_init, Rows

\* The new database has a new block in it, or no file if there is no room.
LEMMA NewDatabaseIs ==
  ASSUME NEW alloc \in Nat, NEW d, d = NewDatabase(alloc)
  PROVE  Dbs(d) /\ (NoFile(d) \/ FileIs(d, WithMap(svm_block_init, MapFor(svm_block_init))))
<1> DEFINE d0 == [alloc |-> alloc, data |-> << >>, cb |-> NoCounts]
           b1 == WithMap(svm_block_init, MapFor(svm_block_init))
<1>1. d0.data = << >> /\ d0.alloc = alloc /\ d0.cb = NoCounts
  OBVIOUS
<1>2. IsData(<< >>)
  BY DEF IsData
<1>3. Dbs(d0) /\ NoFile(d0)
  BY <1>1, <1>2 DEF Dbs, NoFile
<1>4. d = IF block_size(svm_block_init) <= d0.alloc THEN Written(svm_block_init, d0) ELSE d0
  BY DEF NewDatabase, init_block_svm
<1> HIDE DEF d0
<1>5. ASSUME NEW b, b = b1 
      PROVE  block_size(svm_block_init) <= d0.alloc => Dbs(Written(svm_block_init, d0)) /\ FileIs(Written(svm_block_init, d0), b)
  BY <1>3, <1>5, InitBlock, WrittenIs
<1>6. block_size(svm_block_init) <= d0.alloc => Dbs(Written(svm_block_init, d0)) /\ FileIs(Written(svm_block_init, d0), b1)
  BY <1>5
<1> HIDE DEF b1
<1> QED BY <1>3, <1>4, <1>6 DEF b1

-----------------------------------------------------------------------------
(* What a block must be for its solution to be right: the weight vector    *)
(* knows every example learned, there are no more of them than it counts,  *)
(* and the counts of the classes are theirs, but for what th says may have *)
(* left them higher.                                                       *)

Learned(w, b) == Total(w, b.sv) + Total(w, b.old)

Covers(b, th) ==
  \A c \in Classes :
    /\ b.counts[c].documents >= Learned(DocsOf(c), b)
    /\ b.counts[c].features >= Learned(FeaturesOf(c), b)
    /\ "groomed" \notin th => b.counts[c].documents = Learned(DocsOf(c), b)
    /\ th = {} => b.counts[c].features = Learned(FeaturesOf(c), b)

Good(b, th) ==
  /\ Whole(b) /\ (b.theta = None => b.old = << >>)
  /\ b.theta # None => Range(b.sv) \cup Range(b.old) \subseteq b.theta.knows
  /\ b.theta # None => b.num >= Learned(Unit, b)
  /\ Distinct => Covers(b, th)

LEMMA LearnedIn ==
  ASSUME NEW b \in Blocks, NEW w \in [Examples -> Nat]
  PROVE  /\ Total(w, b.sv) \in Nat /\ Total(w, b.old) \in Nat /\ Total(w, b.new) \in Nat
         /\ Learned(w, b) \in Nat /\ Total(w, Rows(b)) = Learned(w, b) + Total(w, b.new)
         /\ Learned(w, b) = Total(w, b.sv) + Total(w, b.old)
         /\ Total(w, Rows(b)) = Total(w, b.sv) + Total(w, b.old) + Total(w, b.new)
         /\ Total(w, Rows(b)) \in Nat
<1>1. b.sv \in Seq(Examples) /\ b.old \in Seq(Examples) /\ b.new \in Seq(Examples)
  BY DEF Blocks
<1> DEFINE x == b.sv \o b.old
<1>2. x \in Seq(Examples)
  BY <1>1, ConcatProperties
<1>3. Total(w, x) = Total(w, b.sv) + Total(w, b.old)
  BY <1>1, TotalConcat
<1> HIDE DEF x
<1>4. Total(w, x \o b.new) = Total(w, x) + Total(w, b.new)
  BY <1>1, <1>2, TotalConcat
<1>5. Total(w, b.sv) \in Nat /\ Total(w, b.old) \in Nat /\ Total(w, b.new) \in Nat
  BY <1>1, TotalInNat
<1>6. Rows(b) = x \o b.new
  BY DEF Rows, x
<1> QED BY <1>3, <1>4, <1>5, <1>6 DEF Learned

LEMMA GoodSame ==
  ASSUME NEW b, NEW b1, NEW th, b1.theta = b.theta, b1.num = b.num, b1.sv = b.sv, b1.old = b.old,
         b1.n_old = b.n_old, b1.counts = b.counts, Good(b, th)
  PROVE  Good(b1, th)
<1>1. \A w : Learned(w, b1) = Learned(w, b)
  BY DEF Learned
<1> QED BY <1>1 DEF Good, Whole, Covers

LEMMA GoodMore ==
  ASSUME NEW b, NEW th, Good(b, th), NEW th1, th \subseteq th1
  PROVE  Good(b, th1)
<1>1. "groomed" \notin th1 => "groomed" \notin th
  OBVIOUS
<1>2. th1 = {} => th = {}
  OBVIOUS
<1>3. Covers(b, th) => Covers(b, th1)
  BY <1>1, <1>2 DEF Covers
<1> QED BY <1>3 DEF Good

LEMMA NoneLearned ==
  ASSUME NEW b, b.sv = << >>, b.old = << >>, NEW w \in [Examples -> Nat]
  PROVE  Learned(w, b) = 0
<1>1. Total(w, << >>) = 0
  BY TotalOfNone
<1> QED BY <1>1 DEF Learned

\* A block without a solution counts nothing.
LEMMA NothingGood ==
  ASSUME NEW b, b.theta = None, b.num = 0, b.sv = << >>, b.old = << >>, b.counts = NoCounts, NEW th
  PROVE  Good(b, th)
<1>1. \A c \in Classes : NoCounts[c].documents = 0 /\ NoCounts[c].features = 0
  BY DEF NoCounts
<1>2. ASSUME NEW c \in Classes PROVE Learned(DocsOf(c), b) = 0 /\ Learned(FeaturesOf(c), b) = 0
  BY NoneLearned, Weights
<1> QED BY <1>1, <1>2 DEF Good, Whole, Covers

-----------------------------------------------------------------------------
(* What learning makes of a block.                                         *)

\* A block of these parts.
LEMMA BlockOf ==
  ASSUME NEW theta \in Fitting, NEW num \in Nat, NEW sv \in Seq(Examples), NEW old \in Seq(Examples),
         NEW new \in Seq(Examples), NEW n_old \in Nat, NEW counts \in AllCounts, NEW m \in Nat \ {0},
         NEW b, b = [theta |-> theta, num |-> num, sv |-> sv, old |-> old, new |-> new,
                     n_old |-> n_old, counts |-> counts, map_size |-> m]
  PROVE  /\ b \in Blocks /\ b.theta = theta /\ b.num = num /\ b.sv = sv /\ b.old = old
         /\ b.new = new /\ b.n_old = n_old /\ b.counts = counts /\ b.map_size = m
BY DEF Blocks

LEMMA BlockParts ==
  ASSUME NEW b \in Blocks
  PROVE  /\ b = [theta |-> b.theta, num |-> b.num, sv |-> b.sv, old |-> b.old, new |-> b.new,
                 n_old |-> b.n_old, counts |-> b.counts, map_size |-> b.map_size]
         /\ b.theta \in Fitting /\ b.num \in Nat /\ b.sv \in Seq(Examples) /\ b.old \in Seq(Examples)
         /\ b.new \in Seq(Examples) /\ b.n_old \in Nat /\ b.counts \in AllCounts
         /\ b.map_size \in Nat \ {0}
BY DEF Blocks

\* Some parts replaced.
Solution(b, t, n, v, w) == [b EXCEPT !.theta = t, !.num = n, !.sv = v, !.new = w]

LEMMA SolutionReplaced ==
  ASSUME NEW b \in Blocks, NEW t, NEW n, NEW v, NEW w, NEW r, r = Solution(b, t, n, v, w)
  PROVE  r = [theta |-> t, num |-> n, sv |-> v, old |-> b.old, new |-> w,
              n_old |-> b.n_old, counts |-> b.counts, map_size |-> b.map_size]
<1> DEFINE theta == b.theta
           num == b.num
           sv == b.sv
           old == b.old
           new == b.new
           n_old == b.n_old
           counts == b.counts
           m == b.map_size
<1>1. b = [theta |-> theta, num |-> num, sv |-> sv, old |-> old, new |-> new,
           n_old |-> n_old, counts |-> counts, map_size |-> m]
  BY BlockParts
<1> HIDE DEF theta, num, sv, old, new, n_old, counts, m
<1>2. r = [theta |-> t, num |-> n, sv |-> v, old |-> old, new |-> w,
              n_old |-> n_old, counts |-> counts, map_size |-> m]
  BY <1>1 DEF Solution
<1> QED BY <1>2 DEF theta, num, sv, old, new, n_old, counts, m

WithLearned(b, v, o) == [b EXCEPT !.sv = v, !.old = o]

LEMMA LearnedReplaced ==
  ASSUME NEW b \in Blocks, NEW v, NEW o, NEW r, r = WithLearned(b, v, o)
  PROVE  r = [theta |-> b.theta, num |-> b.num, sv |-> v, old |-> o, new |-> b.new,
              n_old |-> b.n_old, counts |-> b.counts, map_size |-> b.map_size]
<1> DEFINE theta == b.theta
           num == b.num
           sv == b.sv
           old == b.old
           new == b.new
           n_old == b.n_old
           counts == b.counts
           m == b.map_size
<1>1. b = [theta |-> theta, num |-> num, sv |-> sv, old |-> old, new |-> new,
           n_old |-> n_old, counts |-> counts, map_size |-> m]
  BY BlockParts
<1> HIDE DEF theta, num, sv, old, new, n_old, counts, m
<1>2. r = [theta |-> theta, num |-> num, sv |-> v, old |-> o, new |-> new,
              n_old |-> n_old, counts |-> counts, map_size |-> m]
  BY <1>1 DEF WithLearned
<1> QED BY <1>2 DEF theta, num, sv, old, new, n_old, counts, m

WithRows(b, v, o, w, k) == [b EXCEPT !.sv = v, !.old = o, !.new = w, !.counts = k]

LEMMA RowsReplaced ==
  ASSUME NEW b \in Blocks, NEW v, NEW o, NEW w, NEW k, NEW r, r = WithRows(b, v, o, w, k)
  PROVE  r = [theta |-> b.theta, num |-> b.num, sv |-> v, old |-> o, new |-> w,
              n_old |-> b.n_old, counts |-> k, map_size |-> b.map_size]
<1> DEFINE theta == b.theta
           num == b.num
           sv == b.sv
           old == b.old
           new == b.new
           n_old == b.n_old
           counts == b.counts
           m == b.map_size
<1>1. b = [theta |-> theta, num |-> num, sv |-> sv, old |-> old, new |-> new,
           n_old |-> n_old, counts |-> counts, map_size |-> m]
  BY BlockParts
<1> HIDE DEF theta, num, sv, old, new, n_old, counts, m
<1>2. r = [theta |-> theta, num |-> num, sv |-> v, old |-> o, new |-> w,
              n_old |-> n_old, counts |-> k, map_size |-> m]
  BY <1>1 DEF WithRows
<1> QED BY <1>2 DEF theta, num, sv, old, new, n_old, counts, m

\* What a step of learning keeps of a block.
LEMMA CountedIs ==
  ASSUME NEW b \in Blocks, NEW c, c = Counted(b)
  PROVE  /\ c \in Blocks /\ c.theta = b.theta /\ c.num = b.num /\ c.sv = b.sv /\ c.old = b.old
         /\ c.new = b.new /\ c.counts = CountAll(b.counts, b.new)
<1> DEFINE k == CountAll(b.counts, b.new)
<1>1. k \in AllCounts
  BY BlockParts, CountAllIs
<1>2. c = [b EXCEPT !.counts = k]
  BY DEF Counted
<1> HIDE DEF k
<1>3. c = [theta |-> b.theta, num |-> b.num, sv |-> b.sv, old |-> b.old, new |-> b.new,
           n_old |-> b.n_old, counts |-> k, map_size |-> b.map_size]
  BY <1>2, BlockParts
<1> QED BY <1>1, <1>3, BlockParts, BlockOf DEF k

LEMMA JoinedIs ==
  ASSUME NEW b \in Blocks, Whole(b)
  PROVE  /\ Joined(b) \in Seq(Examples)
         /\ \A w \in [Examples -> Nat] : Total(w, Joined(b)) = Total(w, b.new) + Total(w, b.sv)
<1>1. b.new \in Seq(Examples) /\ b.sv \in Seq(Examples)
  BY BlockParts
<1>2. CASE b.theta = None
  <2>1. Joined(b) = b.new /\ b.sv = << >>
    BY <1>2 DEF Joined, Whole
  <2>2. \A w \in [Examples -> Nat] : Total(w, b.sv) = 0 /\ Total(w, b.new) \in Nat
    BY <1>1, <2>1, TotalOfNone, TotalInNat
  <2> QED BY <1>1, <2>1, <2>2
<1>3. CASE b.theta # None
  <2>1. Joined(b) = matr_append_matr(b.new, b.sv)
    BY <1>3 DEF Joined
  <2>2. matr_append_matr(b.new, b.sv) \in Seq(Examples)
    <3>1. \E w : w \in [Examples -> Nat]
      BY Weights
    <3> QED BY <1>1, <3>1, AppendedTotal
  <2>3. ASSUME NEW w \in [Examples -> Nat]
        PROVE  Total(w, matr_append_matr(b.new, b.sv)) = Total(w, b.new) + Total(w, b.sv)
    BY <1>1, AppendedTotal
  <2> QED BY <2>1, <2>2, <2>3
<1> QED BY <1>2, <1>3

LEMMA SeenIs ==
  ASSUME NEW b \in Blocks, Whole(b)
  PROVE  /\ Seen(b) \subseteq Examples
         /\ Joined(b) # << >> => Seen(b) # {}
         /\ Range(b.new) \subseteq Seen(b) /\ Range(b.sv) \subseteq Seen(b)
         /\ b.theta # None => b.theta.knows \subseteq Seen(b)
<1> DEFINE x == Joined(b)
<1>1. x \in Seq(Examples) /\ \A w \in [Examples -> Nat] : Total(w, x) = Total(w, b.new) + Total(w, b.sv)
  BY JoinedIs
<1>2. b.new \in Seq(Examples) /\ b.sv \in Seq(Examples)
  BY BlockParts
<1>3. Seen(b) = Range(x) \cup (IF b.theta = None THEN {} ELSE b.theta.knows)
  BY DEF Seen
<1> HIDE DEF x
<1>4. b.theta # None => b.theta.knows \subseteq Examples
  BY BlockParts DEF Fitting, Thetas
<1>5. Range(x) \subseteq Examples
  BY <1>1, RangeOfSeq
<1>6. Seen(b) \subseteq Examples
  BY <1>3, <1>4, <1>5
<1>7. x # << >> => Range(x) # {}
  <2> SUFFICES ASSUME x # << >> PROVE Range(x) # {}
    OBVIOUS
  <2>1. Len(x) \in Nat /\ Len(x) # 0 /\ DOMAIN x = 1 .. Len(x)
    BY <1>1, EmptySeq, LenProperties
  <2>2. 1 \in DOMAIN x
    BY <2>1
  <2> QED BY <2>2 DEF Range
<1>8. ASSUME NEW y \in {b.new, b.sv} PROVE Range(y) \subseteq Range(x)
  <2>1. y \in Seq(Examples)
    BY <1>2
  <2>2. << >> \in Seq(Examples)
    OBVIOUS
  <2>3. ASSUME NEW e \in Examples PROVE Total(One(e), y) <= Total(One(e), x) + Total(One(e), << >>)
    <3>1. One(e) \in [Examples -> Nat]
      BY Weights
    <3>2. Total(One(e), b.new) \in Nat /\ Total(One(e), b.sv) \in Nat /\ Total(One(e), << >>) = 0
      BY <1>2, <3>1, TotalInNat, TotalOfNone
    <3>3. Total(One(e), x) = Total(One(e), b.new) + Total(One(e), b.sv)
      BY <1>1, <3>1
    <3> QED BY <3>2, <3>3
  <2>4. Range(y) \subseteq Range(x) \cup Range(<< >>)
    BY <1>1, <2>1, <2>2, <2>3, RangeWithin
  <2>5. Range(<< >>) = {}
    BY DEF Range
  <2> QED BY <2>4, <2>5
<1> QED BY <1>3, <1>6, <1>7, <1>8 DEF x

LEMMA ThetaFromIs ==
  ASSUME ThetaFits, NEW knows \in SUBSET Examples, knows # {}, NEW t, t = ThetaFrom(knows)
  PROVE  t \in Fitting /\ t # None /\ t.knows = knows
<1> DEFINE z == ThetaSize[Cardinality(UNION {Columns(e) : e \in knows})]
<1>1. z \in Nat \ {0} /\ Fits1(z)
  BY SvmStoreAssumption DEF ThetaFits
<1>2. t = [kind |-> "theta", size |-> z, knows |-> knows]
  BY DEF ThetaFrom
<1> HIDE DEF z
<1>3. t.kind = "theta" /\ t.size = z /\ t.knows = knows
  BY <1>2
<1>4. t \in Thetas
  BY <1>1, <1>2 DEF Thetas
<1>5. t # None
  BY <1>3 DEF None
<1> QED BY <1>1, <1>3, <1>4, <1>5 DEF Fitting

\* What solving keeps, and what it makes of the rows it joins.
IsSolved(s, b) ==
  /\ s.old = b.old /\ s.counts = b.counts /\ s.num = Len(Joined(b)) + OldExamples(b)
  /\ s.theta # None /\ s.theta.knows = Seen(b)
  /\ \A w \in [Examples -> Nat] : Total(w, s.sv) + Total(w, s.new) = Total(w, Joined(b))

LEMMA SolvedIs ==
  ASSUME ThetaFits, NEW b \in Blocks, Whole(b), Solvable(b), NEW s \in svm_solve(b)
  PROVE  s \in Blocks /\ IsSolved(s, b)
<1> DEFINE xy == Joined(b)
           t == ThetaFrom(Seen(b))
           n == Len(xy) + OldExamples(b)
<1>1. xy \in Seq(Examples) /\ xy # << >> /\ OldExamples(b) >= 0
  BY JoinedIs DEF Solvable
<1>2. t \in Fitting /\ t # None /\ t.knows = Seen(b)
  BY <1>1, SeenIs, ThetaFromIs
<1>3. n \in Nat
  <2>1. b.num \in Nat /\ Len(b.sv) \in Nat
    BY BlockParts, LenProperties
  <2>2. OldExamples(b) \in Int
    BY <2>1 DEF OldExamples
  <2>3. Len(xy) \in Nat
    BY <1>1, LenProperties
  <2> HIDE DEF xy
  <2> QED BY <1>1, <2>2, <2>3
<1>4. PICK S : s = [b EXCEPT !.theta = t, !.num = n, !.sv = Keep(xy, S), !.new = Keep(xy, DOMAIN xy \ S)]
  BY Zenon DEF svm_solve
<1> DEFINE v == Keep(xy, S)
           w0 == Keep(xy, DOMAIN xy \ S)
<1>5. v \in Seq(Examples) /\ w0 \in Seq(Examples)
  <2> HIDE DEF xy
  <2> QED BY <1>1, KeepInSeq
<1>6. \A w \in [Examples -> Nat] : Total(w, v) + Total(w, w0) = Total(w, xy)
  <2> HIDE DEF xy
  <2> QED BY <1>1, KeepSplits
<1>7. s = Solution(b, t, n, v, w0)
  BY <1>4 DEF Solution
<1> HIDE DEF t, n, v, w0, xy
<1>8. s = [theta |-> t, num |-> n, sv |-> v, old |-> b.old, new |-> w0,
           n_old |-> b.n_old, counts |-> b.counts, map_size |-> b.map_size]
  BY <1>7, SolutionReplaced
<1>9. /\ s \in Blocks /\ s.theta = t /\ s.num = n /\ s.sv = v /\ s.old = b.old
      /\ s.new = w0 /\ s.counts = b.counts
  BY <1>2, <1>3, <1>5, <1>8, BlockParts, BlockOf
<1>10. s.num = Len(Joined(b)) + OldExamples(b)
  BY <1>9 DEF n, xy
<1>11. \A w \in [Examples -> Nat] : Total(w, s.sv) + Total(w, s.new) = Total(w, Joined(b))
  BY <1>6, <1>9 DEF xy
<1> QED BY <1>2, <1>9, <1>10, <1>11 DEF IsSolved

\* Rows that change places between the two matrices.
LEMMA AtBoundaryIs ==
  ASSUME NEW b \in Blocks, NEW a \in AtBoundary(b)
  PROVE  /\ a \in Blocks /\ a.theta = b.theta /\ a.num = b.num /\ a.new = b.new /\ a.counts = b.counts
         /\ \A w \in [Examples -> Nat] : Learned(w, a) = Learned(w, b)
<1>1. PICK S : a = [b EXCEPT !.sv = @ \o Keep(b.old, S), !.old = Keep(b.old, DOMAIN b.old \ S)]
  BY Zenon DEF AtBoundary
<1> DEFINE j == Keep(b.old, S)
           v == b.sv \o j
           o == Keep(b.old, DOMAIN b.old \ S)
<1>2. b.old \in Seq(Examples) /\ b.sv \in Seq(Examples)
  BY BlockParts
<1>3. j \in Seq(Examples) /\ o \in Seq(Examples) /\ \A w \in [Examples -> Nat] : Total(w, j) + Total(w, o) = Total(w, b.old)
  BY <1>2, KeepInSeq, KeepSplits
<1>4. a = WithLearned(b, v, o)
  BY <1>1 DEF WithLearned
<1> HIDE DEF j
<1>5. v \in Seq(Examples) /\ \A w \in [Examples -> Nat] : Total(w, v) = Total(w, b.sv) + Total(w, j)
  BY <1>2, <1>3, ConcatProperties, TotalConcat
<1> HIDE DEF v, o
<1>6. a = [theta |-> b.theta, num |-> b.num, sv |-> v, old |-> o, new |-> b.new,
           n_old |-> b.n_old, counts |-> b.counts, map_size |-> b.map_size]
  BY <1>4, LearnedReplaced
<1>7. /\ a \in Blocks /\ a.theta = b.theta /\ a.num = b.num /\ a.sv = v /\ a.old = o
      /\ a.new = b.new /\ a.counts = b.counts
  BY <1>3, <1>5, <1>6, BlockParts, BlockOf
<1>8. ASSUME NEW w \in [Examples -> Nat] PROVE Learned(w, a) = Learned(w, b)
  <2>1. Total(w, j) \in Nat /\ Total(w, o) \in Nat /\ Total(w, b.sv) \in Nat /\ Total(w, b.old) \in Nat
    BY <1>2, <1>3, TotalInNat
  <2>2. Total(w, v) = Total(w, b.sv) + Total(w, j) /\ Total(w, j) + Total(w, o) = Total(w, b.old)
    BY <1>3, <1>5
  <2> QED BY <1>7, <2>1, <2>2 DEF Learned
<1> QED BY <1>7, <1>8

LEMMA FewerOld ==
  ASSUME NEW b \in Blocks, NEW g \in Groomed(b.old), NEW a, a = [b EXCEPT !.old = g]
  PROVE  /\ a \in Blocks /\ a.theta = b.theta /\ a.num = b.num /\ a.new = b.new /\ a.counts = b.counts
         /\ \A w \in [Examples -> Nat] : Learned(w, a) <= Learned(w, b)
<1>1. g \in Seq(Examples) /\ \A w \in [Examples -> Nat] : Total(w, g) <= Total(w, b.old)
  BY BlockParts, GroomedIs
<1>2. a = [theta |-> b.theta, num |-> b.num, sv |-> b.sv, old |-> g, new |-> b.new,
           n_old |-> b.n_old, counts |-> b.counts, map_size |-> b.map_size]
  BY BlockParts
<1>3. /\ a \in Blocks /\ a.theta = b.theta /\ a.num = b.num /\ a.sv = b.sv /\ a.old = g
      /\ a.new = b.new /\ a.counts = b.counts
  <2> DEFINE q == [theta |-> b.theta, num |-> b.num, sv |-> b.sv, old |-> g, new |-> b.new,
                   n_old |-> b.n_old, counts |-> b.counts, map_size |-> b.map_size]
  <2>1. /\ q \in Blocks /\ q.theta = b.theta /\ q.num = b.num /\ q.sv = b.sv /\ q.old = g
        /\ q.new = b.new /\ q.counts = b.counts
    BY <1>1, BlockParts, BlockOf
  <2>2. a = q
    BY <1>2
  <2> HIDE DEF q
  <2> QED BY <2>1, <2>2
<1>4. ASSUME NEW w \in [Examples -> Nat] PROVE Learned(w, a) <= Learned(w, b)
  <2>1. Total(w, g) \in Nat /\ Total(w, b.sv) \in Nat /\ Total(w, b.old) \in Nat /\ Total(w, g) <= Total(w, b.old)
    BY <1>1, BlockParts, TotalInNat
  <2> QED BY <1>3, <2>1 DEF Learned
<1> QED BY <1>3, <1>4

LEMMA NewIsOldIs ==
  ASSUME NEW b \in Blocks, NEW a, a = NewIsOld(b)
  PROVE  /\ a \in Blocks /\ a.theta = b.theta /\ a.num = b.num /\ a.new = << >> /\ a.counts = b.counts
         /\ a.n_old = Len(a.old)
         /\ \A w \in [Examples -> Nat] : Learned(w, a) = Total(w, Rows(b))
<1> DEFINE o == matr_append_matr(b.old, b.new)
           n == Len(o)
           no == << >>
<1>1. b.old \in Seq(Examples) /\ b.new \in Seq(Examples)
  BY BlockParts
<1>2. o \in Seq(Examples)
  <2>1. \E w : w \in [Examples -> Nat]
    BY Weights
  <2> QED BY <1>1, <2>1, AppendedTotal
<1>3. ASSUME NEW w \in [Examples -> Nat] PROVE Total(w, o) = Total(w, b.old) + Total(w, b.new)
  BY <1>1, AppendedTotal
<1>4. n \in Nat /\ no \in Seq(Examples)
  <2> HIDE DEF o
  <2> QED BY <1>2, LenProperties
<1>5. a = [b EXCEPT !.old = o, !.new = no, !.n_old = n]
  BY DEF NewIsOld
<1>6. n = Len(o) /\ no = << >>
  OBVIOUS
<1> HIDE DEF o, n, no
<1>7. a = [theta |-> b.theta, num |-> b.num, sv |-> b.sv, old |-> o, new |-> no,
           n_old |-> n, counts |-> b.counts, map_size |-> b.map_size]
  BY <1>5, BlockParts
<1>8. /\ a \in Blocks /\ a.theta = b.theta /\ a.num = b.num /\ a.sv = b.sv /\ a.old = o
      /\ a.new = no /\ a.n_old = n /\ a.counts = b.counts
  BY <1>2, <1>4, <1>7, BlockParts, BlockOf
<1>9. ASSUME NEW w \in [Examples -> Nat] PROVE Learned(w, a) = Total(w, Rows(b))
  <2>1. /\ Total(w, b.sv) \in Nat /\ Total(w, b.old) \in Nat /\ Total(w, b.new) \in Nat
        /\ Total(w, Rows(b)) = Total(w, b.sv) + Total(w, b.old) + Total(w, b.new)
    BY LearnedIn
  <2>2. Total(w, o) = Total(w, b.old) + Total(w, b.new)
    BY <1>3
  <2> QED BY <1>8, <2>1, <2>2 DEF Learned
<1> QED BY <1>6, <1>8, <1>9

\* An example is among the rows if it is in one of the three parts.
LEMMA RowsRange ==
  ASSUME NEW b \in Blocks
  PROVE  Range(Rows(b)) = Range(b.sv) \cup Range(b.old) \cup Range(b.new)
<1>1. /\ b.sv \in Seq(Examples) /\ b.old \in Seq(Examples) /\ b.new \in Seq(Examples)
      /\ Rows(b) \in Seq(Examples)
  BY BlockParts, RowsAre
<1>2. /\ Range(Rows(b)) \subseteq Examples /\ Range(b.sv) \subseteq Examples
      /\ Range(b.old) \subseteq Examples /\ Range(b.new) \subseteq Examples
  BY <1>1, RangeOfSeq
<1>3. ASSUME NEW e \in Examples
      PROVE  e \in Range(Rows(b)) <=> e \in Range(b.sv) \cup Range(b.old) \cup Range(b.new)
  <2>1. One(e) \in [Examples -> Nat]
    BY Weights
  <2>2. /\ Total(One(e), b.sv) \in Nat /\ Total(One(e), b.old) \in Nat /\ Total(One(e), b.new) \in Nat
        /\ Total(One(e), Rows(b)) = Total(One(e), b.sv) + Total(One(e), b.old) + Total(One(e), b.new)
    BY <2>1, LearnedIn
  <2>3. /\ e \in Range(Rows(b)) <=> Total(One(e), Rows(b)) > 0
        /\ e \in Range(b.sv) <=> Total(One(e), b.sv) > 0
        /\ e \in Range(b.old) <=> Total(One(e), b.old) > 0
        /\ e \in Range(b.new) <=> Total(One(e), b.new) > 0
    BY <1>1, RangeIs
  <2>4. Total(One(e), Rows(b)) > 0
          <=> (Total(One(e), b.sv) > 0 \/ Total(One(e), b.old) > 0 \/ Total(One(e), b.new) > 0)
    BY <2>2
  <2> QED BY <2>3, <2>4
<1> QED BY <1>2, <1>3

\* What learning comes to: all that was there is learned, and known; thin
\* says whether some of it was groomed away.
TakesIn(f, b, thin) ==
  /\ f \in Blocks /\ f.theta # None /\ f.theta.knows = Seen(b)
  /\ f.num = Len(Joined(b)) + OldExamples(b) /\ f.new = << >> /\ f.n_old = Len(f.old)
  /\ f.counts = CountAll(b.counts, b.new)
  /\ \A w \in [Examples -> Nat] : Learned(w, f) <= Total(w, Rows(b))
  /\ ~ thin => \A w \in [Examples -> Nat] : Learned(w, f) = Total(w, Rows(b))

LEMMA AllKnown ==
  ASSUME NEW b \in Blocks, NEW th, Good(b, th), NEW f, NEW thin, TakesIn(f, b, thin)
  PROVE  /\ Range(Rows(b)) \subseteq f.theta.knows
         /\ Range(f.sv) \cup Range(f.old) \subseteq f.theta.knows
<1>1. Whole(b) /\ (b.theta = None => b.old = << >>)
      /\ (b.theta # None => Range(b.sv) \cup Range(b.old) \subseteq b.theta.knows)
  BY DEF Good
<1>2. /\ Range(b.new) \subseteq Seen(b) /\ Range(b.sv) \subseteq Seen(b)
      /\ b.theta # None => b.theta.knows \subseteq Seen(b)
  BY <1>1, SeenIs
<1>3. Range(b.old) \subseteq Seen(b)
  <2>1. Range(<< >>) = {}
    BY DEF Range
  <2> QED BY <1>1, <1>2, <2>1
<1>4. Range(Rows(b)) \subseteq f.theta.knows
  BY <1>2, <1>3, RowsRange DEF TakesIn
<1>5. ASSUME NEW y \in {f.sv, f.old} PROVE Range(y) \subseteq Range(Rows(b))
  <2>1. f \in Blocks /\ \A w \in [Examples -> Nat] : Learned(w, f) <= Total(w, Rows(b))
    BY DEF TakesIn
  <2>2. y \in Seq(Examples) /\ Rows(b) \in Seq(Examples) /\ << >> \in Seq(Examples)
    <3>1. f.sv \in Seq(Examples) /\ f.old \in Seq(Examples)
      BY <2>1, BlockParts
    <3>2. Rows(b) \in Seq(Examples)
      BY RowsAre
    <3>3. << >> \in Seq(Examples)
      OBVIOUS
    <3> QED BY <1>5, <3>1, <3>2, <3>3
  <2>3. ASSUME NEW e \in Examples PROVE Total(One(e), y) <= Total(One(e), Rows(b)) + Total(One(e), << >>)
    <3>1. One(e) \in [Examples -> Nat]
      BY Weights
    <3>2. /\ Total(One(e), f.sv) \in Nat /\ Total(One(e), f.old) \in Nat
          /\ Learned(One(e), f) = Total(One(e), f.sv) + Total(One(e), f.old)
      BY <2>1, <3>1, LearnedIn
    <3>3. Total(One(e), Rows(b)) \in Nat /\ Total(One(e), << >>) = 0
      BY <2>2, <3>1, TotalInNat, TotalOfNone
    <3>4. Learned(One(e), f) <= Total(One(e), Rows(b))
      BY <2>1, <3>1
    <3>5. Total(One(e), y) <= Total(One(e), f.sv) + Total(One(e), f.old)
      BY <3>2
    <3>6. Total(One(e), y) \in Nat
      BY <3>2
    <3> QED BY <3>2, <3>3, <3>4, <3>5, <3>6
  <2>4. Range(y) \subseteq Range(Rows(b)) \cup Range(<< >>)
    BY <2>2, <2>3, RangeWithin
  <2>5. Range(<< >>) = {}
    BY DEF Range
  <2> QED BY <2>4, <2>5
<1> QED BY <1>4, <1>5

LEMMA NumberEnough ==
  ASSUME NEW b \in Blocks, NEW th, Good(b, th), NEW f, NEW thin, TakesIn(f, b, thin)
  PROVE  f.num >= Learned(Unit, f)
<1>1. Whole(b) /\ (b.theta = None => b.old = << >>)
      /\ (b.theta # None => b.num >= Learned(Unit, b))
  BY DEF Good
<1>2. Unit \in [Examples -> Nat]
  BY Weights
<1>3. f \in Blocks /\ f.num = Len(Joined(b)) + OldExamples(b) /\ Learned(Unit, f) <= Total(Unit, Rows(b))
  BY <1>2 DEF TakesIn
<1>4. /\ Joined(b) \in Seq(Examples) /\ Total(Unit, Joined(b)) = Total(Unit, b.new) + Total(Unit, b.sv)
  BY <1>1, <1>2, JoinedIs
<1>5. Len(Joined(b)) = Total(Unit, b.new) + Total(Unit, b.sv) /\ Len(b.sv) = Total(Unit, b.sv)
  BY <1>4, BlockParts, LenIsTotal
<1>6. /\ Total(Unit, b.sv) \in Nat /\ Total(Unit, b.old) \in Nat /\ Total(Unit, b.new) \in Nat
      /\ Total(Unit, Rows(b)) = Learned(Unit, b) + Total(Unit, b.new) /\ Learned(Unit, b) \in Nat
      /\ Learned(Unit, b) = Total(Unit, b.sv) + Total(Unit, b.old) /\ Learned(Unit, f) \in Nat
  BY <1>2, <1>3, LearnedIn
<1>7. CASE b.theta = None
  <2>1. Learned(Unit, b) = 0
    BY <1>1, <1>2, <1>7, NoneLearned DEF Whole
  <2>2. OldExamples(b) = 0
    BY <1>7 DEF OldExamples
  <2>3. f.num = Total(Unit, b.new) + Total(Unit, b.sv)
    BY <1>3, <1>5, <1>6, <2>2
  <2>4. Learned(Unit, f) <= Total(Unit, b.new)
    BY <1>3, <1>6, <2>1
  <2> QED BY <1>6, <2>3, <2>4
<1>8. CASE b.theta # None
  <2>1. OldExamples(b) = b.num - Len(b.sv) /\ b.num \in Nat
    BY <1>8, BlockParts DEF OldExamples
  <2>2. b.num >= Learned(Unit, b)
    BY <1>1, <1>8
  <2> QED BY <1>3, <1>5, <1>6, <2>1, <2>2
<1> QED BY <1>7, <1>8

LEMMA CountsGrow ==
  ASSUME NEW b \in Blocks, NEW th, Covers(b, th), NEW f, NEW thin \in BOOLEAN, TakesIn(f, b, thin),
         NEW th1, th \subseteq th1, thin => "groomed" \in th1
  PROVE  Covers(f, th1)
<1> DEFINE groomed == "groomed" \in th1
           some == th1 # {}
<1> SUFFICES ASSUME NEW c \in Classes
             PROVE  /\ f.counts[c].documents >= Learned(DocsOf(c), f)
                    /\ f.counts[c].features >= Learned(FeaturesOf(c), f)
                    /\ ~ groomed => f.counts[c].documents = Learned(DocsOf(c), f)
                    /\ ~ some => f.counts[c].features = Learned(FeaturesOf(c), f)
  BY DEF Covers
<1>1. b.counts \in AllCounts /\ b.new \in Seq(Examples) /\ f \in Blocks
  BY BlockParts DEF TakesIn
<1>2. f.counts = Plus(b.counts, CountsOf(b.new))
  BY <1>1, CountAllIs DEF TakesIn
<1>3. /\ f.counts[c].documents = b.counts[c].documents + Total(DocsOf(c), b.new)
      /\ f.counts[c].features = b.counts[c].features + Total(FeaturesOf(c), b.new)
  BY <1>2 DEF Plus, CountsOf
<1>4. b.counts[c].documents \in Int /\ b.counts[c].features \in Int
  BY <1>1 DEF AllCounts
<1>5. ASSUME NEW w \in [Examples -> Nat]
      PROVE  /\ Learned(w, f) \in Nat /\ Learned(w, b) \in Nat /\ Total(w, b.new) \in Nat
             /\ Learned(w, f) <= Learned(w, b) + Total(w, b.new)
             /\ ~ thin => Learned(w, f) = Learned(w, b) + Total(w, b.new)
  <2>1. Total(w, Rows(b)) = Learned(w, b) + Total(w, b.new) /\ Learned(w, b) \in Nat /\ Total(w, b.new) \in Nat
    BY LearnedIn
  <2>2. Learned(w, f) \in Nat
    BY <1>1, LearnedIn
  <2>3. Learned(w, f) <= Total(w, Rows(b)) /\ (~ thin => Learned(w, f) = Total(w, Rows(b)))
    BY DEF TakesIn
  <2> QED BY <2>1, <2>2, <2>3
<1>6. /\ b.counts[c].documents >= Learned(DocsOf(c), b)
      /\ b.counts[c].features >= Learned(FeaturesOf(c), b)
      /\ ~ groomed => b.counts[c].documents = Learned(DocsOf(c), b)
      /\ ~ some => b.counts[c].features = Learned(FeaturesOf(c), b)
  BY DEF Covers
<1>10. (thin => groomed) /\ (groomed => some)
  OBVIOUS
<1> HIDE DEF groomed, some
<1> DEFINE wd == DocsOf(c)
           wf == FeaturesOf(c)
<1>7. wd \in [Examples -> Nat] /\ wf \in [Examples -> Nat]
  BY Weights
<1>8. /\ f.counts[c].documents >= Learned(wd, f)
      /\ ~ groomed => f.counts[c].documents = Learned(wd, f)
  <2>1. /\ Learned(wd, f) \in Nat /\ Learned(wd, b) \in Nat /\ Total(wd, b.new) \in Nat
        /\ Learned(wd, f) <= Learned(wd, b) + Total(wd, b.new)
        /\ ~ thin => Learned(wd, f) = Learned(wd, b) + Total(wd, b.new)
    BY <1>5, <1>7
  <2> QED BY <1>3, <1>4, <1>6, <1>10, <2>1
<1>9. /\ f.counts[c].features >= Learned(wf, f)
      /\ ~ some => f.counts[c].features = Learned(wf, f)
  <2>1. /\ Learned(wf, f) \in Nat /\ Learned(wf, b) \in Nat /\ Total(wf, b.new) \in Nat
        /\ Learned(wf, f) <= Learned(wf, b) + Total(wf, b.new)
        /\ ~ thin => Learned(wf, f) = Learned(wf, b) + Total(wf, b.new)
    BY <1>5, <1>7
  <2> QED BY <1>3, <1>4, <1>6, <1>10, <2>1
<1> QED BY <1>8, <1>9

\* The way there: counted, solved, some of the old rows come to the boundary.
LEMMA OnTheWay ==
  ASSUME ThetaFits, NEW b \in Blocks, Whole(b), Solvable(b),
         NEW s \in svm_solve(Counted(b)), NEW a \in AtBoundary(s)
  PROVE  /\ a \in Blocks /\ a.theta # None /\ a.theta.knows = Seen(b)
         /\ a.num = Len(Joined(b)) + OldExamples(b) /\ a.counts = CountAll(b.counts, b.new)
         /\ \A w \in [Examples -> Nat] : Total(w, Rows(a)) = Total(w, Rows(b))
<1> DEFINE c == Counted(b)
<1>1. /\ c \in Blocks /\ c.theta = b.theta /\ c.num = b.num /\ c.sv = b.sv /\ c.old = b.old
      /\ c.new = b.new /\ c.counts = CountAll(b.counts, b.new)
  BY CountedIs
<1>2. s \in svm_solve(c)
  OBVIOUS
<1> HIDE DEF c
<1>3. Joined(c) = Joined(b) /\ OldExamples(c) = OldExamples(b)
  BY <1>1 DEF Joined, OldExamples
<1>4. Seen(c) = Seen(b)
  BY <1>1, <1>3 DEF Seen
<1>5. Solvable(c)
  BY <1>3 DEF Solvable
<1>6. c.theta = None => c.sv = << >> /\ c.num = 0
  BY <1>1 DEF Whole
<1>7. s \in Blocks /\ IsSolved(s, c)
  <2>1. c.n_old = b.n_old
    BY BlockParts DEF c, Counted
  <2>2. Whole(c)
    BY <1>1, <2>1 DEF Whole
  <2> QED BY <1>1, <1>2, <1>5, <2>2, SolvedIs
<1>8. /\ a \in Blocks /\ a.theta = s.theta /\ a.num = s.num /\ a.new = s.new /\ a.counts = s.counts
      /\ \A w \in [Examples -> Nat] : Learned(w, a) = Learned(w, s)
  BY <1>7, AtBoundaryIs
<1>9. ASSUME NEW w \in [Examples -> Nat] PROVE Total(w, Rows(a)) = Total(w, Rows(b))
  <2>1. /\ Total(w, Rows(a)) = Learned(w, a) + Total(w, a.new)
        /\ Learned(w, s) = Total(w, s.sv) + Total(w, s.old)
        /\ Total(w, s.sv) \in Nat /\ Total(w, s.old) \in Nat /\ Total(w, s.new) \in Nat
    BY <1>7, <1>8, LearnedIn
  <2>2. /\ Total(w, Rows(b)) = Total(w, b.sv) + Total(w, b.old) + Total(w, b.new)
        /\ Total(w, b.sv) \in Nat /\ Total(w, b.old) \in Nat /\ Total(w, b.new) \in Nat
    BY LearnedIn
  <2>3. Total(w, s.sv) + Total(w, s.new) = Total(w, Joined(b)) /\ s.old = b.old
    BY <1>1, <1>3, <1>7 DEF IsSolved
  <2>4. Total(w, Joined(b)) = Total(w, b.new) + Total(w, b.sv)
    BY JoinedIs
  <2>5. Learned(w, a) = Learned(w, s) /\ a.new = s.new
    BY <1>8
  <2> QED BY <2>1, <2>2, <2>3, <2>4, <2>5
<1> QED BY <1>1, <1>3, <1>4, <1>7, <1>8, <1>9 DEF IsSolved

\* What became of the examples, and how it went.
Lost(how) == how = "gave up"

Became(from, to, how) ==
  \/ how = "ok" /\ SameRows(to, from)
  \/ how = "groomed" /\ FewerRows(to, from)
  \/ Lost(how) /\ to = << >>

LEMMA LostIs == Lost("gave up")
BY Zenon DEF Lost

LEMMA NotLost == ~ Lost("ok") /\ ~ Lost("groomed") /\ ~ Lost("denied")
BY Zenon DEF Lost

\* A solution found knows every example there is.
KnowsAll(theta, x) == IF theta = None THEN x = << >> ELSE Range(x) \subseteq theta.knows

LEMMA TakenIn ==
  ASSUME NEW b \in Blocks, NEW th, Good(b, th), NEW f, NEW thin \in BOOLEAN, TakesIn(f, b, thin),
         NEW th1, th \subseteq th1, thin => "groomed" \in th1
  PROVE  /\ Good(f, th1) /\ FewerRows(Rows(f), Rows(b)) /\ (~ thin => SameRows(Rows(f), Rows(b)))
         /\ KnowsAll(f.theta, Rows(b))
<1>1. /\ f \in Blocks /\ f.theta # None /\ f.new = << >> /\ f.n_old = Len(f.old)
      /\ \A w \in [Examples -> Nat] : Learned(w, f) <= Total(w, Rows(b))
      /\ ~ thin => \A w \in [Examples -> Nat] : Learned(w, f) = Total(w, Rows(b))
  BY DEF TakesIn
<1>2. Whole(f)
  <2>1. f.old \in Seq(Examples)
    BY <1>1, BlockParts
  <2>2. f.n_old = 0 => f.old = << >>
    BY <1>1, <2>1, EmptySeq
  <2> QED BY <1>1, <2>2 DEF Whole
<1>3. /\ Range(Rows(b)) \subseteq f.theta.knows
      /\ Range(f.sv) \cup Range(f.old) \subseteq f.theta.knows
  BY AllKnown
<1>4. f.num >= Learned(Unit, f)
  BY NumberEnough
<1>5. Distinct => Covers(f, th1)
  <2>1. Distinct => Covers(b, th)
    BY DEF Good
  <2> QED BY <2>1, CountsGrow
<1>6. Good(f, th1)
  BY <1>1, <1>2, <1>3, <1>4, <1>5 DEF Good
<1>7. ASSUME NEW w \in [Examples -> Nat] PROVE Total(w, Rows(f)) = Learned(w, f)
  <2>1. Total(w, Rows(f)) = Learned(w, f) + Total(w, f.new) /\ Learned(w, f) \in Nat
    BY <1>1, LearnedIn
  <2>2. Total(w, f.new) = 0
    BY <1>1, TotalOfNone
  <2> QED BY <2>1, <2>2
<1>8. FewerRows(Rows(f), Rows(b)) /\ (~ thin => SameRows(Rows(f), Rows(b)))
  BY <1>1, <1>7 DEF FewerRows, SameRows
<1> QED BY <1>1, <1>3, <1>6, <1>8 DEF KnowsAll

\* Everything is given up, or there is nothing.
LetGo(b, how) == Lost(how) \/ (how = "ok" /\ Rows(b) = << >>)

LEMMA GivenUp ==
  ASSUME NEW b \in Blocks, NEW how, LetGo(b, how)
  PROVE  /\ svm_block_init \in Blocks /\ Became(Rows(b), Rows(svm_block_init), how)
         /\ \A th : Good(svm_block_init, th)
         /\ ~ Lost(how) => KnowsAll(svm_block_init.theta, Rows(b))
<1>1. \A th : Good(svm_block_init, th)
  BY InitBlock, NothingGood
<1>2. CASE Lost(how)
  BY <1>1, <1>2, InitBlock DEF Became
<1>3. CASE how = "ok" /\ Rows(b) = << >>
  <2>1. SameRows(Rows(svm_block_init), Rows(b))
    BY <1>3, InitBlock DEF SameRows
  <2> QED BY <1>1, <1>3, <2>1, InitBlock DEF Became, KnowsAll
<1> QED BY <1>2, <1>3 DEF LetGo

\* What may have left the counts higher, once more after learning.
More(th, th1, how) == th \subseteq th1 /\ (how = "groomed" => "groomed" \in th1)

LEMMA LearnedIs ==
  ASSUME ThetaFits, NEW b \in Blocks, NEW th, Good(b, th), NEW microgroom,
         NEW r \in svm_learn_new_examples(b, microgroom)
  PROVE  /\ r.blk \in Blocks /\ Became(Rows(b), Rows(r.blk), r.how)
         /\ \A th1 : More(th, th1, r.how) => Good(r.blk, th1)
         /\ ~ Lost(r.how) => KnowsAll(r.blk.theta, Rows(b))
<1>1. Whole(b)
  BY DEF Good
<1>2. ASSUME NEW f, NEW how, r = Done(f, how) PROVE r.blk = f /\ r.how = how
  BY <1>2 DEF Done
<1>3. ASSUME NEW how, LetGo(b, how), r = Done(svm_block_init, how)
      PROVE  /\ r.blk \in Blocks /\ Became(Rows(b), Rows(r.blk), r.how)
             /\ \A th1 : More(th, th1, r.how) => Good(r.blk, th1)
             /\ ~ Lost(r.how) => KnowsAll(r.blk.theta, Rows(b))
  <2>1. r.blk = svm_block_init /\ r.how = how
    BY <1>2, <1>3
  <2> QED BY <1>3, <2>1, GivenUp
<1> DEFINE From(s) ==
             {Done(NewIsOld(c), "ok") : c \in {a \in AtBoundary(s) : ~ GroomsOld(b, a, microgroom)}}
           Thinned(s) ==
             UNION {{Done(NewIsOld([a EXCEPT !.old = g]), "groomed") : g \in Groomed(a.old)} :
                       a \in {x \in AtBoundary(s) : GroomsOld(b, x, microgroom)}}
           Solutions == UNION {From(s) \cup Thinned(s) : s \in svm_solve(Counted(b))}
           gone == "gave up"
           none == IF Rows(b) = << >> THEN "ok" ELSE "gave up"
<1>4. \/ r = Done(svm_block_init, gone) \/ r = Done(svm_block_init, none)
      \/ Solvable(b) /\ r \in Solutions
  <2>1. \/ r \in IF Solvable(b) THEN Solutions ELSE {Done(svm_block_init, none)}
        \/ r \in {Done(svm_block_init, "gave up") : fails \in Gives \ {TRUE}}
    BY Zenon DEF svm_learn_new_examples
  <2> HIDE DEF Solutions, none
  <2> QED BY <2>1, Zenon
<1>6. LetGo(b, gone) /\ LetGo(b, none)
  <2>1. Lost(gone)
    BY LostIs, Zenon
  <2>2. CASE Rows(b) = << >>
    BY <2>1, <2>2, Zenon DEF LetGo
  <2>3. CASE Rows(b) # << >>
    BY <2>1, <2>3, Zenon DEF LetGo
  <2> HIDE DEF none, gone
  <2> QED BY <2>2, <2>3
<1> HIDE DEF none, gone
<1>5. CASE Solvable(b) /\ r \in Solutions
  <2>2. PICK s \in svm_solve(Counted(b)) :
          \/ \E c \in AtBoundary(s) : r = Done(NewIsOld(c), "ok")
          \/ \E a \in AtBoundary(s) : \E g \in Groomed(a.old) : r = Done(NewIsOld([a EXCEPT !.old = g]), "groomed")
    <3>1. PICK s \in svm_solve(Counted(b)) : r \in From(s) \cup Thinned(s)
      <4> HIDE DEF From, Thinned
      <4> QED BY <1>5, Zenon DEF Solutions
    <3>2. CASE r \in From(s)
      BY <3>2, Zenon
    <3>3. CASE r \in Thinned(s)
      BY <3>3, Zenon
    <3> HIDE DEF From, Thinned
    <3> QED BY <3>1, <3>2, <3>3
  <2>3. ASSUME NEW f, NEW thin \in BOOLEAN, TakesIn(f, b, thin), NEW how, how \in {"ok", "groomed"},
               how = "groomed" => thin, how = "ok" => ~ thin, r = Done(f, how)
        PROVE  /\ r.blk \in Blocks /\ Became(Rows(b), Rows(r.blk), r.how)
               /\ \A th1 : More(th, th1, r.how) => Good(r.blk, th1)
               /\ KnowsAll(r.blk.theta, Rows(b))
    <3>1. r.blk = f /\ r.how = how /\ f \in Blocks
      BY <1>2, <2>3 DEF TakesIn
    <3>2. ASSUME NEW th1, More(th, th1, how)
          PROVE  /\ Good(f, th1) /\ FewerRows(Rows(f), Rows(b)) /\ (~ thin => SameRows(Rows(f), Rows(b)))
                 /\ KnowsAll(f.theta, Rows(b))
      <4>1. th \subseteq th1 /\ (thin => "groomed" \in th1)
        BY <2>3, <3>2 DEF More
      <4> QED BY <2>3, <4>1, TakenIn
    <3>3. PICK th1 : More(th, th1, how)
      <4>1. More(th, th \cup {"groomed"}, how)
        BY DEF More
      <4> QED BY <4>1
    <3>4. Became(Rows(b), Rows(f), how) /\ KnowsAll(f.theta, Rows(b))
      BY <2>3, <3>2, <3>3 DEF Became
    <3> QED BY <3>1, <3>2, <3>4
  <2>4. CASE \E c \in AtBoundary(s) : r = Done(NewIsOld(c), "ok")
    <3>1. PICK a \in AtBoundary(s) : r = Done(NewIsOld(a), "ok")
      BY <2>4
    <3>2. /\ a \in Blocks /\ a.theta # None /\ a.theta.knows = Seen(b)
          /\ a.num = Len(Joined(b)) + OldExamples(b) /\ a.counts = CountAll(b.counts, b.new)
          /\ \A w \in [Examples -> Nat] : Total(w, Rows(a)) = Total(w, Rows(b))
      BY <1>1, <1>5, OnTheWay
    <3> DEFINE f == NewIsOld(a)
    <3>3. /\ f \in Blocks /\ f.theta = a.theta /\ f.num = a.num /\ f.new = << >> /\ f.counts = a.counts
          /\ f.n_old = Len(f.old)
          /\ \A w \in [Examples -> Nat] : Learned(w, f) = Total(w, Rows(a))
      BY <3>2, NewIsOldIs
    <3>4. r = Done(f, "ok")
      BY <3>1
    <3> HIDE DEF f
    <3>5. ASSUME NEW w \in [Examples -> Nat]
          PROVE  Learned(w, f) = Total(w, Rows(b)) /\ Learned(w, f) <= Total(w, Rows(b))
      <4>1. Learned(w, f) = Total(w, Rows(b)) /\ Learned(w, f) \in Nat
        BY <3>2, <3>3, LearnedIn
      <4> QED BY <4>1
    <3>6. TakesIn(f, b, FALSE)
      BY <3>2, <3>3, <3>5 DEF TakesIn
    <3> QED BY <2>3, <3>4, <3>6
  <2>5. CASE \E a \in AtBoundary(s) : \E g \in Groomed(a.old) : r = Done(NewIsOld([a EXCEPT !.old = g]), "groomed")
    <3>0. PICK a \in AtBoundary(s) : \E g \in Groomed(a.old) : r = Done(NewIsOld([a EXCEPT !.old = g]), "groomed")
      BY <2>5
    <3>1. PICK g \in Groomed(a.old) : r = Done(NewIsOld([a EXCEPT !.old = g]), "groomed")
      BY <3>0
    <3>2. /\ a \in Blocks /\ a.theta # None /\ a.theta.knows = Seen(b)
          /\ a.num = Len(Joined(b)) + OldExamples(b) /\ a.counts = CountAll(b.counts, b.new)
          /\ \A w \in [Examples -> Nat] : Total(w, Rows(a)) = Total(w, Rows(b))
      BY <1>1, <1>5, OnTheWay
    <3> DEFINE x == [a EXCEPT !.old = g]
               f == NewIsOld(x)
    <3>3. /\ x \in Blocks /\ x.theta = a.theta /\ x.num = a.num /\ x.new = a.new /\ x.counts = a.counts
          /\ \A w \in [Examples -> Nat] : Learned(w, x) <= Learned(w, a)
      BY <3>2, FewerOld
    <3>4. r = Done(f, "groomed")
      BY <3>1
    <3> HIDE DEF x
    <3>5. /\ f \in Blocks /\ f.theta = x.theta /\ f.num = x.num /\ f.new = << >> /\ f.counts = x.counts
          /\ f.n_old = Len(f.old)
          /\ \A w \in [Examples -> Nat] : Learned(w, f) = Total(w, Rows(x))
      BY <3>3, NewIsOldIs
    <3> HIDE DEF f
    <3>6. ASSUME NEW w \in [Examples -> Nat] PROVE Learned(w, f) <= Total(w, Rows(b))
      <4>1. /\ Total(w, Rows(x)) = Learned(w, x) + Total(w, x.new) /\ Learned(w, x) \in Nat
            /\ Total(w, Rows(a)) = Learned(w, a) + Total(w, a.new) /\ Learned(w, a) \in Nat
            /\ Total(w, a.new) \in Nat
        BY <3>2, <3>3, LearnedIn
      <4>2. Learned(w, x) <= Learned(w, a) /\ x.new = a.new /\ Learned(w, f) = Total(w, Rows(x))
            /\ Total(w, Rows(a)) = Total(w, Rows(b))
        BY <3>2, <3>3, <3>5
      <4> QED BY <4>1, <4>2
    <3>7. TakesIn(f, b, TRUE)
      BY <3>2, <3>3, <3>5, <3>6 DEF TakesIn
    <3> QED BY <2>3, <3>4, <3>7
  <2> QED BY <2>2, <2>4, <2>5
<1> HIDE DEF Solutions
<1> QED BY <1>3, <1>4, <1>5, <1>6

-----------------------------------------------------------------------------
(* A call up to the point where it learns.                                 *)

IsCall(c) == c = [blk |-> c.blk, read |-> c.read, learn |-> c.learn, fromstart |-> c.fromstart]

\* What taking out an example leaves of a matrix, and of a block.
LEMMA WithoutIs ==
  ASSUME NEW x \in Seq(Examples), NEW e, NEW y, y = WithoutEqual(x, e)
  PROVE  /\ y \in Seq(Examples) /\ Range(y) \subseteq Range(x)
         /\ \A w \in [Examples -> Nat] : Total(w, y) <= Total(w, x)
         /\ x = << >> => y = << >>
<1> DEFINE S == {i \in DOMAIN x : ~ vector_equals(e, x[i])}
<1>1. y = Keep(x, S)
  BY DEF WithoutEqual
<1> HIDE DEF S
<1>2. y \in Seq(Examples) /\ \A w \in [Examples -> Nat] : Total(w, y) <= Total(w, x)
  BY <1>1, KeepInSeq, KeepIsLess
<1>3. Range(y) \subseteq Range(x)
  <2>1. \A k \in DOMAIN x : k \in S => x[k] \in Range(x)
    BY DEF Range
  <2>2. y \in Seq(Range(x))
    BY <1>1, <2>1, KeepElements
  <2> QED BY <2>2, RangeOfSeq
<1>4. ASSUME x = << >> PROVE y = << >>
  <2>1. Total(Unit, y) = Len(y) /\ Total(Unit, y) <= Total(Unit, x) /\ Len(y) \in Nat
    BY <1>2, Weights, LenIsTotal, LenProperties
  <2>2. Total(Unit, x) = 0
    BY <1>4, Weights, TotalOfNone
  <2>3. Len(y) = 0
    BY <2>1, <2>2
  <2> QED BY <1>2, <2>3, EmptySeq
<1> QED BY <1>2, <1>3, <1>4

ErasedRows(b, e) == (WithoutEqual(b.sv, e) \o WithoutEqual(b.old, e)) \o WithoutEqual(b.new, e)

\* The block an example was taken out of.
IsErased(q, b, e) ==
  /\ q \in Blocks /\ q.theta = b.theta /\ q.num = b.num /\ q.n_old = b.n_old
  /\ q.sv = WithoutEqual(b.sv, e) /\ q.old = WithoutEqual(b.old, e) /\ q.new = WithoutEqual(b.new, e)
  /\ q.counts = TakenOff(b.counts, e, Equal(b.sv, e), Equal(b.old, e))

LEMMA EqualIs ==
  ASSUME NEW x \in Seq(Examples), NEW e
  PROVE  Equal(x, e) \in Nat /\ Equal(x, e) = Len(x) - Len(WithoutEqual(x, e))
<1> DEFINE y == WithoutEqual(x, e)
<1>1. y \in Seq(Examples) /\ Total(Unit, y) <= Total(Unit, x)
  BY WithoutIs, Weights
<1> HIDE DEF y
<1>2. Total(Unit, y) = Len(y) /\ Total(Unit, x) = Len(x) /\ Len(y) \in Nat /\ Len(x) \in Nat
  BY <1>1, LenIsTotal, LenProperties
<1>3. Len(x) - Len(y) \in Nat
  BY <1>1, <1>2
<1> QED BY <1>3 DEF Equal, y

\* What the counts k are after e was taken off counts, x times and y times.
IsTakenOff(k, counts, e, x, y) ==
  /\ k \in AllCounts
  /\ k[e.class].documents = counts[e.class].documents - (x + y)
  /\ k[e.class].features = counts[e.class].features - x * nfeat(e) - y * Cardinality(Columns(e))
  /\ \A c \in Classes : c # e.class => k[c] = counts[c]

LEMMA TakenOffIs ==
  ASSUME NEW counts \in AllCounts, NEW e \in Examples, NEW x \in Nat, NEW y \in Nat,
         NEW k, k = TakenOff(counts, e, x, y)
  PROVE  IsTakenOff(k, counts, e, x, y)
<1> DEFINE dc == counts[e.class].documents - (x + y)
           fc == counts[e.class].features - x * nfeat(e) - y * Cardinality(Columns(e))
           one == [documents |-> dc, features |-> fc]
<1>1. e.class \in Classes /\ Len(e.doc) \in Nat /\ Cardinality(Columns(e)) \in Nat
  BY DocIs
<1>2. nfeat(e) \in Int
  BY <1>1 DEF nfeat
<1>3. counts[e.class].documents \in Int /\ counts[e.class].features \in Int
  BY <1>1 DEF AllCounts
<1>4. dc \in Int /\ fc \in Int
  <2>1. x * nfeat(e) \in Int /\ y * Cardinality(Columns(e)) \in Int
    BY <1>1, <1>2
  <2> QED BY <1>3, <2>1
<1>5. k = [counts EXCEPT ![e.class] = one]
  BY DEF TakenOff
<1> HIDE DEF dc, fc
<1>6. one \in [documents : Int, features : Int] /\ one.documents = dc /\ one.features = fc
  BY <1>4
<1> HIDE DEF one
<1>7. k \in AllCounts /\ k[e.class] = one /\ \A c \in Classes : c # e.class => k[c] = counts[c]
  BY <1>1, <1>5, <1>6 DEF AllCounts
<1> QED BY <1>6, <1>7 DEF IsTakenOff, dc, fc

\* An example that does not hold the boundary up is taken off with as many
\* documents as were counted, and with no more features.
LEMMA CoversErased ==
  ASSUME Distinct, NEW b \in Blocks, NEW th, Covers(b, th), NEW e \in Examples, NEW q, IsErased(q, b, e),
         Equal(b.sv, e) = 0, Repeats(e) => "repeated" \in th
  PROVE  Covers(q, th)
<1> DEFINE y == Equal(b.old, e)
           n == Len(e.doc)
           m == Cardinality(Columns(e))
<1>1. b.sv \in Seq(Examples) /\ b.old \in Seq(Examples) /\ b.counts \in AllCounts
  BY BlockParts
<1>2. y \in Nat
  BY <1>1, EqualIs
<1>3. /\ e.class \in Classes /\ n \in Nat /\ m \in Nat /\ m <= n
      /\ m # n => "repeated" \in th
  BY DocIs DEF Repeats
<1>4. /\ q.counts \in AllCounts
      /\ q.counts[e.class].documents = b.counts[e.class].documents - y
      /\ q.counts[e.class].features = b.counts[e.class].features - y * m
      /\ \A c \in Classes : c # e.class => q.counts[c] = b.counts[c]
  <2>1. PICK x \in Nat : x = 0
    OBVIOUS
  <2>2. q.counts = TakenOff(b.counts, e, x, y)
    BY <2>1 DEF IsErased
  <2>3. nfeat(e) \in Int
    BY <1>3 DEF nfeat
  <2> HIDE DEF y, n, m
  <2>4. /\ q.counts \in AllCounts
        /\ q.counts[e.class].documents = b.counts[e.class].documents - (x + y)
        /\ q.counts[e.class].features = b.counts[e.class].features - x * nfeat(e) - y * Cardinality(Columns(e))
        /\ \A c \in Classes : c # e.class => q.counts[c] = b.counts[c]
    <3>1. PICK z \in Nat, k0 \in AllCounts : z = y /\ k0 = b.counts
      BY <1>1, <1>2
    <3>2. q.counts = TakenOff(k0, e, x, z)
      BY <2>2, <3>1
    <3>3. IsTakenOff(q.counts, k0, e, x, z)
      BY <3>2, TakenOffIs
    <3> QED BY <3>1, <3>3 DEF IsTakenOff
  <2>5. b.counts[e.class].features \in Int
    BY <1>1, <1>3 DEF AllCounts
  <2> QED BY <1>2, <2>1, <2>3, <2>4, <2>5 DEF m
<1>5. ASSUME NEW w \in [Examples -> Nat]
      PROVE  /\ Learned(w, b) = Learned(w, q) + y * w[e]
             /\ Learned(w, b) \in Nat /\ Learned(w, q) \in Nat /\ w[e] \in Nat
  <2>1. /\ Total(w, WithoutEqual(b.sv, e)) + 0 * w[e] = Total(w, b.sv)
        /\ Total(w, WithoutEqual(b.old, e)) + y * w[e] = Total(w, b.old)
    BY <1>1, ErasedIs DEF Equal
  <2>2. /\ Learned(w, q) \in Nat /\ Total(w, q.sv) \in Nat /\ Total(w, q.old) \in Nat
        /\ Learned(w, q) = Total(w, q.sv) + Total(w, q.old)
    BY LearnedIn DEF IsErased
  <2>3. /\ Learned(w, b) \in Nat /\ Learned(w, b) = Total(w, b.sv) + Total(w, b.old)
    BY LearnedIn
  <2>4. q.sv = WithoutEqual(b.sv, e) /\ q.old = WithoutEqual(b.old, e)
    BY DEF IsErased
  <2>5. y * w[e] \in Nat /\ w[e] \in Nat
    BY <1>2
  <2> HIDE DEF y
  <2> QED BY <2>1, <2>2, <2>3, <2>4, <2>5
<1> HIDE DEF y, n, m
<1> SUFFICES ASSUME NEW c \in Classes
             PROVE  /\ q.counts[c].documents >= Learned(DocsOf(c), q)
                    /\ q.counts[c].features >= Learned(FeaturesOf(c), q)
                    /\ "groomed" \notin th => q.counts[c].documents = Learned(DocsOf(c), q)
                    /\ th = {} => q.counts[c].features = Learned(FeaturesOf(c), q)
  BY DEF Covers
<1> DEFINE wd == DocsOf(c)
           wf == FeaturesOf(c)
<1>6. wd \in [Examples -> Nat] /\ wf \in [Examples -> Nat]
  BY Weights
<1>7. wd[e] = (IF e.class = c THEN 1 ELSE 0) /\ wf[e] = (IF e.class = c THEN n ELSE 0)
  BY DEF DocsOf, FeaturesOf, n
<1>8. /\ b.counts[c].documents >= Learned(wd, b)
      /\ b.counts[c].features >= Learned(wf, b)
      /\ "groomed" \notin th => b.counts[c].documents = Learned(wd, b)
      /\ th = {} => b.counts[c].features = Learned(wf, b)
  BY DEF Covers
<1>9. b.counts[c].documents \in Int /\ b.counts[c].features \in Int
  BY <1>1 DEF AllCounts
<1> HIDE DEF wd, wf
<1>10. /\ Learned(wd, b) = Learned(wd, q) + y * wd[e] /\ Learned(wd, q) \in Nat
       /\ Learned(wf, b) = Learned(wf, q) + y * wf[e] /\ Learned(wf, q) \in Nat
  BY <1>5, <1>6
<1>11. /\ q.counts[c].documents >= Learned(wd, q) /\ q.counts[c].features >= Learned(wf, q)
       /\ "groomed" \notin th => q.counts[c].documents = Learned(wd, q)
       /\ th = {} => q.counts[c].features = Learned(wf, q)
  <2>1. CASE e.class = c
    <3>1. wd[e] = 1 /\ wf[e] = n
      BY <1>7, <2>1
    <3>2. y * 1 = y /\ y * m <= y * n /\ y * m \in Nat /\ y * n \in Nat
      <4>1. PICK g \in Nat : n = m + g
        <5>1. n - m \in Nat
          BY <1>3
        <5> QED BY <1>3, <5>1
      <4>2. y * n = y * m + y * g /\ y * g \in Nat /\ y * m \in Nat
        BY <1>2, <1>3, <4>1
      <4> QED BY <1>2, <4>2
    <3>3. /\ q.counts[c].documents = b.counts[c].documents - y
          /\ q.counts[c].features = b.counts[c].features - y * m
      BY <1>4, <2>1
    <3>4. th = {} => y * m = y * n
      BY <1>3
    <3> QED BY <1>2, <1>8, <1>9, <1>10, <3>1, <3>2, <3>3, <3>4
  <2>2. CASE e.class # c
    <3>1. wd[e] = 0 /\ wf[e] = 0 /\ y * 0 = 0
      BY <1>2, <1>7, <2>2
    <3>2. q.counts[c] = b.counts[c]
      BY <1>4, <2>2
    <3> QED BY <1>8, <1>10, <3>1, <3>2
  <2> QED BY <2>1, <2>2
<1> QED BY <1>11 DEF wd, wf

LEMMA ErasedGood ==
  ASSUME NEW b \in Blocks, NEW th, Good(b, th), NEW e \in Examples, NEW q, IsErased(q, b, e)
  PROVE  /\ Whole(q) /\ Rows(q) = ErasedRows(b, e)
         /\ Equal(b.sv, e) = 0 /\ (Repeats(e) => "repeated" \in th) => Good(q, th)
<1>1. /\ q \in Blocks /\ q.theta = b.theta /\ q.num = b.num /\ q.n_old = b.n_old
      /\ q.sv = WithoutEqual(b.sv, e) /\ q.old = WithoutEqual(b.old, e) /\ q.new = WithoutEqual(b.new, e)
  BY DEF IsErased
<1>2. b.sv \in Seq(Examples) /\ b.old \in Seq(Examples)
  BY BlockParts
<1>3. /\ Range(q.sv) \subseteq Range(b.sv) /\ (b.sv = << >> => q.sv = << >>)
      /\ \A w \in [Examples -> Nat] : Total(w, q.sv) <= Total(w, b.sv)
  BY <1>1, <1>2, WithoutIs
<1>4. /\ Range(q.old) \subseteq Range(b.old) /\ (b.old = << >> => q.old = << >>)
      /\ \A w \in [Examples -> Nat] : Total(w, q.old) <= Total(w, b.old)
  BY <1>1, <1>2, WithoutIs
<1>5. /\ Whole(b) /\ (b.theta = None => b.old = << >>)
      /\ b.theta # None => Range(b.sv) \cup Range(b.old) \subseteq b.theta.knows
      /\ b.theta # None => b.num >= Learned(Unit, b)
      /\ Distinct => Covers(b, th)
  BY DEF Good
<1>6. Learned(Unit, q) <= Learned(Unit, b) /\ Learned(Unit, q) \in Nat /\ Learned(Unit, b) \in Nat
  <2>1. Unit \in [Examples -> Nat]
    BY Weights
  <2>2. /\ Total(Unit, q.sv) \in Nat /\ Total(Unit, q.old) \in Nat
        /\ Learned(Unit, q) = Total(Unit, q.sv) + Total(Unit, q.old)
    BY <1>1, <2>1, LearnedIn
  <2>3. /\ Total(Unit, b.sv) \in Nat /\ Total(Unit, b.old) \in Nat
        /\ Learned(Unit, b) = Total(Unit, b.sv) + Total(Unit, b.old)
    BY <2>1, LearnedIn
  <2> QED BY <1>3, <1>4, <2>1, <2>2, <2>3
<1>7. b.theta # None => q.num >= Learned(Unit, q)
  <2>1. b.num \in Nat
    BY BlockParts
  <2> QED BY <1>1, <1>5, <1>6, <2>1
<1>8. Whole(q)
  BY <1>1, <1>3, <1>4, <1>5 DEF Whole
<1>9. ASSUME Equal(b.sv, e) = 0, Repeats(e) => "repeated" \in th PROVE Good(q, th)
  <2>1. Distinct => Covers(q, th)
    BY <1>5, <1>9, CoversErased
  <2> QED BY <1>1, <1>3, <1>4, <1>5, <1>7, <1>8, <2>1 DEF Good
<1> QED BY <1>1, <1>8, <1>9 DEF Rows, ErasedRows

LEMMA ErasingIs ==
  ASSUME NEW c, IsCall(c), c.blk \in Blocks, NEW e \in Examples, NEW f, f = Erasing(c, e)
  PROVE  /\ IsCall(f) /\ f.read = c.read /\ IsErased(f.blk, c.blk, e)
         /\ f.fromstart \/ Equal(c.blk.sv, e) = 0
<1> DEFINE b == c.blk
           v == WithoutEqual(b.sv, e)
           o == WithoutEqual(b.old, e)
           w == WithoutEqual(b.new, e)
           k == TakenOff(b.counts, e, Equal(b.sv, e), Equal(b.old, e))
           q == WithRows(b, v, o, w, k)
<1>1. b \in Blocks /\ b.sv \in Seq(Examples) /\ b.old \in Seq(Examples) /\ b.new \in Seq(Examples) /\ b.counts \in AllCounts
  BY BlockParts
<1>2. v \in Seq(Examples) /\ o \in Seq(Examples) /\ w \in Seq(Examples)
  <2> HIDE DEF b
  <2> QED BY <1>1, WithoutIs
<1>3. k \in AllCounts /\ Equal(b.sv, e) \in Nat
  <2>1. PICK x \in Nat, y \in Nat : x = Equal(b.sv, e) /\ y = Equal(b.old, e)
    <3> HIDE DEF b
    <3> QED BY <1>1, EqualIs
  <2>2. k = TakenOff(b.counts, e, x, y)
    BY <2>1
  <2> HIDE DEF k, b
  <2>3. IsTakenOff(k, b.counts, e, x, y)
    BY <1>1, <2>1, <2>2, TakenOffIs
  <2> QED BY <2>1, <2>3 DEF IsTakenOff
<1>4. PICK some : some = (Equal(b.sv, e) > 0)
  OBVIOUS
<1>5. f = [c EXCEPT !.learn = some, !.fromstart = some, !.blk = q]
  BY <1>4 DEF Erasing, WithRows
<1>6. q = [theta |-> b.theta, num |-> b.num, sv |-> v, old |-> o, new |-> w,
           n_old |-> b.n_old, counts |-> k, map_size |-> b.map_size]
  <2> HIDE DEF b, v, o, w, k
  <2> QED BY <1>1, RowsReplaced
<1>7. /\ q \in Blocks /\ q.theta = b.theta /\ q.num = b.num /\ q.sv = v /\ q.old = o
      /\ q.new = w /\ q.n_old = b.n_old /\ q.counts = k
  <2> HIDE DEF b, v, o, w, k, q
  <2> QED BY <1>1, <1>2, <1>3, <1>6, BlockParts, BlockOf
<1>8. f = [blk |-> q, read |-> c.read, learn |-> some, fromstart |-> some]
  <2> HIDE DEF q
  <2> QED BY <1>5 DEF IsCall
<1>9. f.blk = q /\ f.read = c.read /\ f.fromstart = some /\ IsCall(f)
  <2> HIDE DEF q
  <2> QED BY <1>8 DEF IsCall
<1> HIDE DEF q
<1>10. f.fromstart \/ Equal(b.sv, e) = 0
  <2>1. CASE Equal(b.sv, e) > 0
    BY <1>4, <1>9, <2>1
  <2>2. CASE ~ (Equal(b.sv, e) > 0)
    <3> HIDE DEF b
    <3> QED BY <1>3, <2>2
  <2> QED BY <2>1, <2>2
<1> QED BY <1>7, <1>9, <1>10 DEF IsErased

Restarted(b, w) ==
  [b EXCEPT !.new = w, !.old = << >>, !.n_old = 0, !.sv = << >>, !.theta = None, !.num = 0, !.counts = NoCounts]

LEMMA RestartedIs ==
  ASSUME NEW b \in Blocks, NEW w \in Seq(Examples), NEW r, r = Restarted(b, w)
  PROVE  /\ r \in Blocks /\ r.theta = None /\ r.num = 0 /\ r.sv = << >> /\ r.old = << >>
         /\ r.new = w /\ r.n_old = 0 /\ r.counts = NoCounts
<1> DEFINE theta == b.theta
           num == b.num
           sv == b.sv
           old == b.old
           new == b.new
           n_old == b.n_old
           counts == b.counts
           m == b.map_size
<1>1. /\ b = [theta |-> theta, num |-> num, sv |-> sv, old |-> old, new |-> new,
              n_old |-> n_old, counts |-> counts, map_size |-> m]
      /\ m \in Nat \ {0}
  BY BlockParts
<1> HIDE DEF theta, num, sv, old, new, n_old, counts, m
<1> DEFINE no == << >>
           nil == 0
<1>2. no \in Seq(Examples) /\ nil \in Nat /\ no = << >> /\ nil = 0
  OBVIOUS
<1>3. NoCounts \in AllCounts /\ None \in Fitting
  BY InitBlock, BlockParts DEF svm_block_init
<1>4. r = [b EXCEPT !.new = w, !.old = no, !.n_old = nil, !.sv = no, !.theta = None, !.num = nil, !.counts = NoCounts]
  BY DEF Restarted
<1> HIDE DEF no, nil
<1>5. r = [theta |-> None, num |-> nil, sv |-> no, old |-> no, new |-> w,
           n_old |-> nil, counts |-> NoCounts, map_size |-> m]
  BY <1>1, <1>4
<1>6. /\ r \in Blocks /\ r.theta = None /\ r.num = nil /\ r.sv = no /\ r.old = no
      /\ r.new = w /\ r.n_old = nil /\ r.counts = NoCounts
  <2> DEFINE q == [theta |-> None, num |-> nil, sv |-> no, old |-> no, new |-> w,
                   n_old |-> nil, counts |-> NoCounts, map_size |-> m]
  <2>1. no \in Seq(Examples) /\ nil \in Nat
    BY <1>2
  <2>2. /\ q \in Blocks /\ q.theta = None /\ q.num = nil /\ q.sv = no /\ q.old = no
        /\ q.new = w /\ q.n_old = nil /\ q.counts = NoCounts
    BY <1>1, <1>3, <2>1, BlockOf
  <2>3. r = q
    BY <1>5
  <2> HIDE DEF q
  <2> QED BY <2>2, <2>3
<1> QED BY <1>2, <1>6

LEMMA FromStartIs ==
  ASSUME NEW c, IsCall(c), c.blk \in Blocks, Whole(c.blk), NEW f, f = FromStart(c)
  PROVE  /\ f.read = c.read /\ f.blk \in Blocks /\ SameRows(Rows(f.blk), Rows(c.blk))
         /\ \A th : Good(f.blk, th)
<1> DEFINE b == c.blk
           new == matr_append_matr(b.new, b.old)
           w == IF b.theta = None THEN new ELSE matr_append_matr(new, b.sv)
           q == Restarted(b, w)
<1>1. b.sv \in Seq(Examples) /\ b.old \in Seq(Examples) /\ b.new \in Seq(Examples)
  BY BlockParts
<1>0. PICK u : u \in [Examples -> Nat]
  BY Weights
<1>2. new \in Seq(Examples)
        /\ \A u1 \in [Examples -> Nat] : Total(u1, new) = Total(u1, b.new) + Total(u1, b.old)
  <2> HIDE DEF b
  <2> QED BY <1>0, <1>1, AppendedTotal
<1>3. w \in Seq(Examples)
        /\ \A u1 \in [Examples -> Nat] : Total(u1, w) = Total(u1, b.new) + Total(u1, b.old) + Total(u1, b.sv)
  <2> HIDE DEF new
  <2>1. CASE b.theta = None
    <3>1. w = new /\ b.sv = << >>
      BY <2>1 DEF Whole
    <3>2. ASSUME NEW u1 \in [Examples -> Nat]
          PROVE  Total(u1, new) = Total(u1, b.new) + Total(u1, b.old) + Total(u1, b.sv)
      <4>1. Total(u1, b.sv) = 0 /\ Total(u1, new) \in Nat
        BY <1>2, <3>1, TotalOfNone, TotalInNat
      <4> QED BY <1>2, <4>1
    <3> HIDE DEF w
    <3> QED BY <1>2, <3>1, <3>2
  <2>2. CASE b.theta # None
    <3>1. w = matr_append_matr(new, b.sv)
      BY <2>2
    <3> HIDE DEF b, w
    <3>2. matr_append_matr(new, b.sv) \in Seq(Examples)
      <4>1. \E u1 : u1 \in [Examples -> Nat]
        BY Weights
      <4>2. new \in Seq(Examples) /\ b.sv \in Seq(Examples)
        BY <1>1, <1>2
      <4> QED BY <4>1, <4>2, AppendedTotal
    <3>3. ASSUME NEW u1 \in [Examples -> Nat]
          PROVE  Total(u1, matr_append_matr(new, b.sv)) = Total(u1, b.new) + Total(u1, b.old) + Total(u1, b.sv)
      <4>1. new \in Seq(Examples) /\ b.sv \in Seq(Examples) /\ Total(u1, new) = Total(u1, b.new) + Total(u1, b.old)
        BY <1>1, <1>2
      <4>2. Total(u1, matr_append_matr(new, b.sv)) = Total(u1, new) + Total(u1, b.sv)
        BY <4>1, AppendedTotal
      <4> QED BY <4>1, <4>2
    <3> QED BY <3>1, <3>2, <3>3
  <2> QED BY <2>1, <2>2
<1>4. PICK yes : yes = TRUE
  OBVIOUS
<1>5. f = [c EXCEPT !.learn = yes, !.blk = q]
  BY <1>4 DEF FromStart, Restarted
<1> HIDE DEF q
<1>6. f = [blk |-> q, read |-> c.read, learn |-> yes, fromstart |-> c.fromstart]
  BY <1>5 DEF IsCall
<1>7. f.blk = q /\ f.read = c.read
  BY <1>6
<1>8. /\ q \in Blocks /\ q.theta = None /\ q.num = 0 /\ q.sv = << >> /\ q.old = << >>
      /\ q.new = w /\ q.n_old = 0 /\ q.counts = NoCounts
  <2> HIDE DEF w
  <2> QED BY <1>3, RestartedIs DEF q
<1>9. \A th : Good(q, th)
  BY <1>8, NothingGood
<1>10. ASSUME NEW u1 \in [Examples -> Nat] PROVE Total(u1, Rows(q)) = Total(u1, Rows(b))
  <2>1. Total(u1, Rows(q)) = Total(u1, q.sv) + Total(u1, q.old) + Total(u1, q.new)
    BY <1>8, LearnedIn
  <2>2. Total(u1, q.sv) = 0 /\ Total(u1, q.old) = 0
    BY <1>8, TotalOfNone
  <2>3. /\ Total(u1, Rows(b)) = Total(u1, b.sv) + Total(u1, b.old) + Total(u1, b.new)
        /\ Total(u1, b.sv) \in Nat /\ Total(u1, b.old) \in Nat /\ Total(u1, b.new) \in Nat
    BY LearnedIn
  <2>4. Total(u1, q.new) = Total(u1, b.new) + Total(u1, b.old) + Total(u1, b.sv)
    BY <1>3, <1>8
  <2> HIDE DEF w, b
  <2> QED BY <2>1, <2>2, <2>3, <2>4
<1> QED BY <1>7, <1>8, <1>9, <1>10 DEF SameRows

\* The rows a call leaves before it learns.
LeftRows(b, e, flags) == IF Erases(e, flags) THEN ErasedRows(b, e) ELSE Rows(b)

IsPrepared(c, b, th, e, flags) ==
  /\ c.read = TRUE /\ c.blk \in Blocks /\ Good(c.blk, th)
  /\ SameRows(Rows(c.blk), LeftRows(b, e, flags))

LEMMA PreparedIs ==
  ASSUME NEW b \in Blocks, NEW th, Good(b, th), NEW d, Readable(d), read_svm_db(d) = b,
         NEW e \in Examples \cup {None}, NEW flags, Reads(e, flags), NEW c \in Prepared(e, flags, d),
         Erases(e, flags) /\ Repeats(e) => "repeated" \in th
  PROVE  IsPrepared(c, b, th, e, flags)
<1> DEFINE s == Start(e, flags, d)
           c0 == IF Erases(e, flags) THEN Erasing(s, e) ELSE s
<1>1. c = IF c0.fromstart \/ "fromstart" \in flags THEN FromStart(c0) ELSE c0
  BY DEF Prepared
<1>2. Erases(e, flags) => e \in Examples
  BY DEF Erases
<1>3. IsCall(s) /\ s.blk = b /\ s.read = TRUE
  <2>1. s = [Unread EXCEPT !.blk = b, !.read = TRUE]
    BY DEF Start
  <2>2. PICK yes, no : yes = TRUE /\ no = FALSE
    OBVIOUS
  <2>3. Unread = [blk |-> svm_block_init, read |-> no, learn |-> yes, fromstart |-> no]
    BY <2>2 DEF Unread
  <2>4. ASSUME NEW r, r = [Unread EXCEPT !.blk = b, !.read = yes]
        PROVE  r = [blk |-> b, read |-> yes, learn |-> yes, fromstart |-> no]
    BY <2>3, <2>4
  <2>5. s = [blk |-> b, read |-> yes, learn |-> yes, fromstart |-> no]
    BY <2>1, <2>2, <2>4
  <2> HIDE DEF s
  <2>6. IsCall(s) /\ s.blk = b /\ s.read = yes
    BY <2>5 DEF IsCall
  <2> QED BY <2>2, <2>6
<1> HIDE DEF s
<1>4. /\ IsCall(c0) /\ c0.blk \in Blocks /\ c0.read = TRUE /\ Whole(c0.blk)
      /\ c0.fromstart \/ Good(c0.blk, th)
      /\ Rows(c0.blk) = LeftRows(b, e, flags)
  <2>1. CASE Erases(e, flags)
    <3>1. c0 = Erasing(s, e)
      BY <2>1
    <3> HIDE DEF c0
    <3>2. e \in Examples
      BY <1>2, <2>1
    <3>3. /\ IsCall(c0) /\ c0.read = s.read /\ IsErased(c0.blk, b, e)
          /\ c0.fromstart \/ Equal(b.sv, e) = 0
      BY <1>3, <3>1, <3>2, ErasingIs
    <3>4. /\ Whole(c0.blk) /\ Rows(c0.blk) = ErasedRows(b, e)
          /\ c0.fromstart \/ Good(c0.blk, th)
      <4>1. Repeats(e) => "repeated" \in th
        BY <2>1
      <4> QED BY <3>2, <3>3, <4>1, ErasedGood
    <3> QED BY <1>3, <2>1, <3>3, <3>4 DEF LeftRows, IsErased
  <2>2. CASE ~ Erases(e, flags)
    <3>1. c0 = s
      BY <2>2
    <3>2. Whole(b)
      BY DEF Good
    <3> HIDE DEF c0
    <3> QED BY <1>3, <2>2, <3>1, <3>2 DEF LeftRows
  <2> QED BY <2>1, <2>2
<1> HIDE DEF c0
<1>5. CASE c0.fromstart \/ "fromstart" \in flags
  <2>1. c = FromStart(c0)
    BY <1>1, <1>5
  <2>2. Whole(c0.blk)
    BY <1>4
  <2>3. /\ c.read = c0.read /\ c.blk \in Blocks /\ SameRows(Rows(c.blk), Rows(c0.blk))
        /\ \A t : Good(c.blk, t)
    BY <1>4, <2>1, <2>2, FromStartIs
  <2> QED BY <1>4, <2>3 DEF IsPrepared
<1>6. CASE ~ (c0.fromstart \/ "fromstart" \in flags)
  <2>1. c = c0
    BY <1>1, <1>6
  <2>2. SameRows(Rows(c0.blk), Rows(c0.blk))
    BY DEF SameRows
  <2> QED BY <1>4, <1>6, <2>1, <2>2 DEF IsPrepared
<1> QED BY <1>5, <1>6

LEMMA NotRead ==
  ASSUME NEW d, NEW e, NEW flags, ~ (Reads(e, flags) /\ Readable(d)), NEW c \in Prepared(e, flags, d)
  PROVE  c.read = FALSE
<1> DEFINE s == Start(e, flags, d)
           c0 == IF Erases(e, flags) THEN Erasing(s, e) ELSE s
           Fields == {"blk", "read", "learn", "fromstart"}
<1>1. c = IF c0.fromstart \/ "fromstart" \in flags THEN FromStart(c0) ELSE c0
  BY DEF Prepared
<1>2. s.read = FALSE /\ DOMAIN s = Fields
  BY DEF Start, Unread
<1>3. ASSUME NEW z, z.read = FALSE, DOMAIN z = Fields
      PROVE  /\ FromStart(z).read = FALSE /\ Erasing(z, e).read = FALSE
             /\ DOMAIN Erasing(z, e) = Fields
  BY <1>3 DEF FromStart, Erasing
<1> HIDE DEF s, Fields
<1>4. c0.read = FALSE /\ DOMAIN c0 = Fields
  BY <1>2, <1>3
<1> HIDE DEF c0
<1> QED BY <1>1, <1>3, <1>4

-----------------------------------------------------------------------------
(* How a call ends.                                                        *)

\* The database holds the block, and the history says how the call went.
Ends(b, did, how) ==
  /\ Dbs(db') /\ FileIs(db', b)
  /\ kept' = BagOf(Rows(b)) /\ last' = [did |-> did, how |-> how]
  /\ above' = above \cup Leaving(did, how)

LEMMA FinishEnds ==
  ASSUME NEW b \in Blocks, Whole(b), NEW d, Dbs(d), FileIs(d, b), NEW did, NEW how, Finish(d, did, how)
  PROVE  Ends(b, did, how)
<1>1. db' = d /\ kept' = BagOf(Kept(d)) /\ last' = [did |-> did, how |-> how]
      /\ above' = above \cup Leaving(did, how)
  BY DEF Finish
<1>2. IsRead(d, b)
  BY ReadBack
<1>3. Kept(d) = Rows(b)
  BY <1>2 DEF IsRead
<1> QED BY <1>1, <1>3 DEF Ends

\* Written back, a block is the same but for the size of its map.
LEMMA SaveEnds ==
  ASSUME NEW b1 \in Blocks, Whole(b1), NEW d, Dbs(d), FileIs(d, b1), NEW b \in Blocks, Whole(b),
         NEW did, NEW how, Save(d, b, did, how)
  PROVE  Ends(WithMap(b, MapFor(b)), did, how) \/ Ends(b1, did, "denied")
<1> DEFINE left == WithMap(b, MapFor(b))
<1>1. CASE Finish(WriteBack(d, b), did, how)
  <2>1. Dbs(WriteBack(d, b)) /\ FileIs(WriteBack(d, b), left)
    BY WriteBackIs
  <2>2. MapFor(b) \in Nat \ {0}
    BY SizesAre
  <2>3. left \in Blocks /\ Whole(left)
    <3>1. /\ left \in Blocks /\ left.theta = b.theta /\ left.num = b.num
          /\ left.sv = b.sv /\ left.old = b.old /\ left.n_old = b.n_old
      BY <2>2, WithMapIs
    <3> QED BY <3>1 DEF Whole
  <2> HIDE DEF left
  <2>4. Ends(left, did, how)
    BY <1>1, <2>1, <2>3, FinishEnds
  <2> QED BY <2>4 DEF left
<1>2. CASE Finish(d, did, "denied")
  BY <1>2, FinishEnds
<1> QED BY <1>1, <1>2 DEF Save

LEMMA MappedIs ==
  ASSUME NEW b \in Blocks, NEW left, left = WithMap(b, MapFor(b))
  PROVE  left \in Blocks /\ Rows(left) = Rows(b) /\ \A th : Good(b, th) => Good(left, th)
<1>1. MapFor(b) \in Nat \ {0}
  BY SizesAre
<1>2. /\ left \in Blocks /\ left.theta = b.theta /\ left.num = b.num /\ Rows(left) = Rows(b)
      /\ left.sv = b.sv /\ left.old = b.old /\ left.n_old = b.n_old /\ left.counts = b.counts
  BY <1>1, WithMapIs
<1> QED BY <1>2, GoodSame

\* What may have left the counts higher is not forgotten.
LEMMA AboveGrows ==
  ASSUME NEW b, NEW did, NEW how, Ends(b, did, how)
  PROVE  /\ above \subseteq above' /\ above \cup Leaving(did, "ok") \subseteq above'
         /\ how = "groomed" => "groomed" \in above'
<1>1. above' = above \cup Leaving(did, how)
  BY DEF Ends
<1>2. Leaving(did, "ok") \subseteq Leaving(did, how) /\ (how = "groomed" => "groomed" \in Leaving(did, how))
  BY DEF Leaving
<1> QED BY <1>1, <1>2

\* The rows a call asks for, and how those it leaves follow from them.
AskedRows(b, e, flags) == IF Adds(e, flags) THEN Append(Rows(b), e) ELSE LeftRows(b, e, flags)

Leaves(b, x, how, e, flags) ==
  \/ how = "ok" /\ SameRows(x, AskedRows(b, e, flags))
  \/ how = "denied" /\ (SameRows(x, Rows(b)) \/ SameRows(x, AskedRows(b, e, flags)))
  \/ /\ how = "groomed"
     /\ FewerRows(x, AskedRows(b, e, flags)) \/ (Adds(e, flags) /\ FewerRows(x, Rows(b)))
  \/ Lost(how) /\ x = << >>

\* The example is appended, or denied room, or there is none.
Appending(b, e, flags, a, b1) ==
  \/ ~ Adds(e, flags) /\ b1 = b /\ a.db = db /\ a.how = "ok"
  \/ Adds(e, flags) /\ b1 = Longer(b, e) /\ a.how = "ok"
  \/ Adds(e, flags) /\ b1 = b /\ a.db = db /\ a.how = "denied"

LEMMA AppendingIs ==
  ASSUME NEW e \in Examples \cup {None}, NEW flags, NEW b \in Blocks, Whole(b), Dbs(db), FileIs(db, b),
         NEW a \in IF Adds(e, flags) THEN append_vector_to_svm_db(e, Header(db))
                   ELSE {[db |-> db, how |-> "ok"]}
  PROVE  \E b1 \in Blocks : Dbs(a.db) /\ FileIs(a.db, b1) /\ Appending(b, e, flags, a, b1)
<1>1. CASE ~ Adds(e, flags)
  <2>1. a = [db |-> db, how |-> "ok"]
    BY <1>1
  <2>2. a.db = db /\ a.how = "ok"
    BY <2>1
  <2> QED BY <1>1, <2>2 DEF Appending
<1>2. CASE Adds(e, flags)
  <2> DEFINE fh == Header(db)
  <2>1. e \in Examples /\ fh # None
    <3>1. IsRead(db, b)
      BY ReadBack
    <3> QED BY <1>2, <3>1 DEF Adds, IsRead
  <2>2. \/ a = [db |-> Appended(db, fh, e), how |-> "ok"]
        \/ a = [db |-> db, how |-> "denied"]
    BY <1>2, <2>1 DEF append_vector_to_svm_db
  <2>3. CASE a = [db |-> Appended(db, fh, e), how |-> "ok"]
    <3> DEFINE b1 == Longer(b, e)
    <3>1. b1 \in Blocks /\ Dbs(Appended(db, fh, e)) /\ FileIs(Appended(db, fh, e), b1)
      BY <2>1, LongerIs, AppendedIs
    <3>2. a.db = Appended(db, fh, e) /\ a.how = "ok"
      BY <2>3
    <3> HIDE DEF fh
    <3> QED BY <1>2, <3>1, <3>2 DEF Appending
  <2>4. CASE a = [db |-> db, how |-> "denied"]
    <3>1. a.db = db /\ a.how = "denied"
      BY <2>4
    <3> QED BY <1>2, <2>4, <3>1 DEF Appending
  <2> QED BY <2>2, <2>3, <2>4
<1> QED BY <1>1, <1>2

LEMMA RowsFollow ==
  ASSUME NEW x, NEW y, NEW z
  PROVE  /\ SameRows(x, x) /\ (SameRows(x, y) /\ SameRows(y, z) => SameRows(x, z))
         /\ FewerRows(x, y) /\ SameRows(y, z) => FewerRows(x, z)
BY DEF SameRows, FewerRows

\* What appending leaves is what the call asks for, before anything is erased.
LEMMA AppendedAsks ==
  ASSUME NEW e \in Examples \cup {None}, NEW flags, NEW b \in Blocks, NEW a, NEW b1, Appending(b, e, flags, a, b1)
  PROVE  /\ a.how \in {"ok", "denied"}
         /\ a.how = "ok" => LeftRows(b1, e, flags) = AskedRows(b, e, flags)
         /\ a.how = "denied" => b1 = b /\ Adds(e, flags) /\ LeftRows(b1, e, flags) = Rows(b)
         /\ Rows(b1) = Rows(b) \/ (Rows(b1) = AskedRows(b, e, flags) /\ Adds(e, flags))
         /\ ~ Erases(e, flags) => LeftRows(b1, e, flags) = Rows(b1)
         /\ \A th : Good(b, th) => Good(b1, th)
<1>1. Adds(e, flags) => ~ Erases(e, flags) /\ e \in Examples
  BY DEF Adds, Erases
<1>2. ~ Erases(e, flags) => \A q : LeftRows(q, e, flags) = Rows(q)
  BY DEF LeftRows
<1>3. CASE ~ Adds(e, flags)
  <2>1. b1 = b /\ a.how = "ok"
    BY <1>3 DEF Appending
  <2> QED BY <1>2, <1>3, <2>1 DEF AskedRows
<1>4. CASE Adds(e, flags) /\ b1 = Longer(b, e) /\ a.how = "ok"
  <2>1. /\ b1.theta = b.theta /\ b1.num = b.num /\ b1.sv = b.sv /\ b1.old = b.old
        /\ b1.n_old = b.n_old /\ b1.counts = b.counts /\ Rows(b1) = Append(Rows(b), e)
    BY <1>1, <1>4, LongerIs
  <2>2. \A th : Good(b, th) => Good(b1, th)
    BY <2>1, GoodSame
  <2>3. AskedRows(b, e, flags) = Append(Rows(b), e)
    BY <1>4 DEF AskedRows
  <2> QED BY <1>1, <1>2, <1>4, <2>1, <2>2, <2>3
<1>5. CASE Adds(e, flags) /\ b1 = b /\ a.how = "denied"
  BY <1>1, <1>2, <1>5
<1> QED BY <1>3, <1>4, <1>5 DEF Appending

\* A call that learns, one that only writes back, one that only appends.
CallEnds(a, c, flags, did) ==
  IF c.read /\ c.learn /\ "append" \notin flags
  THEN \E r \in svm_learn_new_examples(c.blk, "microgroom" \in flags) :
         Save([a.db EXCEPT !.cb = r.blk.counts], r.blk, did, Worse(a.how, r.how))
  ELSE IF c.read THEN Save(a.db, c.blk, did, a.how)
  ELSE Finish(a.db, did, a.how)

LEMMA CallOf ==
  ASSUME NEW e, NEW flags, Learn(e, flags)
  PROVE  \E a \in IF Adds(e, flags) THEN append_vector_to_svm_db(e, Header(db))
                  ELSE {[db |-> db, how |-> "ok"]} :
           \E c \in Prepared(e, flags, a.db) : CallEnds(a, c, flags, Did(e, flags))
BY Zenon DEF Learn, CallEnds

LearnStep(b, e, flags) ==
  \E left \in Blocks : \E how :
    Ends(left, Did(e, flags), how) /\ Leaves(b, Rows(left), how, e, flags) /\ Good(left, above')

LEMMA LearnEnds ==
  ASSUME ThetaFits, NEW e \in Examples \cup {None}, NEW flags, NEW b \in Blocks, Dbs(db), FileIs(db, b),
         Good(b, above), Learn(e, flags)
  PROVE  LearnStep(b, e, flags)
<1> DEFINE did == Did(e, flags)
           mid == above \cup Leaving(did, "ok")
           asked == AskedRows(b, e, flags)
<1>1. PICK a \in IF Adds(e, flags) THEN append_vector_to_svm_db(e, Header(db))
                 ELSE {[db |-> db, how |-> "ok"]} :
        \E c \in Prepared(e, flags, a.db) : CallEnds(a, c, flags, did)
  BY CallOf
<1>2. PICK c \in Prepared(e, flags, a.db) : CallEnds(a, c, flags, did)
  BY <1>1
<1>3. Whole(b)
  BY DEF Good
<1>4. PICK b1 \in Blocks : Dbs(a.db) /\ FileIs(a.db, b1) /\ Appending(b, e, flags, a, b1)
  BY <1>1, <1>3, AppendingIs
<1>5. /\ a.how \in {"ok", "denied"}
      /\ a.how = "ok" => LeftRows(b1, e, flags) = asked
      /\ a.how = "denied" => b1 = b /\ Adds(e, flags) /\ LeftRows(b1, e, flags) = Rows(b)
      /\ Rows(b1) = Rows(b) \/ (Rows(b1) = asked /\ Adds(e, flags))
      /\ ~ Erases(e, flags) => LeftRows(b1, e, flags) = Rows(b1)
      /\ \A th : Good(b, th) => Good(b1, th)
  BY <1>4, AppendedAsks
<1>12. Good(b1, above)
  BY <1>5
<1>10. Good(b1, mid)
  BY <1>12, GoodMore
<1>11. Erases(e, flags) /\ Repeats(e) => "repeated" \in mid
  <2>1. Erases(e, flags) => did.op = "erase" /\ did.e = e
    BY DEF Erases, Adds, Did
  <2> HIDE DEF did
  <2> QED BY <2>1 DEF Leaving
<1> HIDE DEF did, asked, mid
<1>6. Whole(b1) /\ IsRead(a.db, b1)
  <2>1. Whole(b1)
    BY <1>5 DEF Good
  <2> QED BY <1>4, <2>1, ReadBack
\* A call that is denied memory leaves the block as it was appended to.
<1>7. ASSUME Ends(b1, did, "denied") PROVE LearnStep(b, e, flags)
  <2>1. Good(b1, above')
    BY <1>7, <1>12, AboveGrows, GoodMore
  <2>2. Leaves(b, Rows(b1), "denied", e, flags)
    BY <1>5, RowsFollow DEF Leaves, asked
  <2> QED BY <1>5, <1>7, <2>1, <2>2 DEF LearnStep, did
<1>8. CASE ~ Reads(e, flags)
  <2>1. c.read = FALSE
    BY <1>8, NotRead
  <2>2. Finish(a.db, did, a.how)
    BY <1>2, <2>1 DEF CallEnds
  <2>3. Ends(b1, did, a.how)
    BY <1>4, <1>6, <2>2, FinishEnds
  <2>4. ~ Erases(e, flags)
    BY <1>8 DEF Reads
  <2>5. Leaves(b, Rows(b1), a.how, e, flags)
    BY <1>5, <2>4, RowsFollow DEF Leaves, asked
  <2>6. Good(b1, above')
    BY <1>12, <2>3, AboveGrows, GoodMore
  <2> QED BY <1>5, <2>3, <2>5, <2>6 DEF LearnStep, did
<1>9. CASE Reads(e, flags)
  <2> DEFINE y == LeftRows(b1, e, flags)
  <2>1. c.read = TRUE /\ c.blk \in Blocks /\ Good(c.blk, mid) /\ SameRows(Rows(c.blk), y)
    <3>1. Readable(a.db) /\ read_svm_db(a.db) = b1
      BY <1>6 DEF IsRead
    <3>2. IsPrepared(c, b1, mid, e, flags)
      BY <1>9, <1>10, <1>11, <3>1, PreparedIs
    <3> QED BY <3>2 DEF IsPrepared
  <2>2. Whole(c.blk)
    BY <2>1 DEF Good
  <2> HIDE DEF y
  <2>3. /\ a.how = "ok" => y = asked
        /\ a.how = "denied" => y = Rows(b) /\ Adds(e, flags)
    BY <1>5 DEF y
  <2>4. CASE c.learn /\ "append" \notin flags
    <3>1. PICK r \in svm_learn_new_examples(c.blk, "microgroom" \in flags) :
                 Save([a.db EXCEPT !.cb = r.blk.counts], r.blk, did, Worse(a.how, r.how))
      BY <1>2, <2>1, <2>4 DEF CallEnds
    <3>2. /\ r.blk \in Blocks /\ Became(Rows(c.blk), Rows(r.blk), r.how)
          /\ \A th1 : More(mid, th1, r.how) => Good(r.blk, th1)
      BY <2>1, LearnedIs
    <3> DEFINE how == Worse(a.how, r.how)
               left == WithMap(r.blk, MapFor(r.blk))
    <3>3. left \in Blocks /\ Rows(left) = Rows(r.blk) /\ \A th1 : Good(r.blk, th1) => Good(left, th1)
      BY <3>2, MappedIs
    <3>4. Ends(left, did, how) \/ Ends(b1, did, "denied")
      <4> DEFINE d1 == [a.db EXCEPT !.cb = r.blk.counts]
      <4>1. Dbs(d1) /\ FileIs(d1, b1)
        BY <1>4, SameFile
      <4>2. Save(d1, r.blk, did, how)
        BY <3>1
      <4>3. Whole(r.blk)
        <5>1. More(mid, mid \cup {"groomed"}, r.how)
          BY DEF More
        <5>2. PICK th1 : Good(r.blk, th1)
          BY <3>2, <5>1
        <5> QED BY <5>2 DEF Good
      <4> HIDE DEF d1, how
      <4> QED BY <1>6, <3>2, <4>1, <4>2, <4>3, SaveEnds
    <3>5. how = IF r.how = "ok" THEN a.how ELSE r.how
      BY DEF Worse
    <3> HIDE DEF how, left
    <3>6. CASE Ends(left, did, how)
      <4>1. mid \subseteq above' /\ (how = "groomed" => "groomed" \in above')
        BY <3>6, AboveGrows DEF mid
      <4>2. r.how = "groomed" => how = "groomed"
        BY <3>5
      <4>3. Good(left, above')
        <5>1. More(mid, above', r.how)
          BY <4>1, <4>2 DEF More
        <5> QED BY <3>2, <3>3, <5>1
      <4>4. CASE r.how = "ok" /\ SameRows(Rows(r.blk), Rows(c.blk))
        <5>1. how = a.how
          BY <3>5, <4>4
        <5>2. SameRows(Rows(left), y)
          BY <2>1, <3>3, <4>4, RowsFollow
        <5>3. Leaves(b, Rows(left), how, e, flags)
          BY <1>5, <2>3, <5>1, <5>2 DEF Leaves, asked
        <5> QED BY <3>3, <3>6, <4>3, <5>3 DEF LearnStep, did
      <4>5. CASE r.how = "groomed" /\ FewerRows(Rows(r.blk), Rows(c.blk))
        <5>1. FewerRows(Rows(left), y)
          BY <2>1, <3>3, <4>5, RowsFollow
        <5>2. Leaves(b, Rows(left), how, e, flags)
          BY <1>5, <2>3, <4>2, <4>5, <5>1 DEF Leaves, asked
        <5> QED BY <3>3, <3>6, <4>3, <5>2 DEF LearnStep, did
      <4>6. CASE Lost(r.how) /\ Rows(r.blk) = << >>
        <5>1. r.how # "ok"
          BY <4>6, NotLost
        <5>2. how = r.how
          BY <3>5, <5>1
        <5>3. Leaves(b, Rows(left), how, e, flags)
          BY <3>3, <4>6, <5>2 DEF Leaves
        <5> QED BY <3>3, <3>6, <4>3, <5>3 DEF LearnStep, did
      <4> QED BY <3>2, <4>4, <4>5, <4>6 DEF Became
    <3> QED BY <1>7, <3>4, <3>6
  <2>5. CASE ~ (c.learn /\ "append" \notin flags)
    <3> DEFINE left == WithMap(c.blk, MapFor(c.blk))
    <3>1. Save(a.db, c.blk, did, a.how)
      BY <1>2, <2>1, <2>5 DEF CallEnds
    <3>2. left \in Blocks /\ Rows(left) = Rows(c.blk) /\ Good(left, mid)
      BY <2>1, MappedIs
    <3>3. Ends(left, did, a.how) \/ Ends(b1, did, "denied")
      BY <1>4, <1>6, <2>1, <2>2, <3>1, SaveEnds
    <3> HIDE DEF left
    <3>4. CASE Ends(left, did, a.how)
      <4>1. Good(left, above')
        <5>1. mid \subseteq above'
          BY <3>4, AboveGrows DEF mid
        <5> QED BY <3>2, <5>1, GoodMore
      <4>2. SameRows(Rows(left), y)
        BY <2>1, <3>2, RowsFollow
      <4>3. Leaves(b, Rows(left), a.how, e, flags)
        BY <1>5, <2>3, <4>2 DEF Leaves, asked
      <4> QED BY <3>2, <3>4, <4>1, <4>3 DEF LearnStep, did
    <3> QED BY <1>7, <3>3, <3>4
  <2> QED BY <2>4, <2>5
<1> QED BY <1>8, <1>9

Remapped(b) == [b EXCEPT !.n_old = 0, !.map_size = MapSize]

LEMMA RemappedIs ==
  ASSUME NEW b \in Blocks, NEW r, r = Remapped(b)
  PROVE  /\ r \in Blocks /\ r.theta = b.theta /\ r.num = b.num /\ r.sv = b.sv /\ r.old = b.old
         /\ r.new = b.new /\ r.n_old = 0 /\ r.counts = b.counts
<1> DEFINE theta == b.theta
           num == b.num
           sv == b.sv
           old == b.old
           new == b.new
           n_old == b.n_old
           counts == b.counts
           m == b.map_size
           nil == 0
<1>1. /\ b = [theta |-> theta, num |-> num, sv |-> sv, old |-> old, new |-> new,
              n_old |-> n_old, counts |-> counts, map_size |-> m]
      /\ theta \in Fitting /\ num \in Nat /\ sv \in Seq(Examples) /\ old \in Seq(Examples)
      /\ new \in Seq(Examples) /\ counts \in AllCounts
  BY BlockParts
<1>2. nil = 0 /\ nil \in Nat /\ MapSize \in Nat \ {0}
  BY SvmStoreAssumption
<1>3. r = [b EXCEPT !.n_old = nil, !.map_size = MapSize]
  BY DEF Remapped
<1>4. /\ b.theta = theta /\ b.num = num /\ b.sv = sv /\ b.old = old /\ b.new = new /\ b.counts = counts
  OBVIOUS
<1> HIDE DEF theta, num, sv, old, new, n_old, counts, m, nil
<1>5. r = [theta |-> theta, num |-> num, sv |-> sv, old |-> old, new |-> new,
           n_old |-> nil, counts |-> counts, map_size |-> MapSize]
  BY <1>1, <1>3
<1>6. /\ r \in Blocks /\ r.theta = theta /\ r.num = num /\ r.sv = sv /\ r.old = old
      /\ r.new = new /\ r.n_old = nil /\ r.counts = counts
  <2> DEFINE q == [theta |-> theta, num |-> num, sv |-> sv, old |-> old, new |-> new,
                   n_old |-> nil, counts |-> counts, map_size |-> MapSize]
  <2>1. /\ q \in Blocks /\ q.theta = theta /\ q.num = num /\ q.sv = sv /\ q.old = old
        /\ q.new = new /\ q.n_old = nil /\ q.counts = counts
    BY <1>1, <1>2, BlockOf
  <2>2. r = q
    BY <1>5
  <2> HIDE DEF q
  <2> QED BY <2>1, <2>2
<1> QED BY <1>2, <1>4, <1>6

\* The text form says all of a block that has no old examples.
TextStep(b) ==
  \E left \in Blocks :
    /\ Ends(left, [op |-> "text", e |-> None], "ok") /\ Rows(left) = Rows(b) /\ Good(left, above')

LEMMA ThroughTextIs ==
  ASSUME NEW b \in Blocks, Dbs(db), FileIs(db, b), Good(b, above),
         NEW alloc \in Allocs, TextSaysAll, ThroughText(alloc)
  PROVE  TextStep(b)
<1>1. Whole(b)
  BY DEF Good
<1>2. Readable(db) /\ read_svm_db(db) = b
  BY <1>1, ReadBack DEF IsRead
<1>3. b.old = << >>
  BY <1>2 DEF TextSaysAll
<1> DEFINE new == NewDatabase(alloc)
           b1 == [b EXCEPT !.n_old = 0, !.map_size = MapSize]
           d1 == WriteBack(new, b1)
           d2 == [d1 EXCEPT !.cb = db.cb]
           did == [op |-> "text", e |-> None]
           left == WithMap(b1, MapFor(b1))
<1>4. Finish(d2, did, "ok")
  BY <1>2 DEF ThroughText, svm_learned_read_text_fp
<1>5. /\ b1 \in Blocks /\ b1.theta = b.theta /\ b1.num = b.num /\ b1.sv = b.sv /\ b1.old = b.old
      /\ b1.new = b.new /\ b1.n_old = 0 /\ b1.counts = b.counts
  <2>1. b1 = Remapped(b)
    BY DEF Remapped
  <2> HIDE DEF b1
  <2> QED BY <2>1, RemappedIs
<1> HIDE DEF b1
<1>6. Good(b1, above) /\ Rows(b1) = Rows(b)
  <2>1. Whole(b1)
    BY <1>1, <1>3, <1>5 DEF Whole
  <2>2. \A w : Learned(w, b1) = Learned(w, b)
    BY <1>5 DEF Learned
  <2>3. Good(b1, above)
    BY <1>5, <2>1, <2>2 DEF Good, Covers
  <2> QED BY <1>5, <2>3 DEF Rows
<1>7. left \in Blocks /\ Rows(left) = Rows(b) /\ Good(left, above)
  BY <1>5, <1>6, MappedIs
<1>8. Dbs(new)
  BY NewDatabaseIs, SvmStoreAssumption
<1> HIDE DEF new
<1>9. Dbs(d1) /\ FileIs(d1, left)
  BY <1>5, <1>8, WriteBackIs
<1> HIDE DEF d1
<1>10. Dbs(d2) /\ FileIs(d2, left)
  BY <1>9, SameFile
<1> HIDE DEF d2, left, did
<1>11. Ends(left, did, "ok")
  <2>1. Whole(left)
    BY <1>7 DEF Good
  <2> QED BY <1>4, <1>7, <1>10, <2>1, FinishEnds
<1>12. Good(left, above')
  BY <1>7, <1>11, AboveGrows, GoodMore
<1> QED BY <1>7, <1>11, <1>12 DEF TextStep, did

-----------------------------------------------------------------------------
(* What every state's database holds.                                      *)

NoFileStep(e, flags) ==
  /\ db' = db /\ kept' = BagOf(Kept(db))
  /\ last' = [did |-> Did(e, flags), how |-> "ok"]

\* Without a file nothing happens.
LEMMA NoFileLearn ==
  ASSUME NoFile(db), NEW e \in Examples \cup {None}, NEW flags, Learn(e, flags)
  PROVE  NoFileStep(e, flags)
<1>1. Header(db) = None /\ ~ Readable(db)
  BY NothingThere
<1> DEFINE did == Did(e, flags)
<1>2. PICK a \in IF Adds(e, flags) THEN append_vector_to_svm_db(e, Header(db))
                 ELSE {[db |-> db, how |-> "ok"]} :
        \E c \in Prepared(e, flags, a.db) : CallEnds(a, c, flags, did)
  BY CallOf
<1> HIDE DEF did
<1>3. a = [db |-> db, how |-> "ok"]
  BY <1>1, <1>2 DEF append_vector_to_svm_db
<1>4. a.db = db /\ a.how = "ok"
  BY <1>3
<1>5. PICK c \in Prepared(e, flags, db) : CallEnds(a, c, flags, did)
  BY <1>2, <1>4
<1>6. c.read = FALSE
  BY <1>1, <1>5, NotRead
<1>7. Finish(db, did, "ok")
  BY <1>4, <1>5, <1>6 DEF CallEnds
<1> QED BY <1>7 DEF Finish, NoFileStep, did

SvmInv ==
  /\ Dbs(db) /\ kept = BagOf(Kept(db))
  /\ NoFile(db) \/ \E b \in Blocks : FileIs(db, b) /\ Good(b, above)

\* Every step is a call without a file, or takes the block to another one.
LEMMA StepIs ==
  ASSUME ThetaFits, Careful, SvmInv, Next
  PROVE  \/ /\ NoFile(db)
            /\ \E e \in Examples \cup {None}, flags \in FlagSets : NoFileStep(e, flags)
         \/ \E b \in Blocks :
              /\ FileIs(db, b) /\ Good(b, above)
              /\ \/ \E e \in Examples \cup {None}, flags \in FlagSets : LearnStep(b, e, flags)
                 \/ TextStep(b)
<1> USE DEF SvmInv
<1>1. ASSUME NEW e \in Examples \cup {None}, NEW flags \in FlagSets, Learn(e, flags)
      PROVE  \/ NoFile(db) /\ NoFileStep(e, flags)
             \/ \E b \in Blocks : FileIs(db, b) /\ Good(b, above) /\ LearnStep(b, e, flags)
  <2>1. CASE NoFile(db)
    BY <1>1, <2>1, NoFileLearn
  <2>2. CASE ~ NoFile(db)
    <3>1. PICK b \in Blocks : FileIs(db, b) /\ Good(b, above)
      BY <2>2
    <3>2. LearnStep(b, e, flags)
      BY <1>1, <3>1, LearnEnds
    <3> QED BY <3>1, <3>2
  <2> QED BY <2>1, <2>2
<1>2. CASE \E e \in Examples, flags \in FlagSets : (Adds(e, flags) => Room) /\ Learn(e, flags)
  BY <1>1, <1>2
<1>3. CASE \E flags \in FlagSets : "erase" \notin flags /\ Learn(None, flags)
  BY <1>1, <1>3
<1>4. CASE \E alloc \in Allocs : (Careful => TextSaysAll) /\ ThroughText(alloc)
  <2>1. PICK alloc \in Allocs : TextSaysAll /\ ThroughText(alloc)
    BY <1>4
  <2>2. Readable(db)
    BY <2>1 DEF ThroughText
  <2>3. PICK b \in Blocks : FileIs(db, b) /\ Good(b, above)
    BY <2>2, NothingThere
  <2>4. TextStep(b)
    BY <2>1, <2>3, ThroughTextIs
  <2> QED BY <2>3, <2>4
<1> QED BY <1>2, <1>3, <1>4 DEF Next

LEMMA EndsInv ==
  ASSUME NEW left \in Blocks, NEW did, NEW how, Ends(left, did, how),
         Good(left, above')
  PROVE  SvmInv'
<1>1. Dbs(db') /\ FileIs(db', left) /\ kept' = BagOf(Rows(left))
  BY DEF Ends
<1>2. Kept(db') = Rows(left)
  <2>1. Whole(left)
    BY DEF Good
  <2>2. IsRead(db', left)
    BY <1>1, <2>1, ReadBack
  <2> QED BY <2>2 DEF IsRead
<1> QED BY <1>1, <1>2 DEF SvmInv

LEMMA SvmInit ==
  ASSUME Init
  PROVE  SvmInv
<1>1. PICK alloc \in Allocs : db = NewDatabase(alloc)
  BY DEF Init
<1>2. alloc \in Nat
  BY SvmStoreAssumption
<1> DEFINE b == WithMap(svm_block_init, MapFor(svm_block_init))
<1>3. Dbs(db) /\ (NoFile(db) \/ FileIs(db, b))
  BY <1>1, <1>2, NewDatabaseIs
<1>4. kept = BagOf(Kept(db))
  BY DEF Init
<1>5. b \in Blocks /\ Good(b, above)
  <2>1. Good(svm_block_init, above)
    BY InitBlock, NothingGood
  <2> QED BY <2>1, InitBlock, MappedIs
<1> HIDE DEF b
<1> QED BY <1>3, <1>4, <1>5 DEF SvmInv

LEMMA SvmStep ==
  ASSUME ThetaFits, Careful, SvmInv, [Next]_vars
  PROVE  SvmInv'
<1>1. CASE UNCHANGED vars
  BY <1>1 DEF vars, SvmInv, NoFile
<1>2. CASE Next
  <2>1. CASE NoFile(db) /\ \E e \in Examples \cup {None}, flags \in FlagSets : NoFileStep(e, flags)
    <3>1. db' = db /\ kept' = BagOf(Kept(db))
      BY <2>1 DEF NoFileStep
    <3> QED BY <2>1, <3>1 DEF SvmInv, NoFile
  <2>2. ASSUME NEW b \in Blocks, NEW e \in Examples \cup {None}, NEW flags \in FlagSets,
               LearnStep(b, e, flags)
        PROVE  SvmInv'
    <3>1. PICK left \in Blocks : \E how :
            Ends(left, Did(e, flags), how) /\ Leaves(b, Rows(left), how, e, flags) /\ Good(left, above')
      BY <2>2 DEF LearnStep
    <3> QED BY <3>1, EndsInv DEF SvmInv
  <2>3. ASSUME NEW b \in Blocks, TextStep(b) PROVE SvmInv'
    <3>1. PICK left \in Blocks :
            /\ Ends(left, [op |-> "text", e |-> None], "ok") /\ Rows(left) = Rows(b)
            /\ Good(left, above')
      BY <2>3 DEF TextStep
    <3> QED BY <3>1, EndsInv DEF SvmInv
  <2> QED BY <1>2, <2>1, <2>2, <2>3, StepIs
<1> QED BY <1>1, <1>2

(* Every state's database holds a block whose solution is right, if no     *)
(* weight vector fills its room exactly and the text form is used only     *)
(* where it says all.                                                      *)
THEOREM SvmHolds ==
  ASSUME ThetaFits, Careful
  PROVE  Spec => []SvmInv
<1>1. Init => SvmInv
  BY SvmInit
<1>2. SvmInv /\ [Next]_vars => SvmInv'
  BY SvmStep
<1> QED BY <1>1, <1>2, PTL DEF Spec

LEMMA InvRead ==
  ASSUME SvmInv
  PROVE  \/ NoFile(db)
         \/ \E b \in Blocks : IsRead(db, b) /\ FileIs(db, b) /\ Good(b, above) /\ kept = BagOf(Rows(b))
<1>1. CASE ~ NoFile(db)
  <2>1. PICK b \in Blocks : FileIs(db, b) /\ Good(b, above)
    BY <1>1 DEF SvmInv
  <2>2. Whole(b)
    BY <2>1 DEF Good
  <2>3. IsRead(db, b)
    BY <2>1, <2>2, ReadBack DEF SvmInv
  <2>4. Kept(db) = Rows(b)
    BY <2>3 DEF IsRead
  <2> QED BY <2>1, <2>3, <2>4 DEF SvmInv
<1> QED BY <1>1

LEMMA InvFile ==
  ASSUME SvmInv
  PROVE  FileIsWhole
<1>1. CASE NoFile(db)
  BY <1>1, NothingThere DEF FileIsWhole
<1>2. CASE ~ NoFile(db)
  <2>1. PICK b \in Blocks : IsRead(db, b) /\ Good(b, above)
    BY <1>2, InvRead
  <2>2. b.theta # None => b.num >= Len(b.sv) + Len(b.old)
    <3>1. b.sv \in Seq(Examples) /\ b.old \in Seq(Examples)
      BY BlockParts
    <3>2. Len(b.sv) + Len(b.old) = Learned(Unit, b)
      BY <3>1, LenIsTotal DEF Learned
    <3> QED BY <2>1, <3>2 DEF Good
  <2> DEFINE fh == Header(db)
             places == PlacesOf(db, fh)
             rows == {p \in DOMAIN db.data : IsRow(db.data[p])}
  <2>3. rows = RowsIn(db.data)
    BY DEF RowsIn
  <2>4. Kept(db) = Rows(b) /\ read_svm_db(db) = b
    BY <2>1 DEF IsRead
  <2>5. /\ Readable(db) /\ fh.end <= db.alloc
        /\ \A p \in DOMAIN db.data : p + db.data[p].size <= fh.end
        /\ Range((places.sv \o places.old) \o places.new) = {p \in rows : p < fh.new}
        /\ Cardinality(rows) = Len(Kept(db))
    BY <2>1, <2>3, <2>4 DEF IsRead
  <2> HIDE DEF fh, places, rows
  <2> QED BY <2>2, <2>4, <2>5 DEF FileIsWhole, fh, places, rows
<1> QED BY <1>1, <1>2

(* Learned, appended to, erased from, relearned, groomed, written out and   *)
(* read in again, the file holds what its header says and nothing else: it  *)
(* ends within the block, every row is where the map or the end of what was *)
(* written says, exactly once, and the solution counts as many examples as  *)
(* there are.                                                               *)
THEOREM FileStaysWhole ==
  ASSUME ThetaFits, Careful
  PROVE  Spec => []FileIsWhole
<1>1. SvmInv => FileIsWhole
  BY InvFile
<1> QED BY <1>1, SvmHolds, PTL

LEMMA InvCounts ==
  ASSUME Distinct, SvmInv
  PROVE  CountsAreLearned
<1> SUFFICES ASSUME Header(db) # None PROVE CountsAreLearned
  BY DEF CountsAreLearned
<1>1. PICK b \in Blocks : IsRead(db, b) /\ Good(b, above)
  BY InvRead, NothingThere
<1>2. read_svm_db(db) = b /\ Header(db).counts = b.counts
  BY <1>1 DEF IsRead
<1> DEFINE x == b.sv \o b.old
           real == CountAll(NoCounts, x)
<1>3. x \in Seq(Examples) /\ \A w \in [Examples -> Nat] : Total(w, x) = Learned(w, b)
  <2>1. b.sv \in Seq(Examples) /\ b.old \in Seq(Examples)
    BY BlockParts
  <2> QED BY <2>1, ConcatProperties, TotalConcat DEF Learned
<1>4. ASSUME NEW c \in Classes
      PROVE  /\ b.counts[c].documents >= real[c].documents
             /\ b.counts[c].features >= real[c].features
             /\ "groomed" \notin above => b.counts[c].documents = real[c].documents
             /\ above = {} => b.counts[c].features = real[c].features
  <2>1. DocsOf(c) \in [Examples -> Nat] /\ FeaturesOf(c) \in [Examples -> Nat]
    BY Weights
  <2>2. Total(DocsOf(c), x) = Learned(DocsOf(c), b) /\ Total(FeaturesOf(c), x) = Learned(FeaturesOf(c), b)
    BY <1>3, <2>1
  <2> HIDE DEF x
  <2>3. /\ real[c].documents = Total(DocsOf(c), x) /\ real[c].features = Total(FeaturesOf(c), x)
    BY <1>3, RealIs
  <2>5. /\ b.counts[c].documents >= Learned(DocsOf(c), b)
        /\ b.counts[c].features >= Learned(FeaturesOf(c), b)
        /\ "groomed" \notin above => b.counts[c].documents = Learned(DocsOf(c), b)
        /\ above = {} => b.counts[c].features = Learned(FeaturesOf(c), b)
    BY <1>1 DEF Good, Covers
  <2> HIDE DEF real
  <2> QED BY <2>2, <2>3, <2>5
<1> HIDE DEF x
<1> QED BY <1>2, <1>4 DEF CountsAreLearned, x

(* If two examples are only taken for the same where they are, the         *)
(* documents and features counted for a class never fall below those of    *)
(* the examples learned, through appending, erasing, starting over and a   *)
(* reading that gives up.  Only grooming leaves the documents higher, and  *)
(* only grooming and the erasing of an example with a feature more than    *)
(* once the features: counted every time in learning, it is taken off once *)
(* in erasing (crm114_svm.c:1923 and 2242-2251).                           *)
THEOREM CountsStayLearned ==
  ASSUME ThetaFits, Careful, Distinct
  PROVE  Spec => []CountsAreLearned
<1>1. SvmInv => CountsAreLearned
  BY InvCounts
<1> QED BY <1>1, SvmHolds, PTL

\* What a text may be weighed with: a vector found for this call.
LEMMA WeighedAnew ==
  ASSUME ThetaFits, NEW b \in Blocks, NEW th, Good(b, th), Readable(db), read_svm_db(db) = b,
         has_new_vectors(db), NEW theta \in Weighing(db)
  PROVE  KnowsAll(theta, Rows(b))
<1>1. PICK r \in svm_learn_new_examples(b, FALSE) : ~ Lost(r.how) /\ theta = r.blk.theta
  BY Zenon DEF Weighing, Lost
<1> QED BY <1>1, LearnedIs

LEMMA InvAnswers ==
  ASSUME ThetaFits, SvmInv
  PROVE  AnswersFromAll
<1> SUFFICES ASSUME NEW theta \in Weighing(db)
             PROVE  IF theta = None THEN kept = EmptyBag ELSE BagToSet(kept) \subseteq theta.knows
  BY DEF AnswersFromAll
<1>1. ASSUME NEW x \in Seq(Examples), kept = BagOf(x), KnowsAll(theta, x)
      PROVE  IF theta = None THEN kept = EmptyBag ELSE BagToSet(kept) \subseteq theta.knows
  <2>1. CASE theta = None
    BY <1>1, <2>1, BagOfNone DEF KnowsAll
  <2>2. CASE theta # None
    <3>1. DOMAIN BagOf(x) = Range(x)
      BY DEF BagOf
    <3> QED BY <1>1, <2>2, <3>1 DEF KnowsAll, BagToSet
  <2> QED BY <2>1, <2>2
<1>2. CASE NoFile(db)
  <2>1. theta = None
    <3>1. ~ has_new_vectors(db) /\ get_theta_from_svm_db(db) = None
      BY <1>2, NothingThere
    <3> QED BY <3>1, Zenon DEF Weighing
  <2>2. kept = BagOf(<< >>)
    BY <1>2, NothingThere DEF SvmInv
  <2> QED BY <2>1, <2>2, BagOfNone
<1>3. CASE ~ NoFile(db)
  <2>1. PICK b \in Blocks : IsRead(db, b) /\ Good(b, above) /\ kept = BagOf(Rows(b))
    BY <1>3, InvRead
  <2>2. /\ Readable(db) /\ read_svm_db(db) = b /\ (has_new_vectors(db) <=> b.new # << >>)
        /\ get_theta_from_svm_db(db) = b.theta
    BY <2>1 DEF IsRead
  <2>3. Rows(b) \in Seq(Examples)
    BY RowCountIs
  <2>4. CASE ~ has_new_vectors(db)
    <3>1. theta = b.theta
      BY <2>2, <2>4 DEF Weighing
    <3>2. b.new = << >>
      BY <2>2, <2>4
    <3>3. Range(Rows(b)) = Range(b.sv) \cup Range(b.old)
      <4>1. Range(<< >>) = {}
        BY DEF Range
      <4> QED BY <3>2, <4>1, RowsRange
    <3>4. CASE b.theta = None
      <4>1. b.sv = << >> /\ b.old = << >>
        BY <2>1, <3>4 DEF Good, Whole
      <4>2. << >> \in Seq(Examples)
        OBVIOUS
      <4>3. (<< >> \o << >>) \o << >> = << >>
        BY <4>2, ConcatEmptySeq
      <4>4. Rows(b) = << >>
        BY <3>2, <4>1, <4>3 DEF Rows
      <4> QED BY <1>1, <2>1, <2>3, <3>1, <3>4, <4>4 DEF KnowsAll
    <3>5. CASE b.theta # None
      <4>1. Range(b.sv) \cup Range(b.old) \subseteq b.theta.knows
        BY <2>1, <3>5 DEF Good
      <4>2. KnowsAll(theta, Rows(b))
        BY <3>1, <3>3, <3>5, <4>1 DEF KnowsAll
      <4> QED BY <1>1, <2>1, <2>3, <4>2
    <3> QED BY <3>4, <3>5
  <2>5. CASE has_new_vectors(db)
    <3>1. KnowsAll(theta, Rows(b))
      BY <2>1, <2>2, <2>5, WeighedAnew
    <3> QED BY <1>1, <2>1, <2>3, <3>1
  <2> QED BY <2>4, <2>5
<1> QED BY <1>2, <1>3

(* A text is never weighed with a vector that misses an example in the      *)
(* file: not one appended behind the end of what was written, kept through  *)
(* an erase or a grooming, or left where learning was denied memory.        *)
THEOREM AnswersStayFromAll ==
  ASSUME ThetaFits, Careful
  PROVE  Spec => []AnswersFromAll
<1>1. SvmInv => AnswersFromAll
  BY InvAnswers
<1> QED BY <1>1, SvmHolds, PTL

-----------------------------------------------------------------------------
(* The store implements the set of examples.                               *)

\* What the set asks for, by what the call is to do.
LEMMA AskedOf ==
  ASSUME NEW e, NEW op, NEW how, last' = [did |-> [op |-> op, e |-> e], how |-> how]
  PROVE  /\ op = "add" /\ 0 \in DOMAIN db.data => Set!Asked = kept (+) SetToBag({e})
         /\ op = "add" /\ 0 \notin DOMAIN db.data => Set!Asked = kept
         /\ op = "erase" => Set!Asked = [x \in DOMAIN kept \ {e} |-> kept[x]]
         /\ op \in {"relearn", "text"} => Set!Asked = kept
<1>1. last'.did.e = e /\ last'.did.op = op
  OBVIOUS
<1>2. Set!(+)(kept, Set!SetToBag({e})) = kept (+) SetToBag({e})
  BY DEF Set!(+), (+), SetToBag, Set!SetToBag
<1>3. ASSUME op = "add", 0 \in DOMAIN db.data PROVE Set!Asked = Set!(+)(kept, Set!SetToBag({e}))
  BY <1>1, <1>3 DEF Set!Asked
<1>4. ASSUME op = "add", 0 \notin DOMAIN db.data PROVE Set!Asked = kept
  BY <1>1, <1>4 DEF Set!Asked
<1>5. ASSUME op = "erase" PROVE Set!Asked = [x \in DOMAIN kept \ {e} |-> kept[x]]
  BY <1>1, <1>5 DEF Set!Asked
<1>6. ASSUME op \in {"relearn", "text"} PROVE Set!Asked = kept
  BY <1>1, <1>6 DEF Set!Asked
<1> QED BY <1>2, <1>3, <1>4, <1>5, <1>6

LEMMA DidOp ==
  ASSUME NEW e, NEW flags
  PROVE  \E op : /\ Did(e, flags) = [op |-> op, e |-> e]
                 /\ \/ Adds(e, flags) /\ ~ Erases(e, flags) /\ op = "add"
                    \/ ~ Adds(e, flags) /\ Erases(e, flags) /\ op = "erase"
                    \/ ~ Adds(e, flags) /\ ~ Erases(e, flags) /\ op = "relearn"
<1> DEFINE op == IF Adds(e, flags) THEN "add" ELSE IF e # None THEN "erase" ELSE "relearn"
<1>1. Did(e, flags) = [op |-> op, e |-> e]
  BY DEF Did
<1>2. \/ Adds(e, flags) /\ ~ Erases(e, flags) /\ op = "add"
      \/ ~ Adds(e, flags) /\ Erases(e, flags) /\ op = "erase"
      \/ ~ Adds(e, flags) /\ ~ Erases(e, flags) /\ op = "relearn"
  BY DEF Adds, Erases
<1> HIDE DEF op
<1> QED BY <1>1, <1>2

\* Erased from each of the three, an example is gone and the others are all there.
LEMMA ErasedTotals ==
  ASSUME Distinct, NEW b \in Blocks, NEW e \in Examples
  PROVE  /\ ErasedRows(b, e) \in Seq(Examples)
         /\ \A o \in Examples : Total(One(o), ErasedRows(b, e)) = IF o = e THEN 0 ELSE Total(One(o), Rows(b))
<1> DEFINE sv == WithoutEqual(b.sv, e)
           old == WithoutEqual(b.old, e)
           new == WithoutEqual(b.new, e)
<1>1. b.sv \in Seq(Examples) /\ b.old \in Seq(Examples) /\ b.new \in Seq(Examples)
  BY BlockParts
<1>2. ASSUME NEW x \in Seq(Examples), NEW y, y = WithoutEqual(x, e)
      PROVE  /\ y \in Seq(Examples)
             /\ \A o \in Examples : Total(One(o), y) = IF o = e THEN 0 ELSE Total(One(o), x)
  <2> DEFINE gone == Len(x) - Len(y)
  <2>1. /\ y \in Seq(Examples) /\ gone \in Nat /\ e \notin Range(y)
        /\ \A w \in [Examples -> Nat] : Total(w, y) + gone * w[e] = Total(w, x)
    BY <1>2, ErasedIs
  <2> HIDE DEF gone
  <2>2. ASSUME NEW o \in Examples PROVE Total(One(o), y) = IF o = e THEN 0 ELSE Total(One(o), x)
    <3>1. One(o) \in [Examples -> Nat]
      BY Weights
    <3>2. Total(One(o), y) \in Nat /\ Total(One(o), x) \in Nat
      BY <1>2, <2>1, <3>1, TotalInNat
    <3>3. CASE o = e
      <4>1. ~ (Total(One(e), y) > 0)
        BY <2>1, RangeIs
      <4> QED BY <3>2, <3>3, <4>1
    <3>4. CASE o # e
      <4>1. One(o)[e] = 0
        BY <3>4 DEF One
      <4>2. Total(One(o), y) + gone * One(o)[e] = Total(One(o), x)
        BY <2>1, <3>1
      <4> QED BY <2>1, <3>2, <3>4, <4>1, <4>2
    <3> QED BY <3>3, <3>4
  <2> QED BY <2>1, <2>2
<1>3. /\ sv \in Seq(Examples) /\ old \in Seq(Examples) /\ new \in Seq(Examples)
      /\ \A o \in Examples : /\ Total(One(o), sv) = (IF o = e THEN 0 ELSE Total(One(o), b.sv))
                             /\ Total(One(o), old) = (IF o = e THEN 0 ELSE Total(One(o), b.old))
                             /\ Total(One(o), new) = (IF o = e THEN 0 ELSE Total(One(o), b.new))
  BY <1>1, <1>2
<1>4. ErasedRows(b, e) = (sv \o old) \o new
  BY DEF ErasedRows
<1> HIDE DEF sv, old, new
<1>5. sv \o old \in Seq(Examples) /\ (sv \o old) \o new \in Seq(Examples)
  BY <1>3, ConcatProperties
<1>6. ASSUME NEW o \in Examples
      PROVE  Total(One(o), (sv \o old) \o new) = IF o = e THEN 0 ELSE Total(One(o), Rows(b))
  <2>1. One(o) \in [Examples -> Nat]
    BY Weights
  <2>2. Total(One(o), (sv \o old) \o new) = Total(One(o), sv \o old) + Total(One(o), new)
    BY <1>3, <1>5, <2>1, TotalConcat
  <2>3. Total(One(o), sv \o old) = Total(One(o), sv) + Total(One(o), old)
    BY <1>3, <2>1, TotalConcat
  <2>4. /\ Total(One(o), Rows(b)) = Total(One(o), b.sv) + Total(One(o), b.old) + Total(One(o), b.new)
        /\ Total(One(o), b.sv) \in Nat /\ Total(One(o), b.old) \in Nat /\ Total(One(o), b.new) \in Nat
    BY <2>1, LearnedIn
  <2> QED BY <1>3, <2>2, <2>3, <2>4
<1> QED BY <1>4, <1>5, <1>6

\* The rows a call asks for are the bag the set asks for.
LEMMA AskedBag ==
  ASSUME Distinct, NEW b \in Blocks, NEW e \in Examples \cup {None}, NEW flags, NEW how,
         0 \in DOMAIN db.data, kept = BagOf(Rows(b)), last' = [did |-> Did(e, flags), how |-> how]
  PROVE  /\ AskedRows(b, e, flags) \in Seq(Examples)
         /\ BagOf(AskedRows(b, e, flags)) = Set!Asked
         /\ Adds(e, flags) => \A o \in Examples : Total(One(o), Rows(b)) <= Total(One(o), AskedRows(b, e, flags))
<1>1. PICK op : /\ Did(e, flags) = [op |-> op, e |-> e]
                /\ \/ Adds(e, flags) /\ ~ Erases(e, flags) /\ op = "add"
                   \/ ~ Adds(e, flags) /\ Erases(e, flags) /\ op = "erase"
                   \/ ~ Adds(e, flags) /\ ~ Erases(e, flags) /\ op = "relearn"
  BY DidOp
<1>2. last' = [did |-> [op |-> op, e |-> e], how |-> how]
  BY <1>1
<1> DEFINE x == Rows(b)
<1>3. x \in Seq(Examples) /\ \A o : One(o) \in [Examples -> Nat]
  BY Weights, RowCountIs
<1> HIDE DEF x
<1>4. CASE Adds(e, flags) /\ ~ Erases(e, flags) /\ op = "add"
  <2> DEFINE more == Append(x, e)
  <2>1. e \in Examples /\ AskedRows(b, e, flags) = more
    BY <1>4 DEF AskedRows, Adds, x
  <2>2. more \in Seq(Examples) /\ \A o \in Examples : Total(One(o), more) = Total(One(o), x) + One(o)[e]
    <3>1. more \in Seq(Examples)
      BY <1>3, <2>1, AppendProperties
    <3>2. ASSUME NEW o \in Examples PROVE Total(One(o), more) = Total(One(o), x) + One(o)[e]
      <4>1. One(o) \in [Examples -> Nat]
        BY <1>3
      <4> QED BY <1>3, <2>1, <4>1, TotalAppend
    <3> QED BY <3>1, <3>2
  <2> HIDE DEF more
  <2>3. BagOf(more) = BagOf(x) (+) SetToBag({e})
    BY <1>3, <2>1, <2>2, BagOfMore
  <2>4. Set!Asked = kept (+) SetToBag({e})
    BY <1>2, <1>4, AskedOf
  <2>5. ASSUME NEW o \in Examples PROVE Total(One(o), x) <= Total(One(o), more)
    <3>1. Total(One(o), x) \in Nat /\ One(o)[e] \in Nat
      BY <1>3, <2>1, TotalInNat
    <3> QED BY <2>2, <3>1
  <2> QED BY <2>1, <2>2, <2>3, <2>4, <2>5 DEF x
<1>5. CASE ~ Adds(e, flags) /\ Erases(e, flags) /\ op = "erase"
  <2> DEFINE left == ErasedRows(b, e)
  <2>1. e \in Examples /\ AskedRows(b, e, flags) = left
    BY <1>5 DEF AskedRows, LeftRows, Erases
  <2>2. /\ left \in Seq(Examples)
        /\ \A o \in Examples : Total(One(o), left) = IF o = e THEN 0 ELSE Total(One(o), x)
    BY <2>1, ErasedTotals DEF x
  <2> HIDE DEF left
  <2>3. BagOf(left) = Without(BagOf(x), e)
    BY <1>3, <2>1, <2>2, BagWithout
  <2>4. Set!Asked = [z \in DOMAIN kept \ {e} |-> kept[z]]
    BY <1>2, <1>5, AskedOf
  <2>5. Without(kept, e) = [z \in DOMAIN kept \ {e} |-> kept[z]]
    BY DEF Without
  <2> QED BY <1>5, <2>1, <2>2, <2>3, <2>4, <2>5 DEF x
<1>6. CASE ~ Adds(e, flags) /\ ~ Erases(e, flags) /\ op = "relearn"
  <2>1. AskedRows(b, e, flags) = x
    BY <1>6 DEF AskedRows, LeftRows, x
  <2>2. Set!Asked = kept
    BY <1>2, <1>6, AskedOf
  <2> QED BY <1>3, <1>6, <2>1, <2>2 DEF x
<1> QED BY <1>1, <1>4, <1>5, <1>6

LEMMA SetBags ==
  /\ Set!EmptyBag = EmptyBag
  /\ \A s, t : Set!\sqsubseteq(s, t) <=> s \sqsubseteq t
<1>1. Set!EmptyBag = EmptyBag
  BY DEF EmptyBag, SetToBag, Set!EmptyBag, Set!SetToBag
<1>2. ASSUME NEW s, NEW t PROVE Set!\sqsubseteq(s, t) <=> s \sqsubseteq t
  BY DEF Set!\sqsubseteq, \sqsubseteq
<1> QED BY <1>1, <1>2

\* However a call ends, the set may end so too.
LEMMA LearnRefines ==
  ASSUME Distinct, NEW b \in Blocks, IsRead(db, b), kept = BagOf(Rows(b)),
         NEW e \in Examples \cup {None}, NEW flags, LearnStep(b, e, flags)
  PROVE  Set!Next
<1>1. PICK left \in Blocks : \E how :
        Ends(left, Did(e, flags), how) /\ Leaves(b, Rows(left), how, e, flags) /\ Good(left, above')
  BY DEF LearnStep
<1>2. PICK how :
        Ends(left, Did(e, flags), how) /\ Leaves(b, Rows(left), how, e, flags) /\ Good(left, above')
  BY <1>1
<1> DEFINE asked == AskedRows(b, e, flags)
           x == Rows(left)
           y == Rows(b)
<1>3. /\ Dbs(db') /\ FileIs(db', left) /\ kept' = BagOf(x)
      /\ last' = [did |-> Did(e, flags), how |-> how]
  BY <1>2 DEF Ends
<1>4. 0 \in DOMAIN db.data /\ kept = BagOf(y)
  BY DEF IsRead
<1>5. 0 \in DOMAIN db'.data
  <2>1. Whole(left)
    BY <1>2 DEF Good
  <2>2. IsRead(db', left)
    BY <1>3, <2>1, ReadBack
  <2> QED BY <2>2 DEF IsRead
<1>6. (0 \in DOMAIN db.data)' <=> 0 \in DOMAIN db.data
  BY <1>4, <1>5
<1>7. /\ asked \in Seq(Examples) /\ BagOf(asked) = Set!Asked
      /\ Adds(e, flags) => \A o \in Examples : Total(One(o), y) <= Total(One(o), asked)
  BY <1>3, <1>4, AskedBag
<1>8. last'.how = how
  BY <1>3
<1>9. x \in Seq(Examples) /\ y \in Seq(Examples)
  BY RowCountIs
<1>10. \/ how = "ok" /\ SameRows(x, asked)
       \/ how = "denied" /\ (SameRows(x, y) \/ SameRows(x, asked))
       \/ how = "groomed" /\ (FewerRows(x, asked) \/ (Adds(e, flags) /\ FewerRows(x, y)))
       \/ Lost(how) /\ x = << >>
  BY <1>2 DEF Leaves
<1> HIDE DEF asked, x, y
<1>11. ASSUME NEW z \in Seq(Examples), SameRows(x, z) PROVE BagOf(x) = BagOf(z)
  <2>1. \A o \in Examples : Total(One(o), x) = Total(One(o), z)
    BY <1>11, Weights DEF SameRows
  <2> QED BY <1>9, <2>1, SameBag
<1>12. CASE how = "ok" /\ SameRows(x, asked)
  <2>1. kept' = Set!Asked
    BY <1>3, <1>7, <1>11, <1>12
  <2>2. Set!Done
    BY <1>8, <1>12, <2>1 DEF Set!Done
  <2> QED BY <1>6, <2>2 DEF Set!Next
<1>13. CASE how = "denied" /\ (SameRows(x, y) \/ SameRows(x, asked))
  <2>1. kept' \in {kept, Set!Asked}
    BY <1>3, <1>4, <1>7, <1>9, <1>11, <1>13
  <2>2. Set!Denied
    BY <1>8, <1>13, <2>1 DEF Set!Denied
  <2> QED BY <1>6, <2>2 DEF Set!Next
<1>14. CASE how = "groomed" /\ (FewerRows(x, asked) \/ (Adds(e, flags) /\ FewerRows(x, y)))
  <2>1. ASSUME NEW o \in Examples PROVE Total(One(o), x) <= Total(One(o), asked)
    <3>1. One(o) \in [Examples -> Nat]
      BY Weights
    <3>2. Total(One(o), x) \in Nat /\ Total(One(o), asked) \in Nat /\ Total(One(o), y) \in Nat
      BY <1>7, <1>9, <3>1, TotalInNat
    <3>3. CASE FewerRows(x, asked)
      BY <3>1, <3>3 DEF FewerRows
    <3>4. CASE Adds(e, flags) /\ FewerRows(x, y)
      <4>1. Total(One(o), x) <= Total(One(o), y)
        BY <3>1, <3>4 DEF FewerRows
      <4>2. Total(One(o), y) <= Total(One(o), asked)
        BY <1>7, <3>4
      <4> QED BY <3>2, <4>1, <4>2
    <3> QED BY <1>14, <3>3, <3>4
  <2>2. BagOf(x) \sqsubseteq BagOf(asked)
    BY <1>7, <1>9, <2>1, BagOfLess
  <2>3. Set!\sqsubseteq(kept', Set!Asked)
    BY <1>3, <1>7, <2>2, SetBags
  <2>4. Set!Groomed
    BY <1>8, <1>14, <2>3 DEF Set!Groomed
  <2> QED BY <1>6, <2>4 DEF Set!Next
<1>15. CASE Lost(how) /\ x = << >>
  <2>1. kept' = Set!EmptyBag
    BY <1>3, <1>15, BagOfNone, SetBags
  <2>2. Lost(last'.how)
    BY <1>8, <1>15
  <2>3. Set!GaveUp
    BY <2>1, <2>2, Zenon DEF Lost, Set!GaveUp
  <2> QED BY <1>6, <2>3 DEF Set!Next
<1> QED BY <1>10, <1>12, <1>13, <1>14, <1>15

LEMMA TextRefines ==
  ASSUME NEW b \in Blocks, IsRead(db, b), kept = BagOf(Rows(b)), TextStep(b)
  PROVE  Set!Next
<1>1. PICK left \in Blocks :
        /\ Ends(left, [op |-> "text", e |-> None], "ok") /\ Rows(left) = Rows(b) /\ Good(left, above')
  BY DEF TextStep
<1>2. /\ Dbs(db') /\ FileIs(db', left) /\ kept' = BagOf(Rows(left))
      /\ last' = [did |-> [op |-> "text", e |-> None], how |-> "ok"]
  BY <1>1 DEF Ends
<1>3. 0 \in DOMAIN db.data
  BY DEF IsRead
<1>4. 0 \in DOMAIN db'.data
  <2>1. Whole(left)
    BY <1>1 DEF Good
  <2>2. IsRead(db', left)
    BY <1>2, <2>1, ReadBack
  <2> QED BY <2>2 DEF IsRead
<1>5. (0 \in DOMAIN db.data)' <=> 0 \in DOMAIN db.data
  BY <1>3, <1>4
<1>6. Set!Asked = kept
  BY <1>2, AskedOf
<1>7. last'.how = "ok" /\ kept' = kept
  BY <1>1, <1>2
<1>8. Set!Done
  BY <1>6, <1>7 DEF Set!Done
<1> QED BY <1>5, <1>8 DEF Set!Next

\* Without a file there is nothing to erase, and nothing is added.
LEMMA NoFileRefines ==
  ASSUME SvmInv, NoFile(db), NEW e, NEW flags, NoFileStep(e, flags)
  PROVE  Set!Next
<1>1. /\ db' = db /\ kept' = kept /\ last' = [did |-> Did(e, flags), how |-> "ok"]
  BY DEF NoFileStep, SvmInv
<1>2. 0 \notin DOMAIN db.data /\ kept = EmptyBag
  BY NothingThere, BagOfNone DEF SvmInv
<1>3. (0 \in DOMAIN db.data)' <=> 0 \in DOMAIN db.data
  BY <1>1
<1>4. PICK op : Did(e, flags) = [op |-> op, e |-> e] /\ op \in {"add", "erase", "relearn"}
  BY DidOp
<1>5. last' = [did |-> [op |-> op, e |-> e], how |-> "ok"]
  BY <1>1, <1>4
<1>6. [z \in DOMAIN kept \ {e} |-> kept[z]] = kept
  BY <1>2 DEF EmptyBag, SetToBag
<1>7. Set!Asked = kept
  <2>1. /\ op = "add" => Set!Asked = kept
        /\ op = "erase" => Set!Asked = [z \in DOMAIN kept \ {e} |-> kept[z]]
        /\ op \in {"relearn", "text"} => Set!Asked = kept
    BY <1>2, <1>5, AskedOf
  <2> QED BY <1>4, <1>6, <2>1
<1>8. last'.how = "ok"
  BY <1>5
<1>9. Set!Done
  BY <1>1, <1>7, <1>8 DEF Set!Done
<1> QED BY <1>3, <1>9 DEF Set!Next

LEMMA InitRefines ==
  ASSUME Init
  PROVE  Set!Init
<1>1. SvmInv
  BY SvmInit
<1>2. PICK alloc \in Allocs : db = NewDatabase(alloc)
  BY DEF Init
<1>3. alloc \in Nat
  BY SvmStoreAssumption
<1> DEFINE b == WithMap(svm_block_init, MapFor(svm_block_init))
<1>4. Dbs(db) /\ (NoFile(db) \/ FileIs(db, b))
  BY <1>2, <1>3, NewDatabaseIs
<1>5. b \in Blocks /\ Rows(b) = << >> /\ Whole(b)
  <2>1. Good(svm_block_init, above)
    BY InitBlock, NothingGood
  <2> QED BY <2>1, InitBlock, MappedIs DEF Good
<1> HIDE DEF b
<1>6. Kept(db) = << >>
  <2>1. FileIs(db, b) => IsRead(db, b)
    BY <1>4, <1>5, ReadBack
  <2> QED BY <1>4, <1>5, <2>1, NothingThere DEF IsRead
<1>7. kept = EmptyBag
  BY <1>6, BagOfNone DEF Init
<1>8. last.did.op = "new"
  BY DEF Init
<1> QED BY <1>7, <1>8, SetBags DEF Set!Init

(* Where two examples are only taken for the same if they are, the file     *)
(* keeps what was learned and not erased, through appends, learning with    *)
(* the examples moved from one matrix to another, grooming, denied memory,  *)
(* a solver that gives up, and the written form.                            *)
THEOREM SvmImplementsSet ==
  ASSUME ThetaFits, Careful, Distinct
  PROVE  Spec => ImplementsSet
<1>1. Init => Set!Init
  BY InitRefines
<1>2. SvmInv /\ [Next]_vars => [Set!Next]_<<0 \in DOMAIN db.data, kept, last>>
  <2> SUFFICES ASSUME SvmInv, [Next]_vars
               PROVE  [Set!Next]_<<0 \in DOMAIN db.data, kept, last>>
    OBVIOUS
  <2>1. CASE UNCHANGED vars
    BY <2>1 DEF vars
  <2>2. CASE Next
    <3>1. CASE NoFile(db) /\ \E e \in Examples \cup {None}, flags \in FlagSets : NoFileStep(e, flags)
      BY <3>1, NoFileRefines
    <3>2. ASSUME NEW b \in Blocks, FileIs(db, b), Good(b, above),
                 \/ \E e \in Examples \cup {None}, flags \in FlagSets : LearnStep(b, e, flags)
                 \/ TextStep(b)
          PROVE  Set!Next
      <4>1. Whole(b)
        BY <3>2 DEF Good
      <4>2. IsRead(db, b)
        BY <3>2, <4>1, ReadBack DEF SvmInv
      <4>3. kept = BagOf(Rows(b))
        BY <4>2 DEF IsRead, SvmInv
      <4> QED BY <3>2, <4>2, <4>3, LearnRefines, TextRefines
    <3> QED BY <2>2, <3>1, <3>2, StepIs
  <2> QED BY <2>1, <2>2
<1> QED BY <1>1, <1>2, SvmHolds, PTL DEF Spec, ImplementsSet, Set!Spec
=============================================================================
