--------------------------- MODULE PcaStoreProofs ---------------------------
(***************************************************************************)
(* Theorems about PcaStore.  A file that has a header holds a block: its   *)
(* things lie one after the other and the block reads back from them.  So  *)
(* every step is one from block to block, whatever was in the memory the   *)
(* file is written to.                                                     *)
(***************************************************************************)
EXTENDS PcaStore, DataStreamProofs

Blocks == [theta : Thetas, x : Seq(Examples), has_new : BOOLEAN, counts : AllCounts]

Number == [kind |-> "number", size |-> 1]

\* What a file that ends at end holds of a block.
FileThings(b, end) == <<HeaderOf(b, end)>> \o ThetaThings(b.theta) \o <<Number>> \o RowThings(b.x)

IsFile(T, b, end) ==
  /\ IsThings(T) /\ Len(T) = 5 + Len(b.x) /\ Len(b.x) \in Nat
  /\ T[1] = HeaderOf(b, end) /\ T[1].size = 1 /\ T[1].kind = "header"
  /\ T[2] = b.theta /\ T[2].kind # "row"
  /\ \E free \in Nat \ {0} : /\ T[3] = [kind |-> "fill", size |-> 1, free |-> free]
                             /\ T[4] = [kind |-> "zeroes", size |-> free]
                             /\ b.theta.size + free = ThetaRoom(b.theta)
  /\ T[5] = Number
  /\ \A i \in 1 .. Len(b.x) : T[5 + i] = RowThing(b.x[i]) /\ b.x[i] \in Examples

LEMMA FileThingsAre ==
  ASSUME NEW b \in Blocks, NEW end
  PROVE  IsFile(FileThings(b, end), b, end)
<1> DEFINE T == FileThings(b, end)
           n == Len(b.x)
<1>1. b.theta \in Thetas /\ b.x \in Seq(Examples) /\ n \in Nat
  BY LenProperties DEF Blocks
<1>2. PICK free \in Nat \ {0} :
           /\ ThetaThings(b.theta) = <<b.theta, [kind |-> "fill", size |-> 1, free |-> free],
                                                [kind |-> "zeroes", size |-> free]>>
           /\ b.theta.size + free = ThetaRoom(b.theta) /\ b.theta.size \in Nat
  BY <1>1, ThetaThingsAre
<1> DEFINE H == HeaderOf(b, end)
           F == [kind |-> "fill", size |-> 1, free |-> free]
           Z == [kind |-> "zeroes", size |-> free]
           X == {H, b.theta, F, Z, Number} \cup {RowThing(e) : e \in Examples}
           s1 == <<H>>
           s2 == <<b.theta, F, Z>>
           s3 == <<Number>>
           s4 == RowThings(b.x)
<1>3. \A x \in X : x.size \in Nat
  <2>1. H.size = 1 /\ F.size = 1 /\ Z.size = free /\ Number.size = 1
    BY DEF HeaderOf, Number
  <2>2. \A e \in Examples : RowThing(e).size \in Nat
    BY RowThingIs
  <2> QED BY <1>2, <2>1, <2>2
<1>4. /\ s1 \in Seq(X) /\ Len(s1) = 1 /\ s1[1] = H
      /\ s2 \in Seq(X) /\ Len(s2) = 3 /\ s2[1] = b.theta /\ s2[2] = F /\ s2[3] = Z
      /\ s3 \in Seq(X) /\ Len(s3) = 1 /\ s3[1] = Number
  <2>1. H \in X /\ b.theta \in X /\ F \in X /\ Z \in X /\ Number \in X
    OBVIOUS
  <2> HIDE DEF X, H, F, Z
  <2> QED BY <2>1
<1>5. /\ s4 \in Seq(X) /\ Len(s4) = n
      /\ \A i \in 1 .. n : s4[i] = RowThing(b.x[i]) /\ b.x[i] \in Examples
  <2>1. \A e \in Examples : RowThing(e) \in X
    OBVIOUS
  <2> HIDE DEF X
  <2> QED BY <1>1, <2>1, RowThingsAre
<1>6. T = ((s1 \o s2) \o s3) \o s4
  BY <1>2 DEF FileThings
<1> HIDE DEF X, H, F, Z, s1, s2, s3, s4, T
<1>7. s1 \o s2 \in Seq(X) /\ Len(s1 \o s2) = 4 /\ (s1 \o s2)[1] = H
      /\ (s1 \o s2)[2] = b.theta /\ (s1 \o s2)[3] = F /\ (s1 \o s2)[4] = Z
  <2>1. /\ s1 \o s2 \in Seq(X) /\ Len(s1 \o s2) = 1 + 3
        /\ \A i \in 1 .. 1 + 3 : (s1 \o s2)[i] = IF i <= 1 THEN s1[i] ELSE s2[i - 1]
    BY <1>4, ConcatProperties
  <2> QED BY <1>4, <2>1
<1> DEFINE u == s1 \o s2
<1>8. u \in Seq(X) /\ Len(u) = 4 /\ u[1] = H /\ u[2] = b.theta /\ u[3] = F /\ u[4] = Z
  BY <1>7
<1> HIDE DEF u
<1> DEFINE v == u \o s3
<1>9. v \in Seq(X) /\ Len(v) = 5 /\ v[1] = H /\ v[2] = b.theta /\ v[3] = F /\ v[4] = Z /\ v[5] = Number
  <2>1. /\ v \in Seq(X) /\ Len(v) = Len(u) + Len(s3)
        /\ \A i \in 1 .. Len(u) + Len(s3) : v[i] = IF i <= Len(u) THEN u[i] ELSE s3[i - Len(u)]
    BY <1>4, <1>8, ConcatProperties
  <2> HIDE DEF v
  <2>2. \A i \in 1 .. 5 : v[i] = IF i <= 4 THEN u[i] ELSE s3[i - 4]
    BY <1>4, <1>8, <2>1
  <2> QED BY <1>4, <1>8, <2>1, <2>2
<1> HIDE DEF v
<1>10. /\ T \in Seq(X) /\ Len(T) = 5 + n
       /\ T[1] = H /\ T[2] = b.theta /\ T[3] = F /\ T[4] = Z /\ T[5] = Number
       /\ \A i \in 1 .. n : T[5 + i] = s4[i]
  <2>1. T = v \o s4
    BY <1>6 DEF u, v
  <2>2. /\ T \in Seq(X) /\ Len(T) = Len(v) + Len(s4)
        /\ \A i \in 1 .. Len(v) + Len(s4) : T[i] = IF i <= Len(v) THEN v[i] ELSE s4[i - Len(v)]
    BY <1>5, <1>9, <2>1, ConcatProperties
  <2>3. \A i \in 1 .. n : 5 + i \in 1 .. 5 + n /\ ~ (5 + i <= 5) /\ (5 + i) - 5 = i
    BY <1>1
  <2>4. \A i \in 1 .. 5 : i \in 1 .. 5 + n /\ i <= 5
    BY <1>1
  <2>5. \A i \in 1 .. 5 + n : T[i] = IF i <= 5 THEN v[i] ELSE s4[i - 5]
    BY <1>5, <1>9, <2>2
  <2>6. \A i \in 1 .. n : T[5 + i] = s4[i]
    BY <2>3, <2>5
  <2>7. \A i \in 1 .. 5 : T[i] = v[i]
    BY <2>4, <2>5
  <2> QED BY <1>5, <1>9, <2>2, <2>6, <2>7
<1>11. IsThings(T)
  <2>1. Len(T) \in Nat /\ DOMAIN T = 1 .. Len(T) /\ \A i \in 1 .. Len(T) : T[i] \in X
    BY <1>10, LenProperties, ElementOfSeq
  <2> QED BY <1>3, <2>1 DEF IsThings
<1>12. H.size = 1 /\ H.kind = "header"
  BY DEF H, HeaderOf
<1>13. b.theta.kind # "row"
  BY <1>1 DEF Thetas, None
<1>14. \A i \in 1 .. n : T[5 + i] = RowThing(b.x[i]) /\ b.x[i] \in Examples
  BY <1>5, <1>10
<1> QED BY <1>1, <1>2, <1>10, <1>11, <1>12, <1>13, <1>14 DEF T, H, F, Z, IsFile

-----------------------------------------------------------------------------
(* The file of a block.                                                    *)

LEMMA FileEnd ==
  ASSUME NEW b \in Blocks, NEW end, NEW T, T = FileThings(b, end), NEW off, IsLaid(off, T)
  PROVE  /\ off[Len(T)] \in Nat /\ off[1] = 1 /\ off[5] \in Nat /\ off[5] <= off[Len(T)]
         /\ off[5] = 3 + ThetaRoom(b.theta) /\ ThetaRoom(b.theta) \in Nat
         /\ off[Len(T)] = off[5] + Total(SizeOf, b.x)
         /\ off[Len(T)] <= block_size(b)
         /\ b.x # << >> => off[5] < off[Len(T)]
<1>1. /\ IsThings(T) /\ Len(T) = 5 + Len(b.x) /\ Len(b.x) \in Nat
      /\ T[1].size = 1 /\ T[2] = b.theta
      /\ \A i \in 1 .. Len(b.x) : T[5 + i] = RowThing(b.x[i]) /\ b.x[i] \in Examples
  BY FileThingsAre DEF IsFile
<1>2. PICK free \in Nat \ {0} : /\ T[3] = [kind |-> "fill", size |-> 1, free |-> free]
                                /\ T[4] = [kind |-> "zeroes", size |-> free]
                                /\ b.theta.size + free = ThetaRoom(b.theta)
  BY FileThingsAre DEF IsFile
<1>3. T[5].size = 1
  BY FileThingsAre DEF IsFile, Number
<1>4. T[3].size = 1 /\ T[4].size = free
  BY <1>2
<1>5. \A k \in 1 .. 5 : off[k] = off[k - 1] + T[k].size /\ T[k].size \in Nat /\ off[k - 1] \in Nat
  <2>1. \A k \in 1 .. 5 : k \in 1 .. Len(T)
    BY <1>1
  <2> QED BY <1>1, <2>1, LaidIs
<1>6. off[0] = 0 /\ off[1] = off[0] + 1 /\ off[2] = off[1] + b.theta.size /\ off[3] = off[2] + 1
      /\ off[4] = off[3] + free /\ off[5] = off[4] + 1 /\ b.theta.size \in Nat
  <2>1. off[0] = 0
    BY DEF IsLaid
  <2>2. off[1] = off[1 - 1] + T[1].size /\ off[2] = off[2 - 1] + T[2].size /\ off[3] = off[3 - 1] + T[3].size
        /\ off[4] = off[4 - 1] + T[4].size /\ off[5] = off[5 - 1] + T[5].size /\ T[2].size \in Nat
    BY <1>5
  <2> QED BY <1>1, <1>3, <1>4, <2>1, <2>2
<1>7. off[5] = 3 + ThetaRoom(b.theta) /\ ThetaRoom(b.theta) \in Nat
  BY <1>2, <1>6
<1>8. b.x \in Seq(Examples)
  BY DEF Blocks
<1>9. off[5 + Len(b.x)] = off[5] + Total(SizeOf, b.x)
  <2> DEFINE m == 5
  <2>1. m \in 0 .. Len(T) /\ m + Len(b.x) <= Len(T) /\ \A i \in 1 .. Len(b.x) : T[m + i] = RowThing(b.x[i])
    BY <1>1
  <2> HIDE DEF m
  <2> QED BY <1>1, <1>8, <2>1, RowsLaid DEF m
<1>10. Total(SizeOf, b.x) \in Nat
  BY <1>8, TotalInNat, Weights
<1>11. off[Len(T)] <= block_size(b)
  <2>1. RowsSize(b.x) = Total(SizeOf, b.x)
    BY <1>8, RowsSizeIs
  <2>2. (IF b.theta = None THEN DefaultSize ELSE RoomAbove(b.theta.size)) = ThetaRoom(b.theta)
    BY DEF ThetaRoom
  <2>3. block_size(b) = WithHole(1 + (1 + ThetaRoom(b.theta)) + 1 + Total(SizeOf, b.x))
    BY <2>1, <2>2 DEF block_size
  <2> DEFINE m == 1 + (1 + ThetaRoom(b.theta)) + 1 + Total(SizeOf, b.x)
  <2>4. m \in Nat /\ off[Len(T)] = m
    BY <1>1, <1>7, <1>9, <1>10
  <2> HIDE DEF m
  <2>5. WithHole(m) >= m
    BY <2>4 DEF WithHole
  <2> QED BY <2>3, <2>4, <2>5 DEF m
<1>12. b.x # << >> => off[5] < off[Len(T)]
  <2> SUFFICES ASSUME b.x # << >> PROVE off[5] < off[Len(T)]
    OBVIOUS
  <2> DEFINE k == 6
  <2>1. Len(b.x) # 0
    BY <1>8, EmptySeq
  <2>2. k \in 1 .. Len(T) /\ k \in 0 .. Len(T) /\ Len(T) \in 0 .. Len(T) /\ 1 \in 1 .. Len(b.x) /\ k \in 0 .. Len(T)
    BY <1>1, <2>1
  <2>3. T[5 + 1] = RowThing(b.x[1]) /\ b.x[1] \in Examples
    BY <1>1, <2>2
  <2>4. T[k].size > 0
    BY <2>3, RowThingIs
  <2>5. off[k] = off[k - 1] + T[k].size /\ T[k].size \in Nat /\ off[k - 1] \in Nat
        /\ off[k] <= off[Len(T)] /\ off[Len(T)] \in Nat
    <3> HIDE DEF k
    <3> QED BY <1>1, <2>2, LaidIs
  <2> QED BY <2>4, <2>5
<1> QED BY <1>1, <1>6, <1>7, <1>9, <1>10, <1>11, <1>12

\* The file holds the block.
FileIs(d, b) ==
  \E off, T : /\ T = FileThings(b, off[Len(T)]) /\ IsLaid(off, T)
              /\ Holds(d.data, off, T) /\ off[Len(T)] <= d.alloc

Dbs(d) == d = [alloc |-> d.alloc, data |-> d.data, cb |-> d.cb] /\ d.alloc \in Nat /\ IsData(d.data)

LEMMA WrittenIs ==
  ASSUME NEW b \in Blocks, NEW d, Dbs(d), block_size(b) <= d.alloc
  PROVE  /\ Dbs(Written(b, d)) /\ FileIs(Written(b, d), b)
         /\ Written(b, d).alloc = d.alloc /\ Written(b, d).cb = d.cb
<1> DEFINE T == FileThings(b, 0)
           n == Len(T)
<1>1. IsThings(T) /\ T[1].size = 1 /\ 1 \in 1 .. n /\ n = 5 + Len(b.x) /\ Len(b.x) \in Nat /\ T = Things(b)
  <2>1. IsThings(T) /\ T[1].size = 1 /\ n = 5 + Len(b.x) /\ Len(b.x) \in Nat
    BY FileThingsAre DEF IsFile
  <2>2. T = Things(b)
    BY DEF FileThings, Things, Number
  <2> HIDE DEF T
  <2> QED BY <2>1, <2>2
<1>2. PICK off : IsLaid(off, T)
  <2> HIDE DEF T
  <2> QED BY <1>1, LaidExists
<1> DEFINE end == off[n]
<1>3. end \in Nat /\ end <= block_size(b) /\ block_size(b) <= d.alloc /\ end <= d.alloc /\ end >= 3 /\ off[0] = 0
  <2>1. /\ off[n] \in Nat /\ off[5] \in Nat /\ off[5] <= off[n]
        /\ off[5] = 3 + ThetaRoom(b.theta) /\ ThetaRoom(b.theta) \in Nat
        /\ off[n] <= block_size(b)
    <3> HIDE DEF T
    <3> QED BY <1>2, FileEnd DEF T
  <2>2. off[0] = 0
    BY <1>2 DEF IsLaid
  <2>3. d.alloc \in Nat
    BY DEF Dbs
  <2>4. ThetaRoom(b.theta) >= 0
    BY <2>1
  <2>5. block_size(b) \in Int
    <3>1. b.x \in Seq(Examples) /\ Total(SizeOf, b.x) \in Nat /\ RowsSize(b.x) = Total(SizeOf, b.x)
      BY RowsSizeIs, TotalInNat, Weights DEF Blocks
    <3>2. (IF b.theta = None THEN DefaultSize ELSE RoomAbove(b.theta.size)) = ThetaRoom(b.theta)
      BY DEF ThetaRoom
    <3> QED BY <2>1, <3>1, <3>2 DEF block_size, WithHole
  <2> HIDE DEF T, n
  <2> QED BY <2>1, <2>2, <2>3, <2>4, <2>5
<1> DEFINE a == d.alloc
           H == HeaderOf(b, end)
           U == [T EXCEPT ![1] = H]
<1>4. dbopen(d) = At(d.data, a, 0) /\ a \in Nat /\ IsData(d.data)
  BY DEF dbopen, At, Dbs
<1> HIDE DEF T
<1>5. PICK o : /\ WriteAll(At(d.data, a, 0), T).ds = At(o, a, end)
               /\ IsData(o) /\ Below(o, off, n, T)
  BY <1>1, <1>2, <1>3, <1>4, WriteAllIs
<1> DEFINE o2 == Over(o, 0, 1, H)
<1>6. dbwrite(dbseek(At(o, a, end), 0), H).data = o2
  <2>1. dbseek(At(o, a, end), 0) = At(o, a, 0)
    <3>1. 0 \in 0 .. a
      BY <1>4
    <3> HIDE DEF end, a
    <3> QED BY <1>4, <3>1, SeekIs
  <2>2. H.size = 1
    BY DEF HeaderOf
  <2>3. At(o, a, 0).position = 0 /\ At(o, a, 0).size = a /\ At(o, a, 0).data = o
    BY DEF At
  <2>4. Fits(At(o, a, 0), 1)
    BY <1>3, <1>4, <2>3 DEF Fits
  <2>5. Past(At(o, a, 0), 1) = At(o, a, 1)
    <3>1. 0 + 1 <= a /\ 0 + 1 = 1
      BY <1>3, <1>4
    <3>2. Past(At(o, a, 0), 1) = At(o, a, 0 + 1)
      <4> HIDE DEF a
      <4> QED BY <1>4, <3>1, PastIs
    <3> QED BY <3>1, <3>2
  <2>6. dbwrite(At(o, a, 0), H) = [At(o, a, 1) EXCEPT !.data = Over(@, 0, 1, H)]
    <3> HIDE DEF a, H
    <3> QED BY <2>2, <2>3, <2>4, <2>5 DEF dbwrite
  <2>7. At(o, a, 1).data = o
    BY DEF At
  <2>8. [At(o, a, 1) EXCEPT !.data = Over(@, 0, 1, H)] = At(o2, a, 1)
    <3> HIDE DEF a, H, o2
    <3>1. [At(o, a, 1) EXCEPT !.data = o2] = At(o2, a, 1)
      BY AtOther
    <3> QED BY <2>7, <3>1 DEF o2
  <2>9. At(o2, a, 1).data = o2
    BY DEF At
  <2> HIDE DEF a, H, o2, end
  <2> QED BY <2>1, <2>6, <2>8, <2>9
<1>7. IsThings(U) /\ Len(U) = n /\ IsLaid(off, U) /\ IsData(o2) /\ Below(o2, off, n, U)
  <2>1. H.size = T[1].size /\ H.size > 0 /\ H.size = 1
    BY <1>1 DEF HeaderOf
  <2>2. 1 - 1 = 0 /\ off[1 - 1] = 0
    BY <1>3
  <2> DEFINE i == 1
             q == Over(o, off[i - 1], H.size, H)
             V == [T EXCEPT ![i] = H]
  <2>3. IsThings(V) /\ Len(V) = Len(T) /\ IsLaid(off, V) /\ IsData(q) /\ Below(q, off, Len(V), V)
    <3>1. i \in 1 .. Len(T) /\ H.size = T[i].size /\ H.size > 0
      BY <1>1, <2>1
    <3> HIDE DEF i, H, end
    <3> QED BY <1>1, <1>2, <1>5, <3>1, OneChanged
  <2>4. q = o2 /\ V = U
    BY <2>1, <2>2
  <2> HIDE DEF q, V, U, o2
  <2> QED BY <2>3, <2>4
<1>8. Holds(UpTo(o2, end), off, U)
  <2> HIDE DEF o2, U
  <2> QED BY <1>7, UpToIs
<1>9. U = FileThings(b, end)
  <2> DEFINE V == FileThings(b, end)
  <2>1. /\ IsThings(V) /\ Len(V) = n /\ V[1] = H
        /\ \A i \in 2 .. n : V[i] = T[i]
    <3>1. /\ IsThings(V) /\ Len(V) = 5 + Len(b.x)
          /\ V[1] = HeaderOf(b, end) /\ V[2] = b.theta /\ V[5] = Number
          /\ \A i \in 1 .. Len(b.x) : V[5 + i] = RowThing(b.x[i])
      BY FileThingsAre DEF IsFile
    <3>2. /\ IsThings(T) /\ Len(T) = 5 + Len(b.x)
          /\ T[2] = b.theta /\ T[5] = Number
          /\ \A i \in 1 .. Len(b.x) : T[5 + i] = RowThing(b.x[i])
      BY FileThingsAre DEF IsFile, T
    <3>3. V[3] = T[3] /\ V[4] = T[4]
      <4>1. b.theta \in Thetas
        BY DEF Blocks
      <4>2. PICK g \in Nat \ {0} : V[3] = [kind |-> "fill", size |-> 1, free |-> g]
                                   /\ V[4] = [kind |-> "zeroes", size |-> g]
                                   /\ b.theta.size + g = ThetaRoom(b.theta)
        BY FileThingsAre DEF IsFile
      <4>3. PICK h \in Nat \ {0} : T[3] = [kind |-> "fill", size |-> 1, free |-> h]
                                   /\ T[4] = [kind |-> "zeroes", size |-> h]
                                   /\ b.theta.size + h = ThetaRoom(b.theta)
        BY FileThingsAre DEF IsFile, T
      <4>4. b.theta.size \in Nat
        BY <4>1, ThetaThingsAre
      <4>5. g = h
        BY <4>2, <4>3, <4>4
      <4> QED BY <4>2, <4>3, <4>5
    <3>4. \A i \in 2 .. n : i \in {2, 3, 4, 5} \/ \E j \in 1 .. Len(b.x) : i = 5 + j
      <4> SUFFICES ASSUME NEW i \in 2 .. n, i > 5 PROVE \E j \in 1 .. Len(b.x) : i = 5 + j
        BY <1>1
      <4>1. i - 5 \in 1 .. Len(b.x) /\ i = 5 + (i - 5)
        BY <1>1
      <4> QED BY <4>1
    <3> HIDE DEF V
    <3> QED BY <1>1, <3>1, <3>2, <3>3, <3>4
  <2>2. /\ DOMAIN U = 1 .. n /\ U[1] = H /\ \A i \in 2 .. n : U[i] = T[i]
        /\ U = [i \in 1 .. n |-> U[i]]
    <3>1. DOMAIN T = 1 .. n
      BY <1>1 DEF IsThings
    <3>2. 1 \in 1 .. n /\ \A i \in 2 .. n : i \in 1 .. n /\ i # 1
      BY <1>1
    <3> HIDE DEF H, n
    <3> QED BY <3>1, <3>2
  <2>3. V = [i \in 1 .. n |-> V[i]]
    <3>1. b.x \in Seq(Examples) /\ b.theta \in Thetas
      BY DEF Blocks
    <3>2. DOMAIN V = 1 .. n
      BY <2>1 DEF IsThings
    <3> QED BY <3>1, <3>2 DEF FileThings
  <2>4. \A i \in 1 .. n : i = 1 \/ i \in 2 .. n
    BY <1>1
  <2>5. \A i \in 1 .. n : U[i] = V[i]
    <3> HIDE DEF U, V, H, n
    <3> QED BY <2>1, <2>2, <2>4
  <2> HIDE DEF U, V, H, n
  <2>6. [i \in 1 .. n |-> U[i]] = [i \in 1 .. n |-> V[i]]
    BY <2>5
  <2>7. U = V
    BY <2>2, <2>3, <2>6
  <2> QED BY <2>7 DEF V
<1>10. Written(b, d) = [d EXCEPT !.data = UpTo(o2, end)]
  <2>1. WriteAll(dbopen(d), Things(b)).ds = At(o, a, end)
    BY <1>1, <1>4, <1>5
  <2>2. At(o, a, end).position = end
    BY DEF At
  <2> HIDE DEF a, H, o2, end
  <2> QED BY <1>6, <2>1, <2>2 DEF Written, H
<1> DEFINE dd == UpTo(o2, end)
<1>11. Written(b, d) = [alloc |-> d.alloc, data |-> dd, cb |-> d.cb]
  <2> HIDE DEF dd
  <2> QED BY <1>10 DEF Dbs, dd
<1>12. IsData(dd)
  BY <1>8 DEF Holds
<1>13. FileIs(Written(b, d), b)
  <2>1. Written(b, d).data = dd /\ Written(b, d).alloc = d.alloc
    BY <1>11
  <2>2. Len(U) = n
    BY <1>7
  <2>3. U = FileThings(b, off[Len(U)]) /\ off[Len(U)] <= d.alloc
    BY <1>3, <1>9, <2>2
  <2> HIDE DEF dd, U, end
  <2> QED BY <1>7, <1>8, <2>1, <2>3 DEF FileIs, dd
<1> HIDE DEF dd
<1> QED BY <1>4, <1>11, <1>12, <1>13 DEF Dbs

\* A file that holds a block reads back as the block.
LEMMA ReadBack ==
  ASSUME NEW b \in Blocks, NEW d, Dbs(d), FileIs(d, b)
  PROVE  /\ 0 \in DOMAIN d.data /\ Header(d) # None
         /\ Header(d) = HeaderOf(b, Header(d).end) /\ Header(d).end \in Nat /\ Header(d).end <= d.alloc
         /\ Readable(d) <=> (b.theta # None \/ b.x # << >>)
         /\ pca_read_db(d) = b /\ Kept(d) = b.x
         /\ \A p \in DOMAIN d.data : p + d.data[p].size <= Header(d).end
         /\ Cardinality({p \in DOMAIN d.data : IsRow(d.data[p])}) = Len(b.x)
         /\ b.x = << >> => {p \in DOMAIN d.data : IsRow(d.data[p])} = {}
<1>1. PICK off, T : /\ T = FileThings(b, off[Len(T)]) /\ IsLaid(off, T)
                    /\ Holds(d.data, off, T) /\ off[Len(T)] <= d.alloc
  BY DEF FileIs
<1> DEFINE a == d.alloc
           D == d.data
           n == Len(T)
           end == off[n]
           c == Len(b.x)
<1>2. /\ IsThings(T) /\ n = 5 + c /\ c \in Nat
      /\ T[1] = HeaderOf(b, end) /\ T[1].size = 1 /\ T[1].kind = "header"
      /\ T[2] = b.theta /\ T[2].kind # "row" /\ T[5] = Number
      /\ \A i \in 1 .. c : T[5 + i] = RowThing(b.x[i]) /\ b.x[i] \in Examples
  BY <1>1, FileThingsAre DEF IsFile
<1>3. PICK free \in Nat \ {0} : /\ T[3] = [kind |-> "fill", size |-> 1, free |-> free]
                                /\ T[4] = [kind |-> "zeroes", size |-> free]
                                /\ b.theta.size + free = ThetaRoom(b.theta)
  BY <1>1, FileThingsAre DEF IsFile
<1>4. /\ end \in Nat /\ off[1] = 1 /\ off[5] \in Nat /\ off[5] <= end /\ off[5] = 3 + ThetaRoom(b.theta)
      /\ ThetaRoom(b.theta) \in Nat /\ end = off[5] + Total(SizeOf, b.x)
      /\ b.x # << >> => off[5] < end
  <2> HIDE DEF n
  <2> QED BY <1>1, FileEnd DEF n
<1>5. off[0] = 0 /\ end <= a /\ a \in Nat /\ IsData(D) /\ Below(D, off, n, T)
      /\ b.theta \in Thetas /\ b.x \in Seq(Examples) /\ b.has_new \in BOOLEAN /\ b.counts \in AllCounts
      /\ b = [theta |-> b.theta, x |-> b.x, has_new |-> b.has_new, counts |-> b.counts]
  BY <1>1 DEF IsLaid, Dbs, Holds, Blocks
<1>6. dbopen(d) = At(D, a, 0)
  BY DEF dbopen, At
<1> DEFINE H == HeaderOf(b, end)
<1>7. Here(At(D, a, 0)) = H
  <2> DEFINE i == 1
  <2>1. i \in 1 .. n /\ T[i].size > 0 /\ T[i] = H /\ off[i - 1] = off[0]
    BY <1>2
  <2>2. Here(At(D, a, off[i - 1])) = T[i]
    <3> HIDE DEF i, a, D, H
    <3> QED BY <1>1, <1>2, <1>5, <2>1, HereIs
  <2> QED BY <1>5, <2>1, <2>2
<1>8. H.kind = "header" /\ H # None /\ H.end = end /\ H.has_new = b.has_new
      /\ H.has_solution = (b.theta # None) /\ H.counts = b.counts
  BY DEF HeaderOf, None
<1>9. Header(d) = H
  <2> HIDE DEF H, a, D
  <2> QED BY <1>6, <1>7, <1>8 DEF Header, FileHeader
<1>10. dbseek(dbopen(d), 1) = At(D, a, 1)
  <2>1. 1 \in 0 .. a
    BY <1>4, <1>5
  <2> HIDE DEF a, D
  <2> QED BY <1>5, <1>6, <2>1, SeekIs
<1>11. b.theta # None => b.theta.size > 0 /\ b.theta.kind = "theta"
  BY <1>5 DEF Thetas
<1>12. ASSUME b.theta # None PROVE ThetaOf(d) = b.theta
  <2> DEFINE i == 2
  <2>1. i \in 1 .. n /\ T[i].size > 0 /\ T[i] = b.theta /\ off[i - 1] = 1
    BY <1>2, <1>4, <1>11, <1>12
  <2>2. Here(At(D, a, off[i - 1])) = T[i]
    <3> HIDE DEF i, a, D, H
    <3> QED BY <1>1, <1>2, <1>5, <2>1, HereIs
  <2> HIDE DEF i
  <2> QED BY <1>10, <2>1, <2>2 DEF ThetaOf
<1>13. FirstRow(d) = At(D, a, off[5])
  <2>1. (IF H.has_solution THEN ThetaOf(d) ELSE None) = b.theta
    BY <1>8, <1>12
  <2>2. AfterTheta(At(D, a, 1), b.theta) = At(D, a, off[4])
    <3> DEFINE i == 2
    <3>1. i \in 1 .. n /\ i + 2 <= n /\ b.theta = T[i] /\ off[i - 1] = 1
          /\ T[i + 1] = [kind |-> "fill", size |-> 1, free |-> free]
          /\ T[i + 2] = [kind |-> "zeroes", size |-> free]
      BY <1>2, <1>3, <1>4
    <3>2. AfterTheta(At(D, a, off[i - 1]), b.theta) = At(D, a, off[i + 2])
      <4> HIDE DEF i, a, D, H
      <4>1. i \in 1 .. Len(T) /\ i + 2 <= Len(T) /\ a \in Nat /\ off[Len(T)] <= a /\ Below(D, off, Len(T), T)
        BY <1>5, <3>1
      <4> HIDE DEF n
      <4>2. HasFree(T, i, free)
        BY <1>3, <3>1 DEF HasFree
      <4>3. IsThings(T) /\ IsLaid(off, T) /\ b.theta = T[i]
        BY <1>1, <1>2, <3>1
      <4> QED BY <4>1, <4>2, <4>3, AfterThetaIs
    <3>3. i + 2 = 4
      OBVIOUS
    <3> HIDE DEF i
    <3> QED BY <3>1, <3>2, <3>3
  <2>3. off[5] = off[4] + 1 /\ off[4] \in Nat
    <3> DEFINE i == 5
    <3>1. i \in 1 .. n /\ T[i].size = 1
      BY <1>2 DEF Number
    <3>2. off[i] = off[i - 1] + T[i].size /\ off[i - 1] \in Nat
      <4> HIDE DEF i
      <4> QED BY <1>1, <1>2, <3>1, LaidIs
    <3> QED BY <3>1, <3>2
  <2>4. Past(At(D, a, off[4]), 1) = At(D, a, off[5])
    <3> DEFINE p == off[4]
    <3>1. p \in Nat /\ p + 1 <= a /\ p + 1 = off[5]
      BY <1>4, <1>5, <2>3
    <3>2. Past(At(D, a, p), 1) = At(D, a, p + 1)
      <4> HIDE DEF p, a, D
      <4> QED BY <1>5, <3>1, PastIs
    <3> QED BY <3>1, <3>2
  <2> HIDE DEF a, D, H
  <2> QED BY <1>9, <1>10, <2>1, <2>2, <2>4 DEF FirstRow
<1>14. At(D, a, off[5]).position = off[5] /\ At(D, a, off[5]).eof = FALSE
  BY DEF At
<1>15. Readable(d) <=> (b.theta # None \/ b.x # << >>)
  <2>1. b.x = << >> => end = off[5]
    BY <1>4, TotalOfNone, Weights
  <2> HIDE DEF H, a, D
  <2>2. Header(d) # None /\ ~ FirstRow(d).eof /\ FirstRow(d).position = off[5]
        /\ Header(d).end = end /\ (Header(d).has_solution <=> b.theta # None)
    BY <1>8, <1>9, <1>13, <1>14
  <2>3. CASE b.theta # None
    BY <1>4, <1>11, <1>12, <2>2, <2>3 DEF Readable
  <2>4. CASE b.theta = None
    BY <1>4, <2>1, <2>2, <2>4 DEF Readable
  <2> QED BY <2>3, <2>4
<1>16. RowsFrom(FirstRow(d), end) = b.x
  <2> DEFINE m == 5
  <2>1. m \in 0 .. n /\ n - m = c /\ \A i \in m + 1 .. n : IsRow(T[i]) /\ T[i].size > 0
    <3>1. m \in 0 .. n /\ n - m = c
      BY <1>2
    <3>2. ASSUME NEW i \in m + 1 .. n PROVE IsRow(T[i]) /\ T[i].size > 0
      <4>1. i - 5 \in 1 .. c /\ 5 + (i - 5) = i
        BY <1>2
      <4>2. T[i] = RowThing(b.x[i - 5]) /\ b.x[i - 5] \in Examples
        BY <1>2, <4>1
      <4> QED BY <4>2, RowThingIs
    <3> QED BY <3>1, <3>2
  <2>2. RowsFrom(At(D, a, off[m]), off[Len(T)]) = [i \in 1 .. n - m |-> T[m + i].row]
    <3> HIDE DEF m, a, D
    <3>1. /\ m \in 0 .. Len(T) /\ a \in Nat /\ off[Len(T)] <= a /\ Below(D, off, Len(T), T)
          /\ \A i \in m + 1 .. Len(T) : IsRow(T[i]) /\ T[i].size > 0
      BY <1>5, <2>1
    <3>2. RowsFrom(At(D, a, off[m]), off[Len(T)]) = RowsBehind(T, m)
      <4> HIDE DEF n, c
      <4> QED BY <1>1, <1>2, <3>1, RowsFromIs
    <3> QED BY <3>2 DEF RowsBehind
  <2>3. \A i \in 1 .. c : T[m + i].row = b.x[i]
    BY <1>2, RowThingIs
  <2>4. b.x = [i \in 1 .. c |-> b.x[i]]
    BY <1>5
  <2>5. [i \in 1 .. n - m |-> T[m + i].row] = [i \in 1 .. c |-> b.x[i]]
    <3> HIDE DEF m, n, c
    <3> QED BY <2>1, <2>3
  <2> QED BY <1>13, <2>2, <2>4, <2>5
<1>17. pca_read_db(d) = b
  <2>1. (IF H.has_solution THEN ThetaOf(d) ELSE None) = b.theta
    BY <1>8, <1>12
  <2>2. pca_read_db(d) = [theta |-> b.theta, x |-> b.x, has_new |-> b.has_new, counts |-> b.counts]
    <3> HIDE DEF H, a, D
    <3> QED BY <1>8, <1>9, <1>16, <2>1 DEF pca_read_db
  <2> QED BY <1>5, <2>2
<1>18. Kept(d) = b.x
  BY <1>15, <1>17 DEF Kept
<1>19. ASSUME NEW p \in DOMAIN D PROVE p + D[p].size <= end
  <2>1. PICK i \in 1 .. n : p + D[p].size = off[i] /\ off[i] <= end
    <3> HIDE DEF D
    <3> QED BY <1>1, <1>2, <1>19, HeldWithin DEF D
  <2> QED BY <2>1
<1>20. Cardinality({p \in DOMAIN D : IsRow(D[p])}) = c /\ (c = 0 => {p \in DOMAIN D : IsRow(D[p])} = {})
  <2> DEFINE pos == [j \in 1 .. c |-> 5 + j]
  <2>1. pos \in [1 .. c -> 1 .. n] /\ \A j \in 1 .. c : pos[j] = 5 + j
    BY <1>2
  <2>2. \A j, k \in 1 .. c : pos[j] = pos[k] => j = k
    OBVIOUS
  <2>3. ~ IsRow(T[1]) /\ ~ IsRow(T[2]) /\ ~ IsRow(T[3]) /\ ~ IsRow(T[4]) /\ ~ IsRow(T[5])
    BY <1>2, <1>3 DEF IsRow, Number
  <2>4. \A i \in 1 .. n : i \in {1, 2, 3, 4, 5} \/ \E j \in 1 .. c : i = 5 + j
    <3> SUFFICES ASSUME NEW i \in 1 .. n, i > 5 PROVE \E j \in 1 .. c : i = 5 + j
      BY <1>2
    <3>1. i - 5 \in 1 .. c /\ i = 5 + (i - 5)
      BY <1>2
    <3> QED BY <3>1
  <2>5. \A j \in 1 .. c : IsRow(T[5 + j]) /\ T[5 + j].size > 0
    BY <1>2, RowThingIs
  <2>6. \A i \in 1 .. n : IsRow(T[i]) <=> \E j \in 1 .. c : i = pos[j]
    <3> SUFFICES ASSUME NEW i \in 1 .. n PROVE IsRow(T[i]) <=> \E j \in 1 .. c : i = pos[j]
      OBVIOUS
    <3>1. CASE i \in {1, 2, 3, 4, 5}
      <4>1. \A j \in 1 .. c : pos[j] > 5
        BY <2>1
      <4>2. ~ \E j \in 1 .. c : i = pos[j]
        <5> SUFFICES ASSUME NEW j \in 1 .. c, i = pos[j] PROVE FALSE
          OBVIOUS
        <5>1. pos[j] > 5
          BY <4>1
        <5> HIDE DEF pos, c, n
        <5> QED BY <3>1, <5>1
      <4>3. ~ IsRow(T[i])
        BY <2>3, <3>1
      <4> QED BY <4>2, <4>3
    <3>2. CASE \E j \in 1 .. c : i = 5 + j
      BY <2>1, <2>5, <3>2
    <3> QED BY <2>4, <3>1, <3>2
  <2>7. \A i \in 1 .. n : IsRow(T[i]) => T[i].size > 0
    BY <2>1, <2>5, <2>6
  <2> HIDE DEF pos, D
  <2>8. HasRowsAt(T, c, pos)
    BY <1>2, <2>1, <2>2, <2>6, <2>7 DEF HasRowsAt
  <2>9. Holds(D, off, T)
    BY <1>1 DEF D
  <2> HIDE DEF n, c
  <2>10. RowsIn(D) = {off[pos[j] - 1] : j \in 1 .. c} /\ Cardinality(RowsIn(D)) = c
    BY <1>1, <1>2, <2>8, <2>9, RowsHeld
  <2>11. c = 0 => RowsIn(D) = {}
    BY <2>10
  <2> QED BY <2>10, <2>11 DEF RowsIn
<1>21. 0 \in DOMAIN D
  <2> DEFINE i == 1
  <2>1. i \in 1 .. n /\ T[i].size > 0 /\ off[i - 1] = 0
    BY <1>2, <1>5
  <2>2. off[i - 1] \in DOMAIN D
    <3> HIDE DEF i, D
    <3> QED BY <1>5, <2>1 DEF Below
  <2> QED BY <2>1, <2>2
<1>22. b.x = << >> => c = 0
  OBVIOUS
<1> QED BY <1>4, <1>5, <1>8, <1>9, <1>15, <1>17, <1>18, <1>19, <1>20, <1>21, <1>22

Marked(h) == [h EXCEPT !.has_new = TRUE]
Moved(h, end) == [h EXCEPT !.end = end]
Longer(b, e) == [theta |-> b.theta, x |-> Append(b.x, e), has_new |-> TRUE, counts |-> b.counts]

\* The header with its flag set, and with its end moved.
LEMMA MovedHeader ==
  ASSUME NEW b, NEW e, NEW end, NEW h, h = HeaderOf(b, end), NEW new
  PROVE  Marked(h).end = end /\ Moved(Marked(h), new) = HeaderOf(Longer(b, e), new)
<1>0. PICK z : z = (b.theta # None)
  OBVIOUS
<1>1. h = [kind |-> "header", size |-> 1, end |-> end, has_new |-> b.has_new,
           has_solution |-> z, counts |-> b.counts]
  BY <1>0 DEF HeaderOf
<1> DEFINE H(x) == [kind |-> "header", size |-> 1, end |-> x, has_new |-> TRUE,
                    has_solution |-> z, counts |-> b.counts]
<1>2. HeaderOf(Longer(b, e), new) = H(new)
  BY <1>0 DEF Longer, HeaderOf
<1>3. ASSUME NEW r, NEW yes, r = [h EXCEPT !.has_new = yes]
      PROVE  r = [kind |-> "header", size |-> 1, end |-> end, has_new |-> yes,
                  has_solution |-> z, counts |-> b.counts]
  BY <1>1, <1>3
<1>4. Marked(h) = H(end) /\ Marked(h).end = end
  <2>1. Marked(h) = [h EXCEPT !.has_new = TRUE]
    BY DEF Marked
  <2>2. Marked(h) = H(end)
    BY <1>3, <2>1
  <2> QED BY <2>2
<1>5. ASSUME NEW m, m = H(end), NEW r, r = [m EXCEPT !.end = new] PROVE r = H(new)
  BY <1>5
<1>6. Moved(Marked(h), new) = H(new)
  BY <1>4, <1>5 DEF Moved
<1> QED BY <1>2, <1>4, <1>6

\* An example appended to the file of a block.
LEMMA AppendedIs ==
  ASSUME NEW b \in Blocks, NEW d, Dbs(d), FileIs(d, b), NEW e \in Examples,
         NEW fh, fh = Marked(Header(d)),
         NEW b1, b1 = Longer(b, e)
  PROVE  b1 \in Blocks /\ Dbs(Appended(d, fh, e)) /\ FileIs(Appended(d, fh, e), b1)
<1>1. PICK off, T : /\ T = FileThings(b, off[Len(T)]) /\ IsLaid(off, T)
                    /\ Holds(d.data, off, T) /\ off[Len(T)] <= d.alloc
  BY DEF FileIs
<1> DEFINE a == d.alloc
           D == d.data
           n == Len(T)
           end == off[n]
           c == Len(b.x)
           t == RowThing(e)
           U == FileThings(b1, end + t.size)
           m == n + 1
<1>2. b1 \in Blocks /\ b1.x = Append(b.x, e) /\ b1.theta = b.theta /\ b1.has_new = TRUE /\ b1.counts = b.counts
  BY AppendProperties DEF Blocks, Longer
<1>3. /\ IsThings(T) /\ n = 5 + c /\ c \in Nat /\ T[2] = b.theta /\ T[5] = Number
      /\ T[1] = HeaderOf(b, end) /\ T[1].size = 1
      /\ \A i \in 1 .. c : T[5 + i] = RowThing(b.x[i])
  BY <1>1, FileThingsAre DEF IsFile
<1>4. Len(b1.x) = c + 1 /\ b1.x[c + 1] = e /\ \A i \in 1 .. c : b1.x[i] = b.x[i]
  <2>1. b.x \in Seq(Examples)
    BY DEF Blocks
  <2> QED BY <1>2, <2>1, AppendProperties
<1>5. /\ IsThings(U) /\ Len(U) = 5 + Len(b1.x) /\ U[1] = HeaderOf(b1, end + t.size) /\ U[1].size = 1
      /\ U[2] = b1.theta /\ U[5] = Number
      /\ \A i \in 1 .. Len(b1.x) : U[5 + i] = RowThing(b1.x[i])
  <2>1. IsFile(U, b1, end + t.size)
    BY <1>2, FileThingsAre
  <2> HIDE DEF U
  <2> QED BY <2>1 DEF IsFile
<1>6. U[3] = T[3] /\ U[4] = T[4]
  <2>1. PICK g \in Nat \ {0} : T[3] = [kind |-> "fill", size |-> 1, free |-> g]
                               /\ T[4] = [kind |-> "zeroes", size |-> g]
                               /\ b.theta.size + g = ThetaRoom(b.theta)
    BY <1>1, FileThingsAre DEF IsFile
  <2>2. PICK h \in Nat \ {0} : U[3] = [kind |-> "fill", size |-> 1, free |-> h]
                               /\ U[4] = [kind |-> "zeroes", size |-> h]
                               /\ b1.theta.size + h = ThetaRoom(b1.theta)
    BY <1>2, FileThingsAre DEF IsFile
  <2>3. b.theta.size \in Nat
    BY ThetaThingsAre DEF Blocks
  <2>4. g = h
    BY <1>2, <2>1, <2>2, <2>3
  <2> QED BY <2>1, <2>2, <2>4
<1> HIDE DEF U
<1>7. Len(U) = m /\ m \in Nat /\ U[m] = t /\ \A i \in 2 .. n : U[i] = T[i]
  <2>1. Len(U) = m /\ m \in Nat /\ m = 5 + (c + 1)
    BY <1>3, <1>4, <1>5
  <2>2. c + 1 \in 1 .. Len(b1.x) /\ \A i \in 1 .. c : i \in 1 .. Len(b1.x)
    BY <1>3, <1>4
  <2>3. U[m] = t
    BY <1>4, <1>5, <2>1, <2>2
  <2>4. \A i \in 1 .. c : U[5 + i] = T[5 + i]
    BY <1>3, <1>4, <1>5, <2>2
  <2>5. ASSUME NEW i \in 2 .. n PROVE U[i] = T[i]
    <3>1. i \in {2, 3, 4, 5} \/ \E j \in 1 .. c : i = 5 + j
      <4>1. ASSUME i > 5 PROVE i - 5 \in 1 .. c /\ i = 5 + (i - 5)
        BY <1>3, <4>1
      <4>2. ~ (i > 5) => i \in {2, 3, 4, 5}
        BY <1>3
      <4> QED BY <4>1, <4>2
    <3> QED BY <1>2, <1>3, <1>5, <1>6, <2>4, <3>1
  <2> QED BY <2>1, <2>3, <2>5
<1>8. t.size \in Nat /\ t.size > 0
  BY RowThingIs
\* The old header first, then the row, then the header.
<1> DEFINE V == [U EXCEPT ![1] = T[1]]
<1>9. /\ IsThings(V) /\ Len(V) = m /\ V[m] = t /\ V[1] = T[1] /\ \A i \in 1 .. n : V[i] = T[i]
      /\ DOMAIN V = 1 .. m /\ DOMAIN U = 1 .. m
  <2>1. DOMAIN U = 1 .. m /\ 1 \in 1 .. m /\ m # 1 /\ m \in 1 .. m
    BY <1>3, <1>5, <1>7 DEF IsThings
  <2>2. DOMAIN V = 1 .. m /\ V[1] = T[1] /\ \A i \in 1 .. m : i # 1 => V[i] = U[i]
    BY <2>1
  <2>3. \A i \in 1 .. n : (i = 1 \/ i \in 2 .. n) /\ i \in 1 .. m
    BY <1>3
  <2> HIDE DEF V, m, n
  <2>4. V[m] = t /\ \A i \in 1 .. n : V[i] = T[i]
    BY <1>7, <2>1, <2>2, <2>3
  <2>5. Len(V) = m
    BY <1>7, <2>2, LenProperties
  <2>6. \A i \in 1 .. m : V[i].size \in Nat
    BY <1>3, <1>5, <1>7, <2>2 DEF IsThings
  <2> QED BY <1>7, <2>1, <2>2, <2>4, <2>5, <2>6 DEF IsThings
<1> HIDE DEF V
<1>10. PICK uff : IsLaid(uff, V)
  BY <1>9, LaidExists
<1>11. Holds(Over(D, end, t.size, t), uff, V) /\ uff[m] = end + t.size /\ end \in Nat /\ uff[0] = 0
  <2>1. V[Len(V)].size > 0 /\ Len(V) = Len(T) + 1 /\ t = V[Len(V)]
    BY <1>8, <1>9
  <2>2. Holds(Over(D, end, t.size, t), uff, V)
    <3> HIDE DEF D, t
    <3> QED BY <1>1, <1>3, <1>9, <1>10, <2>1, OneAdded DEF D
  <2>3. \A k \in 0 .. n : off[k] = uff[k]
    <3>1. n \in Nat /\ n <= Len(T) /\ n <= Len(V) /\ \A i \in 1 .. n : T[i].size = V[i].size
      BY <1>3, <1>9
    <3> HIDE DEF n, m
    <3>2. IsThings(T) /\ IsLaid(off, T) /\ IsThings(V) /\ IsLaid(uff, V)
      BY <1>1, <1>3, <1>9, <1>10
    <3> QED BY <3>1, <3>2, SamePlaces
  <2>4. m \in 1 .. Len(V) /\ m - 1 = n /\ n \in 0 .. n
    BY <1>3, <1>9
  <2>5. uff[m] = uff[m - 1] + V[m].size
    BY <1>10, <2>4 DEF IsLaid
  <2>6. end \in Nat
    <3>1. n \in 0 .. Len(T)
      BY <1>3
    <3> HIDE DEF n
    <3> QED BY <1>1, <1>3, <3>1, LaidIs
  <2> QED BY <1>9, <1>10, <2>2, <2>3, <2>4, <2>5, <2>6 DEF IsLaid
<1> DEFINE o == Over(D, end, t.size, t)
           H == HeaderOf(b1, end + t.size)
           q == Over(o, 0, 1, H)
<1>12. IsLaid(uff, U) /\ Holds(q, uff, U)
  <2> DEFINE i == 1
  <2>1. i \in 1 .. Len(V) /\ H.size = V[i].size /\ H.size > 0 /\ H.size = 1 /\ uff[i - 1] = 0
    BY <1>3, <1>9, <1>11 DEF HeaderOf
  <2> DEFINE W == [V EXCEPT ![i] = H]
             r == Over(o, uff[i - 1], H.size, H)
  <2>2. IsData(o) /\ Below(o, uff, Len(V), V) /\ \A p \in DOMAIN o : p < uff[Len(V)]
    BY <1>11 DEF Holds
  <2>3. IsLaid(uff, W) /\ IsData(r) /\ Below(r, uff, Len(W), W) /\ Len(W) = Len(V) /\ \A p \in DOMAIN r : p < uff[Len(V)]
    <3> HIDE DEF i, H, o
    <3> QED BY <1>9, <1>10, <2>1, <2>2, OneChanged
  <2>4. r = q
    BY <2>1
  <2>5. W = U
    <3>1. DOMAIN W = 1 .. m /\ W[1] = H /\ \A j \in 1 .. m : j # 1 => W[j] = V[j]
      BY <1>9
    <3>2. \A j \in 1 .. m : j # 1 => V[j] = U[j]
      BY <1>9 DEF V
    <3>3. U[1] = H
      BY <1>5
    <3> HIDE DEF W, H, m
    <3>4. \A j \in 1 .. m : W[j] = U[j]
      BY <3>1, <3>2, <3>3
    <3>5. [j \in 1 .. m |-> W[j]] = [j \in 1 .. m |-> U[j]]
      BY <3>4
    <3>6. U = [j \in 1 .. m |-> U[j]]
      <4>1. U = FileThings(b1, end + t.size)
        BY DEF U
      <4>2. b1.x \in Seq(Examples) /\ b1.theta \in Thetas
        BY <1>2 DEF Blocks
      <4> QED BY <1>9, <4>1, <4>2 DEF FileThings
    <3>7. W = [j \in 1 .. m |-> W[j]]
      BY <1>9 DEF W, V
    <3> QED BY <3>5, <3>6, <3>7
  <2>6. Len(W) = Len(U)
    BY <2>5
  <2> HIDE DEF W, r, q, o
  <2> QED BY <2>3, <2>4, <2>5 DEF Holds
<1>13. Header(d) = HeaderOf(b, end)
  <2>1. 1 \in 1 .. n /\ T[1].size > 0 /\ off[0] = 0 /\ 1 - 1 = 0
    BY <1>1, <1>3 DEF IsLaid
  <2> DEFINE i == 1
  <2>2. Here(At(D, a, off[i - 1])) = T[i]
    <3>1. i \in 1 .. Len(T) /\ T[i].size > 0 /\ a \in Nat /\ off[Len(T)] <= a /\ Below(D, off, Len(T), T)
      BY <1>1, <2>1 DEF Dbs, Holds
    <3> HIDE DEF i, a, D
    <3> QED BY <1>1, <1>3, <3>1, HereIs
  <2>3. Here(dbopen(d)) = HeaderOf(b, end)
    BY <1>3, <2>1, <2>2 DEF dbopen, At
  <2> QED BY <2>3 DEF Header, FileHeader, HeaderOf
<1>14. fh.end = end /\ [fh EXCEPT !.end = fh.end + t.size] = H
  <2> DEFINE e1 == end + t.size
  <2> HIDE DEF end, t, e1
  <2>1. fh.end = end /\ Moved(fh, e1) = HeaderOf(b1, e1)
    BY <1>13, MovedHeader
  <2>2. fh.end + t.size = e1
    BY <2>1 DEF e1
  <2>3. Moved(fh, fh.end + t.size) = HeaderOf(b1, end + t.size)
    BY <2>1, <2>2 DEF e1
  <2> QED BY <2>1, <2>3 DEF Moved
<1> DEFINE room == maybe_expand_db(d, end + t.size, Greater((a * 11) \div 10, a + t.size))
<1>15. room.data = D /\ room.cb = d.cb /\ room.alloc \in Nat /\ end + t.size <= room.alloc
       /\ room = [alloc |-> room.alloc, data |-> D, cb |-> d.cb]
  <2>1. a \in Nat /\ d = [alloc |-> a, data |-> D, cb |-> d.cb] /\ end <= a
    BY <1>1 DEF Dbs
  <2> DEFINE g == Greater((a * 11) \div 10, a + t.size)
  <2>2. g \in Nat /\ g >= a + t.size
    BY <1>8, <2>1 DEF Greater
  <2> HIDE DEF g, a, D, t, end
  <2>3. [d EXCEPT !.alloc = g] = [alloc |-> g, data |-> D, cb |-> d.cb]
    <3>1. ASSUME NEW r, r = [d EXCEPT !.alloc = g] PROVE r = [alloc |-> g, data |-> D, cb |-> d.cb]
      BY <2>1, <3>1
    <3> QED BY <3>1
  <2>4. room = IF end + t.size > a THEN [alloc |-> g, data |-> D, cb |-> d.cb] ELSE d
    BY <2>3 DEF maybe_expand_db, MustExpand, a, g
  <2> HIDE DEF room
  <2>5. CASE end + t.size > a
    <3>1. room = [alloc |-> g, data |-> D, cb |-> d.cb]
      BY <2>4, <2>5
    <3> QED BY <1>8, <1>11, <2>1, <2>2, <3>1
  <2>6. CASE ~ (end + t.size > a)
    <3>1. room = [alloc |-> a, data |-> D, cb |-> d.cb]
      BY <2>1, <2>4, <2>6
    <3> QED BY <1>8, <1>11, <2>1, <2>6, <3>1
  <2> QED BY <2>5, <2>6
<1> HIDE DEF room
<1> DEFINE res == [alloc |-> room.alloc, data |-> q, cb |-> d.cb]
<1>16. Appended(d, fh, e) = res
  <2>1. Appended(d, fh, e) = [room EXCEPT !.data = Over(Over(@, end, t.size, t), 0, 1, H)]
    <3> HIDE DEF end, t, H
    <3> QED BY <1>14 DEF Appended, room, t
  <2>2. Over(Over(room.data, end, t.size, t), 0, 1, H) = q
    <3> HIDE DEF end, t, H
    <3> QED BY <1>15
  <2> HIDE DEF q, D, end, t, H
  <2>3. ASSUME NEW r, r = [room EXCEPT !.data = q] PROVE r = [alloc |-> room.alloc, data |-> q, cb |-> d.cb]
    BY <1>15, <2>3
  <2>4. Appended(d, fh, e) = [room EXCEPT !.data = q]
    BY <2>1, <2>2
  <2> QED BY <2>3, <2>4
<1>17. IsData(q)
  BY <1>12 DEF Holds
<1>18. res.data = q /\ res.alloc = room.alloc /\ res.cb = d.cb
  OBVIOUS
<1> HIDE DEF q, res
<1>19. FileIs(res, b1)
  <2>1. uff[Len(U)] = end + t.size
    BY <1>7, <1>11
  <2>2. U = FileThings(b1, uff[Len(U)])
    BY <2>1 DEF U
  <2> HIDE DEF end, t
  <2> QED BY <1>12, <1>15, <1>18, <2>1, <2>2 DEF FileIs
<1>20. Dbs(res)
  <2>1. res = [alloc |-> res.alloc, data |-> res.data, cb |-> res.cb]
    BY DEF res
  <2> HIDE DEF end, t
  <2> QED BY <1>15, <1>17, <1>18, <2>1 DEF Dbs
<1> QED BY <1>2, <1>16, <1>19, <1>20


-----------------------------------------------------------------------------
(* A database without a file, and a block written back.                    *)

NoFile(d) == d.data = << >>

LEMMA NothingThere ==
  ASSUME NEW d, NoFile(d)
  PROVE  Header(d) = None /\ ~ Readable(d) /\ Kept(d) = << >> /\ ~ has_new_vectors(d) /\ 0 \notin DOMAIN d.data
<1>1. dbopen(d).position = 0 /\ dbopen(d).data = << >>
  BY DEF dbopen, NoFile
<1>2. 0 \notin DOMAIN << >>
  OBVIOUS
<1>3. Here(dbopen(d)) = None \/ Here(dbopen(d)) = Garbage
  BY <1>1, <1>2 DEF Here
<1>4. None.kind # "header" /\ Garbage.kind # "header"
  BY DEF None, Garbage
<1>5. Header(d) = None
  BY <1>3, <1>4 DEF Header, FileHeader
<1>6. 0 \notin DOMAIN d.data
  BY <1>2 DEF NoFile
<1> QED BY <1>5, <1>6 DEF Readable, Kept, has_new_vectors

LEMMA InitBlock ==
  /\ pca_block_init \in Blocks /\ pca_block_init.x = << >> /\ pca_block_init.theta = None
  /\ pca_block_init.has_new = FALSE /\ pca_block_init.counts = NoCounts
<1>1. NoCounts \in AllCounts
  BY DEF NoCounts, AllCounts
<1>2. << >> \in Seq(Examples)
  OBVIOUS
<1> QED BY <1>1, <1>2 DEF pca_block_init, Blocks, Thetas

LEMMA BlockSizeIs ==
  ASSUME NEW b \in Blocks
  PROVE  block_size(b) \in Nat
<1>1. b.x \in Seq(Examples) /\ Total(SizeOf, b.x) \in Nat /\ RowsSize(b.x) = Total(SizeOf, b.x)
  BY RowsSizeIs, TotalInNat, Weights DEF Blocks
<1>2. (IF b.theta = None THEN DefaultSize ELSE RoomAbove(b.theta.size)) = ThetaRoom(b.theta)
  BY DEF ThetaRoom
<1>3. ThetaRoom(b.theta) \in Nat
  <2>1. b.theta \in Thetas
    BY DEF Blocks
  <2>2. PICK free \in Nat \ {0} : b.theta.size + free = ThetaRoom(b.theta) /\ b.theta.size \in Nat
    BY <2>1, ThetaThingsAre
  <2> QED BY <2>2
<1> DEFINE m == 1 + (1 + ThetaRoom(b.theta)) + 1 + Total(SizeOf, b.x)
<1>4. m \in Nat /\ block_size(b) = WithHole(m)
  BY <1>1, <1>2, <1>3 DEF block_size
<1> HIDE DEF m
<1> QED BY <1>4 DEF WithHole

\* Only the data and the size of a database say what it holds.
LEMMA SameFile ==
  ASSUME NEW b, NEW d, Dbs(d), NEW counts, NEW d1, d1 = [d EXCEPT !.cb = counts]
  PROVE  Dbs(d1) /\ d1.data = d.data /\ d1.alloc = d.alloc /\ (FileIs(d, b) => FileIs(d1, b))
<1>1. d1 = [alloc |-> d.alloc, data |-> d.data, cb |-> counts]
  BY DEF Dbs
<1>2. d1.data = d.data /\ d1.alloc = d.alloc /\ d1.cb = counts
  BY <1>1
<1>3. Dbs(d1)
  BY <1>1, <1>2 DEF Dbs
<1>4. FileIs(d, b) => FileIs(d1, b)
  BY <1>2 DEF FileIs
<1> QED BY <1>2, <1>3, <1>4

LEMMA WriteBackIs ==
  ASSUME NEW d, Dbs(d), NEW b \in Blocks
  PROVE  Dbs(WriteBack(d, b)) /\ FileIs(WriteBack(d, b), b)
<1> DEFINE n == block_size(b)
           g == (n * 3) \div 2
           room == maybe_expand_db(d, n, g)
<1>1. n \in Nat /\ d.alloc \in Nat
  BY BlockSizeIs DEF Dbs
<1> HIDE DEF n
<1>2. g \in Nat /\ g >= n
  BY <1>1
<1> HIDE DEF g
<1>3. ASSUME NEW r, r = [d EXCEPT !.alloc = g] PROVE r = [alloc |-> g, data |-> d.data, cb |-> d.cb]
  BY <1>3 DEF Dbs
<1>4. Dbs(room) /\ n <= room.alloc
  <2>1. CASE n > d.alloc
    <3>1. room = [alloc |-> g, data |-> d.data, cb |-> d.cb]
      BY <1>3, <2>1 DEF maybe_expand_db, MustExpand
    <3> HIDE DEF room
    <3> QED BY <1>2, <3>1 DEF Dbs
  <2>2. CASE ~ (n > d.alloc)
    <3>1. room = d
      BY <2>2 DEF maybe_expand_db, MustExpand
    <3> QED BY <1>1, <2>2, <3>1
  <2> QED BY <2>1, <2>2
<1>5. WriteBack(d, b) = Written(b, room)
  BY DEF WriteBack, n, g
<1> HIDE DEF room
<1> QED BY <1>4, <1>5, WrittenIs DEF n

-----------------------------------------------------------------------------
(* What a block must be for its flag to be right: unless has_new is set,   *)
(* the weight vector knows every example, and the counts are theirs.       *)

Counted(counts, x, th) ==
  LET real == CountAll(NoCounts, x)
  IN  \A c \in Classes :
        /\ counts[c].documents >= real[c].documents
        /\ counts[c].features >= real[c].features
        /\ ~ th => counts[c] = real[c]

Known(theta, x) == IF theta = None THEN x = << >> ELSE Range(x) \subseteq theta.knows

Good(b, th) == ~ b.has_new => Known(b.theta, b.x) /\ Counted(b.counts, b.x, th)

\* A block, after a start over was put off, or with nothing unmarked.
Fine(b, th, lp) ==
  /\ lp = "none" => Good(b, th)
  /\ lp = "dropped" => b.theta = None /\ b.counts = NoCounts

LEMMA FewerCounted ==
  ASSUME NEW x \in Seq(Examples), NEW y \in Seq(Examples), NEW counts \in AllCounts, NEW th \in BOOLEAN,
         Counted(counts, x, th), \A w \in [Examples -> Nat] : Total(w, y) <= Total(w, x),
         th \/ \A w \in [Examples -> Nat] : Total(w, y) = Total(w, x)
  PROVE  Counted(counts, y, th)
<1> SUFFICES ASSUME NEW c \in Classes
             PROVE  /\ counts[c].documents >= CountAll(NoCounts, y)[c].documents
                    /\ counts[c].features >= CountAll(NoCounts, y)[c].features
                    /\ ~ th => counts[c] = CountAll(NoCounts, y)[c]
  BY DEF Counted
<1>1. /\ counts[c].documents >= CountAll(NoCounts, x)[c].documents
      /\ counts[c].features >= CountAll(NoCounts, x)[c].features
      /\ ~ th => counts[c] = CountAll(NoCounts, x)[c]
  BY DEF Counted
<1>2. counts[c].documents \in Int /\ counts[c].features \in Int
  BY DEF AllCounts
<1>3. Total(DocsOf(c), y) <= Total(DocsOf(c), x) /\ Total(FeaturesOf(c), y) <= Total(FeaturesOf(c), x)
      /\ (~ th => Total(DocsOf(c), y) = Total(DocsOf(c), x) /\ Total(FeaturesOf(c), y) = Total(FeaturesOf(c), x))
  BY Weights
<1>4. Total(DocsOf(c), y) \in Nat /\ Total(DocsOf(c), x) \in Nat
      /\ Total(FeaturesOf(c), y) \in Nat /\ Total(FeaturesOf(c), x) \in Nat
  BY TotalInNat, Weights
<1>5. /\ CountAll(NoCounts, x)[c].documents = Total(DocsOf(c), x)
      /\ CountAll(NoCounts, x)[c].features = Total(FeaturesOf(c), x)
      /\ CountAll(NoCounts, y)[c].documents = Total(DocsOf(c), y)
      /\ CountAll(NoCounts, y)[c].features = Total(FeaturesOf(c), y)
      /\ CountAll(NoCounts, x)[c] = [documents |-> Total(DocsOf(c), x), features |-> Total(FeaturesOf(c), x)]
      /\ CountAll(NoCounts, y)[c] = [documents |-> Total(DocsOf(c), y), features |-> Total(FeaturesOf(c), y)]
  BY RealIs
<1>6. ~ th => CountAll(NoCounts, y)[c] = CountAll(NoCounts, x)[c]
  BY <1>3, <1>5
<1> QED BY <1>1, <1>2, <1>3, <1>4, <1>5, <1>6

\* A new block has nothing to know and nothing to count.
LEMMA InitGood ==
  \A th \in BOOLEAN : Good(pca_block_init, th)
<1> SUFFICES ASSUME NEW th \in BOOLEAN PROVE Good(pca_block_init, th)
  OBVIOUS
<1>1. Known(pca_block_init.theta, pca_block_init.x)
  BY InitBlock DEF Known
<1>2. ASSUME NEW c \in Classes
      PROVE  CountAll(NoCounts, << >>)[c] = [documents |-> 0, features |-> 0]
  <2>1. << >> \in Seq(Examples)
    OBVIOUS
  <2>2. Total(DocsOf(c), << >>) = 0 /\ Total(FeaturesOf(c), << >>) = 0
    BY TotalOfNone, Weights
  <2> QED BY <2>1, <2>2, RealIs
<1>3. \A c \in Classes : NoCounts[c] = [documents |-> 0, features |-> 0]
  BY DEF NoCounts
<1>4. Counted(NoCounts, << >>, th)
  BY <1>2, <1>3 DEF Counted
<1> QED BY <1>1, <1>4, InitBlock DEF Good

\* Erasing examples that are not there changes nothing.
LEMMA NoneErased ==
  ASSUME NEW x \in Seq(Examples), NEW e, Len(WithoutEqual(x, e)) = Len(x)
  PROVE  /\ \A w \in [Examples -> Nat] : Total(w, WithoutEqual(x, e)) = Total(w, x)
         /\ Range(WithoutEqual(x, e)) \subseteq Range(x)
<1> DEFINE S == {i \in DOMAIN x : ~ vector_equals(e, x[i])}
           y == Keep(x, S)
           z == Keep(x, DOMAIN x \ S)
<1>1. WithoutEqual(x, e) = y
  BY DEF WithoutEqual
<1> HIDE DEF S
<1>2. y \in Seq(Examples) /\ z \in Seq(Examples)
  BY KeepInSeq
<1>3. Total(Unit, y) = Len(y) /\ Total(Unit, z) = Len(z) /\ Total(Unit, x) = Len(x)
  BY <1>2, LenIsTotal
<1>4. Total(Unit, y) + Total(Unit, z) = Total(Unit, x)
  BY KeepSplits, Weights
<1>5. Len(z) \in Nat /\ Len(y) \in Nat
  BY <1>2, LenProperties
<1>6. Len(z) = 0
  <2> HIDE DEF y, z
  <2> QED BY <1>1, <1>3, <1>4, <1>5
<1>7. z = << >>
  BY <1>2, <1>6, EmptySeq
<1>8. ASSUME NEW w \in [Examples -> Nat] PROVE Total(w, y) = Total(w, x)
  <2>1. Total(w, y) + Total(w, z) = Total(w, x) /\ Total(w, z) = 0 /\ Total(w, y) \in Nat
    <3>1. Total(w, y) + Total(w, z) = Total(w, x)
      BY KeepSplits
    <3>2. Total(w, z) = 0
      <4> HIDE DEF z
      <4> QED BY <1>7, TotalOfNone
    <3>3. Total(w, y) \in Nat
      <4> HIDE DEF y
      <4> QED BY <1>2, TotalInNat
    <3> QED BY <3>1, <3>2, <3>3
  <2> HIDE DEF y, z
  <2> QED BY <2>1
<1>9. Range(y) \subseteq Range(x)
  <2>1. y \in Seq(Range(x))
    <3>1. \A k \in DOMAIN x : k \in S => x[k] \in Range(x)
      BY DEF Range
    <3> QED BY <3>1, KeepElements
  <2> HIDE DEF y
  <2> QED BY <2>1, RangeOfSeq
<1> QED BY <1>1, <1>8, <1>9

-----------------------------------------------------------------------------
(* What learning makes of a block.                                         *)

\* What became of the examples, and how it went.
Became(from, to, how) ==
  \/ how = "ok" /\ to = from
  \/ how = "groomed" /\ to \in Groomed(from)
  \/ how = "gave up" /\ to = << >>

LEMMA GroomedRange ==
  ASSUME NEW x \in Seq(Examples), NEW g \in Groomed(x)
  PROVE  Range(g) \subseteq Range(x)
<1>1. PICK S : g = Keep(x, S)
  BY DEF Groomed
<1>2. \A k \in DOMAIN x : k \in S => x[k] \in Range(x)
  BY DEF Range
<1>3. g \in Seq(Range(x))
  BY <1>1, <1>2, KeepElements
<1> QED BY <1>3, RangeOfSeq

Solved(b, real) == [pca_solve(b) EXCEPT !.counts = real, !.has_new = FALSE]

LEMMA SolvedIs ==
  ASSUME NEW b \in Blocks, b.x # << >>, NEW real \in AllCounts, NEW s, s = Solved(b, real)
  PROVE  /\ s \in Blocks /\ s.x = b.x /\ s.has_new = FALSE /\ s.counts = real
         /\ s.theta # None /\ s.theta.knows = Range(b.x)
<1> DEFINE K == Range(b.x)
           z == ThetaSize[Cardinality(UNION {Columns(e) : e \in K})]
           t == [kind |-> "theta", size |-> z, knows |-> K]
<1>1. b.x \in Seq(Examples) /\ b = [theta |-> b.theta, x |-> b.x, has_new |-> b.has_new, counts |-> b.counts]
  BY DEF Blocks
<1>2. K \in SUBSET Examples
  BY <1>1, RangeOfSeq
<1>3. K # {}
  <2>1. Len(b.x) \in Nat /\ Len(b.x) # 0 /\ DOMAIN b.x = 1 .. Len(b.x)
    BY <1>1, EmptySeq, LenProperties
  <2>2. 1 \in DOMAIN b.x
    BY <2>1
  <2> QED BY <2>2 DEF Range
<1>4. z \in Nat \ {0}
  <2> HIDE DEF K
  <2> QED BY <1>2, <1>3, PcaStoreAssumption
<1>5. pca_solve(b) = [b EXCEPT !.theta = t]
  BY DEF pca_solve
<1> HIDE DEF z, K
<1>6. t \in Thetas /\ t.knows = K
  BY <1>2, <1>4 DEF Thetas
<1>7. t # None
  BY DEF None
<1> HIDE DEF t
<1>8. ASSUME NEW r, r = [b EXCEPT !.theta = t]
      PROVE  r = [theta |-> t, x |-> b.x, has_new |-> b.has_new, counts |-> b.counts]
  BY <1>1, <1>8
<1>0. PICK no : no = FALSE
  OBVIOUS
<1>9. pca_solve(b) = [theta |-> t, x |-> b.x, has_new |-> b.has_new, counts |-> b.counts]
  BY <1>5, <1>8
<1>10. ASSUME NEW p, p = [theta |-> t, x |-> b.x, has_new |-> b.has_new, counts |-> b.counts],
              NEW r, r = [p EXCEPT !.counts = real, !.has_new = no]
       PROVE  r = [theta |-> t, x |-> b.x, has_new |-> no, counts |-> real]
  BY <1>10
<1>11. s = [theta |-> t, x |-> b.x, has_new |-> no, counts |-> real]
  BY <1>0, <1>9, <1>10 DEF Solved
<1>12. s.theta = t /\ s.x = b.x /\ s.has_new = FALSE /\ s.counts = real
  <2>1. s.theta = t /\ s.x = b.x /\ s.has_new = no /\ s.counts = real
    BY <1>11
  <2> QED BY <1>0, <2>1
<1>13. s \in Blocks
  <2>1. no \in BOOLEAN
    BY <1>0
  <2> QED BY <1>1, <1>6, <1>11, <2>1 DEF Blocks
<1> QED BY <1>6, <1>7, <1>12, <1>13 DEF K

LEMMA LearnedIs ==
  ASSUME NEW b \in Blocks, NEW microgroom, NEW r \in pca_learn_new_examples(b, microgroom)
  PROVE  /\ r.blk \in Blocks /\ Became(b.x, r.blk.x, r.how)
         /\ \A th \in BOOLEAN : (r.how = "groomed" => th = TRUE) => Good(r.blk, th)
         /\ r.how # "gave up" => Known(r.blk.theta, b.x)
<1>1. b.x \in Seq(Examples)
  BY DEF Blocks
<1>2. ASSUME NEW blk, NEW how, r = Done(blk, how) PROVE r.blk = blk /\ r.how = how
  BY <1>2 DEF Done
<1>3. CASE b.x = << >>
  <2>1. r = Done(pca_block_init, "ok")
    BY <1>3 DEF pca_learn_new_examples
  <2>2. r.blk = pca_block_init /\ r.how = "ok"
    BY <1>2, <2>1
  <2> QED BY <1>3, <2>2, InitBlock, InitGood DEF Became, Known
<1>4. CASE r = Done(pca_block_init, "gave up")
  <2>1. r.blk = pca_block_init /\ r.how = "gave up"
    BY <1>2, <1>4
  <2> QED BY <2>1, InitBlock, InitGood DEF Became
<1>5. CASE b.x # << >> /\ r # Done(pca_block_init, "gave up")
  <2> DEFINE real == CountAll(NoCounts, b.x)
             s == Solved(b, real)
  <2>1. real \in AllCounts
    <3>1. NoCounts \in AllCounts
      BY DEF NoCounts, AllCounts
    <3> QED BY <1>1, <3>1, CountAllIs
  <2>2. \/ \E g \in Groomed(b.x) : r = Done([s EXCEPT !.x = g], "groomed")
        \/ r = Done(s, "ok")
    BY <1>5 DEF pca_learn_new_examples, Solved
  <2> HIDE DEF real
  <2>3. /\ s \in Blocks /\ s.x = b.x /\ s.has_new = FALSE /\ s.counts = real
        /\ s.theta # None /\ s.theta.knows = Range(b.x)
    BY <1>5, <2>1, SolvedIs
  <2> HIDE DEF s
  <2>4. Known(s.theta, b.x)
    BY <2>3 DEF Known
  <2>5. \A th \in BOOLEAN : Counted(real, b.x, th)
    <3>1. \A c \in Classes : real[c].documents \in Int /\ real[c].features \in Int
      BY <2>1 DEF AllCounts
    <3> QED BY <3>1 DEF Counted, real
  <2>6. CASE r = Done(s, "ok")
    <3>1. r.blk = s /\ r.how = "ok"
      BY <1>2, <2>6
    <3> QED BY <2>3, <2>4, <2>5, <3>1 DEF Good, Became
  <2>7. CASE \E g \in Groomed(b.x) : r = Done([s EXCEPT !.x = g], "groomed")
    <3>1. PICK g \in Groomed(b.x) : r = Done([s EXCEPT !.x = g], "groomed")
      BY <2>7
    <3>2. r.blk = [s EXCEPT !.x = g] /\ r.how = "groomed"
      BY <1>2, <3>1
    <3>3. g \in Seq(Examples) /\ \A w \in [Examples -> Nat] : Total(w, g) <= Total(w, b.x)
      BY <1>1, GroomedIs
    <3>4. Range(g) \subseteq Range(b.x)
      BY <1>1, GroomedRange
    <3>5. ASSUME NEW q, q = [s EXCEPT !.x = g]
          PROVE  q \in Blocks /\ q.x = g /\ q.has_new = FALSE /\ q.counts = real /\ q.theta = s.theta
      <4>1. s = [theta |-> s.theta, x |-> s.x, has_new |-> s.has_new, counts |-> s.counts]
        BY <2>3 DEF Blocks
      <4>2. q = [theta |-> s.theta, x |-> g, has_new |-> s.has_new, counts |-> s.counts]
        BY <3>5, <4>1
      <4>3. s.theta \in Thetas /\ s.has_new \in BOOLEAN /\ s.counts \in AllCounts
        BY <2>3 DEF Blocks
      <4>4. q \in Blocks
        BY <3>3, <4>2, <4>3 DEF Blocks
      <4>5. q.x = g /\ q.has_new = s.has_new /\ q.counts = s.counts /\ q.theta = s.theta
        BY <4>2
      <4> QED BY <2>3, <4>4, <4>5
    <3>6. Known(s.theta, g)
      BY <2>3, <3>4 DEF Known
    <3>7. Counted(real, g, TRUE)
      <4>1. Counted(real, b.x, TRUE)
        BY <2>5
      <4> QED BY <1>1, <2>1, <3>3, <4>1, FewerCounted
    <3> QED BY <2>4, <3>2, <3>5, <3>6, <3>7 DEF Good, Became
  <2> QED BY <2>2, <2>6, <2>7
<1> QED BY <1>3, <1>4, <1>5

-----------------------------------------------------------------------------
(* A call up to the point where it learns.                                 *)

IsCall(c) == c = [blk |-> c.blk, read |-> c.read, learn |-> c.learn, fromstart |-> c.fromstart]

Left(x, e, flags) == IF Erases(e, flags) THEN WithoutEqual(x, e) ELSE x

\* A block whose counts and weight vector are given up, and one with fewer rows.
LEMMA BlockChanged ==
  ASSUME NEW b \in Blocks, NEW theta \in Thetas, NEW x \in Seq(Examples), NEW counts \in AllCounts,
         NEW q, q = [theta |-> theta, x |-> x, has_new |-> b.has_new, counts |-> counts]
  PROVE  q \in Blocks /\ q.theta = theta /\ q.x = x /\ q.has_new = b.has_new /\ q.counts = counts
<1>1. b.has_new \in BOOLEAN
  BY DEF Blocks
<1>2. q.theta = theta /\ q.x = x /\ q.has_new = b.has_new /\ q.counts = counts
  OBVIOUS
<1>3. q \in Blocks
  BY <1>1 DEF Blocks
<1> QED BY <1>2, <1>3

LEMMA FromStartIs ==
  ASSUME NEW c, IsCall(c), c.blk \in Blocks, NEW f, f = FromStart(c)
  PROVE  /\ f.blk \in Blocks /\ f.blk.x = c.blk.x /\ f.blk.has_new = c.blk.has_new
         /\ f.read = c.read /\ f.learn = TRUE
         /\ f.blk.theta = None /\ f.blk.counts = NoCounts
<1> DEFINE b == c.blk
<1>1. b = [theta |-> b.theta, x |-> b.x, has_new |-> b.has_new, counts |-> b.counts]
      /\ b.x \in Seq(Examples)
  BY DEF Blocks
<1>2. NoCounts \in AllCounts /\ None \in Thetas
  BY DEF NoCounts, AllCounts, Thetas
<1>3. PICK yes : yes = TRUE
  OBVIOUS
<1>4. f = [c EXCEPT !.learn = yes, !.blk.theta = None, !.blk.counts = NoCounts]
  BY <1>3 DEF FromStart
<1> DEFINE q == [theta |-> None, x |-> b.x, has_new |-> b.has_new, counts |-> NoCounts]
<1>5. ASSUME NEW p, p = [b EXCEPT !.theta = None], NEW r, r = [p EXCEPT !.counts = NoCounts]
      PROVE  r = q
  BY <1>1, <1>5
<1>6. f = [blk |-> q, read |-> c.read, learn |-> yes, fromstart |-> c.fromstart]
  <2> HIDE DEF q
  <2>1. ASSUME NEW r, r = [[b EXCEPT !.theta = None] EXCEPT !.counts = NoCounts] PROVE r = q
    BY <1>5, <2>1
  <2> QED BY <1>4, <2>1 DEF IsCall
<1>7. f.blk = q /\ f.read = c.read /\ f.learn = yes
  BY <1>6
<1>8. q \in Blocks /\ q.x = b.x /\ q.has_new = b.has_new /\ q.theta = None /\ q.counts = NoCounts
  BY <1>1, <1>2, BlockChanged
<1> HIDE DEF q
<1> QED BY <1>3, <1>7, <1>8

\* The call an example was taken out in.
IsErased(f, c, e) ==
  /\ IsCall(f) /\ f.blk \in Blocks /\ f.blk.x = WithoutEqual(c.blk.x, e) /\ f.blk.has_new = c.blk.has_new
  /\ f.read = c.read
  /\ \/ f.learn = TRUE /\ f.fromstart = TRUE
     \/ /\ f.learn = FALSE /\ f.fromstart = FALSE /\ Len(WithoutEqual(c.blk.x, e)) = Len(c.blk.x)
        /\ f.blk.theta = c.blk.theta /\ f.blk.counts = c.blk.counts

LEMMA ErasingIs ==
  ASSUME NEW c, IsCall(c), c.blk \in Blocks, NEW e \in Examples, NEW f, f = Erasing(c, e)
  PROVE  IsErased(f, c, e)
<1> DEFINE b == c.blk
           left == WithoutEqual(b.x, e)
           found == Len(b.x) - Len(left)
           counts == Count(b.counts, e, -found)
<1>1. b = [theta |-> b.theta, x |-> b.x, has_new |-> b.has_new, counts |-> b.counts]
      /\ b.x \in Seq(Examples) /\ b.theta \in Thetas /\ b.counts \in AllCounts
  BY DEF Blocks
<1>2. left \in Seq(Examples) /\ found \in Nat
  <2>1. left \in Seq(Examples)
    BY <1>1, KeepInSeq DEF WithoutEqual
  <2>2. Total(Unit, left) <= Total(Unit, b.x)
    BY <1>1, Weights, KeepIsLess DEF WithoutEqual
  <2>3. Total(Unit, left) = Len(left) /\ Total(Unit, b.x) = Len(b.x) /\ Len(left) \in Nat /\ Len(b.x) \in Nat
    <3> HIDE DEF left, b
    <3> QED BY <1>1, <2>1, LenIsTotal, LenProperties
  <2> HIDE DEF left, b
  <2> QED BY <2>1, <2>2, <2>3
<1> HIDE DEF left
<1>3. counts \in AllCounts
  <2>1. -found \in Int
    BY <1>2
  <2> HIDE DEF found, b
  <2> QED BY <1>1, <2>1, CountIs
<1>4. found = 0 => counts = b.counts
  <2> SUFFICES ASSUME found = 0 PROVE counts = b.counts
    OBVIOUS
  <2>1. -found = 0
    BY <1>2
  <2>2. \A k \in Classes : counts[k].documents = b.counts[k].documents /\ counts[k].features = b.counts[k].features
    <3> SUFFICES ASSUME NEW k \in Classes
                 PROVE  counts[k].documents = b.counts[k].documents /\ counts[k].features = b.counts[k].features
      OBVIOUS
    <3>1. /\ Count(b.counts, e, 0)[k].documents = b.counts[k].documents + 0 * DocsOf(k)[e]
          /\ Count(b.counts, e, 0)[k].features = b.counts[k].features + 0 * FeaturesOf(k)[e]
      BY <1>1, CountIs
    <3>2. DocsOf(k)[e] \in Nat /\ FeaturesOf(k)[e] \in Nat
      BY Weights
    <3>3. b.counts[k].documents \in Int /\ b.counts[k].features \in Int
      BY <1>1 DEF AllCounts
    <3>4. counts = Count(b.counts, e, 0)
      BY <2>1
    <3> HIDE DEF counts, b
    <3> QED BY <3>1, <3>2, <3>3, <3>4
  <2> HIDE DEF counts, b
  <2>3. \A k \in Classes : counts[k] = [documents |-> counts[k].documents, features |-> counts[k].features]
                           /\ b.counts[k] = [documents |-> b.counts[k].documents, features |-> b.counts[k].features]
    BY <1>1, <1>3 DEF AllCounts
  <2>4. \A k \in Classes : counts[k] = b.counts[k]
    BY <2>2, <2>3
  <2>5. counts = [k \in Classes |-> counts[k]] /\ b.counts = [k \in Classes |-> b.counts[k]]
    BY <1>1, <1>3 DEF AllCounts
  <2> QED BY <2>4, <2>5
<1>5. PICK some \in BOOLEAN : some = (found > 0)
  <2>1. CASE found > 0
    <3>1. TRUE = (found > 0)
      BY <2>1
    <3> QED BY <3>1
  <2>2. CASE ~ (found > 0)
    <3>1. FALSE = (found > 0)
      BY <2>2
    <3> QED BY <3>1
  <2> QED BY <2>1, <2>2
<1> DEFINE q == [theta |-> b.theta, x |-> left, has_new |-> b.has_new, counts |-> counts]
<1>6. f = [c EXCEPT !.learn = some, !.fromstart = some, !.blk.x = left, !.blk.counts = Count(@, e, -found)]
  BY <1>5 DEF Erasing, left
<1> HIDE DEF found
<1>7. f = [blk |-> q, read |-> c.read, learn |-> some, fromstart |-> some]
  <2> DEFINE p == [b EXCEPT !.x = left]
             r == [p EXCEPT !.counts = Count(@, e, -found)]
  <2>1. p = [theta |-> b.theta, x |-> left, has_new |-> b.has_new, counts |-> b.counts]
    <3>1. ASSUME NEW z, z = [b EXCEPT !.x = left]
          PROVE  z = [theta |-> b.theta, x |-> left, has_new |-> b.has_new, counts |-> b.counts]
      BY <1>1, <3>1
    <3> QED BY <3>1
  <2>2. r = q
    <3>1. ASSUME NEW z, z = [theta |-> b.theta, x |-> left, has_new |-> b.has_new, counts |-> b.counts],
                 NEW y, y = [z EXCEPT !.counts = Count(@, e, -found)]
          PROVE  y = q
      BY <3>1
    <3> QED BY <2>1, <3>1
  <2> QED BY <1>6, <2>2 DEF IsCall
<1>8. f.blk = q /\ f.read = c.read /\ f.learn = some /\ f.fromstart = some /\ IsCall(f)
  BY <1>7 DEF IsCall
<1>9. q \in Blocks /\ q.x = left /\ q.has_new = b.has_new /\ q.theta = b.theta /\ q.counts = counts
  <2> HIDE DEF counts
  <2> QED BY <1>1, <1>2, <1>3, BlockChanged
<1>10. some = TRUE \/ (some = FALSE /\ found = 0)
  <2>1. found > 0 => some
    BY <1>5
  <2>2. CASE some = FALSE
    BY <1>2, <2>1, <2>2
  <2> QED BY <1>5, <2>2
<1>11. found = 0 => Len(left) = Len(b.x)
  <2>1. Len(left) \in Nat /\ Len(b.x) \in Nat
    BY <1>1, <1>2, LenProperties
  <2> QED BY <2>1 DEF found
<1> HIDE DEF q, counts
<1> QED BY <1>4, <1>8, <1>9, <1>10, <1>11 DEF left, IsErased

LEMMA PreparedIs ==
  ASSUME NEW b \in Blocks, NEW d, Readable(d) => pca_read_db(d) = b,
         NEW e \in Examples \cup {None}, NEW flags, NEW c \in Prepared(e, flags, d)
  PROVE  IF Reads(e, flags) /\ Readable(d)
         THEN /\ c.read = TRUE /\ c.blk \in Blocks /\ c.blk.x = Left(b.x, e, flags) /\ c.blk.has_new = b.has_new
              /\ \/ c.learn = TRUE /\ ("append" \in flags => c.blk.theta = None /\ c.blk.counts = NoCounts)
                 \/ /\ c.learn = FALSE /\ Erases(e, flags) /\ Len(WithoutEqual(b.x, e)) = Len(b.x)
                    /\ c.blk.theta = b.theta /\ c.blk.counts = b.counts
         ELSE c.read = FALSE
<1> DEFINE s == Start(e, flags, d)
           c0 == IF Erases(e, flags) THEN Erasing(s, e) ELSE s
<1>1. c = IF c0.fromstart \/ "fromstart" \in flags THEN FromStart(c0) ELSE c0
  BY DEF Prepared
<1>2. Erases(e, flags) => e \in Examples
  BY DEF Erases
<1>3. CASE Reads(e, flags) /\ Readable(d)
  <2>1. s = [Unread EXCEPT !.blk = b, !.read = TRUE]
    BY <1>3 DEF Start
  <2>2. IsCall(s) /\ s.blk = b /\ s.read = TRUE /\ s.learn = TRUE /\ s.fromstart = FALSE
    <3>1. PICK yes, no : yes = TRUE /\ no = FALSE
      OBVIOUS
    <3>2. Unread = [blk |-> pca_block_init, read |-> no, learn |-> yes, fromstart |-> no]
      BY <3>1 DEF Unread
    <3>3. ASSUME NEW r, r = [Unread EXCEPT !.blk = b, !.read = yes]
          PROVE  r = [blk |-> b, read |-> yes, learn |-> yes, fromstart |-> no]
      BY <3>2, <3>3
    <3>4. s = [blk |-> b, read |-> yes, learn |-> yes, fromstart |-> no]
      BY <2>1, <3>1, <3>3
    <3> HIDE DEF s
    <3>5. IsCall(s) /\ s.blk = b /\ s.read = yes /\ s.learn = yes /\ s.fromstart = no
      BY <3>4 DEF IsCall
    <3> QED BY <3>1, <3>5
  <2> HIDE DEF s
  <2>3. /\ IsCall(c0) /\ c0.blk \in Blocks /\ c0.blk.x = Left(b.x, e, flags) /\ c0.blk.has_new = b.has_new
        /\ c0.read = TRUE
        /\ \/ c0.learn = TRUE /\ (Erases(e, flags) => c0.fromstart = TRUE)
           \/ /\ c0.learn = FALSE /\ c0.fromstart = FALSE /\ Erases(e, flags)
              /\ Len(WithoutEqual(b.x, e)) = Len(b.x)
              /\ c0.blk.theta = b.theta /\ c0.blk.counts = b.counts
    <3>1. CASE Erases(e, flags)
      <4>1. c0 = Erasing(s, e)
        BY <3>1
      <4> HIDE DEF c0
      <4>2. IsCall(s) /\ s.blk \in Blocks /\ e \in Examples
        BY <1>2, <2>2, <3>1
      <4>3. /\ IsCall(c0) /\ c0.blk \in Blocks /\ c0.blk.x = WithoutEqual(s.blk.x, e)
            /\ c0.blk.has_new = s.blk.has_new /\ c0.read = s.read
            /\ \/ c0.learn = TRUE /\ c0.fromstart = TRUE
               \/ /\ c0.learn = FALSE /\ c0.fromstart = FALSE
                  /\ Len(WithoutEqual(s.blk.x, e)) = Len(s.blk.x)
                  /\ c0.blk.theta = s.blk.theta /\ c0.blk.counts = s.blk.counts
        <5>1. IsErased(c0, s, e)
          BY <4>1, <4>2, ErasingIs
        <5> QED BY <5>1 DEF IsErased
      <4> QED BY <2>2, <3>1, <4>3 DEF Left
    <3>2. CASE ~ Erases(e, flags)
      BY <2>2, <3>2 DEF Left
    <3> QED BY <3>1, <3>2
  <2> HIDE DEF c0
  <2>4. CASE c0.fromstart \/ "fromstart" \in flags
    <3>1. c = FromStart(c0)
      BY <1>1, <2>4
    <3>2. /\ c.blk \in Blocks /\ c.blk.x = c0.blk.x /\ c.blk.has_new = c0.blk.has_new
          /\ c.read = c0.read /\ c.learn = TRUE
          /\ c.blk.theta = None /\ c.blk.counts = NoCounts
      BY <2>3, <3>1, FromStartIs
    <3> QED BY <1>3, <2>3, <3>2
  <2>5. CASE ~ (c0.fromstart \/ "fromstart" \in flags)
    <3>1. c = c0
      BY <1>1, <2>5
    <3>2. Erases(e, flags) => c0.learn = FALSE
      BY <2>3, <2>5
    <3>3. ~ Erases(e, flags) => "append" \notin flags
      BY <1>3, <2>5 DEF Reads
    <3> QED BY <1>3, <2>3, <3>1, <3>2, <3>3
  <2> QED BY <2>4, <2>5
<1>4. CASE ~ (Reads(e, flags) /\ Readable(d))
  <2>1. s = Unread
    BY <1>4 DEF Start
  <2>2. s.read = FALSE
    BY <2>1 DEF Unread
  <2>3. ASSUME NEW z, z.read = FALSE, DOMAIN z = {"blk", "read", "learn", "fromstart"}
        PROVE  FromStart(z).read = FALSE /\ Erasing(z, e).read = FALSE
               /\ DOMAIN Erasing(z, e) = {"blk", "read", "learn", "fromstart"}
    BY <2>3 DEF FromStart, Erasing
  <2>4. DOMAIN s = {"blk", "read", "learn", "fromstart"}
    BY <2>1 DEF Unread
  <2> HIDE DEF s
  <2>5. c0.read = FALSE /\ DOMAIN c0 = {"blk", "read", "learn", "fromstart"}
    BY <2>2, <2>3, <2>4
  <2> HIDE DEF c0
  <2> QED BY <1>1, <1>4, <2>3, <2>5
<1> QED BY <1>3, <1>4

-----------------------------------------------------------------------------
(* How a call ends.                                                        *)

\* The database holds the block, and the history says how the call went.
Ends(b, did, how) ==
  /\ Dbs(db') /\ FileIs(db', b)
  /\ kept' = BagOf(b.x) /\ last' = [did |-> did, how |-> how]
  /\ thinned' = (thinned \/ how = "groomed")

LEMMA FinishEnds ==
  ASSUME NEW b \in Blocks, NEW d, Dbs(d), FileIs(d, b), NEW did, NEW how, NEW lapsed,
         Finish(d, did, how, lapsed)
  PROVE  Ends(b, did, how) /\ lapse' = lapsed
<1>1. db' = d /\ kept' = BagOf(Kept(d)) /\ last' = [did |-> did, how |-> how]
      /\ thinned' = (thinned \/ how = "groomed") /\ lapse' = lapsed
  BY DEF Finish
<1>2. Kept(d) = b.x
  BY ReadBack
<1> QED BY <1>1, <1>2 DEF Ends

LEMMA SaveEnds ==
  ASSUME NEW b1 \in Blocks, NEW d, Dbs(d), FileIs(d, b1), NEW b \in Blocks, NEW did, NEW how,
         NEW lapsed, Save(d, b, did, how, lapsed)
  PROVE  \/ Ends(b, did, how) /\ lapse' = lapsed
         \/ Ends(b1, did, "denied") /\ lapse' = lapse
<1>1. CASE Finish(WriteBack(d, b), did, how, lapsed)
  <2>1. Dbs(WriteBack(d, b)) /\ FileIs(WriteBack(d, b), b)
    BY WriteBackIs
  <2> QED BY <1>1, <2>1, FinishEnds
<1>2. CASE Finish(d, did, "denied", lapse)
  BY <1>2, FinishEnds
<1> QED BY <1>1, <1>2 DEF Save

\* The rows a call asks for, and how those it leaves follow from them.
AskedRows(b, e, flags) == Left(IF Adds(e, flags) THEN Append(b.x, e) ELSE b.x, e, flags)

Leaves(b, x, how, e, flags) ==
  \/ how = "ok" /\ x = AskedRows(b, e, flags)
  \/ how = "denied" /\ x \in {b.x, AskedRows(b, e, flags)}
  \/ how = "groomed" /\ (x \in Groomed(AskedRows(b, e, flags)) \/ (Adds(e, flags) /\ x \in Groomed(b.x)))
  \/ how = "gave up" /\ x = << >>

\* The example is appended, or denied room, or there is none.
Appending(b, e, flags, a, b1) ==
  \/ ~ Adds(e, flags) /\ b1 = b /\ a.db = db /\ a.how = "ok"
  \/ Adds(e, flags) /\ b1 = Longer(b, e) /\ a.how = "ok"
  \/ /\ Adds(e, flags) /\ b1 = b /\ a.db = db /\ a.how = "denied"
     /\ MayDeny(db, Header(db).end + RowThing(e).size)

LEMMA AppendingIs ==
  ASSUME NEW e \in Examples \cup {None}, NEW flags, NEW b \in Blocks, Dbs(db), FileIs(db, b),
         NEW a \in IF Adds(e, flags) THEN append_vector_to_pca_db(e, Header(db))
                   ELSE {[db |-> db, how |-> "ok"]}
  PROVE  \E b1 \in Blocks : Dbs(a.db) /\ FileIs(a.db, b1) /\ Appending(b, e, flags, a, b1)
<1>1. CASE ~ Adds(e, flags)
  <2>1. a = [db |-> db, how |-> "ok"]
    BY <1>1
  <2>2. a.db = db /\ a.how = "ok"
    BY <2>1
  <2> QED BY <1>1, <2>2 DEF Appending
<1>2. CASE Adds(e, flags)
  <2> DEFINE fh == Header(db)
             m == Marked(fh)
             needed == fh.end + RowThing(e).size
  <2>1. e \in Examples /\ fh # None
    BY <1>2, ReadBack DEF Adds
  <2>2. \/ a = [db |-> Appended(db, m, e), how |-> "ok"]
        \/ a = [db |-> db, how |-> "denied"] /\ MayDeny(db, needed)
    BY <1>2, <2>1 DEF append_vector_to_pca_db, Marked
  <2> HIDE DEF needed
  <2>3. CASE a = [db |-> Appended(db, m, e), how |-> "ok"]
    <3> DEFINE b1 == Longer(b, e)
    <3>1. b1 \in Blocks /\ Dbs(Appended(db, m, e)) /\ FileIs(Appended(db, m, e), b1)
      BY <2>1, AppendedIs
    <3>2. a.db = Appended(db, m, e) /\ a.how = "ok"
      BY <2>3
    <3> HIDE DEF m
    <3> QED BY <1>2, <3>1, <3>2 DEF Appending
  <2>4. CASE a = [db |-> db, how |-> "denied"] /\ MayDeny(db, needed)
    <3>1. a.db = db /\ a.how = "denied"
      BY <2>4
    <3> QED BY <1>2, <2>4, <3>1 DEF Appending, needed
  <2> QED BY <2>2, <2>3, <2>4
<1> QED BY <1>1, <1>2

LEMMA LearnEnds ==
  ASSUME NEW e \in Examples \cup {None}, NEW flags, NEW b \in Blocks, Dbs(db), FileIs(db, b),
         thinned \in BOOLEAN, Fine(b, thinned, lapse), Erases(e, flags) => Readable(db), Learn(e, flags)
  PROVE  \E left \in Blocks : \E how :
           /\ Ends(left, Did(e, flags), how) /\ Leaves(b, left.x, how, e, flags)
           /\ Fine(left, thinned', lapse')
<1> DEFINE did == Did(e, flags)
           asked == AskedRows(b, e, flags)
<1>1. PICK a \in IF Adds(e, flags) THEN append_vector_to_pca_db(e, Header(db))
                 ELSE {[db |-> db, how |-> "ok"]} :
        \E c \in Prepared(e, flags, a.db) :
          IF c.read /\ c.learn /\ "append" \notin flags
          THEN \E r \in pca_learn_new_examples(c.blk, "microgroom" \in flags) :
                 Save([a.db EXCEPT !.cb = r.blk.counts], r.blk, did, Worse(a.how, r.how), "none")
          ELSE IF c.read THEN Save(a.db, c.blk, did, a.how, PutOff(c))
          ELSE Finish(a.db, did, a.how, lapse)
  BY DEF Learn
<1>2. PICK c \in Prepared(e, flags, a.db) :
          IF c.read /\ c.learn /\ "append" \notin flags
          THEN \E r \in pca_learn_new_examples(c.blk, "microgroom" \in flags) :
                 Save([a.db EXCEPT !.cb = r.blk.counts], r.blk, did, Worse(a.how, r.how), "none")
          ELSE IF c.read THEN Save(a.db, c.blk, did, a.how, PutOff(c))
          ELSE Finish(a.db, did, a.how, lapse)
  BY <1>1
<1>3. PICK b1 \in Blocks : Dbs(a.db) /\ FileIs(a.db, b1) /\ Appending(b, e, flags, a, b1)
  BY <1>1, AppendingIs
<1> HIDE DEF did
<1>4. Readable(a.db) => pca_read_db(a.db) = b1
  BY <1>3, ReadBack
<1> DEFINE y == Left(b1.x, e, flags)
<1>5. /\ Adds(e, flags) => ~ Erases(e, flags)
      /\ a.how \in {"ok", "denied"}
      /\ a.how = "ok" => y = asked
      /\ a.how = "denied" => y = b.x /\ Adds(e, flags)
      /\ b1.x \in {b.x, asked}
      /\ a.how = "ok" /\ ~ Erases(e, flags) => b1.x = asked
      /\ a.how = "denied" => b1.x = b.x
  <2>1. Adds(e, flags) => ~ Erases(e, flags)
    BY DEF Adds, Erases
  <2>2. Adds(e, flags) => asked = Append(b.x, e)
    BY <2>1 DEF AskedRows, Left
  <2>3. Longer(b, e).x = Append(b.x, e)
    BY DEF Longer
  <2>4. ~ Adds(e, flags) => asked = Left(b.x, e, flags)
    BY DEF AskedRows
  <2> HIDE DEF asked
  <2> QED BY <1>3, <2>1, <2>2, <2>3, <2>4 DEF Appending, Left
<1>6. Fine(b1, thinned, lapse)
  <2>1. Longer(b, e).has_new = TRUE /\ Longer(b, e).theta = b.theta /\ Longer(b, e).counts = b.counts
    BY DEF Longer
  <2>2. CASE b1 = b
    BY <2>2
  <2>3. CASE b1 = Longer(b, e)
    BY <2>1, <2>3 DEF Fine, Good
  <2> QED BY <1>3, <2>2, <2>3 DEF Appending
<1> HIDE DEF asked
<1>7. ASSUME NEW left, NEW how, Ends(left, did, how), how # "groomed"
      PROVE  thinned' = thinned
  BY <1>7 DEF Ends
\* A call that is denied memory leaves the block as it was appended to.
<1>8. ASSUME Ends(b1, did, "denied"), lapse' = lapse
      PROVE  Leaves(b, b1.x, "denied", e, flags) /\ Fine(b1, thinned', lapse')
  <2>1. thinned' = thinned
    BY <1>7, <1>8
  <2> QED BY <1>5, <1>6, <1>8, <2>1 DEF Leaves, asked
<1>9. CASE ~ (Reads(e, flags) /\ Readable(a.db))
  <2>1. c.read = FALSE
    BY <1>4, <1>9, PreparedIs
  <2>2. Finish(a.db, did, a.how, lapse)
    BY <1>2, <2>1
  <2>3. Ends(b1, did, a.how) /\ lapse' = lapse
    BY <1>3, <2>2, FinishEnds
  <2>4. ~ Erases(e, flags)
    <3> SUFFICES ASSUME Erases(e, flags) PROVE FALSE
      OBVIOUS
    <3>1. Reads(e, flags) /\ ~ Adds(e, flags)
      BY <1>5 DEF Reads
    <3>2. a.db = db
      BY <1>3, <3>1 DEF Appending
    <3> QED BY <1>9, <3>1, <3>2
  <2>5. Leaves(b, b1.x, a.how, e, flags)
    BY <1>5, <2>4 DEF Leaves, asked
  <2>6. thinned' = thinned
    BY <1>5, <1>7, <2>3
  <2> QED BY <1>6, <2>3, <2>5, <2>6 DEF did
<1>10. CASE Reads(e, flags) /\ Readable(a.db)
  <2>1. /\ c.read = TRUE /\ c.blk \in Blocks /\ c.blk.x = y /\ c.blk.has_new = b1.has_new
        /\ \/ c.learn = TRUE /\ ("append" \in flags => c.blk.theta = None /\ c.blk.counts = NoCounts)
           \/ /\ c.learn = FALSE /\ Erases(e, flags) /\ Len(WithoutEqual(b1.x, e)) = Len(b1.x)
              /\ c.blk.theta = b1.theta /\ c.blk.counts = b1.counts
    <3> DEFINE d == a.db
    <3>1. (Readable(d) => pca_read_db(d) = b1) /\ Reads(e, flags) /\ Readable(d) /\ c \in Prepared(e, flags, d)
      BY <1>4, <1>10
    <3> HIDE DEF d
    <3> QED BY <3>1, PreparedIs
  <2>2. CASE c.learn /\ "append" \notin flags
    <3>1. PICK r \in pca_learn_new_examples(c.blk, "microgroom" \in flags) :
                 Save([a.db EXCEPT !.cb = r.blk.counts], r.blk, did, Worse(a.how, r.how), "none")
      BY <1>2, <2>1, <2>2
    <3>2. /\ r.blk \in Blocks /\ Became(y, r.blk.x, r.how)
          /\ \A th \in BOOLEAN : (r.how = "groomed" => th = TRUE) => Good(r.blk, th)
      BY <2>1, LearnedIs
    <3> DEFINE how == Worse(a.how, r.how)
    <3>3. \/ Ends(r.blk, did, how) /\ lapse' = "none"
          \/ Ends(b1, did, "denied") /\ lapse' = lapse
      <4> DEFINE d1 == [a.db EXCEPT !.cb = r.blk.counts]
      <4>1. Dbs(d1) /\ FileIs(d1, b1)
        BY <1>3, SameFile
      <4> HIDE DEF d1
      <4>2. Save(d1, r.blk, did, how, "none")
        BY <3>1 DEF d1
      <4> HIDE DEF how
      <4> QED BY <3>2, <4>1, <4>2, SaveEnds
    <3>4. ASSUME Ends(r.blk, did, how)
          PROVE  Leaves(b, r.blk.x, how, e, flags) /\ Good(r.blk, thinned')
      <4>1. r.how \in {"ok", "groomed", "gave up"} /\ how = IF r.how = "ok" THEN a.how ELSE r.how
        BY <3>2 DEF Became, Worse
      <4>2. thinned' = (thinned \/ how = "groomed")
        BY <3>4 DEF Ends
      <4>3. thinned' \in BOOLEAN /\ (r.how = "groomed" => thinned' = TRUE)
        <5>1. r.how = "groomed" => how = "groomed"
          BY <4>1
        <5> HIDE DEF how
        <5> QED BY <4>2, <5>1
      <4>4. Good(r.blk, thinned')
        BY <3>2, <4>3
      <4>5. Leaves(b, r.blk.x, how, e, flags)
        <5> HIDE DEF how, y
        <5> QED BY <1>5, <3>2, <4>1 DEF Leaves, Became, asked
      <4> QED BY <4>4, <4>5
    <3> HIDE DEF how
    <3>5. CASE Ends(r.blk, did, how) /\ lapse' = "none"
      <4>1. Fine(r.blk, thinned', lapse')
        BY <3>4, <3>5 DEF Fine
      <4> QED BY <3>2, <3>4, <3>5, <4>1 DEF did
    <3>6. CASE Ends(b1, did, "denied") /\ lapse' = lapse
      BY <1>8, <3>6 DEF did
    <3> QED BY <3>3, <3>5, <3>6
  <2>3. CASE ~ (c.learn /\ "append" \notin flags)
    <3>1. Save(a.db, c.blk, did, a.how, PutOff(c))
      BY <1>2, <2>1, <2>3
    <3>2. \/ Ends(c.blk, did, a.how) /\ lapse' = PutOff(c)
          \/ Ends(b1, did, "denied") /\ lapse' = lapse
      BY <1>3, <2>1, <3>1, SaveEnds
    <3>3. ASSUME ~ c.learn PROVE Fine(c.blk, thinned, lapse)
      <4> DEFINE z == WithoutEqual(b1.x, e)
      <4>1. /\ Erases(e, flags) /\ Len(z) = Len(b1.x)
            /\ c.blk.theta = b1.theta /\ c.blk.counts = b1.counts
        BY <2>1, <3>3
      <4>2. c.blk.x = z /\ b1.x \in Seq(Examples) /\ c.blk.x \in Seq(Examples) /\ c.blk.counts \in AllCounts
        BY <2>1, <4>1 DEF Left, Blocks
      <4>3. /\ \A w \in [Examples -> Nat] : Total(w, z) = Total(w, b1.x)
            /\ Range(z) \subseteq Range(b1.x)
        BY <4>1, <4>2, NoneErased
      <4> HIDE DEF z
      <4>4. b1.x = << >> => z = << >>
        <5>1. z \in Seq(Examples)
          BY <4>2
        <5> QED BY <4>1, <5>1, EmptySeq
      <4>5. ASSUME lapse = "none", ~ c.blk.has_new PROVE Known(c.blk.theta, c.blk.x) /\ Counted(c.blk.counts, c.blk.x, thinned)
        <5>1. Known(b1.theta, b1.x) /\ Counted(b1.counts, b1.x, thinned)
          BY <1>6, <2>1, <4>5 DEF Fine, Good
        <5>2. Known(c.blk.theta, z)
          BY <4>1, <4>3, <4>4, <5>1 DEF Known
        <5>3. Counted(b1.counts, z, thinned)
          <6>1. \A w \in [Examples -> Nat] : Total(w, z) <= Total(w, b1.x)
            <7> SUFFICES ASSUME NEW w \in [Examples -> Nat] PROVE Total(w, z) <= Total(w, b1.x)
              OBVIOUS
            <7>1. Total(w, b1.x) \in Nat /\ Total(w, z) = Total(w, b1.x)
              BY <4>2, <4>3, TotalInNat
            <7> QED BY <7>1
          <6> QED BY <4>1, <4>2, <4>3, <5>1, <6>1, FewerCounted
        <5> QED BY <4>1, <4>2, <5>2, <5>3
      <4> QED BY <1>6, <4>1, <4>5 DEF Fine, Good
    <3>4. CASE Ends(c.blk, did, a.how) /\ lapse' = PutOff(c)
      <4>1. thinned' = thinned
        BY <1>5, <1>7, <3>4
      <4>3. Fine(c.blk, thinned', lapse')
        <5>1. CASE c.learn
          <6>1. c.blk.theta = None /\ c.blk.counts = NoCounts
            BY <2>1, <2>3, <5>1
          <6>2. lapse' = "dropped"
            BY <3>4, <5>1 DEF PutOff
          <6> QED BY <6>1, <6>2 DEF Fine
        <5>2. CASE ~ c.learn
          <6>1. lapse' = lapse
            BY <3>4, <5>2 DEF PutOff
          <6> QED BY <3>3, <4>1, <5>2, <6>1
        <5> QED BY <5>1, <5>2
      <4>2. Leaves(b, c.blk.x, a.how, e, flags)
        <5> HIDE DEF y
        <5> QED BY <1>5, <2>1 DEF Leaves, asked
      <4> QED BY <2>1, <3>4, <4>2, <4>3 DEF did
    <3>5. CASE Ends(b1, did, "denied") /\ lapse' = lapse
      BY <1>8, <3>5 DEF did
    <3> QED BY <3>2, <3>4, <3>5
  <2> QED BY <2>2, <2>3
<1> QED BY <1>9, <1>10

-----------------------------------------------------------------------------
(* The steps, and what holds of every state.                               *)

PcaInv ==
  /\ Dbs(db) /\ thinned \in BOOLEAN /\ kept = BagOf(Kept(db))
  /\ NoFile(db) \/ \E b \in Blocks : FileIs(db, b) /\ Fine(b, thinned, lapse)

\* The new database has a new block in it, or no file if there is no room.
LEMMA NewDatabaseIs ==
  ASSUME NEW alloc \in Nat, NEW d, d = NewDatabase(alloc)
  PROVE  Dbs(d) /\ (NoFile(d) \/ FileIs(d, pca_block_init))
<1> DEFINE d0 == [alloc |-> alloc, data |-> << >>, cb |-> NoCounts]
<1>1. d0.data = << >> /\ d0.alloc = alloc /\ d0.cb = NoCounts
  OBVIOUS
<1>2. IsData(<< >>)
  BY DEF IsData
<1>3. Dbs(d0) /\ NoFile(d0)
  BY <1>1, <1>2 DEF Dbs, NoFile
<1>4. d = IF block_size(pca_block_init) <= d0.alloc THEN Written(pca_block_init, d0) ELSE d0
  BY DEF NewDatabase, init_block_pca
<1> HIDE DEF d0
<1>5. block_size(pca_block_init) <= d0.alloc => Dbs(Written(pca_block_init, d0)) /\ FileIs(Written(pca_block_init, d0), pca_block_init)
  BY <1>3, InitBlock, WrittenIs
<1> QED BY <1>3, <1>4, <1>5

NoFileStep(e, flags) ==
  /\ ~ Erases(e, flags)
  /\ db' = db /\ kept' = BagOf(Kept(db)) /\ thinned' = thinned /\ lapse' = lapse
  /\ last' = [did |-> Did(e, flags), how |-> "ok"]

LearnStep(b, e, flags) ==
  \E left \in Blocks : \E how :
    /\ Ends(left, Did(e, flags), how) /\ Leaves(b, left.x, how, e, flags)
    /\ Fine(left, thinned', lapse')

TextStep(b) ==
  \E left \in Blocks :
    /\ Ends(left, [op |-> "text", e |-> None], "ok") /\ left.x = b.x
    /\ Fine(left, thinned', lapse')

\* Without a file nothing happens.
LEMMA NoFileLearn ==
  ASSUME NoFile(db), thinned \in BOOLEAN, NEW e \in Examples \cup {None}, NEW flags,
         ~ Erases(e, flags), Learn(e, flags)
  PROVE  NoFileStep(e, flags)
<1>1. Header(db) = None /\ ~ Readable(db)
  BY NothingThere
<1>2. PICK a \in IF Adds(e, flags) THEN append_vector_to_pca_db(e, Header(db))
                 ELSE {[db |-> db, how |-> "ok"]} :
        \E c \in Prepared(e, flags, a.db) :
          IF c.read /\ c.learn /\ "append" \notin flags
          THEN \E r \in pca_learn_new_examples(c.blk, "microgroom" \in flags) :
                 Save([a.db EXCEPT !.cb = r.blk.counts], r.blk, Did(e, flags), Worse(a.how, r.how), "none")
          ELSE IF c.read THEN Save(a.db, c.blk, Did(e, flags), a.how, PutOff(c))
          ELSE Finish(a.db, Did(e, flags), a.how, lapse)
  BY DEF Learn
<1>3. a = [db |-> db, how |-> "ok"]
  BY <1>1, <1>2 DEF append_vector_to_pca_db
<1>4. a.db = db /\ a.how = "ok"
  BY <1>3
<1>5. PICK c \in Prepared(e, flags, db) :
          IF c.read /\ c.learn /\ "append" \notin flags
          THEN \E r \in pca_learn_new_examples(c.blk, "microgroom" \in flags) :
                 Save([a.db EXCEPT !.cb = r.blk.counts], r.blk, Did(e, flags), Worse(a.how, r.how), "none")
          ELSE IF c.read THEN Save(a.db, c.blk, Did(e, flags), a.how, PutOff(c))
          ELSE Finish(a.db, Did(e, flags), a.how, lapse)
  BY <1>2, <1>4
<1>6. c.read = FALSE
  BY <1>1, <1>5, InitBlock, PreparedIs
<1>7. Finish(db, Did(e, flags), "ok", lapse)
  BY <1>4, <1>5, <1>6
<1>8. thinned' = thinned
  <2>1. thinned' = (thinned \/ "ok" = "groomed")
    BY <1>7 DEF Finish
  <2> QED BY <2>1
<1> QED BY <1>7, <1>8 DEF Finish, NoFileStep

LEMMA ThroughTextIs ==
  ASSUME NEW b \in Blocks, Dbs(db), FileIs(db, b), thinned \in BOOLEAN, Fine(b, thinned, lapse),
         NEW alloc \in Allocs, ThroughText(alloc)
  PROVE  TextStep(b)
<1>1. /\ pca_read_db(db) = b /\ Header(db) # None /\ Header(db) = HeaderOf(b, Header(db).end)
  BY ReadBack
<1>2. has_new_vectors(db) = b.has_new
  <2>1. HeaderOf(b, Header(db).end).has_new = b.has_new
    BY DEF HeaderOf
  <2>2. b.has_new \in BOOLEAN
    BY DEF Blocks
  <2> QED BY <1>1, <2>1, <2>2 DEF has_new_vectors
<1> DEFINE new == NewDatabase(alloc)
           d1 == WriteBack(new, [b EXCEPT !.has_new = FALSE])
           d2 == [d1 EXCEPT !.cb = db.cb]
           did == [op |-> "text", e |-> None]
           lapsed == IF has_new_vectors(db) /\ lapse = "none" THEN "unmarked" ELSE lapse
<1>3. Finish(d2, did, "ok", lapsed)
  BY <1>1 DEF ThroughText, pca_learned_read_text_fp
<1>4. PICK left \in Blocks : /\ left = [b EXCEPT !.has_new = FALSE]
                             /\ left.x = b.x /\ left.theta = b.theta /\ left.counts = b.counts
  <2> DEFINE left == [b EXCEPT !.has_new = FALSE]
  <2>1. b = [theta |-> b.theta, x |-> b.x, has_new |-> b.has_new, counts |-> b.counts]
        /\ b.theta \in Thetas /\ b.x \in Seq(Examples) /\ b.counts \in AllCounts
    BY DEF Blocks
  <2>2. ASSUME NEW no \in BOOLEAN, NEW r, r = [b EXCEPT !.has_new = no]
        PROVE  r \in Blocks /\ r.x = b.x /\ r.theta = b.theta /\ r.counts = b.counts
    <3>1. r = [theta |-> b.theta, x |-> b.x, has_new |-> no, counts |-> b.counts]
      BY <2>1, <2>2
    <3>2. r.x = b.x /\ r.theta = b.theta /\ r.counts = b.counts
      BY <3>1
    <3> QED BY <2>1, <2>2, <3>1, <3>2 DEF Blocks
  <2>3. PICK no \in BOOLEAN : no = FALSE
    OBVIOUS
  <2>4. left = [b EXCEPT !.has_new = no]
    BY <2>3
  <2> HIDE DEF left
  <2>5. left \in Blocks /\ left.x = b.x /\ left.theta = b.theta /\ left.counts = b.counts
    BY <2>2, <2>4
  <2> QED BY <2>5 DEF left
<1>5. Dbs(new)
  BY NewDatabaseIs, PcaStoreAssumption
<1> HIDE DEF new
<1>6. d1 = WriteBack(new, left)
  BY <1>4
<1> HIDE DEF d1
<1>7. Dbs(d1) /\ FileIs(d1, left)
  BY <1>5, <1>6, WriteBackIs
<1>8. Dbs(d2) /\ FileIs(d2, left)
  BY <1>7, SameFile
<1> HIDE DEF d2
<1>9. Ends(left, did, "ok") /\ lapse' = lapsed
  BY <1>3, <1>8, FinishEnds
<1>10. thinned' = thinned
  <2>1. thinned' = (thinned \/ "ok" = "groomed")
    BY <1>9 DEF Ends
  <2> QED BY <2>1
<1>11. Fine(left, thinned', lapse')
  <2>1. lapse' = "none" => lapse = "none" /\ ~ b.has_new
    BY <1>2, <1>9
  <2>2. lapse' = "none" => Known(b.theta, b.x) /\ Counted(b.counts, b.x, thinned)
    BY <2>1 DEF Fine, Good
  <2>3. lapse' = "none" => Good(left, thinned)
    BY <1>4, <2>2 DEF Good
  <2>4. lapse' = "dropped" => lapse = "dropped"
    BY <1>9
  <2>5. lapse' = "dropped" => left.theta = None /\ left.counts = NoCounts
    BY <1>4, <2>4 DEF Fine
  <2> QED BY <1>10, <2>3, <2>5 DEF Fine
<1> QED BY <1>4, <1>9, <1>11 DEF TextStep

\* Every step is a call without a file, or takes the block to another one.
LEMMA StepIs ==
  ASSUME PcaInv, Next
  PROVE  \/ /\ NoFile(db)
            /\ \E e \in Examples \cup {None}, flags \in FlagSets : NoFileStep(e, flags)
         \/ \E b \in Blocks :
              /\ FileIs(db, b) /\ Fine(b, thinned, lapse)
              /\ \/ \E e \in Examples \cup {None}, flags \in FlagSets : LearnStep(b, e, flags)
                 \/ TextStep(b)
<1> USE DEF PcaInv
<1>1. ASSUME NEW e \in Examples \cup {None}, NEW flags \in FlagSets,
             Erases(e, flags) => Kept(db) # << >>, Learn(e, flags)
      PROVE  \/ NoFile(db) /\ NoFileStep(e, flags)
             \/ \E b \in Blocks : FileIs(db, b) /\ Fine(b, thinned, lapse) /\ LearnStep(b, e, flags)
  <2>1. CASE NoFile(db)
    <3>1. ~ Erases(e, flags)
      BY <1>1, <2>1, NothingThere
    <3> QED BY <1>1, <2>1, <3>1, NoFileLearn
  <2>2. CASE ~ NoFile(db)
    <3>1. PICK b \in Blocks : FileIs(db, b) /\ Fine(b, thinned, lapse)
      BY <2>2
    <3>2. Erases(e, flags) => Readable(db)
      BY <1>1 DEF Kept
    <3>3. PICK left \in Blocks : \E how :
           /\ Ends(left, Did(e, flags), how) /\ Leaves(b, left.x, how, e, flags)
           /\ Fine(left, thinned', lapse')
      BY <1>1, <3>1, <3>2, LearnEnds
    <3>4. LearnStep(b, e, flags)
      BY <3>3 DEF LearnStep
    <3> QED BY <3>1, <3>4
  <2> QED BY <2>1, <2>2
<1>2. CASE \E e \in Examples, flags \in FlagSets :
             Erasable(e, flags) /\ Learn(e, flags)
  <2>1. PICK e \in Examples, flags \in FlagSets :
             Erasable(e, flags) /\ Learn(e, flags)
    BY <1>2
  <2>2. Erases(e, flags) => Kept(db) # << >>
    BY <2>1 DEF Erases, Erasable
  <2> QED BY <1>1, <2>1, <2>2
<1>3. CASE \E flags \in FlagSets : Learn(None, flags)
  <2>1. PICK flags \in FlagSets : Learn(None, flags)
    BY <1>3
  <2>2. ~ Erases(None, flags)
    BY DEF Erases
  <2> QED BY <1>1, <2>1, <2>2
<1>4. CASE \E alloc \in Allocs : ThroughText(alloc)
  <2>1. PICK alloc \in Allocs : ThroughText(alloc)
    BY <1>4
  <2>2. Readable(db)
    BY <2>1 DEF ThroughText
  <2>3. PICK b \in Blocks : FileIs(db, b) /\ Fine(b, thinned, lapse)
    BY <2>2, NothingThere
  <2> QED BY <2>1, <2>3, ThroughTextIs
<1> QED BY <1>2, <1>3, <1>4 DEF Next

LEMMA EndsInv ==
  ASSUME NEW left \in Blocks, NEW did, NEW how, thinned \in BOOLEAN, Ends(left, did, how),
         Fine(left, thinned', lapse')
  PROVE  PcaInv'
<1>1. Dbs(db') /\ FileIs(db', left) /\ kept' = BagOf(left.x) /\ thinned' \in BOOLEAN
  BY DEF Ends
<1>2. Kept(db') = left.x
  BY <1>1, ReadBack
<1> QED BY <1>1, <1>2 DEF PcaInv

LEMMA PcaInit ==
  ASSUME Init
  PROVE  PcaInv
<1>1. PICK alloc \in Allocs : db = NewDatabase(alloc)
  BY DEF Init
<1>2. Dbs(db) /\ (NoFile(db) \/ FileIs(db, pca_block_init))
  BY <1>1, NewDatabaseIs, PcaStoreAssumption
<1>3. kept = BagOf(Kept(db)) /\ thinned \in BOOLEAN /\ thinned = FALSE /\ lapse = "none"
  BY DEF Init
<1>4. Fine(pca_block_init, thinned, lapse)
  BY <1>3, InitGood DEF Fine
<1> QED BY <1>2, <1>3, <1>4, InitBlock DEF PcaInv

LEMMA PcaStep ==
  ASSUME PcaInv, [Next]_vars
  PROVE  PcaInv'
<1>1. CASE UNCHANGED vars
  BY <1>1 DEF vars, PcaInv, NoFile
<1>2. CASE Next
  <2>1. CASE NoFile(db) /\ \E e \in Examples \cup {None}, flags \in FlagSets : NoFileStep(e, flags)
    <3>1. db' = db /\ kept' = BagOf(Kept(db)) /\ thinned' = thinned /\ lapse' = lapse
      BY <2>1 DEF NoFileStep
    <3> QED BY <3>1 DEF PcaInv, NoFile
  <2>2. ASSUME NEW b \in Blocks, FileIs(db, b),
               NEW e \in Examples \cup {None}, NEW flags \in FlagSets, LearnStep(b, e, flags)
        PROVE  PcaInv'
    <3>1. PICK left \in Blocks : \E how :
            /\ Ends(left, Did(e, flags), how) /\ Leaves(b, left.x, how, e, flags)
            /\ Fine(left, thinned', lapse')
      BY <2>2 DEF LearnStep
    <3> QED BY <2>2, <3>1, EndsInv DEF PcaInv
  <2>3. ASSUME NEW b \in Blocks, FileIs(db, b), TextStep(b)
        PROVE  PcaInv'
    <3>1. PICK left \in Blocks :
            /\ Ends(left, [op |-> "text", e |-> None], "ok") /\ left.x = b.x
            /\ Fine(left, thinned', lapse')
      BY <2>3 DEF TextStep
    <3> QED BY <2>3, <3>1, EndsInv DEF PcaInv
  <2> QED BY <1>2, <2>1, <2>2, <2>3, StepIs
<1> QED BY <1>1, <1>2

\* Every state's database holds a block, and its flag is right.
THEOREM PcaHolds == Spec => []PcaInv
<1>1. Init => PcaInv
  BY PcaInit
<1>2. PcaInv /\ [Next]_vars => PcaInv'
  BY PcaStep
<1> QED BY <1>1, <1>2, PTL DEF Spec

LEMMA InvFile ==
  ASSUME PcaInv
  PROVE  FileIsWhole
<1>1. CASE NoFile(db)
  BY <1>1, NothingThere DEF FileIsWhole
<1>2. CASE ~ NoFile(db)
  <2>1. PICK b \in Blocks : FileIs(db, b)
    BY <1>2 DEF PcaInv
  <2> DEFINE rows == {p \in DOMAIN db.data : IsRow(db.data[p])}
  <2>2. /\ Header(db).end <= db.alloc
        /\ Readable(db) <=> (b.theta # None \/ b.x # << >>)
        /\ Kept(db) = b.x
        /\ \A p \in DOMAIN db.data : p + db.data[p].size <= Header(db).end
        /\ Cardinality(rows) = Len(b.x)
        /\ b.x = << >> => rows = {}
    BY <2>1, ReadBack DEF PcaInv
  <2> QED BY <2>2 DEF FileIsWhole
<1> QED BY <1>1, <1>2

(* Learned, appended to, erased from, relearned, written out and read in    *)
(* again, by whatever calls and with whatever flags, the file holds what    *)
(* its header says and nothing else: it ends within the block, it reads     *)
(* back if it has an example, and as many rows read back as are in it.      *)
THEOREM FileStaysWhole == Spec => []FileIsWhole
<1>1. PcaInv => FileIsWhole
  BY InvFile
<1> QED BY <1>1, PcaHolds, PTL

LEMMA InvCounts ==
  ASSUME PcaInv
  PROVE  CountsAreLearned
<1> SUFFICES ASSUME Header(db) # None
             PROVE  /\ lapse = "dropped" => Header(db).counts = NoCounts
                    /\ Readable(db) /\ ~ has_new_vectors(db) /\ lapse = "none" =>
                         Counted(Header(db).counts, Kept(db), thinned)
  BY DEF CountsAreLearned, Counted
<1>1. ~ NoFile(db)
  BY NothingThere
<1>2. PICK b \in Blocks : FileIs(db, b) /\ Fine(b, thinned, lapse)
  BY <1>1 DEF PcaInv
<1>3. Header(db) = HeaderOf(b, Header(db).end) /\ Header(db) # None /\ Kept(db) = b.x
  BY <1>2, ReadBack DEF PcaInv
<1>4. HeaderOf(b, Header(db).end).counts = b.counts /\ HeaderOf(b, Header(db).end).has_new = b.has_new
  BY DEF HeaderOf
<1>5. Header(db).counts = b.counts /\ Header(db).has_new = b.has_new
  BY <1>3, <1>4
<1>6. ~ has_new_vectors(db) => ~ b.has_new
  BY <1>3, <1>5 DEF has_new_vectors
<1> QED BY <1>2, <1>3, <1>5, <1>6 DEF Fine, Good

(* Whenever no example waits to be learned or came to be so unmarked, the   *)
(* counts of each class are those of the examples in the file, and at least *)
(* those once some have been groomed; after a start over that was put off,  *)
(* they are zero until the next learn.                                      *)
THEOREM CountsStayLearned == Spec => []CountsAreLearned
<1>1. PcaInv => CountsAreLearned
  BY InvCounts
<1> QED BY <1>1, PcaHolds, PTL

\* What AnswersFromAll asks of a weight vector.
Answers(theta) ==
  /\ has_new_vectors(db) \/ lapse = "none" =>
       IF theta = None THEN kept = EmptyBag ELSE BagToSet(kept) \subseteq theta.knows
  /\ ~ has_new_vectors(db) /\ lapse = "dropped" => theta = None

LEMMA InvAnswers ==
  ASSUME PcaInv
  PROVE  AnswersFromAll
<1> SUFFICES ASSUME NEW theta \in Weighing(db) PROVE Answers(theta)
  BY DEF AnswersFromAll, Answers
<1>1. ASSUME NEW x \in Seq(Examples), kept = BagOf(x), Known(theta, x)
      PROVE  IF theta = None THEN kept = EmptyBag ELSE BagToSet(kept) \subseteq theta.knows
  <2>1. CASE theta = None
    BY <1>1, <2>1, BagOfNone DEF Known
  <2>2. CASE theta # None
    <3>1. DOMAIN BagOf(x) = Range(x)
      BY DEF BagOf
    <3> QED BY <1>1, <2>2, <3>1 DEF Known, BagToSet
  <2> QED BY <2>1, <2>2
<1>2. CASE NoFile(db)
  <2>1. theta = None
    BY <1>2, NothingThere DEF Weighing, get_solution_from_pca_db
  <2>2. kept = BagOf(<< >>)
    BY <1>2, NothingThere DEF PcaInv
  <2>3. ~ has_new_vectors(db)
    BY <1>2, NothingThere
  <2> QED BY <2>1, <2>2, <2>3, BagOfNone DEF Answers
<1>3. CASE ~ NoFile(db)
  <2>1. PICK b \in Blocks : FileIs(db, b) /\ Fine(b, thinned, lapse)
    BY <1>3 DEF PcaInv
  <2>2. /\ Header(db) = HeaderOf(b, Header(db).end) /\ Header(db) # None /\ Kept(db) = b.x
        /\ Readable(db) <=> (b.theta # None \/ b.x # << >>)
        /\ pca_read_db(db) = b
    BY <2>1, ReadBack DEF PcaInv
  <2>3. kept = BagOf(b.x) /\ b.x \in Seq(Examples)
    BY <2>2 DEF PcaInv, Blocks
  <2>4. /\ Header(db).has_new = b.has_new
        /\ Header(db).has_solution <=> b.theta # None
    <3>1. /\ HeaderOf(b, Header(db).end).has_new = b.has_new
          /\ HeaderOf(b, Header(db).end).has_solution <=> b.theta # None
      BY DEF HeaderOf
    <3> QED BY <2>2, <3>1
  <2>5. CASE ~ has_new_vectors(db)
    <3>1. theta = get_solution_from_pca_db(db)
      BY <2>5 DEF Weighing
    <3>2. ~ b.has_new
      BY <2>2, <2>4, <2>5 DEF has_new_vectors
    <3>3. /\ lapse = "none" => Known(b.theta, b.x)
          /\ lapse = "dropped" => b.theta = None
      BY <2>1, <3>2 DEF Fine, Good
    <3>4. b.theta # None => ThetaOf(db) = b.theta
      <4>1. (IF Header(db).has_solution THEN ThetaOf(db) ELSE None) = b.theta
        <5>1. pca_read_db(db).theta = IF Header(db).has_solution THEN ThetaOf(db) ELSE None
          BY DEF pca_read_db
        <5> QED BY <2>2, <5>1
      <4> QED BY <2>4, <4>1
    <3>5. theta = b.theta
      BY <2>2, <2>4, <3>1, <3>4 DEF get_solution_from_pca_db
    <3> QED BY <1>1, <2>3, <2>5, <3>3, <3>5 DEF Answers
  <2>6. CASE has_new_vectors(db) /\ ~ Readable(db)
    <3>1. theta = None
      BY <2>6 DEF Weighing
    <3> QED BY <2>2, <2>3, <2>6, <3>1, BagOfNone DEF Answers
  <2>7. CASE has_new_vectors(db) /\ Readable(db)
    <3>1. PICK r \in pca_learn_new_examples(b, FALSE) : r.how # "gave up" /\ theta = r.blk.theta
      BY <2>2, <2>7 DEF Weighing
    <3>2. Known(theta, b.x)
      BY <3>1, LearnedIs
    <3> QED BY <1>1, <2>3, <2>7, <3>2 DEF Answers
  <2> QED BY <2>5, <2>6, <2>7
<1> QED BY <1>2, <1>3

(* A text is never weighed with a vector that misses an example in the      *)
(* file, if examples are marked as new, or none came to be neither learned  *)
(* nor marked; and after a start over that was put off and marked nothing,  *)
(* it is weighed with no vector at all.                                     *)
THEOREM AnswersStayFromAll == Spec => []AnswersFromAll
<1>1. PcaInv => AnswersFromAll
  BY InvAnswers
<1> QED BY <1>1, PcaHolds, PTL

-----------------------------------------------------------------------------
(* The store implements the set of examples.                               *)

\* What the set asks for, by what the call is to do.
LEMMA AskedOf ==
  ASSUME NEW e, NEW op, NEW how, last' = [did |-> [op |-> op, e |-> e], how |-> how]
  PROVE  /\ op = "add" /\ 0 \in DOMAIN db.data => Set!Asked = kept (+) SetToBag({e})
         /\ op = "add" /\ 0 \notin DOMAIN db.data => Set!Asked = kept
         /\ op = "erase" => Set!Asked = [x \in DOMAIN kept \ {e} |-> kept[x]]
         /\ op \in {"relearn", "text"} => Set!Asked = kept
<1>1. last'.did.e = e /\ last'.did.op = op
  OBVIOUS
<1>2. Set!(+)(kept, Set!SetToBag({e})) = kept (+) SetToBag({e})
  BY DEF Set!(+), (+), SetToBag, Set!SetToBag
<1>3. ASSUME op = "add", 0 \in DOMAIN db.data PROVE Set!Asked = Set!(+)(kept, Set!SetToBag({e}))
  BY <1>1, <1>3 DEF Set!Asked
<1>4. ASSUME op = "add", 0 \notin DOMAIN db.data PROVE Set!Asked = kept
  BY <1>1, <1>4 DEF Set!Asked
<1>5. ASSUME op = "erase" PROVE Set!Asked = [x \in DOMAIN kept \ {e} |-> kept[x]]
  BY <1>1, <1>5 DEF Set!Asked
<1>6. ASSUME op \in {"relearn", "text"} PROVE Set!Asked = kept
  BY <1>1, <1>6 DEF Set!Asked
<1> QED BY <1>2, <1>3, <1>4, <1>5, <1>6

LEMMA DidOp ==
  ASSUME NEW e, NEW flags
  PROVE  \E op : /\ Did(e, flags) = [op |-> op, e |-> e]
                 /\ \/ Adds(e, flags) /\ ~ Erases(e, flags) /\ op = "add"
                    \/ ~ Adds(e, flags) /\ Erases(e, flags) /\ op = "erase"
                    \/ ~ Adds(e, flags) /\ ~ Erases(e, flags) /\ op = "relearn"
<1> DEFINE op == IF Adds(e, flags) THEN "add" ELSE IF e # None THEN "erase" ELSE "relearn"
<1>1. Did(e, flags) = [op |-> op, e |-> e]
  BY DEF Did
<1>2. \/ Adds(e, flags) /\ ~ Erases(e, flags) /\ op = "add"
      \/ ~ Adds(e, flags) /\ Erases(e, flags) /\ op = "erase"
      \/ ~ Adds(e, flags) /\ ~ Erases(e, flags) /\ op = "relearn"
  BY DEF Adds, Erases
<1> HIDE DEF op
<1> QED BY <1>1, <1>2

\* The rows a call asks for are the bag the set asks for.
LEMMA AskedBag ==
  ASSUME Distinct, NEW b \in Blocks, NEW e \in Examples \cup {None}, NEW flags, NEW how,
         0 \in DOMAIN db.data, kept = BagOf(b.x), last' = [did |-> Did(e, flags), how |-> how]
  PROVE  /\ AskedRows(b, e, flags) \in Seq(Examples)
         /\ BagOf(AskedRows(b, e, flags)) = Set!Asked
         /\ Adds(e, flags) => \A o \in Examples : Total(One(o), b.x) <= Total(One(o), AskedRows(b, e, flags))
<1>1. PICK op : /\ Did(e, flags) = [op |-> op, e |-> e]
                /\ \/ Adds(e, flags) /\ ~ Erases(e, flags) /\ op = "add"
                   \/ ~ Adds(e, flags) /\ Erases(e, flags) /\ op = "erase"
                   \/ ~ Adds(e, flags) /\ ~ Erases(e, flags) /\ op = "relearn"
  BY DidOp
<1>2. last' = [did |-> [op |-> op, e |-> e], how |-> how]
  BY <1>1
<1>3. b.x \in Seq(Examples) /\ \A o : One(o) \in [Examples -> Nat]
  BY Weights DEF Blocks
<1>4. CASE Adds(e, flags) /\ ~ Erases(e, flags) /\ op = "add"
  <2> DEFINE more == Append(b.x, e)
  <2>1. e \in Examples /\ AskedRows(b, e, flags) = more
    BY <1>4 DEF AskedRows, Left, Adds
  <2>2. more \in Seq(Examples) /\ \A o \in Examples : Total(One(o), more) = Total(One(o), b.x) + One(o)[e]
    <3>1. more \in Seq(Examples)
      BY <1>3, <2>1, AppendProperties
    <3>2. ASSUME NEW o \in Examples PROVE Total(One(o), more) = Total(One(o), b.x) + One(o)[e]
      <4>1. One(o) \in [Examples -> Nat]
        BY <1>3
      <4> QED BY <1>3, <2>1, <4>1, TotalAppend
    <3> QED BY <3>1, <3>2
  <2> HIDE DEF more
  <2>3. BagOf(more) = BagOf(b.x) (+) SetToBag({e})
    BY <1>3, <2>1, <2>2, BagOfMore
  <2>4. Set!Asked = kept (+) SetToBag({e})
    BY <1>2, <1>4, AskedOf
  <2>5. ASSUME NEW o \in Examples PROVE Total(One(o), b.x) <= Total(One(o), more)
    <3>1. Total(One(o), b.x) \in Nat /\ One(o)[e] \in Nat
      BY <1>3, <2>1, TotalInNat
    <3> QED BY <2>2, <3>1
  <2> QED BY <2>1, <2>2, <2>3, <2>4, <2>5
<1>5. CASE ~ Adds(e, flags) /\ Erases(e, flags) /\ op = "erase"
  <2> DEFINE left == WithoutEqual(b.x, e)
             gone == Len(b.x) - Len(left)
  <2>1. e \in Examples /\ AskedRows(b, e, flags) = left
    BY <1>5 DEF AskedRows, Left, Erases
  <2>2. /\ left \in Seq(Examples) /\ gone \in Nat /\ e \notin Range(left)
        /\ \A w \in [Examples -> Nat] : Total(w, left) + gone * w[e] = Total(w, b.x)
    BY <1>3, <2>1, ErasedIs
  <2> HIDE DEF left, gone
  <2>3. ASSUME NEW o \in Examples
        PROVE  Total(One(o), left) = IF o = e THEN 0 ELSE Total(One(o), b.x)
    <3>1. Total(One(o), left) \in Nat /\ Total(One(o), b.x) \in Nat
      BY <1>3, <2>2, TotalInNat
    <3>2. CASE o = e
      <4>1. ~ (Total(One(e), left) > 0)
        BY <2>1, <2>2, RangeIs
      <4> QED BY <3>1, <3>2, <4>1
    <3>3. CASE o # e
      <4>1. One(o)[e] = 0
        BY <2>1, <3>3 DEF One
      <4>2. Total(One(o), left) + gone * One(o)[e] = Total(One(o), b.x)
        BY <1>3, <2>2
      <4> QED BY <2>2, <3>1, <3>3, <4>1, <4>2
    <3> QED BY <3>2, <3>3
  <2>4. BagOf(left) = [x \in DOMAIN BagOf(b.x) \ {e} |-> BagOf(b.x)[x]]
    <3>1. b.x \in Seq(Examples)
      BY <1>3
    <3>2. BagOf(left) = Without(BagOf(b.x), e)
      BY <2>1, <2>2, <2>3, <3>1, BagWithout
    <3> QED BY <3>2 DEF Without
  <2>5. Set!Asked = [x \in DOMAIN kept \ {e} |-> kept[x]]
    BY <1>2, <1>5, AskedOf
  <2> QED BY <1>5, <2>1, <2>2, <2>4, <2>5
<1>6. CASE ~ Adds(e, flags) /\ ~ Erases(e, flags) /\ op = "relearn"
  <2>1. AskedRows(b, e, flags) = b.x
    BY <1>6 DEF AskedRows, Left
  <2>2. Set!Asked = kept
    BY <1>2, <1>6, AskedOf
  <2> QED BY <1>3, <1>6, <2>1, <2>2
<1> QED BY <1>1, <1>4, <1>5, <1>6

LEMMA SetBags ==
  /\ Set!EmptyBag = EmptyBag
  /\ \A s, t : Set!\sqsubseteq(s, t) <=> s \sqsubseteq t
<1>1. Set!EmptyBag = EmptyBag
  BY DEF EmptyBag, SetToBag, Set!EmptyBag, Set!SetToBag
<1>2. ASSUME NEW s, NEW t PROVE Set!\sqsubseteq(s, t) <=> s \sqsubseteq t
  BY DEF Set!\sqsubseteq, \sqsubseteq
<1> QED BY <1>1, <1>2

\* However a call ends, the set may end so too.
LEMMA LearnRefines ==
  ASSUME Distinct, PcaInv, NEW b \in Blocks, FileIs(db, b), NEW e \in Examples \cup {None}, NEW flags,
         LearnStep(b, e, flags)
  PROVE  Set!Next
<1>1. PICK left \in Blocks : \E how : Ends(left, Did(e, flags), how) /\ Leaves(b, left.x, how, e, flags)
  BY DEF LearnStep
<1>2. PICK how : Ends(left, Did(e, flags), how) /\ Leaves(b, left.x, how, e, flags)
  BY <1>1
<1>3. /\ Dbs(db') /\ FileIs(db', left) /\ kept' = BagOf(left.x)
      /\ last' = [did |-> Did(e, flags), how |-> how]
  BY <1>2 DEF Ends
<1>4. 0 \in DOMAIN db.data /\ kept = BagOf(b.x)
  BY ReadBack DEF PcaInv
<1>5. 0 \in DOMAIN db'.data
  BY <1>3, ReadBack
<1>6. (0 \in DOMAIN db.data)' <=> 0 \in DOMAIN db.data
  BY <1>4, <1>5
<1> DEFINE asked == AskedRows(b, e, flags)
<1>7. /\ asked \in Seq(Examples) /\ BagOf(asked) = Set!Asked
      /\ Adds(e, flags) => \A o \in Examples : Total(One(o), b.x) <= Total(One(o), asked)
  BY <1>3, <1>4, AskedBag
<1> HIDE DEF asked
<1>8. last'.how = how
  BY <1>3
<1>9. left.x \in Seq(Examples) /\ b.x \in Seq(Examples)
  BY DEF Blocks
<1>10. CASE how = "ok" /\ left.x = asked
  BY <1>3, <1>6, <1>7, <1>8, <1>10 DEF Set!Next, Set!Done
<1>11. CASE how = "denied" /\ left.x \in {b.x, asked}
  BY <1>3, <1>4, <1>6, <1>7, <1>8, <1>11 DEF Set!Next, Set!Denied
<1>12. CASE how = "groomed" /\ (left.x \in Groomed(asked) \/ (Adds(e, flags) /\ left.x \in Groomed(b.x)))
  <2>1. ASSUME NEW o \in Examples PROVE Total(One(o), left.x) <= Total(One(o), asked)
    <3>1. One(o) \in [Examples -> Nat]
      BY Weights
    <3>2. Total(One(o), left.x) \in Nat /\ Total(One(o), asked) \in Nat /\ Total(One(o), b.x) \in Nat
      BY <1>7, <1>9, <3>1, TotalInNat
    <3>3. CASE left.x \in Groomed(asked)
      BY <1>7, <3>1, <3>3, GroomedIs
    <3>4. CASE Adds(e, flags) /\ left.x \in Groomed(b.x)
      <4>1. Total(One(o), left.x) <= Total(One(o), b.x)
        BY <1>9, <3>1, <3>4, GroomedIs
      <4> QED BY <1>7, <3>2, <3>4, <4>1
    <3> QED BY <1>12, <3>3, <3>4
  <2>2. BagOf(left.x) \sqsubseteq BagOf(asked)
    BY <1>7, <1>9, <2>1, BagOfLess
  <2>3. Set!\sqsubseteq(kept', Set!Asked)
    BY <1>3, <1>7, <2>2, SetBags
  <2> QED BY <1>6, <1>8, <1>12, <2>3 DEF Set!Next, Set!Groomed
<1>13. CASE how = "gave up" /\ left.x = << >>
  <2>1. kept' = Set!EmptyBag
    BY <1>3, <1>13, BagOfNone, SetBags
  <2>2. Set!GaveUp
    BY <1>8, <1>13, <2>1 DEF Set!GaveUp
  <2> QED BY <1>6, <2>2 DEF Set!Next
<1>14. \/ how = "ok" /\ left.x = asked
       \/ how = "denied" /\ left.x \in {b.x, asked}
       \/ how = "groomed" /\ (left.x \in Groomed(asked) \/ (Adds(e, flags) /\ left.x \in Groomed(b.x)))
       \/ how = "gave up" /\ left.x = << >>
  BY <1>2 DEF Leaves, asked
<1> QED BY <1>10, <1>11, <1>12, <1>13, <1>14

LEMMA TextRefines ==
  ASSUME PcaInv, NEW b \in Blocks, FileIs(db, b), TextStep(b)
  PROVE  Set!Next
<1>1. PICK left \in Blocks : Ends(left, [op |-> "text", e |-> None], "ok") /\ left.x = b.x
  BY DEF TextStep
<1>2. /\ Dbs(db') /\ FileIs(db', left) /\ kept' = BagOf(left.x)
      /\ last' = [did |-> [op |-> "text", e |-> None], how |-> "ok"]
  BY <1>1 DEF Ends
<1>3. 0 \in DOMAIN db.data /\ kept = BagOf(b.x)
  BY ReadBack DEF PcaInv
<1>4. 0 \in DOMAIN db'.data
  BY <1>2, ReadBack
<1>5. (0 \in DOMAIN db.data)' <=> 0 \in DOMAIN db.data
  BY <1>3, <1>4
<1>6. Set!Asked = kept
  BY <1>2, AskedOf
<1>7. last'.how = "ok" /\ kept' = kept
  BY <1>1, <1>2, <1>3
<1> QED BY <1>5, <1>6, <1>7 DEF Set!Next, Set!Done

LEMMA NoFileRefines ==
  ASSUME PcaInv, NoFile(db), NEW e, NEW flags, NoFileStep(e, flags)
  PROVE  Set!Next
<1>1. /\ ~ Erases(e, flags) /\ db' = db /\ kept' = kept
      /\ last' = [did |-> Did(e, flags), how |-> "ok"]
  BY DEF NoFileStep, PcaInv
<1>2. 0 \notin DOMAIN db.data
  BY NothingThere
<1>3. (0 \in DOMAIN db.data)' <=> 0 \in DOMAIN db.data
  BY <1>1
<1>4. PICK op : Did(e, flags) = [op |-> op, e |-> e] /\ op \in {"add", "relearn"}
  BY <1>1, DidOp
<1>5. last' = [did |-> [op |-> op, e |-> e], how |-> "ok"]
  BY <1>1, <1>4
<1>6. Set!Asked = kept
  BY <1>2, <1>4, <1>5, AskedOf
<1>7. last'.how = "ok"
  BY <1>5
<1> QED BY <1>1, <1>3, <1>6, <1>7 DEF Set!Next, Set!Done

LEMMA InitRefines ==
  ASSUME Init
  PROVE  Set!Init
<1>1. PcaInv
  BY PcaInit
<1>2. PICK alloc \in Allocs : db = NewDatabase(alloc)
  BY DEF Init
<1>3. Dbs(db) /\ (NoFile(db) \/ FileIs(db, pca_block_init))
  BY <1>2, NewDatabaseIs, PcaStoreAssumption
<1>4. Kept(db) = << >>
  BY <1>3, NothingThere, ReadBack, InitBlock
<1>5. kept = EmptyBag
  BY <1>4, BagOfNone DEF Init
<1>6. last.did.op = "new"
  BY DEF Init
<1> QED BY <1>5, <1>6, SetBags DEF Set!Init

(* Where two examples are only taken for the same if they are, the file    *)
(* keeps what was learned and not erased, through appends, learning,       *)
(* grooming, denied memory, a solver that gives up, and the written form.  *)
THEOREM PcaImplementsSet ==
  ASSUME Distinct
  PROVE  Spec => ImplementsSet
<1>1. Init => Set!Init
  BY InitRefines
<1>2. PcaInv /\ [Next]_vars => [Set!Next]_<<0 \in DOMAIN db.data, kept, last>>
  <2> SUFFICES ASSUME PcaInv, [Next]_vars
               PROVE  [Set!Next]_<<0 \in DOMAIN db.data, kept, last>>
    OBVIOUS
  <2>1. CASE UNCHANGED vars
    BY <2>1 DEF vars
  <2>2. CASE Next
    <3>1. CASE NoFile(db) /\ \E e \in Examples \cup {None}, flags \in FlagSets : NoFileStep(e, flags)
      BY <3>1, NoFileRefines
    <3>2. ASSUME NEW b \in Blocks, FileIs(db, b),
                 \/ \E e \in Examples \cup {None}, flags \in FlagSets : LearnStep(b, e, flags)
                 \/ TextStep(b)
          PROVE  Set!Next
      BY <3>2, LearnRefines, TextRefines
    <3> QED BY <2>2, <3>1, <3>2, StepIs
  <2> QED BY <2>1, <2>2
<1> QED BY <1>1, <1>2, PcaHolds, PTL DEF Spec, ImplementsSet, Set!Spec
=============================================================================
