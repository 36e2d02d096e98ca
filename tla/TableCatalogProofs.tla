-------------------------- MODULE TableCatalogProofs --------------------------
(***************************************************************************)
(* Proofs about TableCatalog: whatever power cuts come between its bytes,  *)
(* no catalog is opened but the whole one of the firmware in the device.   *)
(***************************************************************************)
EXTENDS TableCatalog, Integers, Sequences, SequencesExt, WellFoundedInduction,
        SequenceTheorems, TLAPS

-----------------------------------------------------------------------------
(***************************************************************************)
(* Induction over numbers, as facts about sets of them: a theorem with an  *)
(* operator as its parameter cannot be applied by the provers, one with a  *)
(* set can.                                                                *)
(***************************************************************************)

(* A set of natural numbers has a least element.                           *)
LEMMA LeastElement ==
  ASSUME NEW T, T \subseteq Nat, T # {}
  PROVE  \E x \in T : \A y \in T : x <= y
<1> DEFINE R == OpToRel(<, Nat)
<1>1. IsWellFoundedOn(R, Nat)
  BY NatLessThanWellFounded
<1>2. \A x, y \in Nat : x < y => <<x, y>> \in R
  BY SMT DEF OpToRel
<1> HIDE DEF R
<1>3. PICK x \in T : \A y \in T : ~(<<y, x>> \in R)
  BY <1>1, WFMin
<1>4. ASSUME NEW y \in T
      PROVE  x <= y
  <2>1. x \in Nat /\ y \in Nat
    OBVIOUS
  <2>2. ~(y < x)
    BY <1>2, <1>3, <2>1
  <2> QED BY <2>1, <2>2, SMT
<1> QED BY <1>4

(* A set that holds zero, and with a number its successor, holds them all. *)
LEMMA SetInduction ==
  ASSUME NEW S, S \subseteq Nat, 0 \in S, \A n \in S : n + 1 \in S
  PROVE  S = Nat
<1> SUFFICES ASSUME Nat \ S # {} PROVE FALSE
  OBVIOUS
<1>1. PICK x \in Nat \ S : \A y \in Nat \ S : x <= y
  BY LeastElement
<1>2. x - 1 \in Nat /\ x - 1 < x
  BY <1>1, SMT
<1>3. x - 1 \in S
  BY <1>1, <1>2, SMT
<1> QED BY <1>1, <1>2, <1>3, SMT

-----------------------------------------------------------------------------
(***************************************************************************)
(* The inductive invariant.                                                *)
(***************************************************************************)

(* The rows that the firmware creates, and the bytes it commits.           *)
SchemaRow(s, t) ==
  [index |-> Layout(s)[t], data |-> Layout(s)[t] + s[t].max + 1,
   size |-> s[t].size, max |-> s[t].max]

SchemaRows(s) == [t \in 1..Len(s) |-> SchemaRow(s, t)]

SchemaBytes(s) == CatalogWrites(SchemaRows(s))

NumWrites(s) == 8 * Len(s) + 2

(* The first k bytes have been written to an erased EEPROM.                *)
WrittenUpTo(mem, bytes, k) ==
  /\ \A i \in 1..k : ByteOf(mem, bytes[i][1]) = bytes[i][2]
  /\ \A a \in 0..(EESize - 1) :
       (\A i \in 1..k : bytes[i][1] # a) => ByteOf(mem, a) = EE_CLEAR_VALUE

(* Every byte but the number of tables, which may have been zeroed.        *)
WrittenBut1(mem, s) ==
  /\ \A i \in 2..NumWrites(s) : ByteOf(mem, SchemaBytes(s)[i][1]) = SchemaBytes(s)[i][2]
  /\ ByteOf(mem, ADDR_NUM_TABLES) \in {Len(s), 0}

Fits(s) == Layout(s)[Len(s) + 1] <= EESize

RowSet == [index : 0..(W - 1), data : 0..(W - 1), size : 0..255, max : 0..255]

CatalogType ==
  /\ TypeOK
  /\ rows \in Seq(RowSet)
  /\ writes \in Seq(Nat \X (0..255))
  /\ status \in {"off", "clearing"} => created = 0

(* Only a catalog of the firmware in the device has its number of tables,  *)
(* and unless it is whole, some of the last bytes are not written.         *)
UnopenedOK ==
  ByteOf(ee, ADDR_NUM_TABLES) = Len(schema) =>
    /\ Fits(schema)
    /\ \/ HoldsCatalog(ee, SchemaRows(schema))
       \/ \E k \in 1..(NumWrites(schema) - 1) : WrittenUpTo(ee, SchemaBytes(schema), k)

(* What was loaded of a catalog that is not whole leaves no row free.      *)
NoRowFree == \A t \in 1..Len(schema) : rows[t].max # 0

ClearingOK == rows = [t \in 1..Len(schema) |-> NoRow] \/ NoRowFree

CreatingOK ==
  /\ DOMAIN ee = {}
  /\ \/ NoRowFree /\ created = 0
     \/ /\ rows = [t \in 1..Len(schema) |-> IF t <= created THEN SchemaRow(schema, t) ELSE NoRow]
        /\ device.asserts /\ created # 0 => Layout(schema)[created + 1] <= EESize

CommittingOK ==
  /\ rows = SchemaRows(schema)
  /\ Fits(schema)
  /\ \E k \in 0..NumWrites(schema) :
       /\ writes = SubSeq(SchemaBytes(schema), k + 1, NumWrites(schema))
       /\ WrittenUpTo(ee, SchemaBytes(schema), k)

OpenOK ==
  /\ rows = SchemaRows(schema)
  /\ Fits(schema)
  /\ WrittenBut1(ee, schema)

CatalogInv ==
  /\ CatalogType
  /\ status \in {"off", "clearing", "halted"} => UnopenedOK
  /\ status = "clearing" => ClearingOK
  /\ status = "creating" => CreatingOK
  /\ status = "committing" => CommittingOK
  /\ status = "open" => OpenOK

-----------------------------------------------------------------------------
(***************************************************************************)
(* The layout of a schema.                                                 *)
(***************************************************************************)
Schemas == {s \in Seq([max : 1..250, size : 1..250]) : Len(s) \in 1..250}

AreaSize(s, t) == s[t].size * s[t].max

LayoutStep(s, f, t) ==
  IF t = 1 THEN Len(s) * TABLE_CATALOG_ROW_SIZE + 2
  ELSE f[t - 1] + s[t - 1].max + AreaSize(s, t - 1) + 2

IsLayout(s, k, f) == f = [t \in 1..k |-> LayoutStep(s, f, t)]

LEMMA LayoutExists ==
  ASSUME NEW s, NEW k \in Nat
  PROVE  \E f : IsLayout(s, k, f)
<1> DEFINE S == {j \in Nat : \E f : IsLayout(s, j, f)}
<1>1. 0 \in S
  <2> DEFINE f == [t \in 1..0 |-> 0]
  <2>1. IsLayout(s, 0, f)
    BY SMT DEF IsLayout
  <2> QED BY <2>1
<1>2. ASSUME NEW j \in S
      PROVE  j + 1 \in S
  <2>1. PICK f : IsLayout(s, j, f)
    OBVIOUS
  <2> DEFINE g == [t \in 1..(j + 1) |-> IF t = j + 1 THEN LayoutStep(s, f, t) ELSE f[t]]
  <2>2. IsLayout(s, j + 1, g)
    BY <2>1, SMT DEF IsLayout, LayoutStep
  <2> QED BY <2>2
<1>3. S = Nat
  BY <1>1, <1>2, SetInduction
<1> QED BY <1>3

LEMMA LayoutIs ==
  ASSUME NEW s, Len(s) \in Nat
  PROVE  IsLayout(s, Len(s) + 1, Layout(s))
<1> DEFINE f == CHOOSE g : IsLayout(s, Len(s) + 1, g)
<1>1. IsLayout(s, Len(s) + 1, f)
  BY LayoutExists
<1>2. Layout(s) = f
  BY DEF Layout, IsLayout, LayoutStep, AreaSize
<1> QED BY <1>1, <1>2

IsShape(s, t) ==
  /\ s[t].max \in 1..250 /\ s[t].size \in 1..250
  /\ AreaSize(s, t) \in Nat /\ AreaSize(s, t) >= 1 /\ AreaSize(s, t) <= 62500

LEMMA ShapeOf ==
  ASSUME NEW s \in Schemas
  PROVE  \A t \in 1..Len(s) : IsShape(s, t)
<1> SUFFICES ASSUME NEW t \in 1..Len(s) PROVE IsShape(s, t)
  OBVIOUS
<1> DEFINE Shapes == [max : 1..250, size : 1..250]
<1>1. s \in Seq(Shapes)
  BY DEF Schemas
<1>2. ASSUME NEW shape \in Shapes
      PROVE  shape.max \in 1..250 /\ shape.size \in 1..250
  OBVIOUS
<1> HIDE DEF Shapes
<1>3. s[t] \in Shapes
  BY <1>1
<1> DEFINE a == s[t].size
           b == s[t].max
<1>4. b \in 1..250 /\ a \in 1..250
  BY <1>2, <1>3
<1> HIDE DEF a, b
<1>5. a * b \in Nat /\ a * b >= 1 /\ a * b <= 62500
  <2>1. 1 <= a /\ a <= 250 /\ 1 <= b /\ b <= 250 /\ a \in Int /\ b \in Int
    BY <1>4, SMT
  <2> QED BY <2>1, SMT
<1> QED BY <1>4, <1>5 DEF AreaSize, IsShape, a, b

LEMMA ShapeIsNat ==
  ASSUME NEW s, NEW t, IsShape(s, t)
  PROVE  s[t].max \in Nat /\ s[t].size \in Nat /\ AreaSize(s, t) \in Nat
BY DEF IsShape

LEMMA LayoutSteps ==
  ASSUME NEW s \in Schemas
  PROVE  /\ Len(s) \in 1..250
         /\ Layout(s)[1] = 6 * Len(s) + 2
         /\ \A t \in 1..Len(s) :
              Layout(s)[t + 1] = Layout(s)[t] + s[t].max + AreaSize(s, t) + 2
<1> DEFINE f == Layout(s)
<1>1. Len(s) \in 1..250
  BY DEF Schemas
<1>2. f = [t \in 1..(Len(s) + 1) |-> LayoutStep(s, f, t)]
  BY <1>1, LayoutIs DEF IsLayout
<1> HIDE DEF f
<1>3. \A t \in 1..(Len(s) + 1) : f[t] = LayoutStep(s, f, t)
  BY <1>2
<1>4. f[1] = 6 * Len(s) + 2
  BY <1>1, <1>3, SMT DEF LayoutStep, TABLE_CATALOG_ROW_SIZE
<1>5. ASSUME NEW t \in 1..Len(s)
      PROVE  f[t + 1] = f[t] + s[t].max + AreaSize(s, t) + 2
  <2>1. t + 1 \in 1..(Len(s) + 1) /\ t + 1 # 1 /\ (t + 1) - 1 = t
    BY <1>1, SMT
  <2>2. f[t + 1] = LayoutStep(s, f, t + 1)
    BY <1>3, <2>1
  <2> QED BY <2>1, <2>2 DEF LayoutStep
<1> QED BY <1>1, <1>4, <1>5 DEF f

LEMMA LayoutNat ==
  ASSUME NEW s \in Schemas
  PROVE  \A u \in 1..(Len(s) + 1) : Layout(s)[u] \in Nat /\ Layout(s)[u] >= 6 * Len(s) + 2
<1> DEFINE f == Layout(s)
           P(u) == f[u] \in Nat /\ f[u] >= 6 * Len(s) + 2
           S == {j \in Nat : j + 1 \in 1..(Len(s) + 1) => P(j + 1)}
<1>1. Len(s) \in 1..250 /\ f[1] = 6 * Len(s) + 2
  BY LayoutSteps
<1>2. \A t \in 1..Len(s) : f[t + 1] = f[t] + s[t].max + AreaSize(s, t) + 2
  BY LayoutSteps
<1>3. \A t \in 1..Len(s) : IsShape(s, t)
  BY ShapeOf
<1> HIDE DEF f
<1>4. 0 \in S
  BY <1>1, SMT
<1>5. ASSUME NEW j \in S
      PROVE  j + 1 \in S
  <2> DEFINE t == j + 1
  <2> SUFFICES ASSUME t + 1 \in 1..(Len(s) + 1)
               PROVE  P(t + 1)
    OBVIOUS
  <2>1. t \in 1..Len(s) /\ t \in 1..(Len(s) + 1)
    BY <1>1, SMT
  <2>2. P(t)
    BY <2>1
  <2> HIDE DEF t
  <2>3. f[t + 1] = f[t] + s[t].max + AreaSize(s, t) + 2
    BY <1>2, <2>1
  <2>4. s[t].max \in Nat /\ AreaSize(s, t) \in Nat
    BY <1>3, <2>1, ShapeIsNat
  <2> QED BY <2>2, <2>3, <2>4, <1>1, SMTT(60)
<1>6. S = Nat
  BY <1>4, <1>5, SetInduction
<1>7. ASSUME NEW u \in 1..(Len(s) + 1)
      PROVE  P(u)
  <2>1. u - 1 \in Nat /\ (u - 1) + 1 = u
    BY <1>1, SMT
  <2>2. u - 1 \in S
    BY <1>6, <2>1
  <2> QED BY <2>1, <2>2
<1> QED BY <1>7 DEF f

(* The tables lie behind the catalog and behind each other.                *)
LEMMA LayoutOrdered ==
  ASSUME NEW s \in Schemas
  PROVE  \A u \in 1..(Len(s) + 1) : \A t \in 1..Len(s) : t < u =>
           Layout(s)[t] + s[t].max + AreaSize(s, t) + 2 <= Layout(s)[u]
<1> DEFINE f == Layout(s)
           end(t) == f[t] + s[t].max + AreaSize(s, t) + 2
           P(u) == \A t \in 1..Len(s) : t < u => end(t) <= f[u]
           S == {j \in Nat : j + 1 \in 1..(Len(s) + 1) => P(j + 1)}
<1>1. Len(s) \in 1..250
  BY LayoutSteps
<1>2. \A t \in 1..Len(s) : f[t + 1] = end(t)
  BY LayoutSteps
<1>3. \A t \in 1..Len(s) : IsShape(s, t)
  BY ShapeOf
<1>4. \A u \in 1..(Len(s) + 1) : f[u] \in Nat
  BY LayoutNat
<1> HIDE DEF f
<1>5. ASSUME NEW t \in 1..Len(s)
      PROVE  end(t) \in Nat /\ f[t] <= end(t)
  <2>1. t \in 1..(Len(s) + 1)
    BY <1>1, SMT
  <2>2. f[t] \in Nat
    BY <2>1, <1>4
  <2>3. s[t].max \in Nat /\ AreaSize(s, t) \in Nat
    BY <1>3, ShapeIsNat
  <2> DEFINE start == f[t]
             max == s[t].max
             area == AreaSize(s, t)
  <2>4. start \in Nat /\ max \in Nat /\ area \in Nat
    BY <2>2, <2>3
  <2> HIDE DEF start, max, area
  <2>5. start + max + area + 2 \in Nat /\ start <= start + max + area + 2
    BY <2>4, SMT
  <2> QED BY <2>5 DEF start, max, area
<1>6. 0 \in S
  BY <1>1, SMT
<1>7. ASSUME NEW j \in S
      PROVE  j + 1 \in S
  <2> DEFINE v == j + 1
  <2> SUFFICES ASSUME v + 1 \in 1..(Len(s) + 1)
               PROVE  P(v + 1)
    OBVIOUS
  <2>1. v \in 1..Len(s) /\ v \in 1..(Len(s) + 1)
    BY <1>1, SMT
  <2>2. P(v)
    BY <2>1
  <2> HIDE DEF v
  <2>3. f[v + 1] = end(v) /\ f[v] <= end(v) /\ f[v] \in Nat /\ end(v) \in Nat
    BY <1>2, <2>1, <1>5, <1>4
  <2>4. ASSUME NEW t \in 1..Len(s), t < v + 1
        PROVE  end(t) <= f[v + 1]
    <3>1. CASE t = v
      BY <2>3, <3>1, SMT
    <3>2. CASE t # v
      <4>1. t < v
        BY <2>1, <2>4, <3>2, SMT
      <4>2. end(t) <= f[v] /\ end(t) \in Nat
        BY <2>2, <4>1, <1>5
      <4> HIDE DEF end
      <4> QED BY <4>2, <2>3, SMT
    <3> QED BY <3>1, <3>2
  <2> QED BY <2>4
<1>8. S = Nat
  BY <1>6, <1>7, SetInduction
<1>9. ASSUME NEW u \in 1..(Len(s) + 1)
      PROVE  P(u)
  <2>1. u - 1 \in Nat /\ (u - 1) + 1 = u
    BY <1>1, SMT
  <2>2. u - 1 \in S
    BY <1>8, <2>1
  <2> QED BY <2>1, <2>2
<1> QED BY <1>9 DEF f

-----------------------------------------------------------------------------
(***************************************************************************)
(* The bytes of a catalog: one, eight for each table, and one.             *)
(***************************************************************************)
FlatStep(seqs, f, i) == IF i = 1 THEN seqs[i] ELSE f[i - 1] \o seqs[i]

IsFlat(seqs, k, f) == f = [i \in 1..k |-> FlatStep(seqs, f, i)]

LEMMA FlatExists ==
  ASSUME NEW seqs, NEW k \in Nat
  PROVE  \E f : IsFlat(seqs, k, f)
<1> DEFINE S == {j \in Nat : \E f : IsFlat(seqs, j, f)}
<1>1. 0 \in S
  <2> DEFINE f == [i \in 1..0 |-> 0]
  <2>1. IsFlat(seqs, 0, f)
    BY SMT DEF IsFlat
  <2> QED BY <2>1
<1>2. ASSUME NEW j \in S
      PROVE  j + 1 \in S
  <2>1. PICK f : IsFlat(seqs, j, f)
    OBVIOUS
  <2> DEFINE g == [i \in 1..(j + 1) |-> IF i = j + 1 THEN FlatStep(seqs, f, i) ELSE f[i]]
  <2>2. ASSUME NEW i \in 1..(j + 1)
        PROVE  g[i] = FlatStep(seqs, g, i)
    <3>1. CASE i = 1
      <4>1. FlatStep(seqs, g, i) = FlatStep(seqs, f, i)
        BY <3>1 DEF FlatStep
      <4>2. i # j + 1 => f[i] = FlatStep(seqs, f, i)
        <5>1. i # j + 1 => i \in 1..j
          BY <3>1, SMT
        <5> QED BY <5>1, <2>1 DEF IsFlat
      <4> QED BY <4>1, <4>2
    <3>2. CASE i # 1
      <4>1. i - 1 \in 1..(j + 1) /\ i - 1 # j + 1 /\ i - 1 \in 1..j
        BY <3>2, SMT
      <4>2. g[i - 1] = f[i - 1]
        BY <4>1
      <4>3. FlatStep(seqs, g, i) = FlatStep(seqs, f, i)
        <5> HIDE DEF g
        <5> QED BY <3>2, <4>2 DEF FlatStep
      <4>4. i # j + 1 => f[i] = FlatStep(seqs, f, i)
        <5>1. i # j + 1 => i \in 1..j
          BY SMT
        <5> QED BY <5>1, <2>1 DEF IsFlat
      <4> QED BY <4>3, <4>4
    <3> QED BY <3>1, <3>2
  <2>3. g = [i \in 1..(j + 1) |-> FlatStep(seqs, g, i)]
    <3>1. \A i \in 1..(j + 1) : g[i] = FlatStep(seqs, g, i)
      BY <2>2
    <3>2. g = [i \in 1..(j + 1) |-> g[i]]
      OBVIOUS
    <3> HIDE DEF g
    <3> QED BY <3>1, <3>2
  <2>4. IsFlat(seqs, j + 1, g)
    BY <2>3 DEF IsFlat
  <2> QED BY <2>4
<1>3. S = Nat
  BY <1>1, <1>2, SetInduction
<1> QED BY <1>3

LEMMA FlattenIs ==
  ASSUME NEW seqs, Len(seqs) \in Nat, Len(seqs) # 0
  PROVE  \E f : IsFlat(seqs, Len(seqs), f) /\ FlattenSeq(seqs) = f[Len(seqs)]
<1> DEFINE f == CHOOSE g : IsFlat(seqs, Len(seqs), g)
<1>1. IsFlat(seqs, Len(seqs), f)
  BY FlatExists
<1>2. FlattenSeq(seqs) = f[Len(seqs)]
  BY DEF FlattenSeq, IsFlat, FlatStep
<1> QED BY <1>1, <1>2

(* An address and the byte to write to it.                                 *)
ByteWrites == Nat \X Nat

IsConcat(a, b, c) ==
  /\ Len(c) = Len(a) + Len(b)
  /\ \A i \in 1..Len(a) : c[i] = a[i]
  /\ \A j \in 1..Len(b) : c[Len(a) + j] = b[j]

LEMMA ConcatPlaces ==
  ASSUME NEW X, NEW a \in Seq(X), NEW b \in Seq(X)
  PROVE  a \o b \in Seq(X) /\ IsConcat(a, b, a \o b)
<1>1. a \o b \in Seq(X) /\ Len(a \o b) = Len(a) + Len(b)
  OBVIOUS
<1>2. \A i \in 1..Len(a) : (a \o b)[i] = a[i]
  BY SMT
<1>3. ASSUME NEW j \in 1..Len(b)
      PROVE  (a \o b)[Len(a) + j] = b[j]
  <2>1. Len(a) \in Nat /\ Len(b) \in Nat
    OBVIOUS
  <2>2. Len(a) + j \in 1..(Len(a) + Len(b)) /\ Len(a) + j > Len(a)
    BY <2>1, SMT
  <2>3. (Len(a) + j) - Len(a) = j
    BY <2>1, SMT
  <2> QED BY <2>2, <2>3, SMT
<1> DEFINE c == a \o b
<1>4. /\ c \in Seq(X) /\ Len(c) = Len(a) + Len(b)
      /\ \A i \in 1..Len(a) : c[i] = a[i]
      /\ \A j \in 1..Len(b) : c[Len(a) + j] = b[j]
  BY <1>1, <1>2, <1>3
<1> HIDE DEF c
<1>5. c \in Seq(X) /\ IsConcat(a, b, c)
  BY <1>4 DEF IsConcat
<1> QED BY <1>5 DEF c

(* A sequence of t rows of eight.                                          *)
IsRows(seqs, t, flat) ==
  /\ flat \in Seq(ByteWrites)
  /\ Len(flat) = 8 * t
  /\ \A u \in 1..t : \A j \in 1..8 : flat[8 * (u - 1) + j] = seqs[u][j]

LEMMA FlattenRows ==
  ASSUME NEW seqs, Len(seqs) \in Nat, Len(seqs) # 0,
         \A t \in 1..Len(seqs) : seqs[t] \in Seq(ByteWrites) /\ Len(seqs[t]) = 8
  PROVE  IsRows(seqs, Len(seqs), FlattenSeq(seqs))
<1> DEFINE n == Len(seqs)
<1>1. PICK f : IsFlat(seqs, n, f) /\ FlattenSeq(seqs) = f[n]
  BY FlattenIs
<1> DEFINE S == {k \in Nat : k + 1 \in 1..n => IsRows(seqs, k + 1, f[k + 1])}
<1>2. n \in Nat /\ n # 0
  OBVIOUS
<1> HIDE DEF n
<1>3. \A i \in 1..n : f[i] = FlatStep(seqs, f, i)
  BY <1>1 DEF IsFlat
<1>4. \A t \in 1..n : seqs[t] \in Seq(ByteWrites) /\ Len(seqs[t]) = 8
  BY DEF n
<1>5. 0 \in S
  <2>1. 1 \in 1..n
    BY <1>2, SMT
  <2>2. f[1] = seqs[1]
    BY <1>3, <2>1, SMT DEF FlatStep
  <2>3. IsRows(seqs, 1, f[1])
    BY <1>4, <2>1, <2>2, SMT DEF IsRows
  <2> QED BY <2>3
<1>6. ASSUME NEW k \in S
      PROVE  k + 1 \in S
  <2> DEFINE t == k + 1
  <2> SUFFICES ASSUME t + 1 \in 1..n
               PROVE  IsRows(seqs, t + 1, f[t + 1])
    OBVIOUS
  <2>1. t \in 1..n /\ t \in Nat /\ t # 0 /\ t + 1 # 1 /\ (t + 1) - 1 = t
    BY <1>2, SMT
  <2>2. IsRows(seqs, t, f[t])
    BY <2>1
  <2> HIDE DEF t
  <2>3. f[t + 1] = f[t] \o seqs[t + 1]
    BY <1>3, <2>1 DEF FlatStep
  <2> DEFINE a == f[t]
             b == seqs[t + 1]
  <2>4. a \in Seq(ByteWrites) /\ b \in Seq(ByteWrites) /\ Len(a) = 8 * t /\ Len(b) = 8
    BY <2>2, <1>4 DEF IsRows
  <2>5. \A u \in 1..t : \A j \in 1..8 : a[8 * (u - 1) + j] = seqs[u][j]
    BY <2>2 DEF IsRows
  <2>6. f[t + 1] = a \o b
    BY <2>3
  <2> HIDE DEF a
  <2> HIDE DEF b
  <2> DEFINE g == a \o b
  <2>a. g \in Seq(ByteWrites) /\ IsConcat(a, b, g)
    BY <2>4, ConcatPlaces
  <2> HIDE DEF g
  <2>7. /\ Len(g) = Len(a) + Len(b)
        /\ \A i \in 1..Len(a) : g[i] = a[i]
        /\ \A i \in 1..Len(b) : g[Len(a) + i] = b[i]
    BY <2>a DEF IsConcat
  <2>8. ASSUME NEW u \in 1..(t + 1), NEW j \in 1..8
        PROVE  g[8 * (u - 1) + j] = seqs[u][j]
    <3>1. CASE u = t + 1
      <4>1. 8 * (u - 1) + j = Len(a) + j
        <5>1. u - 1 = t
          BY <2>1, <3>1, SMT
        <5> QED BY <5>1, <2>4
      <4>2. g[Len(a) + j] = b[j]
        BY <2>4, <2>7
      <4> QED BY <3>1, <4>1, <4>2 DEF b
    <3>2. CASE u # t + 1
      <4> DEFINE p == 8 * (u - 1) + j
      <4>1. u \in 1..t
        BY <2>1, <3>2, SMT
      <4>2. p \in 1..(8 * t)
        BY <2>1, <4>1, SMT
      <4>3. g[p] = a[p]
        BY <2>4, <2>7, <4>2
      <4> QED BY <4>1, <4>3, <2>5
    <3> QED BY <3>1, <3>2
  <2>9. Len(g) = 8 * (t + 1)
    BY <2>1, <2>4, <2>7, SMT
  <2>10. g \in Seq(ByteWrites) /\ Len(g) = 8 * (t + 1)
    BY <2>a, <2>9
  <2>11. \A u \in 1..(t + 1) : \A j \in 1..8 : g[8 * (u - 1) + j] = seqs[u][j]
    BY <2>8
  <2>12. IsRows(seqs, t + 1, g)
    BY <2>10, <2>11 DEF IsRows
  <2> QED BY <2>6, <2>12 DEF g
<1>7. S = Nat
  BY <1>5, <1>6, SetInduction
<1>8. n - 1 \in Nat /\ (n - 1) + 1 = n /\ n \in 1..n
  BY <1>2, SMT
<1>9. IsRows(seqs, n, f[n])
  <2>1. n - 1 \in S
    BY <1>7, <1>8
  <2> QED BY <2>1, <1>8
<1> QED BY <1>1, <1>9 DEF n

LEMMA EightWrites ==
  ASSUME NEW p1, NEW p2, NEW p3, NEW p4, NEW p5, NEW p6, NEW p7, NEW p8
  PROVE  <<p1, p2>> \o <<p3, p4>> \o <<p5, p6, p7, p8>> = <<p1, p2, p3, p4, p5, p6, p7, p8>>
<1> DEFINE X == {p1, p2, p3, p4, p5, p6, p7, p8}
           x == <<p1, p2>>
           y == <<p3, p4>>
           z == <<p5, p6, p7, p8>>
           b == x \o y
           c == b \o z
           d == <<p1, p2, p3, p4, p5, p6, p7, p8>>
<1>1. /\ p1 \in X /\ p2 \in X /\ p3 \in X /\ p4 \in X
      /\ p5 \in X /\ p6 \in X /\ p7 \in X /\ p8 \in X
  OBVIOUS
<1> HIDE DEF X
<1>2. x \in Seq(X) /\ Len(x) = 2 /\ x[1] = p1 /\ x[2] = p2
  BY <1>1
<1>3. y \in Seq(X) /\ Len(y) = 2 /\ y[1] = p3 /\ y[2] = p4
  BY <1>1
<1>4. z \in Seq(X) /\ Len(z) = 4 /\ z[1] = p5 /\ z[2] = p6 /\ z[3] = p7 /\ z[4] = p8
  BY <1>1
<1>5. /\ d \in Seq(X) /\ Len(d) = 8
      /\ d[1] = p1 /\ d[2] = p2 /\ d[3] = p3 /\ d[4] = p4
      /\ d[5] = p5 /\ d[6] = p6 /\ d[7] = p7 /\ d[8] = p8
  BY <1>1
<1> HIDE DEF x, y, z, d
<1>6. b \in Seq(X) /\ IsConcat(x, y, b)
  BY <1>2, <1>3, ConcatPlaces
<1> HIDE DEF b
<1>7. c \in Seq(X) /\ IsConcat(b, z, c)
  BY <1>4, <1>6, ConcatPlaces
<1> HIDE DEF c
<1>8. /\ Len(b) = 4
      /\ b[1] = x[1] /\ b[2] = x[2] /\ b[2 + 1] = y[1] /\ b[2 + 2] = y[2]
  BY <1>2, <1>3, <1>6, SMT DEF IsConcat
<1>9. /\ Len(c) = 8
      /\ c[1] = b[1] /\ c[2] = b[2] /\ c[3] = b[3] /\ c[4] = b[4]
      /\ c[4 + 1] = z[1] /\ c[4 + 2] = z[2] /\ c[4 + 3] = z[3] /\ c[4 + 4] = z[4]
  BY <1>4, <1>7, <1>8, SMT DEF IsConcat
<1>10. \A i \in 1..8 : c[i] = d[i]
  BY <1>2, <1>3, <1>4, <1>5, <1>8, <1>9, SMT
<1>11. c = d
  BY <1>5, <1>7, <1>9, <1>10, SMT
<1> QED BY <1>11 DEF c, b, x, y, z, d

IsRowType(row) == row.index \in Nat /\ row.data \in Nat /\ row.size \in Nat /\ row.max \in Nat

RowTuple(row, t) ==
  LET a == ADDR_TABLE_CATALOG + (t - 1) * TABLE_CATALOG_ROW_SIZE IN
  << <<a, row.index % 256>>, <<a + 1, row.index \div 256>>,
     <<a + 2, row.data % 256>>, <<a + 2 + 1, row.data \div 256>>,
     <<a + 4, row.size>>, <<a + 5, row.max>>,
     <<(row.index + W - 1) % W, 0>>, <<(row.data + W - 1) % W, 0>> >>

LEMMA RowWritesIs ==
  ASSUME NEW rs, NEW t
  PROVE  RowWrites(rs, t) = RowTuple(rs[t], t)
<1> DEFINE a == ADDR_TABLE_CATALOG + (t - 1) * TABLE_CATALOG_ROW_SIZE
           p1 == <<a, rs[t].index % 256>>
           p2 == <<a + 1, rs[t].index \div 256>>
           p3 == <<a + 2, rs[t].data % 256>>
           p4 == <<a + 2 + 1, rs[t].data \div 256>>
           p5 == <<a + 4, rs[t].size>>
           p6 == <<a + 5, rs[t].max>>
           p7 == <<(rs[t].index + W - 1) % W, 0>>
           p8 == <<(rs[t].data + W - 1) % W, 0>>
<1>1. RowWrites(rs, t) = <<p1, p2>> \o <<p3, p4>> \o <<p5, p6, p7, p8>>
  BY DEF RowWrites, WordWrites
<1>2. RowTuple(rs[t], t) = <<p1, p2, p3, p4, p5, p6, p7, p8>>
  BY DEF RowTuple
<1> HIDE DEF p1, p2, p3, p4, p5, p6, p7, p8
<1> QED BY <1>1, <1>2, EightWrites

LEMMA EightTuple ==
  ASSUME NEW X, NEW p1 \in X, NEW p2 \in X, NEW p3 \in X, NEW p4 \in X,
         NEW p5 \in X, NEW p6 \in X, NEW p7 \in X, NEW p8 \in X
  PROVE  /\ <<p1, p2, p3, p4, p5, p6, p7, p8>> \in Seq(X)
         /\ Len(<<p1, p2, p3, p4, p5, p6, p7, p8>>) = 8
OBVIOUS

LEMMA WordBytes ==
  ASSUME NEW w \in Nat
  PROVE  w % 256 \in Nat /\ w \div 256 \in Nat /\ (w % 256) + 256 * (w \div 256) = w
BY SMT

LEMMA RowTupleType ==
  ASSUME NEW row, IsRowType(row), NEW t \in Nat, t >= 1
  PROVE  RowTuple(row, t) \in Seq(ByteWrites) /\ Len(RowTuple(row, t)) = 8
<1> DEFINE a == ADDR_TABLE_CATALOG + (t - 1) * TABLE_CATALOG_ROW_SIZE
<1>1. a \in Nat /\ a + 1 \in Nat /\ a + 2 \in Nat /\ a + 2 + 1 \in Nat /\ a + 4 \in Nat /\ a + 5 \in Nat
  BY SMT DEF ADDR_TABLE_CATALOG, TABLE_CATALOG_ROW_SIZE
<1> HIDE DEF a
<1>2. row.index \in Nat /\ row.data \in Nat /\ row.size \in Nat /\ row.max \in Nat
  BY DEF IsRowType
<1>3. /\ row.index % 256 \in Nat /\ row.index \div 256 \in Nat
      /\ row.data % 256 \in Nat /\ row.data \div 256 \in Nat
  BY <1>2, WordBytes
<1>4. \A x \in Nat : (x + W - 1) % W \in Nat
  BY SMT DEF W
<1>5. (row.index + W - 1) % W \in Nat /\ (row.data + W - 1) % W \in Nat
  BY <1>2, <1>4
<1>6. \A x, y \in Nat : <<x, y>> \in ByteWrites
  BY DEF ByteWrites
<1>7. 0 \in Nat
  OBVIOUS
<1> DEFINE p1 == <<a, row.index % 256>>
           p2 == <<a + 1, row.index \div 256>>
           p3 == <<a + 2, row.data % 256>>
           p4 == <<a + 2 + 1, row.data \div 256>>
           p5 == <<a + 4, row.size>>
           p6 == <<a + 5, row.max>>
           p7 == <<(row.index + W - 1) % W, 0>>
           p8 == <<(row.data + W - 1) % W, 0>>
<1>8. /\ p1 \in ByteWrites /\ p2 \in ByteWrites /\ p3 \in ByteWrites /\ p4 \in ByteWrites
      /\ p5 \in ByteWrites /\ p6 \in ByteWrites /\ p7 \in ByteWrites /\ p8 \in ByteWrites
  BY <1>1, <1>2, <1>3, <1>5, <1>6, <1>7, ZenonT(60)
<1>9. RowTuple(row, t) = <<p1, p2, p3, p4, p5, p6, p7, p8>>
  BY DEF RowTuple, a
<1> HIDE DEF p1, p2, p3, p4, p5, p6, p7, p8
<1> QED BY <1>8, <1>9, EightTuple

(* The bytes that rs_commitTables() writes.                                *)
IsCatalog(rs, n, bytes) ==
  /\ bytes \in Seq(ByteWrites)
  /\ Len(bytes) = 8 * n + 2
  /\ bytes[1] = <<ADDR_NUM_TABLES, n>>
  /\ bytes[8 * n + 2] = <<EndOf(rs), 0>>
  /\ \A t \in 1..n : \A j \in 1..8 : bytes[8 * (t - 1) + j + 1] = RowTuple(rs[t], t)[j]

LEMMA CatalogWritesIs ==
  ASSUME NEW rs, NEW n \in Nat, n >= 1, Len(rs) = n, EndOf(rs) \in Nat,
         \A t \in 1..n : IsRowType(rs[t])
  PROVE  IsCatalog(rs, n, CatalogWrites(rs))
<1> DEFINE seqs == [t \in 1..n |-> RowWrites(rs, t)]
           flat == FlattenSeq(seqs)
           p == <<ADDR_NUM_TABLES, n>>
           q == <<EndOf(rs), 0>>
           a == <<p>>
           b == a \o flat
           c == b \o <<q>>
<1>1. CatalogWrites(rs) = c
  BY DEF CatalogWrites, Tables
<1>2. /\ Len(seqs) = n
      /\ \A t \in 1..n : seqs[t] = RowTuple(rs[t], t)
  BY RowWritesIs
<1>3. \A t \in 1..n : seqs[t] \in Seq(ByteWrites) /\ Len(seqs[t]) = 8
  <2> TAKE t \in 1..n
  <2>1. t \in Nat /\ t >= 1
    BY SMT
  <2> QED BY <2>1, <1>2, RowTupleType
<1> HIDE DEF seqs
<1>4. IsRows(seqs, n, flat)
  BY <1>2, <1>3, FlattenRows
<1> HIDE DEF flat
<1>5. flat \in Seq(ByteWrites) /\ Len(flat) = 8 * n
  BY <1>4 DEF IsRows
<1>6. p \in ByteWrites /\ q \in ByteWrites
  BY DEF ByteWrites, ADDR_NUM_TABLES
<1> HIDE DEF p, q
<1>7. a \in Seq(ByteWrites) /\ Len(a) = 1 /\ a[1] = p
  BY <1>6
<1>8. <<q>> \in Seq(ByteWrites) /\ Len(<<q>>) = 1 /\ <<q>>[1] = q
  BY <1>6
<1> HIDE DEF a
<1>9. b \in Seq(ByteWrites) /\ IsConcat(a, flat, b)
  BY <1>5, <1>7, ConcatPlaces
<1> HIDE DEF b
<1> DEFINE z == <<q>>
<1>10. z \in Seq(ByteWrites) /\ Len(z) = 1 /\ z[1] = q /\ c = b \o z
  BY <1>8
<1> HIDE DEF z, c
<1>11. c \in Seq(ByteWrites) /\ IsConcat(b, z, c)
  BY <1>9, <1>10, ConcatPlaces
<1>12. Len(b) = 8 * n + 1 /\ Len(c) = 8 * n + 2
  BY <1>5, <1>7, <1>9, <1>10, <1>11, SMT DEF IsConcat
<1>13. c[1] = p
  <2>1. 1 \in 1..Len(b) /\ 1 \in 1..Len(a)
    BY <1>7, <1>12, SMT
  <2> QED BY <2>1, <1>7, <1>9, <1>11 DEF IsConcat
<1>14. c[8 * n + 2] = q
  <2>1. 1 \in 1..Len(z) /\ Len(b) + 1 = 8 * n + 2
    BY <1>10, <1>12, SMT
  <2>2. c[Len(b) + 1] = z[1]
    BY <2>1, <1>11 DEF IsConcat
  <2> QED BY <2>1, <2>2, <1>10
<1>15. ASSUME NEW t \in 1..n, NEW j \in 1..8
       PROVE  c[8 * (t - 1) + j + 1] = RowTuple(rs[t], t)[j]
  <2> DEFINE k == 8 * (t - 1) + j
  <2>1. k \in 1..(8 * n) /\ 1 + k \in 1..(8 * n + 1) /\ 1 + k = k + 1
    BY SMT
  <2>2. flat[k] = seqs[t][j]
    BY <1>4 DEF IsRows
  <2> HIDE DEF k
  <2>3. b[1 + k] = flat[k]
    <3>1. k \in 1..Len(flat)
      BY <2>1, <1>5
    <3>2. b[Len(a) + k] = flat[k]
      BY <3>1, <1>9 DEF IsConcat
    <3> QED BY <3>2, <1>7
  <2>4. c[1 + k] = b[1 + k]
    <3>1. 1 + k \in 1..Len(b)
      BY <2>1, <1>12
    <3> QED BY <3>1, <1>11 DEF IsConcat
  <2>5. c[k + 1] = RowTuple(rs[t], t)[j]
    BY <2>1, <2>2, <2>3, <2>4, <1>2
  <2> QED BY <2>5 DEF k
<1>16. IsCatalog(rs, n, c)
  BY <1>11, <1>12, <1>13, <1>14, <1>15 DEF IsCatalog, p, q
<1> QED BY <1>1, <1>16

-----------------------------------------------------------------------------
(***************************************************************************)
(* The bytes of the catalog of a schema whose addresses do not wrap.       *)
(***************************************************************************)
NoWrap(s) == Layout(s)[Len(s) + 1] <= W

LEMMA Mods ==
  /\ \A x \in Nat : x < W => x % W = x
  /\ \A x \in Nat : 1 <= x /\ x <= W => ((x % W) + W - 1) % W = x - 1
  /\ \A x \in Nat : 1 <= x /\ x <= W => (x + W - 1) % W = x - 1
BY SMT DEF W

(* Table t has room in front of every later one, and of the closing byte.  *)
IsLaid(s, t) ==
  /\ Layout(s)[t] \in Nat
  /\ Layout(s)[t] >= 6 * Len(s) + 2
  /\ Layout(s)[t] + s[t].max + AreaSize(s, t) + 2 <= Layout(s)[Len(s) + 1]

LEMMA LaidOut ==
  ASSUME NEW s \in Schemas
  PROVE  \A t \in 1..Len(s) : IsLaid(s, t)
<1>1. Len(s) \in 1..250
  BY LayoutSteps
<1> TAKE t \in 1..Len(s)
<1>2. t \in 1..(Len(s) + 1) /\ Len(s) + 1 \in 1..(Len(s) + 1) /\ t < Len(s) + 1
  BY <1>1, SMT
<1> QED BY <1>2, LayoutNat, LayoutOrdered DEF IsLaid

LEMMA SchemaRowType ==
  ASSUME NEW s \in Schemas, NoWrap(s)
  PROVE  \A t \in 1..Len(s) :
           /\ IsRowType(SchemaRow(s, t))
           /\ Layout(s)[t] < W /\ Layout(s)[t] + s[t].max + 1 < W
           /\ DataAreaSize(SchemaRow(s, t)) = AreaSize(s, t)
<1> TAKE t \in 1..Len(s)
<1> DEFINE a == Layout(s)[t]
           m == s[t].max
           z == AreaSize(s, t)
           e == Layout(s)[Len(s) + 1]
<1>1. a \in Nat /\ a + m + z + 2 <= e
  BY LaidOut DEF IsLaid
<1>2. IsShape(s, t)
  BY ShapeOf
<1>3. m \in 1..250 /\ z \in Nat /\ z >= 1 /\ z <= 62500
  BY <1>2 DEF IsShape
<1>4. s[t].size \in Nat
  BY <1>2, ShapeIsNat
<1>5. Len(s) \in 1..250 /\ Len(s) + 1 \in 1..(Len(s) + 1)
  <2>1. Len(s) \in 1..250
    BY LayoutSteps
  <2> QED BY <2>1, SMT
<1>6. e \in Nat /\ e <= W
  BY <1>5, LayoutNat DEF NoWrap
<1>7. DataAreaSize(SchemaRow(s, t)) = z % W
  BY DEF DataAreaSize, SchemaRow, AreaSize
<1>8. IsRowType(SchemaRow(s, t)) <=> a \in Nat /\ a + m + 1 \in Nat /\ s[t].size \in Nat /\ m \in Nat
  BY DEF IsRowType, SchemaRow
<1> HIDE DEF a, m, z, e
<1>9. a < W /\ a + m + 1 < W /\ a + m + 1 \in Nat /\ m \in Nat
  BY <1>1, <1>3, <1>6, SMT DEF W
<1>10. z % W = z
  BY <1>3, SMT DEF W
<1> QED BY <1>1, <1>4, <1>7, <1>8, <1>9, <1>10 DEF a, m, z

(* The eight bytes of a table whose addresses do not wrap.                 *)
RowBytes(row, t) ==
  << <<6 * (t - 1) + 1, row.index % 256>>, <<6 * (t - 1) + 2, row.index \div 256>>,
     <<6 * (t - 1) + 3, row.data % 256>>, <<6 * (t - 1) + 4, row.data \div 256>>,
     <<6 * (t - 1) + 5, row.size>>, <<6 * (t - 1) + 6, row.max>>,
     <<row.index - 1, 0>>, <<row.data - 1, 0>> >>

LEMMA RowBytesAre ==
  ASSUME NEW row, NEW t \in Nat, row.index \in Nat, 1 <= row.index, row.index <= W,
         row.data \in Nat, 1 <= row.data, row.data <= W
  PROVE  RowTuple(row, t) = RowBytes(row, t)
<1> DEFINE b == ADDR_TABLE_CATALOG + (t - 1) * TABLE_CATALOG_ROW_SIZE
           x == row.index
           y == row.data
           z == row.size
           m == row.max
<1>1. (x + W - 1) % W = x - 1 /\ (y + W - 1) % W = y - 1
  BY Mods
<1>2. /\ b = 6 * (t - 1) + 1 /\ b + 1 = 6 * (t - 1) + 2 /\ b + 2 = 6 * (t - 1) + 3
      /\ b + 2 + 1 = 6 * (t - 1) + 4 /\ b + 4 = 6 * (t - 1) + 5 /\ b + 5 = 6 * (t - 1) + 6
  BY SMT DEF ADDR_TABLE_CATALOG, TABLE_CATALOG_ROW_SIZE
<1>3. RowTuple(row, t) =
        << <<b, x % 256>>, <<b + 1, x \div 256>>, <<b + 2, y % 256>>, <<b + 2 + 1, y \div 256>>,
           <<b + 4, z>>, <<b + 5, m>>, <<(x + W - 1) % W, 0>>, <<(y + W - 1) % W, 0>> >>
  BY DEF RowTuple
<1>4. RowBytes(row, t) =
        << <<6 * (t - 1) + 1, x % 256>>, <<6 * (t - 1) + 2, x \div 256>>,
           <<6 * (t - 1) + 3, y % 256>>, <<6 * (t - 1) + 4, y \div 256>>,
           <<6 * (t - 1) + 5, z>>, <<6 * (t - 1) + 6, m>>, <<x - 1, 0>>, <<y - 1, 0>> >>
  BY DEF RowBytes
<1> HIDE DEF b, x, y, z, m
<1> QED BY <1>1, <1>2, <1>3, <1>4

IsSchemaBytes(s, bytes) ==
  /\ bytes \in Seq(ByteWrites)
  /\ Len(bytes) = NumWrites(s)
  /\ bytes[1] = <<ADDR_NUM_TABLES, Len(s)>>
  /\ bytes[NumWrites(s)] = <<Layout(s)[Len(s) + 1] - 1, 0>>
  /\ \A t \in 1..Len(s) : \A j \in 1..8 : bytes[8 * (t - 1) + j + 1] = RowBytes(SchemaRow(s, t), t)[j]

LEMMA SchemaBytesAre ==
  ASSUME NEW s \in Schemas, NoWrap(s)
  PROVE  IsSchemaBytes(s, SchemaBytes(s))
<1> DEFINE n == Len(s)
           rs == SchemaRows(s)
           f == Layout(s)
<1>1. n \in Nat /\ n >= 1 /\ n \in 1..n /\ n + 1 \in 1..(n + 1)
  <2>1. n \in 1..250
    BY LayoutSteps
  <2> HIDE DEF n
  <2> QED BY <2>1, SMT
<1>2. Len(rs) = n /\ \A t \in 1..n : rs[t] = SchemaRow(s, t)
  BY <1>1 DEF SchemaRows
<1>3. \A t \in 1..n : IsRowType(rs[t])
  BY <1>2, SchemaRowType
<1>4. EndOf(rs) = f[n + 1] - 1 /\ EndOf(rs) \in Nat
  <2> DEFINE a == f[n]
             m == s[n].max
             z == AreaSize(s, n)
             e == f[n + 1]
  <2>1. DataAreaSize(rs[n]) = z /\ rs[n].data = a + m + 1
    <3>1. rs[n] = SchemaRow(s, n)
      BY <1>1, <1>2
    <3>2. DataAreaSize(SchemaRow(s, n)) = z
      BY <1>1, SchemaRowType
    <3>3. SchemaRow(s, n).data = a + m + 1
      BY DEF SchemaRow
    <3> QED BY <3>1, <3>2, <3>3
  <2>2. EndOf(rs) = (a + m + 1 + z) % W
    BY <1>2, <2>1 DEF EndOf
  <2>3. e = a + m + z + 2 /\ a \in Nat /\ e \in Nat
    <3>1. n \in 1..(n + 1)
      BY <1>1, SMT
    <3> QED BY <1>1, <3>1, LayoutSteps, LayoutNat
  <2>4. m \in Nat /\ z \in Nat
    BY <1>1, ShapeOf, ShapeIsNat
  <2>5. e <= W
    BY DEF NoWrap
  <2> HIDE DEF a, m, z, e
  <2>6. a + m + 1 + z = e - 1 /\ e - 1 \in Nat /\ e - 1 < W
    BY <2>3, <2>4, <2>5, SMT DEF W
  <2> QED BY <2>2, <2>6, Mods DEF e
<1>5. IsCatalog(rs, n, SchemaBytes(s))
  <2> HIDE DEF n, rs
  <2>1. IsCatalog(rs, n, CatalogWrites(rs))
    BY <1>1, <1>2, <1>3, <1>4, CatalogWritesIs
  <2> QED BY <2>1 DEF SchemaBytes, rs
<1>6. ASSUME NEW t \in 1..n
      PROVE  RowTuple(rs[t], t) = RowBytes(SchemaRow(s, t), t)
  <2> DEFINE row == SchemaRow(s, t)
             a == f[t]
             m == s[t].max
  <2>1. a \in Nat /\ a >= 6 * n + 2
    BY LaidOut DEF IsLaid
  <2>2. a < W /\ a + m + 1 < W /\ m \in Nat
    BY SchemaRowType, ShapeOf, ShapeIsNat
  <2>3. row.index = a /\ row.data = a + m + 1
    BY DEF SchemaRow
  <2>4. rs[t] = row
    BY <1>2
  <2> HIDE DEF a, m, row
  <2>5. /\ a \in Nat /\ 1 <= a /\ a <= W
        /\ a + m + 1 \in Nat /\ 1 <= a + m + 1 /\ a + m + 1 <= W
    BY <1>1, <2>1, <2>2, SMT DEF W
  <2>6. t \in Nat
    BY SMT
  <2>7. RowTuple(row, t) = RowBytes(row, t)
    BY <2>3, <2>5, <2>6, RowBytesAre
  <2> QED BY <2>4, <2>7 DEF row
<1>7. NumWrites(s) = 8 * n + 2
  BY DEF NumWrites
<1> QED BY <1>4, <1>5, <1>6, <1>7 DEF IsCatalog, IsSchemaBytes

(* Where the byte number i of a catalog goes: into the catalog, or the     *)
(* separator in front of an index or a data area, or behind the last one.  *)
InCatalog(s, i, a) ==
  \/ i = 1 /\ a = 0
  \/ \E t \in 1..Len(s) : \E j \in 1..6 : i = 8 * (t - 1) + j + 1 /\ a = 6 * (t - 1) + j

BeforeIndex(s, i, a, t) == i = 8 * t /\ a = Layout(s)[t] - 1
BeforeData(s, i, a, t)  == i = 8 * t + 1 /\ a = Layout(s)[t] + s[t].max

Closing(s, i, a) == i = NumWrites(s) /\ a = Layout(s)[Len(s) + 1] - 1

Goes(s, i, a) ==
  \/ InCatalog(s, i, a)
  \/ \E t \in 1..Len(s) : BeforeIndex(s, i, a, t)
  \/ \E t \in 1..Len(s) : BeforeData(s, i, a, t)
  \/ Closing(s, i, a)

LEMMA RowPlaces ==
  ASSUME NEW i \in Nat, NEW n \in Nat, 2 <= i, i <= 8 * n + 1
  PROVE  \E t \in 1..n : \E j \in 1..8 : i = 8 * (t - 1) + j + 1
<1> DEFINE t == (i - 2) \div 8 + 1
           j == ((i - 2) % 8) + 1
<1>1. t \in 1..n /\ j \in 1..8 /\ i = 8 * (t - 1) + j + 1
  BY SMT
<1> QED BY <1>1

LEMMA RowBytesAt ==
  ASSUME NEW row, NEW t, NEW j \in 1..8
  PROVE  /\ j <= 6 => RowBytes(row, t)[j][1] = 6 * (t - 1) + j
         /\ j = 7 => RowBytes(row, t)[j] = <<row.index - 1, 0>>
         /\ j = 8 => RowBytes(row, t)[j] = <<row.data - 1, 0>>
<1>1. j \in {1, 2, 3, 4, 5, 6, 7, 8}
  BY SMT
<1> QED BY <1>1, SMT DEF RowBytes

LEMMA WritesGo ==
  ASSUME NEW s \in Schemas, NoWrap(s), NEW i \in 1..NumWrites(s)
  PROVE  Goes(s, i, SchemaBytes(s)[i][1])
<1> DEFINE n == Len(s)
           b == SchemaBytes(s)
<1>1. n \in 1..250 /\ n \in Nat
  <2>1. n \in 1..250
    BY LayoutSteps
  <2> HIDE DEF n
  <2> QED BY <2>1, SMT
<1>2. IsSchemaBytes(s, b)
  BY SchemaBytesAre
<1>3. CASE i = 1
  BY <1>2, <1>3 DEF IsSchemaBytes, Goes, InCatalog, ADDR_NUM_TABLES
<1>4. CASE i = NumWrites(s)
  BY <1>2, <1>4 DEF IsSchemaBytes, Goes, Closing
<1>5. CASE i # 1 /\ i # NumWrites(s)
  <2>1. i \in Nat /\ 2 <= i /\ i <= 8 * n + 1
    <3>1. NumWrites(s) = 8 * n + 2
      BY DEF NumWrites
    <3> HIDE DEF n
    <3> QED BY <1>1, <1>5, <3>1, SMT
  <2>2. PICK t \in 1..n, j \in 1..8 : i = 8 * (t - 1) + j + 1
    BY <1>1, <2>1, RowPlaces
  <2>3. b[i] = RowBytes(SchemaRow(s, t), t)[j]
    BY <1>2, <2>2 DEF IsSchemaBytes
  <2>4. CASE j <= 6
    <3>1. j \in 1..6
      BY <2>4, SMT
    <3> DEFINE row == SchemaRow(s, t)
    <3> HIDE DEF row, b
    <3>a. RowBytes(row, t)[j][1] = 6 * (t - 1) + j
      BY <2>4, RowBytesAt
    <3>2. b[i][1] = 6 * (t - 1) + j
      BY <2>3, <3>a DEF row
    <3> QED BY <2>2, <3>1, <3>2 DEF Goes, InCatalog, b
  <2>5. CASE j = 7
    <3>1. i = 8 * t
      BY <2>2, <2>5, SMT
    <3>2. b[i] = <<SchemaRow(s, t).index - 1, 0>>
      BY <2>3, <2>5, RowBytesAt
    <3>3. b[i][1] = Layout(s)[t] - 1
      BY <3>2 DEF SchemaRow
    <3> QED BY <3>1, <3>3 DEF Goes, BeforeIndex
  <2>6. CASE j = 8
    <3> DEFINE a == Layout(s)[t]
               m == s[t].max
    <3>1. i = 8 * t + 1
      BY <2>2, <2>6, SMT
    <3>2. b[i] = <<SchemaRow(s, t).data - 1, 0>>
      BY <2>3, <2>6, RowBytesAt
    <3>3. a \in Nat /\ m \in Nat
      BY LaidOut, ShapeOf, ShapeIsNat DEF IsLaid
    <3>4. b[i][1] = a + m
      <4> DEFINE y == SchemaRow(s, t).data
                 x == y - 1
      <4>1. y = a + m + 1
        BY DEF SchemaRow
      <4>2. x = a + m
        <5> HIDE DEF y, a, m
        <5> QED BY <3>3, <4>1, SMT
      <4>3. b[i] = <<x, 0>>
        BY <3>2
      <4> HIDE DEF x, b
      <4>4. b[i][1] = x
        BY <4>3
      <4> QED BY <4>2, <4>4
    <3> QED BY <3>1, <3>4 DEF Goes, BeforeData
  <2> QED BY <2>4, <2>5, <2>6, SMT
<1> QED BY <1>3, <1>4, <1>5

(* The addresses between a table's separators and the next table's, and    *)
(* behind the last table.                                                  *)
InTable(s, a, u) ==
  /\ Layout(s)[u] - 1 <= a
  /\ u <= Len(s) => a <= Layout(s)[u] + s[u].max + AreaSize(s, u)

LEMMA LenIsNat ==
  ASSUME NEW s \in Schemas
  PROVE  Len(s) \in Nat /\ Len(s) >= 1 /\ Len(s) <= 250
<1> DEFINE n == Len(s)
<1>1. n \in 1..250
  BY LayoutSteps
<1> HIDE DEF n
<1>2. n \in Nat /\ n >= 1 /\ n <= 250
  BY <1>1, SMT
<1> QED BY <1>2 DEF n

LEMMA InTableBefore ==
  ASSUME NEW s \in Schemas, NEW u \in 1..(Len(s) + 1), NEW v \in 1..(Len(s) + 1),
         NEW a \in Int, InTable(s, a, u), u < v
  PROVE  ~InTable(s, a, v)
<1> DEFINE n == Len(s)
           x == Layout(s)[u]
           y == Layout(s)[v]
           m == s[u].max
           z == AreaSize(s, u)
<1>1. n \in Nat
  BY LenIsNat
<1>2. u \in 1..n
  <2> HIDE DEF n
  <2> QED BY <1>1, SMT DEF n
<1>3. x + m + z + 2 <= y
  BY <1>2, LayoutOrdered
<1>4. x \in Nat /\ y \in Nat
  BY LayoutNat
<1>5. m \in Nat /\ z \in Nat
  BY <1>2, ShapeOf, ShapeIsNat
<1>6. a <= x + m + z
  <2>1. u <= n
    BY <1>2, <1>1, SMT
  <2> QED BY <2>1 DEF InTable
<1>7. InTable(s, a, v) => y - 1 <= a
  BY DEF InTable
<1> HIDE DEF x, y, m, z, n
<1> QED BY <1>3, <1>4, <1>5, <1>6, <1>7, SMT

LEMMA InOneTable ==
  ASSUME NEW s \in Schemas, NEW u \in 1..(Len(s) + 1), NEW v \in 1..(Len(s) + 1),
         NEW a \in Int, InTable(s, a, u), InTable(s, a, v)
  PROVE  u = v
<1>1. ~(u < v) /\ ~(v < u)
  BY InTableBefore
<1>2. u \in Int /\ v \in Int
  OBVIOUS
<1> QED BY <1>1, <1>2, SMT

(* The bytes that are not in the catalog itself.                           *)
GoesBehind(s, i, a, u) ==
  \/ u \in 1..Len(s) /\ BeforeIndex(s, i, a, u)
  \/ u \in 1..Len(s) /\ BeforeData(s, i, a, u)
  \/ u = Len(s) + 1 /\ Closing(s, i, a)

LEMMA GoesSomewhere ==
  ASSUME NEW s \in Schemas, NEW i, NEW a, Goes(s, i, a), ~InCatalog(s, i, a)
  PROVE  \E u \in 1..(Len(s) + 1) : GoesBehind(s, i, a, u)
<1> DEFINE n == Len(s)
<1>1. n \in Nat
  BY LenIsNat
<1>2. n + 1 \in 1..(n + 1) /\ \A t \in 1..n : t \in 1..(n + 1)
  BY <1>1, SMT
<1> HIDE DEF n
<1> QED BY <1>2 DEF Goes, GoesBehind, n

LEMMA BehindInTable ==
  ASSUME NEW s \in Schemas, NEW i, NEW a, NEW u \in 1..(Len(s) + 1), GoesBehind(s, i, a, u)
  PROVE  a \in Int /\ a > 6 * Len(s) /\ InTable(s, a, u)
<1> DEFINE n == Len(s)
           x == Layout(s)[u]
           m == s[u].max
           z == AreaSize(s, u)
<1>1. n \in Nat
  BY LenIsNat
<1>2. x \in Nat /\ x >= 6 * n + 2
  BY LayoutNat
<1>3. InTable(s, a, u) <=> (x - 1 <= a /\ (u <= n => a <= x + m + z))
  BY DEF InTable
<1>4. CASE u \in 1..n
  <2>1. m \in Nat /\ z \in Nat
    BY <1>4, ShapeOf, ShapeIsNat
  <2>2. u # n + 1
    BY <1>1, <1>4, SMT
  <2>3. a = x - 1 \/ a = x + m
    BY <2>2 DEF GoesBehind, BeforeIndex, BeforeData
  <2> HIDE DEF n, x, m, z
  <2> QED BY <1>1, <1>2, <1>3, <2>1, <2>3, SMT DEF n
<1>5. CASE u \notin 1..n
  <2>1. u = n + 1 /\ a = x - 1
    BY <1>5 DEF GoesBehind, Closing
  <2>2. ~(u <= n)
    BY <2>1, <1>1, SMT
  <2> HIDE DEF n, x, m, z
  <2> QED BY <1>1, <1>2, <1>3, <2>1, <2>2, SMT DEF n
<1> QED BY <1>4, <1>5

LEMMA CatalogIsLow ==
  ASSUME NEW s \in Schemas, NEW i, NEW a, InCatalog(s, i, a)
  PROVE  a \in Int /\ a <= 6 * Len(s)
<1> DEFINE n == Len(s)
<1>1. n \in Nat
  BY LenIsNat
<1>2. CASE a = 0
  <2> HIDE DEF n
  <2> QED BY <1>1, <1>2, SMT DEF n
<1>3. CASE \E t \in 1..n : \E j \in 1..6 : a = 6 * (t - 1) + j
  <2>1. PICK t \in 1..n, j \in 1..6 : a = 6 * (t - 1) + j
    BY <1>3
  <2> HIDE DEF n
  <2> QED BY <1>1, <2>1, SMT DEF n
<1> QED BY <1>2, <1>3 DEF InCatalog

(* No two bytes go to the same address.                                    *)
LEMMA GoesOnce ==
  ASSUME NEW s \in Schemas, NEW i, NEW k, NEW a, Goes(s, i, a), Goes(s, k, a)
  PROVE  i = k
<1> DEFINE n == Len(s)
<1>1. n \in Nat
  BY LenIsNat
<1>2. CASE InCatalog(s, i, a) /\ InCatalog(s, k, a)
  <2>1. CASE a = 0
    <3>1. \A t \in 1..n, j \in 1..6 : 6 * (t - 1) + j # 0
      BY SMT
    <3> QED BY <1>2, <2>1, <3>1 DEF InCatalog
  <2>2. CASE a # 0
    <3>1. PICK t \in 1..n, j \in 1..6 : i = 8 * (t - 1) + j + 1 /\ a = 6 * (t - 1) + j
      BY <1>2, <2>2 DEF InCatalog
    <3>2. PICK u \in 1..n, l \in 1..6 : k = 8 * (u - 1) + l + 1 /\ a = 6 * (u - 1) + l
      BY <1>2, <2>2 DEF InCatalog
    <3>3. t = u /\ j = l
      BY <3>1, <3>2, SMT
    <3> QED BY <3>1, <3>2, <3>3
  <2> QED BY <2>1, <2>2
<1>3. CASE InCatalog(s, i, a) /\ ~InCatalog(s, k, a)
  <2>1. \E u \in 1..(n + 1) : GoesBehind(s, k, a, u)
    BY <1>3, GoesSomewhere
  <2>2. a > 6 * n
    BY <2>1, BehindInTable
  <2>3. a \in Int /\ a <= 6 * n
    BY <1>3, CatalogIsLow
  <2> HIDE DEF n
  <2> QED BY <1>1, <2>2, <2>3, SMT
<1>4. CASE ~InCatalog(s, i, a) /\ InCatalog(s, k, a)
  <2>1. \E u \in 1..(n + 1) : GoesBehind(s, i, a, u)
    BY <1>4, GoesSomewhere
  <2>2. a > 6 * n
    BY <2>1, BehindInTable
  <2>3. a \in Int /\ a <= 6 * n
    BY <1>4, CatalogIsLow
  <2> HIDE DEF n
  <2> QED BY <1>1, <2>2, <2>3, SMT
<1>5. CASE ~InCatalog(s, i, a) /\ ~InCatalog(s, k, a)
  <2>1. PICK u \in 1..(n + 1) : GoesBehind(s, i, a, u)
    BY <1>5, GoesSomewhere
  <2>2. PICK v \in 1..(n + 1) : GoesBehind(s, k, a, v)
    BY <1>5, GoesSomewhere
  <2>3. u = v
    BY <2>1, <2>2, BehindInTable, InOneTable
  <2> DEFINE x == Layout(s)[u]
             m == s[u].max
  <2>4. CASE u \in 1..n
    <3>1. IsShape(s, u)
      BY <2>4, ShapeOf
    <3>2. m \in 1..250 /\ x \in Nat
      BY <3>1, LayoutNat DEF IsShape
    <3>3. u # n + 1
      BY <1>1, <2>4, SMT
    <3>4. (i = 8 * u /\ a = x - 1) \/ (i = 8 * u + 1 /\ a = x + m)
      BY <2>1, <3>3 DEF GoesBehind, BeforeIndex, BeforeData
    <3>5. (k = 8 * u /\ a = x - 1) \/ (k = 8 * u + 1 /\ a = x + m)
      BY <2>2, <2>3, <3>3 DEF GoesBehind, BeforeIndex, BeforeData
    <3> HIDE DEF x, m
    <3>6. x - 1 # x + m
      BY <3>2, SMT
    <3> QED BY <3>4, <3>5, <3>6
  <2>5. CASE u \notin 1..n
    BY <2>1, <2>2, <2>3, <2>5 DEF GoesBehind, Closing
  <2> QED BY <2>4, <2>5
<1> QED BY <1>2, <1>3, <1>4, <1>5

(* An index or a data area: none of those bytes goes there.                *)
InArea(s, a, t) ==
  \/ Layout(s)[t] <= a /\ a < Layout(s)[t] + s[t].max
  \/ Layout(s)[t] + s[t].max + 1 <= a /\ a <= Layout(s)[t] + s[t].max + AreaSize(s, t)

LEMMA NothingInAreas ==
  ASSUME NEW s \in Schemas, NEW t \in 1..Len(s), NEW a \in Int, InArea(s, a, t), NEW i
  PROVE  ~Goes(s, i, a) /\ a > 6 * Len(s)
<1> DEFINE n == Len(s)
           x == Layout(s)[t]
           m == s[t].max
           z == AreaSize(s, t)
<1>1. n \in Nat
  BY LenIsNat
<1>2. t \in 1..(n + 1) /\ t <= n /\ t # n + 1
  <2> HIDE DEF n
  <2> QED BY <1>1, SMT DEF n
<1>3. x \in Nat /\ x >= 6 * n + 2
  BY <1>2, LayoutNat
<1>4. IsShape(s, t)
  BY ShapeOf
<1>5. m \in Nat /\ z \in Nat
  BY <1>4, ShapeIsNat
<1>6. (x <= a /\ a < x + m) \/ (x + m + 1 <= a /\ a <= x + m + z)
  BY DEF InArea
<1>7. InTable(s, a, t) <=> x - 1 <= a /\ (t <= n => a <= x + m + z)
  BY DEF InTable
<1>8. /\ InTable(s, a, t) /\ a > 6 * n
      /\ a # x - 1 /\ a # x + m
  <2> HIDE DEF n, x, m, z
  <2> QED BY <1>1, <1>3, <1>5, <1>6, <1>7, SMT
<1>9. ~InCatalog(s, i, a)
  <2> SUFFICES ASSUME InCatalog(s, i, a) PROVE FALSE
    OBVIOUS
  <2>1. a <= 6 * n
    BY CatalogIsLow
  <2> HIDE DEF n
  <2> QED BY <1>1, <1>8, <2>1, SMT
<1>10. ASSUME Goes(s, i, a)
       PROVE  FALSE
  <2>1. PICK u \in 1..(n + 1) : GoesBehind(s, i, a, u)
    BY <1>9, <1>10, GoesSomewhere
  <2>2. u = t
    BY <2>1, <1>2, <1>8, BehindInTable, InOneTable
  <2>3. a = x - 1 \/ a = x + m
    BY <2>1, <2>2, <1>2 DEF GoesBehind, BeforeIndex, BeforeData
  <2> QED BY <1>8, <2>3
<1> QED BY <1>8, <1>10

-----------------------------------------------------------------------------
(***************************************************************************)
(* The EEPROM.                                                             *)
(***************************************************************************)
IsMemory(mem) ==
  /\ DOMAIN mem \subseteq 0..(EESize - 1)
  /\ \A a \in DOMAIN mem : mem[a] \in 0..255

LEMMA SizeIsNat == EESize \in Nat /\ EESize >= 1 /\ EESize <= W
<1>1. EESize \in 1..W
  BY TableCatalogAssumption
<1>2. W \in Nat
  BY DEF W
<1> QED BY <1>1, <1>2, SMT

LEMMA ByteType ==
  ASSUME NEW mem, IsMemory(mem), NEW a
  PROVE  ByteOf(mem, a) \in 0..255
<1>1. AbsentByte \in 0..255
  BY TableCatalogAssumption
<1>2. EE_CLEAR_VALUE \in 0..255
  BY SMT DEF EE_CLEAR_VALUE
<1> QED BY <1>1, <1>2, Zenon DEF ByteOf, IsMemory

LEMMA ByteWritten ==
  ASSUME NEW mem, NEW a, NEW v, NEW b
  PROVE  ByteOf(Written(mem, a, v), b) = IF b = a /\ ~(a >= EESize) THEN v ELSE ByteOf(mem, b)
<1> DEFINE others == [x \in DOMAIN mem \ {a} |-> mem[x]]
           put == [x \in DOMAIN mem \union {a} |-> IF x = a THEN v ELSE mem[x]]
<1>1. CASE a >= EESize
  BY <1>1, Zenon DEF Written, ByteOf
<1>2. CASE ~(a >= EESize) /\ v = EE_CLEAR_VALUE
  <2>1. Written(mem, a, v) = others
    BY <1>2, Zenon DEF Written
  <2>2. ByteOf(others, b) = IF b = a THEN v ELSE ByteOf(mem, b)
    BY <1>2, Zenon DEF ByteOf
  <2> QED BY <1>2, <2>1, <2>2
<1>3. CASE ~(a >= EESize) /\ v # EE_CLEAR_VALUE
  <2>1. Written(mem, a, v) = put
    BY <1>3, Zenon DEF Written
  <2>2. DOMAIN put = DOMAIN mem \union {a}
    OBVIOUS
  <2>3. \A x \in DOMAIN put : put[x] = IF x = a THEN v ELSE mem[x]
    OBVIOUS
  <2>4. ByteOf(put, b) = IF b = a THEN v ELSE ByteOf(mem, b)
    <3> HIDE DEF put
    <3> QED BY <1>3, <2>2, <2>3, Zenon DEF ByteOf
  <2> QED BY <1>3, <2>1, <2>4
<1> QED BY <1>1, <1>2, <1>3

LEMMA WrittenMemory ==
  ASSUME NEW mem, IsMemory(mem), NEW a \in Nat, NEW v \in 0..255
  PROVE  IsMemory(Written(mem, a, v))
<1> DEFINE others == [x \in DOMAIN mem \ {a} |-> mem[x]]
           put == [x \in DOMAIN mem \union {a} |-> IF x = a THEN v ELSE mem[x]]
<1>1. IsMemory(others)
  BY Zenon DEF IsMemory
<1>2. ~(a >= EESize) => IsMemory(put)
  <2> SUFFICES ASSUME ~(a >= EESize) PROVE IsMemory(put)
    OBVIOUS
  <2>1. a \in 0..(EESize - 1)
    BY SizeIsNat, SMT
  <2>2. DOMAIN put = DOMAIN mem \union {a}
    OBVIOUS
  <2>3. \A x \in DOMAIN put : put[x] = IF x = a THEN v ELSE mem[x]
    OBVIOUS
  <2> HIDE DEF put
  <2> QED BY <2>1, <2>2, <2>3, ZenonT(60) DEF IsMemory
<1> QED BY <1>1, <1>2, Zenon DEF Written

LEMMA FitsInside ==
  ASSUME NEW s \in Schemas, Fits(s), NEW i, NEW a, Goes(s, i, a)
  PROVE  NoWrap(s) /\ a \in Nat /\ a < EESize
<1> DEFINE n == Len(s)
           e == Layout(s)[n + 1]
<1>1. n \in Nat /\ n >= 1
  BY LenIsNat
<1>2. n + 1 \in 1..(n + 1)
  <2> HIDE DEF n
  <2> QED BY <1>1, SMT
<1>3. e \in Nat /\ e >= 6 * n + 2 /\ e <= EESize
  BY <1>2, LayoutNat DEF Fits
<1>4. NoWrap(s)
  <2> HIDE DEF n, e
  <2>1. e <= W
    BY <1>3, SizeIsNat, SMT DEF W
  <2> QED BY <2>1 DEF NoWrap, n, e
<1>5. CASE InCatalog(s, i, a)
  <2>1. a \in Int /\ a <= 6 * n
    BY <1>5, CatalogIsLow
  <2>2. a >= 0
    <3>1. \A t \in 1..n, j \in 1..6 : 6 * (t - 1) + j >= 0
      BY SMT
    <3> QED BY <1>5, <3>1, SMT DEF InCatalog
  <2> HIDE DEF n, e
  <2> QED BY <1>1, <1>3, <1>4, <2>1, <2>2, SizeIsNat, SMT
<1>6. CASE ~InCatalog(s, i, a)
  <2>1. PICK u \in 1..(n + 1) : GoesBehind(s, i, a, u)
    BY <1>6, GoesSomewhere
  <2>2. a \in Int /\ a > 6 * n /\ InTable(s, a, u)
    BY <2>1, BehindInTable
  <2>3. a <= e - 1
    <3>1. CASE u \in 1..n
      <4> DEFINE x == Layout(s)[u]
                 m == s[u].max
                 z == AreaSize(s, u)
      <4>1. x + m + z + 2 <= e /\ x \in Nat
        BY <3>1, LaidOut DEF IsLaid
      <4>2. m \in Nat /\ z \in Nat
        BY <3>1, ShapeOf, ShapeIsNat
      <4>3. u <= n
        BY <3>1, <1>1, SMT
      <4>4. a <= x + m + z
        BY <2>2, <4>3 DEF InTable
      <4> HIDE DEF x, m, z, e
      <4> QED BY <1>3, <2>2, <4>1, <4>2, <4>4, SMT
    <3>2. CASE u \notin 1..n
      <4>1. a = e - 1
        BY <2>1, <3>2 DEF GoesBehind, Closing
      <4> HIDE DEF e
      <4> QED BY <1>3, <4>1, SMT
    <3> QED BY <3>1, <3>2
  <2> HIDE DEF n, e
  <2> QED BY <1>1, <1>3, <1>4, <2>2, <2>3, SizeIsNat, SMT
<1> QED BY <1>5, <1>6

LEMMA BytesPlace ==
  ASSUME NEW s \in Schemas, Fits(s)
  PROVE  /\ NoWrap(s)
         /\ NumWrites(s) \in Nat /\ NumWrites(s) > 1
         /\ IsSchemaBytes(s, SchemaBytes(s))
         /\ DOMAIN SchemaBytes(s) = 1..NumWrites(s)
         /\ \A i \in 1..NumWrites(s) :
              /\ Goes(s, i, SchemaBytes(s)[i][1])
              /\ SchemaBytes(s)[i][1] \in Nat /\ SchemaBytes(s)[i][1] < EESize
<1> DEFINE n == Len(s)
<1>1. n \in Nat /\ n >= 1
  BY LenIsNat
<1>2. NumWrites(s) = 8 * n + 2
  BY DEF NumWrites
<1>3. NumWrites(s) \in Nat /\ NumWrites(s) > 1
  <2> HIDE DEF n
  <2> QED BY <1>1, <1>2, SMT
<1>4. NoWrap(s)
  <2>1. Goes(s, 1, 0)
    BY DEF Goes, InCatalog
  <2> QED BY <2>1, FitsInside
<1>5. IsSchemaBytes(s, SchemaBytes(s))
  BY <1>4, SchemaBytesAre
<1>6. DOMAIN SchemaBytes(s) = 1..NumWrites(s)
  BY <1>5 DEF IsSchemaBytes
<1>7. \A i \in 1..NumWrites(s) : Goes(s, i, SchemaBytes(s)[i][1])
  BY <1>4, WritesGo
<1>8. \A i \in 1..NumWrites(s) : SchemaBytes(s)[i][1] \in Nat /\ SchemaBytes(s)[i][1] < EESize
  BY <1>7, FitsInside
<1> QED BY <1>3, <1>4, <1>5, <1>6, <1>7, <1>8

LEMMA UpToNone ==
  ASSUME NEW mem, DOMAIN mem = {}, NEW bytes
  PROVE  WrittenUpTo(mem, bytes, 0)
<1>1. \A i \in 1..0 : FALSE
  BY SMT
<1>2. ASSUME NEW a \in 0..(EESize - 1)
      PROVE  ByteOf(mem, a) = EE_CLEAR_VALUE
  <2>1. ~(a >= EESize)
    BY SizeIsNat, SMT
  <2> QED BY <2>1 DEF ByteOf
<1> QED BY <1>1, <1>2 DEF WrittenUpTo

LEMMA UpToNext ==
  ASSUME NEW s \in Schemas, Fits(s), NEW mem, NEW k \in Nat, k < NumWrites(s),
         WrittenUpTo(mem, SchemaBytes(s), k)
  PROVE  WrittenUpTo(Written(mem, SchemaBytes(s)[k + 1][1], SchemaBytes(s)[k + 1][2]),
                     SchemaBytes(s), k + 1)
<1> DEFINE bytes == SchemaBytes(s)
           a == bytes[k + 1][1]
           v == bytes[k + 1][2]
           next == Written(mem, a, v)
<1>1. k + 1 \in 1..NumWrites(s) /\ \A i \in 1..k : i \in 1..NumWrites(s) /\ i # k + 1
  BY BytesPlace, SMT
<1>2. Goes(s, k + 1, a) /\ a \in Nat /\ a < EESize
  BY <1>1, BytesPlace
<1>3. \A i \in 1..k : Goes(s, i, bytes[i][1])
  BY <1>1, BytesPlace
<1>4. \A i \in 1..k : bytes[i][1] # a
  BY <1>1, <1>2, <1>3, GoesOnce
<1> HIDE DEF a, v
<1>5. ~(a >= EESize)
  BY <1>2, SizeIsNat, SMT
<1>6. \A b : ByteOf(next, b) = IF b = a THEN v ELSE ByteOf(mem, b)
  BY <1>5, ByteWritten
<1> HIDE DEF next, bytes
<1>7. \A i \in 1..k : ByteOf(next, bytes[i][1]) = bytes[i][2]
  BY <1>4, <1>6 DEF WrittenUpTo, bytes
<1>8. ByteOf(next, bytes[k + 1][1]) = bytes[k + 1][2]
  BY <1>6 DEF a, v
<1>9. \A i \in 1..(k + 1) : i \in 1..k \/ i = k + 1
  BY SMT
<1>10. \A i \in 1..(k + 1) : ByteOf(next, bytes[i][1]) = bytes[i][2]
  BY <1>7, <1>8, <1>9
<1>11. ASSUME NEW b \in 0..(EESize - 1), \A i \in 1..(k + 1) : bytes[i][1] # b
       PROVE  ByteOf(next, b) = EE_CLEAR_VALUE
  <2>1. k + 1 \in 1..(k + 1) /\ \A i \in 1..k : i \in 1..(k + 1)
    BY SMT
  <2>2. b # a /\ \A i \in 1..k : bytes[i][1] # b
    BY <2>1, <1>11 DEF a
  <2> QED BY <2>2, <1>6 DEF WrittenUpTo, bytes
<1>12. WrittenUpTo(next, bytes, k + 1)
  BY <1>10, <1>11 DEF WrittenUpTo
<1> QED BY <1>12 DEF next, bytes, a, v

LEMMA UpToAll ==
  ASSUME NEW s \in Schemas, Fits(s), NEW mem, WrittenUpTo(mem, SchemaBytes(s), NumWrites(s))
  PROVE  HoldsCatalog(mem, SchemaRows(s))
BY BytesPlace DEF WrittenUpTo, HoldsCatalog, SchemaBytes

(* A zero at the place of a byte is that byte.                             *)
LEMMA ZeroIsWritten ==
  ASSUME NEW s \in Schemas, Fits(s), NEW mem, NEW k \in Nat,
         WrittenUpTo(mem, SchemaBytes(s), k), k <= NumWrites(s),
         NEW i \in 1..NumWrites(s), ByteOf(mem, SchemaBytes(s)[i][1]) = 0
  PROVE  i <= k
<1> SUFFICES ASSUME ~(i <= k) PROVE FALSE
  OBVIOUS
<1> DEFINE a == SchemaBytes(s)[i][1]
<1>1. Goes(s, i, a) /\ a \in Nat /\ a < EESize
  BY BytesPlace
<1>2. \A j \in 1..k : j # i /\ j \in 1..NumWrites(s)
  BY BytesPlace, SMT
<1>3. \A j \in 1..k : SchemaBytes(s)[j][1] # a
  BY <1>1, <1>2, BytesPlace, GoesOnce
<1>4. a \in 0..(EESize - 1)
  <2> HIDE DEF a
  <2> QED BY <1>1, SizeIsNat, SMT
<1>5. ByteOf(mem, a) = EE_CLEAR_VALUE
  BY <1>3, <1>4 DEF WrittenUpTo
<1> QED BY <1>5 DEF EE_CLEAR_VALUE

-----------------------------------------------------------------------------
(***************************************************************************)
(* Loading a catalog, and telling whether it is whole.                     *)
(***************************************************************************)
RowStored(mem, row, t) ==
  \A j \in 1..6 : ByteOf(mem, RowBytes(row, t)[j][1]) = RowBytes(row, t)[j][2]

LEMMA SixBytes ==
  ASSUME NEW mem, NEW row, NEW t, RowStored(mem, row, t)
  PROVE  /\ ByteOf(mem, 6 * (t - 1) + 1) = row.index % 256
         /\ ByteOf(mem, 6 * (t - 1) + 2) = row.index \div 256
         /\ ByteOf(mem, 6 * (t - 1) + 3) = row.data % 256
         /\ ByteOf(mem, 6 * (t - 1) + 4) = row.data \div 256
         /\ ByteOf(mem, 6 * (t - 1) + 5) = row.size
         /\ ByteOf(mem, 6 * (t - 1) + 6) = row.max
<1> DEFINE b == RowBytes(row, t)
<1>1. /\ b[1] = <<6 * (t - 1) + 1, row.index % 256>> /\ b[2] = <<6 * (t - 1) + 2, row.index \div 256>>
      /\ b[3] = <<6 * (t - 1) + 3, row.data % 256>> /\ b[4] = <<6 * (t - 1) + 4, row.data \div 256>>
      /\ b[5] = <<6 * (t - 1) + 5, row.size>> /\ b[6] = <<6 * (t - 1) + 6, row.max>>
  BY DEF RowBytes
<1>2. 1 \in 1..6 /\ 2 \in 1..6 /\ 3 \in 1..6 /\ 4 \in 1..6 /\ 5 \in 1..6 /\ 6 \in 1..6
  BY SMT
<1>3. \A j \in 1..6 : ByteOf(mem, b[j][1]) = b[j][2]
  BY DEF RowStored
<1> HIDE DEF b
<1>4. /\ ByteOf(mem, b[1][1]) = b[1][2] /\ ByteOf(mem, b[2][1]) = b[2][2]
      /\ ByteOf(mem, b[3][1]) = b[3][2] /\ ByteOf(mem, b[4][1]) = b[4][2]
      /\ ByteOf(mem, b[5][1]) = b[5][2] /\ ByteOf(mem, b[6][1]) = b[6][2]
  BY <1>2, <1>3
<1>5. /\ b[1][1] = 6 * (t - 1) + 1 /\ b[2][1] = 6 * (t - 1) + 2 /\ b[3][1] = 6 * (t - 1) + 3
      /\ b[4][1] = 6 * (t - 1) + 4 /\ b[5][1] = 6 * (t - 1) + 5 /\ b[6][1] = 6 * (t - 1) + 6
  BY <1>1
<1>6. /\ b[1][2] = row.index % 256 /\ b[2][2] = row.index \div 256
      /\ b[3][2] = row.data % 256 /\ b[4][2] = row.data \div 256
      /\ b[5][2] = row.size /\ b[6][2] = row.max
  BY <1>1
<1> QED BY <1>4, <1>5, <1>6

LEMMA RowLoads ==
  ASSUME NEW s \in Schemas, NoWrap(s), NEW t \in 1..Len(s), NEW mem,
         RowStored(mem, SchemaRow(s, t), t)
  PROVE  LoadedRow(mem, t) = SchemaRow(s, t)
<1> DEFINE row == SchemaRow(s, t)
           a == ADDR_TABLE_CATALOG + (t - 1) * TABLE_CATALOG_ROW_SIZE
           n == Len(s)
<1>1. n \in Nat /\ n <= 250
  BY LenIsNat
<1>2. /\ a = 6 * (t - 1) + 1 /\ a + 2 = 6 * (t - 1) + 3
      /\ a + 4 = 6 * (t - 1) + 5 /\ a + 5 = 6 * (t - 1) + 6
      /\ (a + 1) % W = 6 * (t - 1) + 2 /\ (a + 2 + 1) % W = 6 * (t - 1) + 4
  <2> HIDE DEF n
  <2>1. t \in Nat /\ 1 <= t /\ t <= 250
    BY <1>1, SMT DEF n
  <2> QED BY <2>1, SMT DEF ADDR_TABLE_CATALOG, TABLE_CATALOG_ROW_SIZE, W
<1>3. IsRowType(row)
  BY SchemaRowType
<1>4. /\ row.index = (row.index % 256) + 256 * (row.index \div 256)
      /\ row.data = (row.data % 256) + 256 * (row.data \div 256)
  <2> DEFINE i == row.index
             d == row.data
  <2>1. i \in Nat /\ d \in Nat
    BY <1>3 DEF IsRowType
  <2> HIDE DEF i, d
  <2>2. i = (i % 256) + 256 * (i \div 256) /\ d = (d % 256) + 256 * (d \div 256)
    BY <2>1, WordBytes
  <2> QED BY <2>2 DEF i, d
<1>5. row = [index |-> row.index, data |-> row.data, size |-> row.size, max |-> row.max]
  BY DEF SchemaRow
<1>6. LoadedRow(mem, t) =
        [index |-> ByteOf(mem, a) + 256 * ByteOf(mem, (a + 1) % W),
         data  |-> ByteOf(mem, a + 2) + 256 * ByteOf(mem, (a + 2 + 1) % W),
         size  |-> ByteOf(mem, a + 4), max |-> ByteOf(mem, a + 5)]
  BY DEF LoadedRow, WordOf
<1> HIDE DEF row, a
<1>7. /\ ByteOf(mem, a) = row.index % 256 /\ ByteOf(mem, (a + 1) % W) = row.index \div 256
      /\ ByteOf(mem, a + 2) = row.data % 256 /\ ByteOf(mem, (a + 2 + 1) % W) = row.data \div 256
      /\ ByteOf(mem, a + 4) = row.size /\ ByteOf(mem, a + 5) = row.max
  BY <1>2, SixBytes DEF row
<1>8. LoadedRow(mem, t) = row
  BY <1>4, <1>5, <1>6, <1>7
<1> QED BY <1>8 DEF row

(* The bytes of table t, as those of the whole catalog.                    *)
LEMMA RowAmongBytes ==
  ASSUME NEW s \in Schemas, Fits(s), NEW t \in 1..Len(s)
  PROVE  /\ \A j \in 1..8 :
              /\ 8 * (t - 1) + j + 1 \in 1..NumWrites(s)
              /\ SchemaBytes(s)[8 * (t - 1) + j + 1] = RowBytes(SchemaRow(s, t), t)[j]
         /\ 8 * t \in 1..NumWrites(s) /\ SchemaBytes(s)[8 * t] = <<Layout(s)[t] - 1, 0>>
         /\ 8 * t + 1 \in 1..NumWrites(s)
         /\ SchemaBytes(s)[8 * t + 1] = <<Layout(s)[t] + s[t].max, 0>>
<1> DEFINE n == Len(s)
           row == SchemaRow(s, t)
           a == Layout(s)[t]
           m == s[t].max
           b == SchemaBytes(s)
<1>1. n \in Nat
  BY LenIsNat
<1>2. NumWrites(s) = 8 * n + 2
  BY DEF NumWrites
<1>3. t \in Nat /\ t >= 1 /\ t <= n
  <2> HIDE DEF n
  <2> QED BY <1>1, SMT DEF n
<1>4. IsSchemaBytes(s, b)
  BY BytesPlace
<1>5. \A j \in 1..8 : b[8 * (t - 1) + j + 1] = RowBytes(row, t)[j]
  BY <1>4 DEF IsSchemaBytes
<1>6. \A j \in 1..8 : 8 * (t - 1) + j + 1 \in 1..NumWrites(s)
  <2> HIDE DEF n
  <2> QED BY <1>1, <1>2, <1>3, SMT
<1>7. /\ 8 * (t - 1) + 7 + 1 = 8 * t /\ 8 * (t - 1) + 8 + 1 = 8 * t + 1
      /\ 7 \in 1..8 /\ 8 \in 1..8
  BY <1>3, SMT
<1>8. a \in Nat /\ m \in Nat
  BY LaidOut, ShapeOf, ShapeIsNat DEF IsLaid
<1>9. row.index = a /\ row.data = a + m + 1
  BY DEF SchemaRow
<1>10. RowBytes(row, t)[7] = <<row.index - 1, 0>> /\ RowBytes(row, t)[8] = <<row.data - 1, 0>>
  BY DEF RowBytes
<1> HIDE DEF row, a, m, b
<1>11. row.data - 1 = a + m
  BY <1>8, <1>9, SMT
<1>12. b[8 * t] = <<a - 1, 0>> /\ b[8 * t + 1] = <<a + m, 0>>
  <2>1. b[8 * (t - 1) + 7 + 1] = <<a - 1, 0>> /\ b[8 * (t - 1) + 8 + 1] = <<a + m, 0>>
    BY <1>5, <1>7, <1>9, <1>10, <1>11
  <2> QED BY <2>1, <1>7
<1>13. 8 * t \in 1..NumWrites(s) /\ 8 * t + 1 \in 1..NumWrites(s)
  BY <1>6, <1>7
<1> QED BY <1>5, <1>6, <1>12, <1>13 DEF row, a, m, b

LEMMA WholeRowStored ==
  ASSUME NEW s \in Schemas, Fits(s), NEW mem, NEW t \in 1..Len(s),
         \A j \in 1..6 : ByteOf(mem, SchemaBytes(s)[8 * (t - 1) + j + 1][1])
                           = SchemaBytes(s)[8 * (t - 1) + j + 1][2]
  PROVE  LoadedRow(mem, t) = SchemaRow(s, t)
<1>1. \A j \in 1..6 : j \in 1..8
  BY SMT
<1>2. RowStored(mem, SchemaRow(s, t), t)
  BY <1>1, RowAmongBytes DEF RowStored
<1> QED BY <1>2, BytesPlace, RowLoads

LEMMA WholeLoads ==
  ASSUME NEW s \in Schemas, Fits(s), NEW mem, HoldsCatalog(mem, SchemaRows(s))
  PROVE  /\ ByteOf(mem, ADDR_NUM_TABLES) = Len(s)
         /\ LoadedRows(mem, Len(s)) = SchemaRows(s)
<1>1. \A i \in 1..NumWrites(s) : ByteOf(mem, SchemaBytes(s)[i][1]) = SchemaBytes(s)[i][2]
  BY BytesPlace DEF HoldsCatalog, SchemaBytes
<1>2. ByteOf(mem, ADDR_NUM_TABLES) = Len(s)
  <2>1. 1 \in 1..NumWrites(s)
    BY BytesPlace, SMT
  <2>2. SchemaBytes(s)[1] = <<ADDR_NUM_TABLES, Len(s)>>
    BY BytesPlace DEF IsSchemaBytes
  <2> QED BY <2>1, <2>2, <1>1
<1>3. ASSUME NEW t \in 1..Len(s)
      PROVE  LoadedRow(mem, t) = SchemaRow(s, t)
  <2>1. \A j \in 1..6 : 8 * (t - 1) + j + 1 \in 1..NumWrites(s)
    <3>1. \A j \in 1..6 : j \in 1..8
      BY SMT
    <3> QED BY <3>1, RowAmongBytes
  <2> QED BY <2>1, <1>1, WholeRowStored
<1> QED BY <1>2, <1>3 DEF LoadedRows, SchemaRows

(* isTableCatalogValid(): the address it expects next, over n tables.      *)
ExpectedStep(rs, f, t) ==
  IF t = 1 THEN ADDR_TABLE_CATALOG + Len(rs) * TABLE_CATALOG_ROW_SIZE + 1
  ELSE (f[t - 1] + rs[t - 1].max + 1 + DataAreaSize(rs[t - 1]) + 1) % W

IsExpected(rs, k, f) == f = [t \in 1..k |-> ExpectedStep(rs, f, t)]

LEMMA ExpectedExists ==
  ASSUME NEW rs, NEW k \in Nat
  PROVE  \E f : IsExpected(rs, k, f)
<1> DEFINE S == {j \in Nat : \E f : IsExpected(rs, j, f)}
<1>1. 0 \in S
  <2> DEFINE f == [t \in 1..0 |-> 0]
  <2>1. IsExpected(rs, 0, f)
    BY SMT DEF IsExpected
  <2> QED BY <2>1
<1>2. ASSUME NEW j \in S
      PROVE  j + 1 \in S
  <2>1. PICK f : IsExpected(rs, j, f)
    OBVIOUS
  <2> DEFINE g == [t \in 1..(j + 1) |-> IF t = j + 1 THEN ExpectedStep(rs, f, t) ELSE f[t]]
  <2>2. ASSUME NEW t \in 1..(j + 1)
        PROVE  g[t] = ExpectedStep(rs, g, t)
    <3>1. t # j + 1 => f[t] = ExpectedStep(rs, f, t)
      <4>1. t # j + 1 => t \in 1..j
        BY SMT
      <4> QED BY <4>1, <2>1 DEF IsExpected
    <3>2. g[t] = ExpectedStep(rs, f, t)
      BY <3>1
    <3>3. t # 1 => g[t - 1] = f[t - 1]
      <4>1. t # 1 => t - 1 \in 1..(j + 1) /\ t - 1 # j + 1
        BY SMT
      <4> QED BY <4>1
    <3> HIDE DEF g
    <3>4. ExpectedStep(rs, g, t) = ExpectedStep(rs, f, t)
      BY <3>3 DEF ExpectedStep
    <3> QED BY <3>2, <3>4
  <2>3. g = [t \in 1..(j + 1) |-> g[t]]
    OBVIOUS
  <2> HIDE DEF g
  <2>4. IsExpected(rs, j + 1, g)
    BY <2>2, <2>3 DEF IsExpected
  <2> QED BY <2>4
<1>3. S = Nat
  BY <1>1, <1>2, SetInduction
<1> QED BY <1>3

LEMMA ExpectedIs ==
  ASSUME NEW rs, Len(rs) \in Nat
  PROVE  IsExpected(rs, Len(rs) + 1, Expected(rs))
<1> DEFINE f == CHOOSE g : IsExpected(rs, Len(rs) + 1, g)
<1>1. IsExpected(rs, Len(rs) + 1, f)
  BY ExpectedExists
<1>2. Expected(rs) = f
  BY DEF Expected, IsExpected, ExpectedStep
<1> QED BY <1>1, <1>2

(* It is the one in the layout, as long as the rows before are.            *)
LEMMA ExpectedFirst ==
  ASSUME NEW s \in Schemas, NEW rs, Len(rs) = Len(s)
  PROVE  Expected(rs)[1] = Layout(s)[1]
<1> DEFINE n == Len(s)
<1>1. n \in Nat
  BY LenIsNat
<1>2. 1 \in 1..(n + 1)
  <2> HIDE DEF n
  <2> QED BY <1>1, SMT
<1>3. Expected(rs)[1] = ExpectedStep(rs, Expected(rs), 1)
  BY <1>1, <1>2, ExpectedIs DEF IsExpected
<1>4. ExpectedStep(rs, Expected(rs), 1) = 1 + n * 6 + 1
  BY DEF ExpectedStep, ADDR_TABLE_CATALOG, TABLE_CATALOG_ROW_SIZE
<1>5. Layout(s)[1] = 6 * n + 2
  BY LayoutSteps
<1> HIDE DEF n
<1>6. 1 + n * 6 + 1 = 6 * n + 2
  BY <1>1, SMT
<1> QED BY <1>3, <1>4, <1>5, <1>6

LEMMA ExpectedNext ==
  ASSUME NEW s \in Schemas, NoWrap(s), NEW rs, Len(rs) = Len(s), NEW t \in 1..Len(s),
         rs[t] = SchemaRow(s, t), Expected(rs)[t] = Layout(s)[t]
  PROVE  Expected(rs)[t + 1] = Layout(s)[t + 1] % W
<1> DEFINE n == Len(s)
           x == Layout(s)[t]
           y == Layout(s)[t + 1]
           m == s[t].max
           z == AreaSize(s, t)
<1>1. n \in Nat
  BY LenIsNat
<1>2. t + 1 \in 1..(n + 1) /\ t + 1 # 1 /\ (t + 1) - 1 = t
  <2> HIDE DEF n
  <2> QED BY <1>1, SMT DEF n
<1>3. Expected(rs)[t + 1] = ExpectedStep(rs, Expected(rs), t + 1)
  BY <1>1, <1>2, ExpectedIs DEF IsExpected
<1>4. rs[t].max = m /\ DataAreaSize(rs[t]) = z
  BY SchemaRowType DEF SchemaRow
<1>5. ExpectedStep(rs, Expected(rs), t + 1) = (x + m + 1 + z + 1) % W
  BY <1>2, <1>4 DEF ExpectedStep
<1>6. y = x + m + z + 2
  BY LayoutSteps
<1>7. x \in Nat /\ m \in Nat /\ z \in Nat
  BY LaidOut, ShapeOf, ShapeIsNat DEF IsLaid
<1> HIDE DEF x, y, m, z
<1>8. x + m + 1 + z + 1 = y
  BY <1>6, <1>7, SMT
<1> QED BY <1>3, <1>5, <1>8 DEF y

LEMMA LayoutModulo ==
  ASSUME NEW s \in Schemas, NoWrap(s)
  PROVE  /\ \A t \in 1..Len(s) : Layout(s)[t] % W = Layout(s)[t]
         /\ \A t \in 1..(Len(s) + 1) : 1 <= Layout(s)[t] /\ Layout(s)[t] <= W
         /\ Len(s) + 1 \in 1..(Len(s) + 1) /\ \A t \in 1..Len(s) : t \in 1..(Len(s) + 1)
<1> DEFINE n == Len(s)
           f == Layout(s)
<1>1. n \in Nat
  BY LenIsNat
<1>2. /\ n + 1 \in 1..(n + 1) /\ \A t \in 1..n : t \in 1..(n + 1)
      /\ \A t \in 1..(n + 1) : t \in 1..n \/ t = n + 1
  <2> HIDE DEF n
  <2> QED BY <1>1, SMT
<1>3. \A t \in 1..n : f[t] \in Nat /\ f[t] < W
  BY SchemaRowType, LaidOut DEF IsLaid
<1>4. \A t \in 1..n : f[t] % W = f[t]
  BY <1>3, Mods
<1>5. ASSUME NEW t \in 1..(n + 1)
      PROVE  1 <= f[t] /\ f[t] <= W
  <2> DEFINE x == f[t]
  <2>1. x \in Nat /\ x >= 6 * n + 2
    BY LayoutNat
  <2>2. x < W \/ x <= W
    BY <1>2, <1>3 DEF NoWrap
  <2> HIDE DEF x, n
  <2>3. 1 <= x /\ x <= W
    BY <1>1, <2>1, <2>2, SMT DEF W
  <2> QED BY <2>3 DEF x
<1> QED BY <1>2, <1>4, <1>5

LEMMA SeparatorAt ==
  ASSUME NEW s \in Schemas, NoWrap(s), NEW t \in 1..(Len(s) + 1), NEW mem
  PROVE  IsSeparator(mem, Layout(s)[t] % W) <=> ByteOf(mem, Layout(s)[t] - 1) = 0
<1> DEFINE x == Layout(s)[t]
<1>1. x \in Nat /\ 1 <= x /\ x <= W
  BY LayoutNat, LayoutModulo
<1> HIDE DEF x
<1>2. ((x % W) + W - 1) % W = x - 1
  BY <1>1, Mods
<1> QED BY <1>2 DEF IsSeparator, x

LEMMA RowFields ==
  ASSUME NEW s, NEW t
  PROVE  /\ SchemaRow(s, t).index = Layout(s)[t]
         /\ SchemaRow(s, t).data = Layout(s)[t] + s[t].max + 1
         /\ SchemaRow(s, t).size = s[t].size
         /\ SchemaRow(s, t).max = s[t].max
BY DEF SchemaRow

LEMMA ExpectedAll ==
  ASSUME NEW s \in Schemas, NoWrap(s), NEW rs, Len(rs) = Len(s)
  PROVE  \A t \in 1..(Len(s) + 1) :
           (\A u \in 1..Len(s) : u < t => rs[u] = SchemaRow(s, u))
             => Expected(rs)[t] = Layout(s)[t] % W
<1> DEFINE n == Len(s)
           P(t) == (\A u \in 1..n : u < t => rs[u] = SchemaRow(s, u))
                     => Expected(rs)[t] = Layout(s)[t] % W
           S == {j \in Nat : j + 1 \in 1..(n + 1) => P(j + 1)}
<1>1. n \in Nat /\ n >= 1
  BY LenIsNat
<1>2. 0 \in S
  <2>1. 1 \in 1..n
    <3> HIDE DEF n
    <3> QED BY <1>1, SMT
  <2>2. Expected(rs)[1] = Layout(s)[1] % W
    BY <2>1, ExpectedFirst, LayoutModulo
  <2> QED BY <2>2
<1>3. ASSUME NEW j \in S
      PROVE  j + 1 \in S
  <2> DEFINE t == j + 1
  <2> SUFFICES ASSUME t + 1 \in 1..(n + 1), \A u \in 1..n : u < t + 1 => rs[u] = SchemaRow(s, u)
               PROVE  Expected(rs)[t + 1] = Layout(s)[t + 1] % W
    OBVIOUS
  <2>1. t \in 1..n /\ t \in 1..(n + 1) /\ t < t + 1
    <3> HIDE DEF n
    <3> QED BY <1>1, SMT
  <2>2. \A u \in 1..n : u < t => u < t + 1
    BY <2>1, SMT
  <2>3. Expected(rs)[t] = Layout(s)[t] % W
    <3>1. P(t)
      BY <2>1
    <3> QED BY <3>1, <2>2
  <2>4. Layout(s)[t] % W = Layout(s)[t]
    BY <2>1, LayoutModulo
  <2>5. rs[t] = SchemaRow(s, t)
    BY <2>1
  <2> HIDE DEF t
  <2> QED BY <2>1, <2>3, <2>4, <2>5, ExpectedNext
<1>4. S = Nat
  BY <1>2, <1>3, SetInduction
<1>5. ASSUME NEW t \in 1..(n + 1)
      PROVE  P(t)
  <2>1. t - 1 \in Nat /\ (t - 1) + 1 = t
    <3> HIDE DEF n
    <3> QED BY <1>1, SMT
  <2>2. t - 1 \in S
    BY <1>4, <2>1
  <2> QED BY <2>1, <2>2
<1> QED BY <1>5

LEMMA WholeIsValid ==
  ASSUME NEW s \in Schemas, Fits(s), NEW mem, HoldsCatalog(mem, SchemaRows(s))
  PROVE  IsValid(mem, SchemaRows(s))
<1> DEFINE n == Len(s)
           rs == SchemaRows(s)
           f == Layout(s)
<1>1. NoWrap(s) /\ n \in Nat
  BY BytesPlace, LenIsNat
<1>2. Len(rs) = n /\ \A t \in 1..n : rs[t] = SchemaRow(s, t)
  BY <1>1 DEF SchemaRows
<1>3. \A i \in 1..NumWrites(s) : ByteOf(mem, SchemaBytes(s)[i][1]) = SchemaBytes(s)[i][2]
  BY BytesPlace DEF HoldsCatalog, SchemaBytes
<1> HIDE DEF rs
<1>4. \A t \in 1..(n + 1) : Expected(rs)[t] = f[t] % W
  BY <1>1, <1>2, ExpectedAll
<1>5. IsSeparator(mem, Expected(rs)[n + 1])
  <2>1. SchemaBytes(s)[NumWrites(s)] = <<f[n + 1] - 1, 0>>
    BY BytesPlace DEF IsSchemaBytes
  <2>2. NumWrites(s) \in 1..NumWrites(s)
    BY BytesPlace, SMT
  <2>3. ByteOf(mem, f[n + 1] - 1) = 0
    BY <1>3, <2>1, <2>2
  <2>4. n + 1 \in 1..(n + 1)
    BY <1>1, LayoutModulo
  <2> QED BY <1>1, <1>4, <2>3, <2>4, SeparatorAt
<1>6. ASSUME NEW t \in 1..n
      PROVE  /\ rs[t].index = Expected(rs)[t]
             /\ IsSeparator(mem, rs[t].index)
             /\ rs[t].data = (rs[t].index + rs[t].max + 1) % W
             /\ IsSeparator(mem, rs[t].data)
  <2> DEFINE a == f[t]
             m == s[t].max
  <2>1. t \in 1..(n + 1) /\ a % W = a
    BY <1>1, LayoutModulo
  <2>2. rs[t].index = a /\ rs[t].data = a + m + 1 /\ rs[t].max = m
    <3>1. rs[t] = SchemaRow(s, t)
      BY <1>2
    <3> QED BY <3>1, RowFields
  <2>3. Expected(rs)[t] = a
    BY <1>4, <2>1
  <2>4. SchemaBytes(s)[8 * t] = <<a - 1, 0>> /\ SchemaBytes(s)[8 * t + 1] = <<a + m, 0>>
    BY RowAmongBytes
  <2>5. ByteOf(mem, a - 1) = 0 /\ ByteOf(mem, a + m) = 0
    <3>1. 8 * t \in 1..NumWrites(s) /\ 8 * t + 1 \in 1..NumWrites(s)
      BY RowAmongBytes
    <3> QED BY <1>3, <2>4, <3>1
  <2>6. IsSeparator(mem, a)
    BY <1>1, <2>1, <2>5, SeparatorAt
  <2>7. a \in Nat /\ m \in Nat /\ a + m + 1 < W
    BY <1>1, LaidOut, ShapeOf, ShapeIsNat, SchemaRowType DEF IsLaid
  <2> HIDE DEF a, m
  <2>8. (a + m + 1) % W = a + m + 1 /\ (a + m + 1 + W - 1) % W = a + m
    BY <2>7, SMT DEF W
  <2>9. IsSeparator(mem, a + m + 1)
    BY <2>5, <2>8 DEF IsSeparator
  <2> QED BY <2>2, <2>3, <2>6, <2>8, <2>9
<1>7. Tables(rs) = 1..n
  BY <1>2 DEF Tables
<1> QED BY <1>2, <1>5, <1>6, <1>7 DEF IsValid, rs

(* A catalog that is found valid has been written to its last byte.        *)
LEMMA ValidIsWhole ==
  ASSUME NEW s \in Schemas, Fits(s), NEW mem, NEW k \in Nat, k <= NumWrites(s),
         WrittenUpTo(mem, SchemaBytes(s), k),
         ByteOf(mem, ADDR_NUM_TABLES) = Len(s), IsValid(mem, LoadedRows(mem, Len(s)))
  PROVE  k = NumWrites(s)
<1> DEFINE n == Len(s)
           rs == LoadedRows(mem, n)
           f == Layout(s)
<1>1. NoWrap(s) /\ n \in Nat
  BY BytesPlace, LenIsNat
<1>2. Len(rs) = n /\ \A t \in 1..n : rs[t] = LoadedRow(mem, t)
  BY <1>1 DEF LoadedRows
<1>3. Tables(rs) = 1..n
  BY <1>2 DEF Tables
<1>4. /\ \A t \in 1..n : rs[t].index = Expected(rs)[t] /\ IsSeparator(mem, rs[t].index)
      /\ IsSeparator(mem, Expected(rs)[n + 1])
  BY <1>2, <1>3 DEF IsValid
<1>5. \A i \in 1..k : ByteOf(mem, SchemaBytes(s)[i][1]) = SchemaBytes(s)[i][2]
  BY DEF WrittenUpTo
<1> HIDE DEF rs
<1> DEFINE S == {j \in Nat : \A t \in 1..n : t <= j => rs[t] = SchemaRow(s, t)}
<1>6. 0 \in S
  <2>1. \A t \in 1..n : ~(t <= 0)
    <3> HIDE DEF n
    <3> QED BY <1>1, SMT
  <2> QED BY <2>1
<1>7. ASSUME NEW j \in S
      PROVE  j + 1 \in S
  <2> DEFINE t == j + 1
  <2>1. \A u \in 1..n : u < t => u <= j
    BY SMT
  <2>2. ASSUME t \in 1..n
        PROVE  rs[t] = SchemaRow(s, t)
    <3>1. t \in 1..(n + 1) /\ f[t] % W = f[t]
      BY <1>1, <2>2, LayoutModulo
    <3>2. Expected(rs)[t] = f[t]
      <4>1. \A u \in 1..n : u < t => rs[u] = SchemaRow(s, u)
        BY <2>1
      <4> HIDE DEF t
      <4> QED BY <1>1, <1>2, <3>1, <4>1, ExpectedAll
    <3> HIDE DEF t
    <3>3. IsSeparator(mem, f[t])
      BY <1>4, <2>2, <3>2
    <3>4. ByteOf(mem, f[t] - 1) = 0
      BY <1>1, <3>1, <3>3, SeparatorAt
    <3>5. SchemaBytes(s)[8 * t] = <<f[t] - 1, 0>> /\ 8 * t \in 1..NumWrites(s)
      BY <2>2, RowAmongBytes
    <3>6. 8 * t <= k
      <4>1. ByteOf(mem, SchemaBytes(s)[8 * t][1]) = 0
        BY <3>4, <3>5
      <4> QED BY <3>5, <4>1, ZeroIsWritten
    <3>7. \A i \in 1..6 : 8 * (t - 1) + i + 1 \in 1..k
      <4>1. t \in Nat /\ t >= 1
        BY <2>2, <1>1, SMT
      <4> QED BY <4>1, <3>6, SMT
    <3>8. LoadedRow(mem, t) = SchemaRow(s, t)
      BY <1>5, <2>2, <3>7, WholeRowStored
    <3> QED BY <1>2, <2>2, <3>8
  <2>3. \A u \in 1..n : u <= j + 1 => u <= j \/ u = t
    BY SMT
  <2> QED BY <2>2, <2>3
<1>8. S = Nat
  BY <1>6, <1>7, SetInduction
<1>9. \A t \in 1..n : rs[t] = SchemaRow(s, t)
  <2>1. n \in S
    BY <1>1, <1>8
  <2>2. \A t \in 1..n : t <= n
    BY <1>1, SMT
  <2> QED BY <2>1, <2>2
<1>10. n + 1 \in 1..(n + 1)
  BY <1>1, LayoutModulo
<1>11. IsSeparator(mem, f[n + 1] % W)
  BY <1>1, <1>2, <1>4, <1>9, <1>10, ExpectedAll
<1>12. ByteOf(mem, f[n + 1] - 1) = 0
  BY <1>1, <1>10, <1>11, SeparatorAt
<1>13. SchemaBytes(s)[NumWrites(s)] = <<f[n + 1] - 1, 0>>
  BY BytesPlace DEF IsSchemaBytes
<1>14. NumWrites(s) \in 1..NumWrites(s) /\ NumWrites(s) \in Nat
  BY BytesPlace, SMT
<1>15. NumWrites(s) <= k
  <2>1. ByteOf(mem, SchemaBytes(s)[NumWrites(s)][1]) = 0
    BY <1>12, <1>13
  <2> QED BY <1>14, <2>1, ZeroIsWritten
<1> QED BY <1>14, <1>15, SMT

(* Counting the records of a catalog that fits reads no absent byte.       *)
LEMMA CountInside ==
  ASSUME NEW s \in Schemas, Fits(s), NEW mem
  PROVE  ~LoadHalts(mem, SchemaRows(s))
<1> DEFINE n == Len(s)
           rs == SchemaRows(s)
<1>1. NoWrap(s) /\ n \in Nat
  BY BytesPlace, LenIsNat
<1>2. Tables(rs) = 1..n /\ \A t \in 1..n : rs[t] = SchemaRow(s, t)
  BY <1>1 DEF SchemaRows, Tables
<1>3. ASSUME NEW t \in 1..n, NEW r \in 0..(rs[t].max - 1)
      PROVE  ~((rs[t].index + r) % W >= EESize)
  <2> DEFINE a == Layout(s)[t]
             m == s[t].max
             z == AreaSize(s, t)
             e == Layout(s)[n + 1]
  <2>1. rs[t].index = a /\ rs[t].max = m
    <3>1. rs[t] = SchemaRow(s, t)
      BY <1>2
    <3> QED BY <3>1, RowFields
  <2>2. a \in Nat /\ a + m + z + 2 <= e
    BY LaidOut DEF IsLaid
  <2>3. m \in Nat /\ z \in Nat
    BY ShapeOf, ShapeIsNat
  <2>4. n + 1 \in 1..(n + 1)
    BY <1>1, LayoutModulo
  <2>5. e \in Nat /\ e <= EESize
    BY <2>4, LayoutNat DEF Fits
  <2> HIDE DEF a, m, z, e
  <2>6. r \in Nat /\ r < m
    BY <2>1, <2>3, SMT
  <2>7. a + r \in Nat /\ a + r < EESize /\ a + r < W
    BY <2>2, <2>3, <2>5, <2>6, SizeIsNat, SMT DEF W
  <2>8. (a + r) % W = a + r
    BY <2>7, Mods
  <2> QED BY <2>1, <2>7, <2>8, SizeIsNat, SMT
<1>4. ASSUME NEW t \in 1..n, NEW a \in CountReads(mem, rs[t]), a >= EESize
      PROVE  FALSE
  <2>1. PICK r \in 0..(rs[t].max - 1) : a = (rs[t].index + r) % W
    BY DEF CountReads
  <2> QED BY <1>3, <1>4, <2>1
<1> QED BY <1>2, <1>4 DEF LoadHalts

-----------------------------------------------------------------------------
(***************************************************************************)
(* Types.                                                                  *)
(***************************************************************************)
Words == 0..(W - 1)
Bytes == 0..255

LEMMA RowSetIs ==
  /\ \A i, d \in Words : \A z, m \in Bytes :
       [index |-> i, data |-> d, size |-> z, max |-> m] \in RowSet
  /\ \A row \in RowSet :
       row.index \in Words /\ row.data \in Words /\ row.size \in Bytes /\ row.max \in Bytes
<1> DEFINE A == 0..(W - 1)
           B == 0..255
<1>1. RowSet = [index : A, data : A, size : B, max : B]
  BY DEF RowSet
<1>2. Words = A /\ Bytes = B
  BY DEF Words, Bytes
<1> HIDE DEF A, B
<1> QED BY <1>1, <1>2

LEMMA WordsAre ==
  /\ \A x \in Words : x \in Nat /\ x < W
  /\ \A x \in Nat : x < W => x \in Words
  /\ \A x \in Nat : x % W \in Words
  /\ \A x, y \in Bytes : x + 256 * y \in Words
  /\ \A x \in Words : x % 256 \in Bytes /\ x \div 256 \in Bytes
  /\ \A x \in Bytes : x \in Nat /\ x \in Words
<1> DEFINE w == W
<1>0. w \in Nat /\ Words = 0..(w - 1)
  BY DEF W, Words
<1> HIDE DEF w
<1>1. \A x \in Words : x \in Nat /\ x < W
  <2>1. \A x \in 0..(w - 1) : x \in Nat /\ x < w
    BY <1>0, SMT
  <2> QED BY <1>0, <2>1 DEF w
<1>2. ASSUME NEW x \in Nat, x < W
      PROVE  x \in Words
  <2>1. x <= W - 1 /\ 0 <= x /\ W - 1 \in Int
    BY <1>2, SMT DEF W
  <2> QED BY <2>1 DEF Words
<1>3. \A x \in Nat : x % W \in Words
  <2> TAKE x \in Nat
  <2>1. x % W \in Nat /\ x % W < W
    BY SMT DEF W
  <2> QED BY <2>1, <1>2
<1>4. \A x, y \in Bytes : x + 256 * y \in Words
  <2> TAKE x, y \in Bytes
  <2>1. x \in Nat /\ y \in Nat /\ x <= 255 /\ y <= 255
    BY SMT DEF Bytes
  <2>2. x + 256 * y \in Nat /\ x + 256 * y < W
    BY <2>1, SMT DEF W
  <2> QED BY <2>2, <1>2
<1>5. \A x \in Words : x % 256 \in Bytes /\ x \div 256 \in Bytes
  <2> TAKE x \in Words
  <2>1. x \in Nat /\ x < W
    BY <1>1
  <2>2. x % 256 \in Nat /\ x % 256 <= 255 /\ x \div 256 \in Nat /\ x \div 256 <= 255
    BY <2>1, SMT DEF W
  <2> DEFINE y == x % 256
             z == x \div 256
  <2> HIDE DEF y, z
  <2>3. y \in Nat /\ y <= 255 /\ z \in Nat /\ z <= 255
    BY <2>2 DEF y, z
  <2>4. y \in Bytes /\ z \in Bytes
    BY <2>3, SMT DEF Bytes
  <2> QED BY <2>4 DEF y, z
<1>6. \A x \in Bytes : x \in Nat /\ x \in Words
  <2> TAKE x \in Bytes
  <2>1. x \in Nat /\ x < W
    BY SMT DEF Bytes, W
  <2> QED BY <2>1, <1>2
<1> QED BY <1>1, <1>2, <1>3, <1>4, <1>5, <1>6

LEMMA RowType ==
  ASSUME NEW row \in RowSet
  PROVE  IsRowType(row) /\ DataAreaSize(row) \in Words
<1>1. IsRowType(row)
  BY RowSetIs, WordsAre DEF IsRowType
<1> DEFINE a == row.size
           b == row.max
<1>2. a \in Nat /\ b \in Nat
  BY <1>1 DEF IsRowType
<1> HIDE DEF a, b
<1>3. a * b \in Nat
  BY <1>2, SMT
<1>4. (a * b) % W \in Words
  BY <1>3, WordsAre
<1> QED BY <1>1, <1>4 DEF DataAreaSize, a, b

LEMMA LoadedRowType ==
  ASSUME NEW mem, IsMemory(mem), NEW t
  PROVE  LoadedRow(mem, t) \in RowSet
<1>1. \A a : ByteOf(mem, a) \in Bytes
  BY ByteType DEF Bytes
<1>2. \A a : WordOf(mem, a) \in Words
  BY <1>1, WordsAre DEF WordOf
<1> QED BY <1>1, <1>2, RowSetIs DEF LoadedRow

LEMMA LoadedRowsType ==
  ASSUME NEW mem, IsMemory(mem), NEW n \in Nat
  PROVE  LoadedRows(mem, n) \in Seq(RowSet) /\ Len(LoadedRows(mem, n)) = n
<1>1. NoRow \in RowSet
  <2>1. 0 \in Words /\ 0 \in Bytes
    BY SMT DEF Words, W, Bytes
  <2> QED BY <2>1, RowSetIs DEF NoRow
<1>2. \A t \in 1..n : (IF ByteOf(mem, ADDR_NUM_TABLES) = n THEN LoadedRow(mem, t) ELSE NoRow) \in RowSet
  BY <1>1, LoadedRowType
<1> QED BY <1>2 DEF LoadedRows

LEMMA RowForType ==
  ASSUME rows \in Seq(RowSet), Len(rows) <= 250,
         NEW shape, shape.max \in 1..250, shape.size \in 1..250,
         NEW t \in 1..Len(rows)
  PROVE  RowFor(t, shape) \in RowSet
<1> DEFINE z == shape.size
           m == shape.max
           n == Len(rows)
           index == IF t > 1
                    THEN (rows[t - 1].data + DataAreaSize(rows[t - 1]) + 1) % W
                    ELSE n * TABLE_CATALOG_ROW_SIZE + 2
<1>1. z \in Bytes /\ m \in Bytes /\ m \in Nat
  <2>1. z \in 1..250 /\ m \in 1..250
    OBVIOUS
  <2> HIDE DEF z, m
  <2> QED BY <2>1, SMT DEF Bytes
<1>2. n \in Nat /\ n <= 250
  OBVIOUS
<1>3. ASSUME t > 1
      PROVE  index \in Words
  <2> DEFINE row == rows[t - 1]
             d == row.data
             a == DataAreaSize(row)
  <2>1. row \in RowSet
    <3>1. t - 1 \in 1..n
      <4> HIDE DEF n
      <4>1. t \in 1..n
        BY DEF n
      <4> QED BY <1>2, <1>3, <4>1, SMT
    <3> QED BY <3>1
  <2>2. d \in Nat /\ a \in Nat
    BY <2>1, RowType, WordsAre DEF IsRowType
  <2>3. index = (d + a + 1) % W
    BY <1>3
  <2> HIDE DEF d, a, index
  <2>4. d + a + 1 \in Nat
    BY <2>2, SMT
  <2> QED BY <2>3, <2>4, WordsAre
<1>4. ASSUME ~(t > 1)
      PROVE  index \in Words
  <2>1. index = n * 6 + 2
    BY <1>4 DEF TABLE_CATALOG_ROW_SIZE
  <2> HIDE DEF n, index
  <2>2. n * 6 + 2 \in Nat /\ n * 6 + 2 < W
    BY <1>2, SMT DEF W
  <2> QED BY <2>1, <2>2, WordsAre
<1>5. index \in Words
  BY <1>3, <1>4
<1>6. RowFor(t, shape) = [index |-> index, data |-> (index + m + 1) % W, size |-> z, max |-> m]
  BY DEF RowFor
<1> HIDE DEF index, m, z
<1>7. index \in Nat
  BY <1>5, WordsAre
<1>8. index + m + 1 \in Nat
  BY <1>1, <1>7, SMT
<1>9. (index + m + 1) % W \in Words
  BY <1>8, WordsAre
<1> QED BY <1>1, <1>5, <1>6, <1>9, RowSetIs

LEMMA RowTupleBytes ==
  ASSUME NEW row \in RowSet, NEW t, NEW j \in 1..8
  PROVE  RowTuple(row, t)[j][2] \in Bytes
<1>1. row.index \in Words /\ row.data \in Words /\ row.size \in Bytes /\ row.max \in Bytes
  BY RowSetIs
<1>2. /\ row.index % 256 \in Bytes /\ row.index \div 256 \in Bytes
      /\ row.data % 256 \in Bytes /\ row.data \div 256 \in Bytes
  BY <1>1, WordsAre, ZenonT(60)
<1>3. 0 \in Bytes
  BY SMT DEF Bytes
<1> DEFINE b == RowTuple(row, t)
<1>4. /\ b[1][2] = row.index % 256 /\ b[2][2] = row.index \div 256
      /\ b[3][2] = row.data % 256 /\ b[4][2] = row.data \div 256
      /\ b[5][2] = row.size /\ b[6][2] = row.max /\ b[7][2] = 0 /\ b[8][2] = 0
  BY DEF RowTuple
<1> HIDE DEF b
<1>5. j \in {1, 2, 3, 4, 5, 6, 7, 8}
  BY SMT
<1>6. /\ b[1][2] \in Bytes /\ b[2][2] \in Bytes /\ b[3][2] \in Bytes /\ b[4][2] \in Bytes
      /\ b[5][2] \in Bytes /\ b[6][2] \in Bytes /\ b[7][2] \in Bytes /\ b[8][2] \in Bytes
  <2>1. b[1][2] \in Bytes /\ b[2][2] \in Bytes
    BY <1>2, <1>4
  <2>2. b[3][2] \in Bytes /\ b[4][2] \in Bytes
    BY <1>2, <1>4
  <2>3. b[5][2] \in Bytes /\ b[6][2] \in Bytes
    BY <1>1, <1>4
  <2>4. b[7][2] \in Bytes /\ b[8][2] \in Bytes
    BY <1>3, <1>4
  <2> QED BY <2>1, <2>2, <2>3, <2>4
<1>7. b[j][2] \in Bytes
  BY <1>5, <1>6
<1> QED BY <1>7 DEF b

LEMMA TypedCatalog ==
  ASSUME NEW rs \in Seq(RowSet), Len(rs) >= 1, Len(rs) <= 250
  PROVE  IsCatalog(rs, Len(rs), CatalogWrites(rs))
<1> DEFINE n == Len(rs)
           b == CatalogWrites(rs)
<1>1. n \in Nat /\ n >= 1 /\ n <= 250
  OBVIOUS
<1>2. \A t \in 1..n : rs[t] \in RowSet
  OBVIOUS
<1>3. EndOf(rs) \in Nat
  <2> DEFINE row == rs[n]
             d == row.data
             a == DataAreaSize(row)
  <2>1. n \in 1..n
    <3> HIDE DEF n
    <3> QED BY <1>1, SMT
  <2>2. row \in RowSet
    BY <1>2, <2>1
  <2>3. d \in Nat /\ a \in Nat
    BY <2>2, RowType, WordsAre DEF IsRowType
  <2>4. EndOf(rs) = (d + a) % W
    BY DEF EndOf
  <2> HIDE DEF d, a
  <2>5. d + a \in Nat
    BY <2>3, SMT
  <2> QED BY <2>4, <2>5, WordsAre
<1>4. IsCatalog(rs, n, b)
  <2>1. \A t \in 1..n : IsRowType(rs[t])
    BY <1>2, RowType
  <2> QED BY <1>1, <1>3, <2>1, CatalogWritesIs
<1> QED BY <1>4

LEMMA CatalogBytes ==
  ASSUME NEW rs \in Seq(RowSet), Len(rs) >= 1, Len(rs) <= 250
  PROVE  CatalogWrites(rs) \in Seq(Nat \X (0..255))
<1> DEFINE n == Len(rs)
           b == CatalogWrites(rs)
<1>1. n \in Nat /\ n >= 1 /\ n <= 250
  OBVIOUS
<1>2. \A t \in 1..n : rs[t] \in RowSet
  OBVIOUS
<1>4. IsCatalog(rs, n, b)
  BY TypedCatalog
<1>5. /\ b \in Seq(ByteWrites) /\ Len(b) = 8 * n + 2
      /\ b[1][2] = n /\ b[8 * n + 2][2] = 0
      /\ \A t \in 1..n : \A j \in 1..8 : b[8 * (t - 1) + j + 1] = RowTuple(rs[t], t)[j]
  BY <1>4 DEF IsCatalog
<1> HIDE DEF b, n
<1>6. ASSUME NEW i \in 1..Len(b)
      PROVE  b[i] \in Nat \X (0..255)
  <2>1. i \in Nat /\ i >= 1 /\ i <= 8 * n + 2
    BY <1>1, <1>5, SMT
  <2>2. b[i] \in ByteWrites
    BY <1>5
  <2>3. b[i][2] \in Bytes
    <3>1. CASE i = 1
      <4>1. n \in Bytes
        BY <1>1, SMT DEF Bytes
      <4> QED BY <3>1, <4>1, <1>5
    <3>2. CASE i = 8 * n + 2
      <4>1. 0 \in Bytes
        BY SMT DEF Bytes
      <4> QED BY <3>2, <4>1, <1>5
    <3>3. CASE i # 1 /\ i # 8 * n + 2
      <4>1. 2 <= i /\ i <= 8 * n + 1
        BY <2>1, <1>1, <3>3, SMT
      <4>2. PICK t \in 1..n : \E j \in 1..8 : i = 8 * (t - 1) + j + 1
        BY <4>1, <2>1, <1>1, RowPlaces
      <4>3. PICK j \in 1..8 : i = 8 * (t - 1) + j + 1
        BY <4>2
      <4>4. b[i] = RowTuple(rs[t], t)[j]
        BY <4>3, <1>5
      <4> QED BY <4>4, <1>2, RowTupleBytes
    <3> QED BY <3>1, <3>2, <3>3
  <2> QED BY <2>2, <2>3 DEF ByteWrites, Bytes
<1>7. b \in Seq(Nat \X (0..255))
  <2> DEFINE T == Nat \X (0..255)
  <2>1. \A i \in 1..Len(b) : b[i] \in T
    BY <1>6
  <2> HIDE DEF T
  <2>2. b \in Seq(T)
    BY <1>5, <2>1
  <2> QED BY <2>2 DEF T
<1> QED BY <1>7 DEF b

Statuses == {"off", "clearing", "creating", "committing", "open", "halted"}

TypeParts ==
  /\ IsMemory(ee)
  /\ device \in Devices /\ schema \in device.schemas
  /\ rows \in Seq(RowSet)
  /\ status # "off" => Len(rows) = Len(schema)
  /\ writes \in Seq(Nat \X (0..255))
  /\ created \in 0..Len(schema)
  /\ status \in {"off", "clearing"} => created = 0
  /\ cuts \in 0..device.maxCuts
  /\ status \in Statuses

LEMMA TypeIsParts ==
  /\ CatalogType <=> TypeParts
  /\ CatalogType' <=> TypeParts'
<1>1. rows \in Seq(RowSet) => \A t \in Tables(rows) : rows[t] \in RowSet
  BY DEF Tables
<1>2. rows' \in Seq(RowSet) => \A t \in Tables(rows') : rows'[t] \in RowSet
  BY DEF Tables
<1> DEFINE Row == [index : 0..(W - 1), data : 0..(W - 1), size : 0..255, max : 0..255]
<1>3. RowSet = Row
  BY DEF RowSet
<1>4. TypeOK <=>
        /\ IsMemory(ee)
        /\ device \in Devices /\ schema \in device.schemas
        /\ \A t \in Tables(rows) : rows[t] \in Row
        /\ created \in 0..Len(schema)
        /\ cuts \in 0..device.maxCuts
        /\ status \in Statuses
        /\ status # "off" => Len(rows) = Len(schema)
  BY Zenon DEF TypeOK, IsMemory, Statuses
<1>5. TypeOK' <=>
        /\ IsMemory(ee')
        /\ device' \in Devices /\ schema' \in device'.schemas
        /\ \A t \in Tables(rows') : rows'[t] \in Row
        /\ created' \in 0..Len(schema')
        /\ cuts' \in 0..device'.maxCuts
        /\ status' \in Statuses
        /\ status' # "off" => Len(rows') = Len(schema')
  BY Zenon DEF TypeOK, IsMemory, Statuses
<1> HIDE DEF Row
<1>6. CatalogType <=> TypeParts
  BY <1>1, <1>3, <1>4, Zenon DEF CatalogType, TypeParts
<1>7. CatalogType' <=> TypeParts'
  BY <1>2, <1>3, <1>5, Zenon DEF CatalogType, TypeParts
<1> QED BY <1>6, <1>7

LEMMA SchemaType ==
  ASSUME device \in Devices, schema \in device.schemas
  PROVE  /\ schema \in Schemas
         /\ Len(schema) \in Nat /\ Len(schema) >= 1 /\ Len(schema) <= 250
         /\ device.asserts \in BOOLEAN /\ device.maxCuts \in Nat
<1>1. schema \in Schemas
  BY TableCatalogAssumption, Zenon DEF Schemas
<1>2. device.asserts \in BOOLEAN /\ device.maxCuts \in Nat
  BY TableCatalogAssumption
<1> QED BY <1>1, <1>2, LenIsNat

LEMMA MemoryParts ==
  ASSUME NEW mem, IsMemory(mem)
  PROVE  /\ DOMAIN mem \subseteq Nat
         /\ \A S : IsMemory([a \in DOMAIN mem \ S |-> mem[a]])
<1>1. \A a \in 0..(EESize - 1) : a \in Nat
  BY SizeIsNat, SMT
<1>2. DOMAIN mem \subseteq Nat
  BY <1>1 DEF IsMemory
<1> QED BY <1>2, Zenon DEF IsMemory

LEMMA AreaWrites ==
  ASSUME TypeParts, NEW t \in Tables(rows), WriteTable(t)
  PROVE  \E a \in Nat : \E v \in 0..255 : ee' = Written(ee, a, v)
<1> DEFINE i == rows[t].index
           d == rows[t].data
           m == rows[t].max
           z == DataAreaSize(rows[t])
<1>1. rows[t] \in RowSet
  BY DEF TypeParts, Tables
<1>2. i \in Nat /\ d \in Nat /\ m \in Nat /\ z \in Nat
  BY <1>1, RowType, WordsAre DEF IsRowType
<1>3. \A v \in {0, EE_CLEAR_VALUE} : v \in 0..255
  BY SMT DEF EE_CLEAR_VALUE
<1>4. \/ \E r \in {0, m - 1}, v \in {0, EE_CLEAR_VALUE} : ee' = Written(ee, (i + r) % W, v)
      \/ \E o \in {0, z - 1}, v \in {0, EE_CLEAR_VALUE} : ee' = Written(ee, (d + o) % W, v)
  BY DEF WriteTable
<1> HIDE DEF i, d, m, z
<1>5. ASSUME NEW x \in Nat, NEW y \in Nat, NEW r \in {0, y - 1}
      PROVE  (x + r) % W \in Nat
  BY SMT DEF W
<1> QED BY <1>2, <1>3, <1>4, <1>5, ZenonT(60)

LEMMA MinIs ==
  ASSUME NEW T, T \subseteq Nat, T # {}
  PROVE  Min(T) \in T /\ \A y \in T : Min(T) <= y
BY LeastElement DEF Min

LEMMA TypeStep ==
  ASSUME CatalogType, [Next]_vars
  PROVE  CatalogType'
<1> USE DEF Statuses
<1>1. TypeParts
  BY TypeIsParts
<1>2. /\ schema \in Schemas
      /\ Len(schema) \in Nat /\ Len(schema) >= 1 /\ Len(schema) <= 250
      /\ device.asserts \in BOOLEAN /\ device.maxCuts \in Nat
  BY <1>1, SchemaType DEF TypeParts
<1> SUFFICES TypeParts'
  BY TypeIsParts
<1>3. CASE TryToOpen
  <2> DEFINE loaded == LoadedRows(ee, Len(schema))
  <2>1. loaded \in Seq(RowSet) /\ Len(loaded) = Len(schema)
    BY <1>1, <1>2, LoadedRowsType DEF TypeParts
  <2>2. /\ rows' = loaded /\ status' \in {"halted", "open", "clearing"} /\ created = 0
        /\ UNCHANGED <<ee, device, schema, created, writes, cuts>>
    BY <1>1, <1>3, Zenon DEF TryToOpen, TypeParts
  <2> HIDE DEF loaded
  <2> QED BY <1>1, <2>1, <2>2 DEF TypeParts
<1>4. CASE ClearByte
  <2>1. IsMemory(ee')
    BY <1>1, <1>4, MemoryParts DEF ClearByte, TypeParts
  <2> QED BY <1>1, <1>4, <2>1 DEF ClearByte, TypeParts
<1>5. CASE OpenFailed
  BY <1>1, <1>5 DEF OpenFailed, TypeParts
<1>6. CASE CreateTable
  <2> DEFINE t == Min(FreeRows)
             shape == schema[created + 1]
  <2>1. created \in Nat /\ created < Len(schema) /\ created + 1 \in 1..Len(schema)
        /\ created + 1 \in 0..Len(schema)
    BY <1>1, <1>2, <1>6, SMT DEF CreateTable, TypeParts
  <2>2. shape.max \in 1..250 /\ shape.size \in 1..250
    <3>1. IsShape(schema, created + 1)
      BY <1>2, <2>1, ShapeOf
    <3> QED BY <3>1 DEF IsShape
  <2>3. Len(rows) = Len(schema) /\ rows \in Seq(RowSet)
    BY <1>1, <1>6 DEF CreateTable, TypeParts
  <2>4. t \in 1..Len(rows)
    <3>1. FreeRows # {} /\ FreeRows \subseteq 1..Len(rows) /\ 1..Len(rows) \subseteq Nat
      BY <1>6, <2>3, SMT DEF CreateTable, FreeRows, Tables
    <3>2. FreeRows \subseteq Nat
      BY <3>1
    <3> QED BY <3>1, <3>2, MinIs
  <2>5. RowFor(t, shape) \in RowSet
    BY <1>2, <2>2, <2>3, <2>4, RowForType
  <2>6. rows' = [rows EXCEPT ![t] = RowFor(t, shape)]
    BY <1>6 DEF CreateTable
  <2>7. rows' \in Seq(RowSet) /\ Len(rows') = Len(schema)
    <3> HIDE DEF t, shape
    <3> QED BY <2>3, <2>4, <2>5, <2>6
  <2>8. /\ status = "creating" /\ created' = created + 1
        /\ UNCHANGED <<ee, device, schema, writes, cuts, status>>
    BY <1>6 DEF CreateTable
  <2> QED BY <1>1, <2>1, <2>7, <2>8 DEF TypeParts
<1>7. CASE CreateTableHalts
  BY <1>1, <1>7 DEF CreateTableHalts, TypeParts
<1>8. CASE CommitTables
  <2>1. /\ writes' = CatalogWrites(rows) /\ status = "creating" /\ status' = "committing"
        /\ UNCHANGED <<ee, device, schema, rows, created, cuts>>
    BY <1>8 DEF CommitTables
  <2>2. CatalogWrites(rows) \in Seq(Nat \X (0..255))
    BY <1>1, <1>2, <2>1, CatalogBytes DEF TypeParts
  <2> QED BY <1>1, <2>1, <2>2, Zenon DEF TypeParts
<1>9. CASE CommitByte
  <2>1. status = "committing" /\ writes # <<>> /\ UNCHANGED <<device, schema, rows, created, cuts>>
    BY <1>9 DEF CommitByte
  <2>2. CASE device.asserts /\ Head(writes)[1] >= EESize
    <3>1. status' = "halted" /\ UNCHANGED <<ee, writes>>
      BY <1>9, <2>2 DEF CommitByte
    <3> QED BY <1>1, <2>1, <3>1 DEF TypeParts
  <2>3. CASE ~(device.asserts /\ Head(writes)[1] >= EESize)
    <3>1. /\ ee' = Written(ee, Head(writes)[1], Head(writes)[2]) /\ writes' = Tail(writes)
          /\ UNCHANGED status
      BY <1>9, <2>3 DEF CommitByte
    <3> DEFINE T == Nat \X (0..255)
    <3>2. writes \in Seq(T)
      BY <1>1 DEF TypeParts
    <3>3. \A p \in T : p[1] \in Nat /\ p[2] \in 0..255
      OBVIOUS
    <3> HIDE DEF T
    <3>4. Head(writes) \in T /\ Tail(writes) \in Seq(T)
      BY <2>1, <3>2
    <3>5. IsMemory(ee')
      BY <1>1, <3>1, <3>3, <3>4, WrittenMemory DEF TypeParts
    <3> QED BY <1>1, <2>1, <3>1, <3>4, <3>5, Zenon DEF TypeParts, T
  <2> QED BY <2>2, <2>3
<1>10. CASE Committed
  BY <1>1, <1>10 DEF Committed, TypeParts
<1>11. CASE DeleteTableCatalog
  <2>1. IsMemory(ee')
    <3>1. 0 \in Nat /\ 0 \in 0..255
      BY SMT
    <3> QED BY <1>1, <1>11, <3>1, WrittenMemory DEF DeleteTableCatalog, TypeParts, ADDR_NUM_TABLES
  <2> QED BY <1>1, <1>11, <2>1 DEF DeleteTableCatalog, TypeParts
<1>12. ASSUME NEW t \in Tables(rows), WriteTable(t)
       PROVE  TypeParts'
  <2>1. IsMemory(ee')
    BY <1>1, <1>12, AreaWrites, WrittenMemory DEF TypeParts
  <2>2. UNCHANGED <<device, schema, rows, created, writes, cuts, status>>
    BY <1>12 DEF WriteTable
  <2> QED BY <1>1, <2>1, <2>2 DEF TypeParts
<1>13. ASSUME PowerDown, cuts' \in 0..device.maxCuts
       PROVE  TypeParts'
  <2>1. <<>> \in Seq(RowSet) /\ <<>> \in Seq(Nat \X (0..255)) /\ 0 \in 0..Len(schema)
    BY <1>2, SMT
  <2> QED BY <1>1, <1>13, <2>1 DEF PowerDown, TypeParts
<1>14. CASE PowerCut
  <2>1. cuts' \in 0..device.maxCuts
    BY <1>1, <1>2, <1>14, SMT DEF PowerCut, TypeParts
  <2> QED BY <1>13, <1>14, <2>1 DEF PowerCut
<1>15. CASE SwitchOff \/ Restart
  BY <1>1, <1>13, <1>15 DEF SwitchOff, Restart, TypeParts
<1>16. ASSUME NEW s \in device.schemas, LoadFirmware(s)
       PROVE  TypeParts'
  <2>1. Len(s) \in Nat /\ 0 \in 0..Len(s)
    <3>1. s \in Schemas
      BY <1>1, TableCatalogAssumption, ZenonT(60) DEF Schemas, TypeParts
    <3>2. Len(s) \in Nat
      BY <3>1, LenIsNat
    <3> QED BY <3>2, SMT
  <2>2. status = "off" /\ schema' = s /\ UNCHANGED <<device, ee, rows, created, writes, cuts, status>>
    BY <1>16 DEF LoadFirmware
  <2> QED BY <1>1, <2>1, <2>2 DEF TypeParts
<1>17. CASE UNCHANGED vars
  BY <1>1, <1>17 DEF vars, TypeParts
<1> QED
  BY <1>3, <1>4, <1>5, <1>6, <1>7, <1>8, <1>9, <1>10, <1>11, <1>12, <1>14, <1>15, <1>16, <1>17
     DEF Next, Run

LEMMA InitType ==
  ASSUME Init
  PROVE  CatalogType
<1>1. schema \in Schemas /\ Len(schema) \in Nat /\ device.maxCuts \in Nat
  BY SchemaType DEF Init
<1>2. <<>> \in Seq(RowSet) /\ <<>> \in Seq(Nat \X (0..255))
  OBVIOUS
<1>3. 0 \in 0..Len(schema) /\ 0 \in 0..device.maxCuts
  BY <1>1, SMT
<1>4. IsMemory([a \in {} |-> 0])
  BY Zenon DEF IsMemory
<1>5. TypeParts
  BY <1>2, <1>3, <1>4 DEF Init, TypeParts, Statuses
<1> QED BY <1>5, TypeIsParts

-----------------------------------------------------------------------------
(***************************************************************************)
(* The steps of the invariant.                                             *)
(***************************************************************************)
LEMMA SchemaFits ==
  ASSUME SchemasFit, CatalogType
  PROVE  /\ schema \in Schemas /\ NoWrap(schema)
         /\ ~device.asserts => Fits(schema)
         /\ Len(schema) \in Nat /\ Len(schema) >= 1 /\ Len(schema) <= 250
         /\ IsMemory(ee)
<1>1. device \in Devices /\ schema \in device.schemas /\ IsMemory(ee)
  BY TypeIsParts DEF TypeParts
<1> DEFINE n == Len(schema)
           e == Layout(schema)[n + 1]
<1>2. schema \in Schemas /\ n \in Nat /\ n >= 1 /\ n <= 250
  BY <1>1, SchemaType
<1>3. e <= (IF device.asserts THEN W ELSE EESize)
  BY <1>1, Zenon DEF SchemasFit
<1>4. n + 1 \in 1..(n + 1)
  <2> HIDE DEF n
  <2> QED BY <1>2, SMT
<1>5. e \in Nat
  BY <1>2, <1>4, LayoutNat
<1>6. NoWrap(schema) <=> e <= W
  BY DEF NoWrap
<1>7. Fits(schema) <=> e <= EESize
  BY DEF Fits
<1> HIDE DEF e, n
<1>8. NoWrap(schema) /\ (~device.asserts => Fits(schema))
  <2>1. CASE device.asserts
    BY <2>1, <1>3, <1>6, Zenon
  <2>2. CASE ~device.asserts
    <3>1. e <= EESize
      BY <2>2, <1>3, Zenon
    <3>2. e <= W
      BY <3>1, <1>5, SizeIsNat, SMT DEF W
    <3> QED BY <3>1, <3>2, <1>6, <1>7
  <2> QED BY <2>1, <2>2
<1> QED BY <1>1, <1>2, <1>8 DEF n

(* An EEPROM without a number of tables holds no catalog.                  *)
LEMMA NoNumber ==
  ASSUME NEW mem, 0 \notin DOMAIN mem, NEW n \in Nat, n <= 250
  PROVE  ByteOf(mem, ADDR_NUM_TABLES) # n
<1>1. ~(0 >= EESize)
  BY SizeIsNat, SMT
<1>2. ByteOf(mem, 0) = 255
  BY <1>1, Zenon DEF ByteOf, EE_CLEAR_VALUE
<1>3. n # 255
  BY SMT
<1> QED BY <1>2, <1>3 DEF ADDR_NUM_TABLES

(* A partial catalog is loaded without a free row.                         *)
LEMMA PartialIsFull ==
  ASSUME NEW s \in Schemas, Fits(s), NEW mem, NEW k \in Nat, k <= NumWrites(s),
         WrittenUpTo(mem, SchemaBytes(s), k), NEW t \in 1..Len(s)
  PROVE  LoadedRow(mem, t).max # 0
<1> SUFFICES ASSUME LoadedRow(mem, t).max = 0 PROVE FALSE
  OBVIOUS
<1> DEFINE i == 8 * (t - 1) + 6 + 1
<1>1. 6 \in 1..8 /\ 6 \in 1..6
  BY SMT
<1>2. i \in 1..NumWrites(s) /\ SchemaBytes(s)[i] = RowBytes(SchemaRow(s, t), t)[6]
  BY <1>1, RowAmongBytes
<1>3. RowBytes(SchemaRow(s, t), t)[6] = <<6 * (t - 1) + 6, s[t].max>>
  <2>1. RowBytes(SchemaRow(s, t), t)[6] = <<6 * (t - 1) + 6, SchemaRow(s, t).max>>
    BY DEF RowBytes
  <2> QED BY <2>1, RowFields
<1>4. LoadedRow(mem, t).max = ByteOf(mem, ADDR_TABLE_CATALOG + (t - 1) * TABLE_CATALOG_ROW_SIZE + 5)
  BY DEF LoadedRow
<1>5. ADDR_TABLE_CATALOG + (t - 1) * TABLE_CATALOG_ROW_SIZE + 5 = 6 * (t - 1) + 6 /\ i \in Nat
  <2> DEFINE n == Len(s)
  <2>1. n \in Nat
    BY LenIsNat
  <2> HIDE DEF n
  <2>2. t \in Nat /\ t >= 1
    BY <2>1, SMT DEF n
  <2> QED BY <2>2, SMT DEF ADDR_TABLE_CATALOG, TABLE_CATALOG_ROW_SIZE
<1> HIDE DEF i
<1>6. ByteOf(mem, SchemaBytes(s)[i][1]) = 0
  BY <1>2, <1>3, <1>4, <1>5
<1>7. i <= k
  BY <1>2, <1>6, ZeroIsWritten
<1>8. i \in 1..k
  BY <1>2, <1>7, BytesPlace, SMT
<1>9. SchemaBytes(s)[i][2] = 0
  BY <1>6, <1>8 DEF WrittenUpTo
<1>10. s[t].max = 0
  BY <1>9, <1>2, <1>3
<1>11. IsShape(s, t)
  BY ShapeOf
<1> QED BY <1>10, <1>11, SMT DEF IsShape

LEMMA OpensWhole ==
  ASSUME NEW s \in Schemas, Fits(s), NEW mem, HoldsCatalog(mem, SchemaRows(s))
  PROVE  WrittenBut1(mem, s)
<1>1. \A i \in 1..NumWrites(s) : ByteOf(mem, SchemaBytes(s)[i][1]) = SchemaBytes(s)[i][2]
  BY BytesPlace DEF HoldsCatalog, SchemaBytes
<1>2. \A i \in 2..NumWrites(s) : i \in 1..NumWrites(s)
  BY BytesPlace, SMT
<1> QED BY <1>1, <1>2, WholeLoads DEF WrittenBut1

LEMMA OpenIsWhole ==
  ASSUME NEW s \in Schemas, Fits(s), NEW mem, WrittenBut1(mem, s),
         ByteOf(mem, ADDR_NUM_TABLES) = Len(s)
  PROVE  HoldsCatalog(mem, SchemaRows(s))
<1>1. \A i \in 1..NumWrites(s) : i = 1 \/ i \in 2..NumWrites(s)
  BY BytesPlace, SMT
<1>2. SchemaBytes(s)[1] = <<ADDR_NUM_TABLES, Len(s)>>
  BY BytesPlace DEF IsSchemaBytes
<1>3. \A i \in 1..NumWrites(s) : ByteOf(mem, SchemaBytes(s)[i][1]) = SchemaBytes(s)[i][2]
  BY <1>1, <1>2 DEF WrittenBut1
<1> QED BY <1>3, BytesPlace DEF HoldsCatalog, SchemaBytes

LEMMA OpenStep ==
  ASSUME SchemasFit, CatalogInv, CatalogType', TryToOpen
  PROVE  CatalogInv'
<1> DEFINE n == Len(schema)
           loaded == LoadedRows(ee, n)
<1>1. schema \in Schemas /\ n \in Nat
  BY SchemaFits DEF CatalogInv
<1>2. UnopenedOK
  BY DEF TryToOpen, CatalogInv
<1>3. /\ rows' = loaded
      /\ status' = IF LoadHalts(ee, loaded) THEN "halted"
                   ELSE IF ByteOf(ee, ADDR_NUM_TABLES) = n /\ IsValid(ee, loaded)
                   THEN "open" ELSE "clearing"
      /\ UNCHANGED <<ee, schema>>
  BY DEF TryToOpen
<1>4. UnopenedOK'
  BY <1>2, <1>3 DEF UnopenedOK
<1>5. Len(loaded) = n
  BY <1>1 DEF LoadedRows
<1>6. CASE ByteOf(ee, ADDR_NUM_TABLES) # n
  <2>1. ~LoadHalts(ee, loaded)
    BY <1>5, <1>6 DEF LoadHalts
  <2>2. status' = "clearing"
    BY <1>3, <1>6, <2>1
  <2>3. loaded = [t \in 1..n |-> NoRow]
    BY <1>6, Zenon DEF LoadedRows
  <2>4. ClearingOK'
    BY <1>3, <2>3 DEF ClearingOK
  <2> QED BY <1>4, <2>2, <2>4 DEF CatalogInv
<1>7. CASE ByteOf(ee, ADDR_NUM_TABLES) = n
  <2>1. Fits(schema)
    BY <1>2, <1>7 DEF UnopenedOK
  <2>2. CASE HoldsCatalog(ee, SchemaRows(schema))
    <3>1. loaded = SchemaRows(schema)
      BY <1>1, <2>1, <2>2, WholeLoads
    <3>2. ~LoadHalts(ee, loaded) /\ IsValid(ee, loaded)
      BY <1>1, <2>1, <2>2, <3>1, CountInside, WholeIsValid
    <3>3. status' = "open"
      BY <1>3, <1>7, <3>2
    <3>4. OpenOK'
      BY <1>1, <1>3, <2>1, <2>2, <3>1, OpensWhole DEF OpenOK
    <3> QED BY <3>3, <3>4 DEF CatalogInv
  <2>3. ASSUME NEW k \in 1..(NumWrites(schema) - 1), WrittenUpTo(ee, SchemaBytes(schema), k)
        PROVE  CatalogInv'
    <3>1. k \in Nat /\ k <= NumWrites(schema) /\ k # NumWrites(schema)
      BY <1>1, <2>1, BytesPlace, SMT
    <3>2. ~IsValid(ee, loaded)
      BY <1>1, <1>7, <2>1, <2>3, <3>1, ValidIsWhole
    <3>3. status' \in {"halted", "clearing"}
      BY <1>3, <3>2
    <3>4. ClearingOK'
      <4>1. \A t \in 1..n : loaded[t] = LoadedRow(ee, t)
        BY <1>7 DEF LoadedRows
      <4>2. \A t \in 1..n : loaded[t].max # 0
        BY <1>1, <2>1, <2>3, <3>1, <4>1, PartialIsFull
      <4> HIDE DEF loaded
      <4> QED BY <1>3, <4>2 DEF ClearingOK, NoRowFree
    <3> QED BY <1>4, <3>3, <3>4 DEF CatalogInv
  <2> QED BY <1>2, <1>7, <2>2, <2>3 DEF UnopenedOK
<1> QED BY <1>6, <1>7

LEMMA ClearStep ==
  ASSUME SchemasFit, CatalogInv, CatalogType', ClearByte \/ OpenFailed
  PROVE  CatalogInv'
<1> DEFINE n == Len(schema)
<1>1. /\ n \in Nat /\ n >= 1 /\ n <= 250
      /\ IsMemory(ee)
  BY SchemaFits DEF CatalogInv
<1>2. status = "clearing" /\ ClearingOK /\ created = 0
  BY DEF ClearByte, OpenFailed, CatalogInv, CatalogType
<1>3. CASE ClearByte
  <2> DEFINE m == Min(DOMAIN ee)
  <2>1. /\ DOMAIN ee # {} /\ ee' = [a \in DOMAIN ee \ {m} |-> ee[a]]
        /\ UNCHANGED <<schema, rows, status>>
    BY <1>3 DEF ClearByte
  <2>2. DOMAIN ee \subseteq Nat
    BY <1>1, MemoryParts
  <2>3. m \in Nat /\ \A y \in DOMAIN ee : m <= y
    BY <2>1, <2>2, MinIs
  <2> HIDE DEF m
  <2>4. 0 \in DOMAIN ee => m = 0
    BY <2>3, SMT
  <2>5. 0 \notin DOMAIN ee'
    BY <2>1, <2>4
  <2>6. ByteOf(ee', ADDR_NUM_TABLES) # Len(schema')
    BY <1>1, <2>1, <2>5, NoNumber
  <2>7. UnopenedOK'
    BY <2>6 DEF UnopenedOK
  <2>8. ClearingOK'
    BY <1>2, <2>1 DEF ClearingOK, NoRowFree
  <2> QED BY <1>2, <2>1, <2>7, <2>8 DEF CatalogInv
<1>4. CASE OpenFailed
  <2>1. /\ DOMAIN ee = {} /\ status' = "creating"
        /\ UNCHANGED <<ee, device, schema, rows, created>>
    BY <1>4 DEF OpenFailed
  <2>2. CASE NoRowFree
    <3>1. CreatingOK'
      BY <1>2, <2>1, <2>2 DEF CreatingOK, NoRowFree
    <3> QED BY <2>1, <3>1 DEF CatalogInv
  <2>3. CASE rows = [t \in 1..n |-> NoRow]
    <3>1. \A t \in 1..n : ~(t <= 0)
      BY <1>1, SMT
    <3>2. rows = [t \in 1..n |-> IF t <= 0 THEN SchemaRow(schema, t) ELSE NoRow]
      BY <2>3, <3>1, Zenon
    <3>3. CreatingOK'
      BY <1>2, <2>1, <3>2 DEF CreatingOK
    <3> QED BY <2>1, <3>3 DEF CatalogInv
  <2> QED BY <1>2, <2>2, <2>3 DEF ClearingOK
<1> QED BY <1>3, <1>4

(* The row that createTable() fills in next is the one of the layout.      *)
LEMMA RowForIs ==
  ASSUME NEW s \in Schemas, NoWrap(s), Len(rows) = Len(s), NEW t \in 1..Len(s),
         t > 1 => rows[t - 1] = SchemaRow(s, t - 1)
  PROVE  /\ RowFor(t, s[t]) = SchemaRow(s, t)
         /\ (SchemaRow(s, t).data + DataAreaSize(SchemaRow(s, t))) % W = Layout(s)[t + 1] - 1
<1> DEFINE n == Len(s)
           x == Layout(s)[t]
           m == s[t].max
           z == AreaSize(s, t)
           index == IF t > 1
                    THEN (rows[t - 1].data + DataAreaSize(rows[t - 1]) + 1) % W
                    ELSE Len(rows) * TABLE_CATALOG_ROW_SIZE + 2
<1>1. n \in Nat /\ n >= 1 /\ n <= 250
  BY LenIsNat
<1>2. /\ x \in Nat /\ x < W /\ x + m + 1 < W /\ m \in Nat /\ z \in Nat
      /\ DataAreaSize(SchemaRow(s, t)) = z
  BY LaidOut, ShapeOf, ShapeIsNat, SchemaRowType DEF IsLaid
<1>3. t \in 1..(n + 1) /\ x % W = x
  BY LayoutModulo
<1>4. ASSUME t > 1
      PROVE  index = x
  <2> DEFINE u == t - 1
             y == Layout(s)[u]
             l == s[u].max
             c == AreaSize(s, u)
  <2>1. u \in 1..n /\ u + 1 = t
    <3> HIDE DEF n
    <3>1. t \in 1..n
      BY DEF n
    <3> QED BY <1>1, <1>4, <3>1, SMT
  <2> HIDE DEF u
  <2>2. x = y + l + c + 2
    BY <2>1, LayoutSteps
  <2>3. y \in Nat /\ l \in Nat /\ c \in Nat /\ DataAreaSize(SchemaRow(s, u)) = c
    BY <2>1, LaidOut, ShapeOf, ShapeIsNat, SchemaRowType DEF IsLaid
  <2>4. rows[u] = SchemaRow(s, u)
    BY <1>4 DEF u
  <2>5. rows[u].data = y + l + 1
    BY <2>4, RowFields
  <2>6. index = (y + l + 1 + c + 1) % W
    BY <1>4, <2>3, <2>4, <2>5 DEF u
  <2> HIDE DEF x, y, l, c, index
  <2>7. y + l + 1 + c + 1 = x
    BY <2>2, <2>3, SMT
  <2> QED BY <1>3, <2>6, <2>7
<1>5. ASSUME ~(t > 1)
      PROVE  index = x
  <2>1. t = 1
    <3> HIDE DEF n
    <3>1. t \in 1..n
      BY DEF n
    <3> QED BY <1>1, <1>5, <3>1, SMT
  <2>2. index = n * 6 + 2
    BY <1>5 DEF TABLE_CATALOG_ROW_SIZE
  <2>3. x = 6 * n + 2
    BY <2>1, LayoutSteps
  <2> HIDE DEF index, x, n
  <2> QED BY <1>1, <2>2, <2>3, SMT
<1>6. index = x
  BY <1>4, <1>5
<1>7. RowFor(t, s[t]) = [index |-> index, data |-> (index + m + 1) % W, size |-> s[t].size, max |-> m]
  BY DEF RowFor
<1>8. SchemaRow(s, t) = [index |-> x, data |-> x + m + 1, size |-> s[t].size, max |-> m]
  BY DEF SchemaRow
<1> DEFINE e == Layout(s)[t + 1]
<1>9. e = x + m + z + 2
  BY LayoutSteps
<1>10. t + 1 \in 1..(n + 1)
  <2> HIDE DEF n
  <2>1. t \in 1..n
    BY DEF n
  <2> QED BY <1>1, <2>1, SMT
<1>11. 1 <= e /\ e <= W
  BY <1>10, LayoutModulo
<1>12. SchemaRow(s, t).data = x + m + 1
  BY RowFields
<1> HIDE DEF index, x, m, z, e, n
<1>13. x + m + 1 \in Nat
  BY <1>2, SMT
<1>14. (x + m + 1) % W = x + m + 1
  BY <1>2, <1>13, Mods
<1>15. x + m + 1 + z = e - 1 /\ e - 1 \in Nat /\ e - 1 < W
  BY <1>2, <1>9, <1>11, SMT DEF W
<1>16. (x + m + 1 + z) % W = e - 1
  BY <1>15, Mods
<1>17. RowFor(t, s[t]) = SchemaRow(s, t)
  BY <1>6, <1>7, <1>8, <1>14
<1> QED BY <1>2, <1>12, <1>16, <1>17 DEF e

LEMMA CreateStep ==
  ASSUME SchemasFit, CatalogInv, CatalogType', CreateTable
  PROVE  CatalogInv'
<1> DEFINE n == Len(schema)
           s == schema
           t == created + 1
<1>1. s \in Schemas /\ NoWrap(s) /\ n \in Nat /\ n >= 1 /\ n <= 250
  BY SchemaFits DEF CatalogInv
<1>2. /\ status = "creating" /\ created < n /\ FreeRows # {}
      /\ device.asserts =>
           (RowFor(Min(FreeRows), s[t]).data + DataAreaSize(RowFor(Min(FreeRows), s[t]))) % W < EESize
      /\ rows' = [rows EXCEPT ![Min(FreeRows)] = RowFor(Min(FreeRows), s[t])]
      /\ created' = created + 1
      /\ UNCHANGED <<ee, device, schema, status>>
  BY Zenon DEF CreateTable
<1>3. /\ DOMAIN ee = {} /\ Len(rows) = n /\ created \in 0..n
      /\ \/ NoRowFree /\ created = 0
         \/ rows = [u \in 1..n |-> IF u <= created THEN SchemaRow(s, u) ELSE NoRow]
  BY <1>2, TypeIsParts DEF CatalogInv, CreatingOK, TypeParts
<1>4. created \in Nat /\ t \in Nat /\ t \in 1..n
  <2> HIDE DEF n
  <2> QED BY <1>1, <1>2, <1>3, SMT
<1>5. FreeRows = {u \in 1..n : rows[u].max = 0}
  BY <1>3 DEF FreeRows, Tables
<1>6. rows = [u \in 1..n |-> IF u <= created THEN SchemaRow(s, u) ELSE NoRow]
  BY <1>2, <1>3, <1>5 DEF NoRowFree
<1>7. \A u \in 1..n : rows[u] = IF u <= created THEN SchemaRow(s, u) ELSE NoRow
  BY <1>6
<1>8. \A u \in 1..n : s[u].max # 0
  <2> TAKE u \in 1..n
  <2>1. IsShape(s, u)
    BY <1>1, ShapeOf
  <2> DEFINE m == s[u].max
  <2>2. m \in 1..250
    BY <2>1 DEF IsShape
  <2> HIDE DEF m
  <2>3. m # 0
    BY <2>2, SMT
  <2> QED BY <2>3 DEF m
<1>9. \A u \in 1..n : rows[u].max = 0 <=> ~(u <= created)
  <2>1. NoRow.max = 0
    BY DEF NoRow
  <2> QED BY <1>7, <1>8, <2>1, RowFields
<1>10. Min(FreeRows) = t
  <2>1. FreeRows \subseteq Nat
    <3> HIDE DEF n
    <3> QED BY <1>5, SMT
  <2>2. Min(FreeRows) \in FreeRows /\ \A y \in FreeRows : Min(FreeRows) <= y
    BY <1>2, <2>1, MinIs
  <2>3. Min(FreeRows) \in Nat /\ ~(Min(FreeRows) <= created)
    BY <2>1, <2>2, <1>5, <1>9
  <2>4. ~(t <= created)
    BY <1>4, SMT
  <2>5. Min(FreeRows) <= t
    BY <2>2, <2>4, <1>4, <1>5, <1>9
  <2> QED BY <2>3, <2>5, <1>4, SMT
<1>11. /\ RowFor(t, s[t]) = SchemaRow(s, t)
       /\ (SchemaRow(s, t).data + DataAreaSize(SchemaRow(s, t))) % W = Layout(s)[t + 1] - 1
  <2>1. ASSUME t > 1
        PROVE  rows[t - 1] = SchemaRow(s, t - 1)
    <3>1. t - 1 \in 1..n /\ t - 1 <= created
      <4>1. created < n
        BY <1>2
      <4> HIDE DEF n
      <4> QED BY <1>1, <1>4, <2>1, <4>1, SMT
    <3> QED BY <3>1, <1>7
  <2> HIDE DEF t
  <2> QED BY <1>1, <1>3, <1>4, <2>1, RowForIs
<1>12. rows' = [u \in 1..n |-> IF u <= created' THEN SchemaRow(s, u) ELSE NoRow]
  <2>1. rows' = [rows EXCEPT ![t] = SchemaRow(s, t)]
    BY <1>2, <1>10, <1>11
  <2>2. \A u \in 1..n : u <= created' <=> u <= created \/ u = t
    <3> HIDE DEF n
    <3> QED BY <1>2, <1>4, SMT
  <2>3. DOMAIN rows = 1..n
    BY <1>6
  <2>4. \A u \in 1..n : rows'[u] = IF u <= created' THEN SchemaRow(s, u) ELSE NoRow
    <3> HIDE DEF n, t
    <3> QED BY <1>7, <2>1, <2>2, <2>3, Zenon
  <2>5. rows' = [u \in 1..n |-> rows'[u]]
    BY <2>1, <2>3
  <2> HIDE DEF n, s
  <2> QED BY <2>4, <2>5
<1>13. device.asserts => Layout(s)[created' + 1] <= EESize
  <2> DEFINE e == Layout(s)[t + 1]
  <2>1. t + 1 \in 1..(n + 1)
    <3> HIDE DEF n
    <3> QED BY <1>1, <1>4, SMT
  <2>2. e \in Nat
    BY <1>1, <2>1, LayoutNat
  <2>3. device.asserts => e - 1 < EESize
    BY <1>2, <1>10, <1>11, Zenon
  <2>4. created' + 1 = t + 1
    BY <1>2
  <2> HIDE DEF e, t
  <2>5. device.asserts => e <= EESize
    BY <2>2, <2>3, SizeIsNat, SMT
  <2> QED BY <2>4, <2>5 DEF e
<1>14. CreatingOK'
  <2> HIDE DEF t
  <2> QED BY <1>2, <1>3, <1>12, <1>13, Zenon DEF CreatingOK
<1>15. status' = "creating"
  BY <1>2
<1> QED BY <1>14, <1>15 DEF CatalogInv

LEMMA HaltStep ==
  ASSUME SchemasFit, CatalogInv, CatalogType', CreateTableHalts
  PROVE  CatalogInv'
<1>1. DOMAIN ee = {} /\ status' = "halted" /\ UNCHANGED <<ee, schema>>
  BY DEF CreateTableHalts, CatalogInv, CreatingOK
<1>2. Len(schema) \in Nat /\ Len(schema) <= 250
  BY SchemaFits DEF CatalogInv
<1>3. ByteOf(ee, ADDR_NUM_TABLES) # Len(schema)
  BY <1>1, <1>2, NoNumber
<1>4. UnopenedOK'
  BY <1>1, <1>3 DEF UnopenedOK
<1> QED BY <1>1, <1>4 DEF CatalogInv

LEMMA CommitStep ==
  ASSUME SchemasFit, CatalogInv, CatalogType', CommitTables
  PROVE  CatalogInv'
<1> DEFINE n == Len(schema)
           s == schema
           N == NumWrites(s)
           b == SchemaBytes(s)
<1>1. s \in Schemas /\ n \in Nat /\ n >= 1 /\ (~device.asserts => Fits(s))
  BY SchemaFits DEF CatalogInv
<1>2. /\ status = "creating" /\ created = n /\ writes' = CatalogWrites(rows) /\ status' = "committing"
      /\ UNCHANGED <<ee, device, schema, rows>>
  BY DEF CommitTables
<1>3. created # 0
  BY <1>1, <1>2, SMT
<1>4. /\ DOMAIN ee = {}
      /\ rows = [u \in 1..n |-> IF u <= created THEN SchemaRow(s, u) ELSE NoRow]
      /\ device.asserts => Layout(s)[n + 1] <= EESize
  BY <1>2, <1>3 DEF CatalogInv, CreatingOK
<1>5. rows = SchemaRows(s)
  <2>1. \A u \in 1..n : u <= created
    <3> HIDE DEF n
    <3> QED BY <1>1, <1>2, SMT
  <2> QED BY <1>4, <2>1, Zenon DEF SchemaRows
<1>6. Fits(s)
  BY <1>1, <1>4 DEF Fits
<1>7. writes' = b
  BY <1>2, <1>5 DEF SchemaBytes
<1>8. N \in Nat /\ N > 1 /\ b \in Seq(ByteWrites) /\ Len(b) = N
  BY <1>1, <1>6, BytesPlace DEF IsSchemaBytes
<1>9. b = SubSeq(b, 0 + 1, N)
  <2> HIDE DEF b, N
  <2>1. b = [i \in 1..N |-> b[i]]
    BY <1>8
  <2>2. SubSeq(b, 1, N) = [i \in 1..N |-> b[i]]
    BY <1>8
  <2> QED BY <2>1, <2>2
<1>10. WrittenUpTo(ee, b, 0) /\ 0 \in 0..N
  <2>1. 0 \in 0..N
    <3> HIDE DEF N
    <3> QED BY <1>8, SMT
  <2> QED BY <1>4, <2>1, UpToNone
<1>11. CommittingOK'
  BY <1>2, <1>5, <1>6, <1>7, <1>9, <1>10 DEF CommittingOK
<1> QED BY <1>2, <1>11 DEF CatalogInv

LEMMA SameSequence ==
  ASSUME NEW T, NEW a \in Seq(T), NEW c \in Seq(T), Len(a) = Len(c),
         \A i \in 1..Len(a) : a[i] = c[i]
  PROVE  a = c
OBVIOUS

(* What is left of the bytes after the first k.                            *)
LEMMA RestOf ==
  ASSUME NEW T, NEW b \in Seq(T), NEW k \in 0..Len(b)
  PROVE  LET rest == SubSeq(b, k + 1, Len(b)) IN
         /\ rest = <<>> <=> k = Len(b)
         /\ rest # <<>> => /\ k < Len(b) /\ Head(rest) = b[k + 1]
                           /\ Tail(rest) = SubSeq(b, (k + 1) + 1, Len(b))
<1> DEFINE n == Len(b)
           rest == SubSeq(b, k + 1, n)
<1>1. n \in Nat /\ k \in Nat /\ k <= n
  <2>1. n \in Nat
    OBVIOUS
  <2>2. k \in 0..n
    OBVIOUS
  <2> HIDE DEF n
  <2> QED BY <2>1, <2>2, SMT
<1>2. rest \in Seq(T) /\ Len(rest) = n - k /\ \A i \in 1..(n - k) : rest[i] = b[k + i]
  <2>1. rest \in Seq(T)
    OBVIOUS
  <2>2. Len(rest) = n - k
    <3> HIDE DEF n
    <3> QED BY <1>1, SMT
  <2>3. \A i \in 1..(n - k) : rest[i] = b[k + i]
    <3> HIDE DEF n
    <3> QED BY <1>1, SMT
  <2> QED BY <2>1, <2>2, <2>3
<1>3. rest = <<>> <=> k = n
  <2> HIDE DEF rest, n
  <2>1. rest = <<>> <=> Len(rest) = 0
    BY <1>2
  <2> QED BY <1>1, <1>2, <2>1, SMT
<1>4. ASSUME rest # <<>>
      PROVE  /\ k < n /\ Head(rest) = b[k + 1]
             /\ Tail(rest) = SubSeq(b, (k + 1) + 1, n)
  <2>1. k < n
    <3> HIDE DEF rest, n
    <3> QED BY <1>1, <1>3, <1>4, SMT
  <2>2. Head(rest) = b[k + 1]
    <3>1. 1 \in 1..(n - k)
      <4> HIDE DEF n
      <4> QED BY <1>1, <2>1, SMT
    <3> HIDE DEF rest
    <3>2. Head(rest) = rest[1]
      BY <1>2, <1>4
    <3> QED BY <1>2, <3>1, <3>2
  <2>3. Tail(rest) = SubSeq(b, (k + 1) + 1, n)
    <3> DEFINE after == SubSeq(b, (k + 1) + 1, n)
    <3>1. after \in Seq(T) /\ Len(after) = n - k - 1 /\ \A i \in 1..(n - k - 1) : after[i] = b[k + 1 + i]
      <4>1. after \in Seq(T)
        OBVIOUS
      <4>2. Len(after) = n - k - 1
        <5> HIDE DEF n
        <5> QED BY <1>1, <2>1, SMT
      <4>3. \A i \in 1..(n - k - 1) : after[i] = b[k + 1 + i]
        <5> HIDE DEF n
        <5> QED BY <1>1, <2>1, SMT
      <4> QED BY <4>1, <4>2, <4>3
    <3> HIDE DEF rest, after
    <3>2. Tail(rest) \in Seq(T) /\ Len(Tail(rest)) = n - k - 1
      <4> HIDE DEF n
      <4> QED BY <1>1, <1>2, <1>4, <2>1, SMT
    <3>3. \A i \in 1..(n - k - 1) : Tail(rest)[i] = b[k + 1 + i]
      <4> HIDE DEF n
      <4> TAKE i \in 1..(n - k - 1)
      <4>1. i + 1 \in 1..(n - k) /\ k + (i + 1) = k + 1 + i
        BY <1>1, <2>1, SMT
      <4>2. Tail(rest)[i] = rest[i + 1]
        BY <1>2, <1>4, <2>1, <1>1, SMT
      <4> QED BY <4>1, <4>2, <1>2
    <3>4. Tail(rest) = after
      <4> DEFINE l == n - k - 1
                 tail == Tail(rest)
      <4>1. /\ after \in Seq(T) /\ tail \in Seq(T) /\ Len(after) = l /\ Len(tail) = l
            /\ \A i \in 1..l : tail[i] = after[i]
        BY <3>1, <3>2, <3>3
      <4> HIDE DEF l, n, tail
      <4>2. tail = after
        BY <4>1, SameSequence
      <4> QED BY <4>2 DEF tail
    <3> QED BY <3>4 DEF after
  <2> QED BY <2>1, <2>2, <2>3
<1> QED BY <1>3, <1>4

LEMMA WriteStep ==
  ASSUME SchemasFit, CatalogInv, CatalogType', CommitByte \/ Committed
  PROVE  CatalogInv'
<1> DEFINE s == schema
           N == NumWrites(s)
           b == SchemaBytes(s)
<1>1. s \in Schemas
  BY SchemaFits DEF CatalogInv
<1>2. status = "committing" /\ UNCHANGED <<schema, rows>>
  BY DEF CommitByte, Committed
<1>3. rows = SchemaRows(s) /\ Fits(s)
  BY <1>2 DEF CatalogInv, CommittingOK
<1>4. PICK k \in 0..N : writes = SubSeq(b, k + 1, N) /\ WrittenUpTo(ee, b, k)
  BY <1>2 DEF CatalogInv, CommittingOK
<1>5. N \in Nat /\ N > 1 /\ b \in Seq(ByteWrites) /\ Len(b) = N
  BY <1>1, <1>3, BytesPlace DEF IsSchemaBytes
<1>6. k \in Nat /\ k <= N
  <2> HIDE DEF N
  <2> QED BY <1>5, SMT
<1>7. /\ writes = <<>> <=> k = N
      /\ writes # <<>> => /\ k < N /\ Head(writes) = b[k + 1]
                          /\ Tail(writes) = SubSeq(b, (k + 1) + 1, N)
  <2> HIDE DEF b, N
  <2> QED BY <1>4, <1>5, RestOf
<1>8. CASE CommitByte
  <2>1. writes # <<>> /\ k < N
    BY <1>7, <1>8 DEF CommitByte
  <2>2. k + 1 \in 1..N /\ k + 1 \in 0..N
    <3> HIDE DEF N
    <3> QED BY <1>5, <1>6, <2>1, SMT
  <2>3. ~(b[k + 1][1] >= EESize)
    <3> DEFINE a == b[k + 1][1]
    <3>1. a \in Nat /\ a < EESize
      BY <1>1, <1>3, <2>2, BytesPlace
    <3> HIDE DEF a
    <3>2. ~(a >= EESize)
      BY <3>1, SizeIsNat, SMT
    <3> QED BY <3>2 DEF a
  <2>4. /\ ee' = Written(ee, b[k + 1][1], b[k + 1][2]) /\ status' = "committing"
        /\ writes' = SubSeq(b, (k + 1) + 1, N)
    BY <1>2, <1>7, <1>8, <2>1, <2>3, Zenon DEF CommitByte
  <2>5. WrittenUpTo(ee', b, k + 1)
    BY <1>1, <1>3, <1>4, <1>6, <2>1, <2>4, UpToNext
  <2>6. CommittingOK'
    BY <1>2, <1>3, <2>2, <2>4, <2>5 DEF CommittingOK
  <2> QED BY <2>4, <2>6 DEF CatalogInv
<1>9. CASE Committed
  <2>1. status' = "open" /\ UNCHANGED ee /\ k = N
    BY <1>7, <1>9 DEF Committed
  <2>2. WrittenBut1(ee, s)
    BY <1>1, <1>3, <1>4, <2>1, UpToAll, OpensWhole
  <2>3. OpenOK'
    BY <1>2, <1>3, <2>1, <2>2 DEF OpenOK
  <2> QED BY <2>1, <2>3 DEF CatalogInv
<1> QED BY <1>8, <1>9

(* A write elsewhere leaves a catalog that is whole but for its first byte *)
(* as it is.                                                               *)
LEMMA WrittenElsewhere ==
  ASSUME NEW s \in Schemas, Fits(s), NEW mem, WrittenBut1(mem, s), NEW a, NEW v,
         a # ADDR_NUM_TABLES \/ v = 0,
         \A i \in 2..NumWrites(s) : SchemaBytes(s)[i][1] # a
  PROVE  WrittenBut1(Written(mem, a, v), s)
<1> DEFINE next == Written(mem, a, v)
<1>1. \A c : c # a => ByteOf(next, c) = ByteOf(mem, c)
  BY ByteWritten
<1>2. ByteOf(next, a) \in {v, ByteOf(mem, a)}
  BY ByteWritten
<1> HIDE DEF next
<1>3. ByteOf(next, ADDR_NUM_TABLES) \in {Len(s), 0}
  BY <1>1, <1>2 DEF WrittenBut1
<1>4. WrittenBut1(next, s)
  BY <1>1, <1>3 DEF WrittenBut1
<1> QED BY <1>4 DEF next

LEMMA OpenWriteStep ==
  ASSUME SchemasFit, CatalogInv, CatalogType',
         DeleteTableCatalog \/ \E t \in Tables(rows) : WriteTable(t)
  PROVE  CatalogInv'
<1> DEFINE n == Len(schema)
           s == schema
           b == SchemaBytes(s)
<1>1. s \in Schemas /\ n \in Nat
  BY SchemaFits DEF CatalogInv
<1>2. status = "open" /\ UNCHANGED <<schema, rows, status>>
  BY DEF DeleteTableCatalog, WriteTable
<1>3. rows = SchemaRows(s) /\ Fits(s) /\ WrittenBut1(ee, s)
  BY <1>2 DEF CatalogInv, OpenOK
<1>4. \A i \in 2..NumWrites(s) : i \in 1..NumWrites(s) /\ i # 1 /\ 1 \in 1..NumWrites(s)
  BY <1>1, <1>3, BytesPlace, SMT
<1>5. \A i \in 1..NumWrites(s) : Goes(s, i, b[i][1]) /\ b[i][1] \in Nat
  BY <1>1, <1>3, BytesPlace
<1>6. CASE DeleteTableCatalog
  <2>1. ee' = Written(ee, ADDR_NUM_TABLES, 0)
    BY <1>6 DEF DeleteTableCatalog
  <2>2. Goes(s, 1, ADDR_NUM_TABLES) /\ ADDR_NUM_TABLES \in Nat
    BY DEF Goes, InCatalog, ADDR_NUM_TABLES
  <2>3. \A i \in 2..NumWrites(s) : b[i][1] # ADDR_NUM_TABLES
    BY <1>1, <1>3, <1>4, <1>5, <2>2, BytesPlace, GoesOnce
  <2>4. WrittenBut1(ee', s)
    BY <1>1, <1>3, <2>1, <2>3, WrittenElsewhere
  <2>5. OpenOK'
    BY <1>2, <1>3, <2>4 DEF OpenOK
  <2> QED BY <1>2, <2>5 DEF CatalogInv
<1>7. ASSUME NEW t \in Tables(rows), WriteTable(t)
      PROVE  CatalogInv'
  <2>1. t \in 1..n /\ rows[t] = SchemaRow(s, t)
    BY <1>1, <1>3 DEF Tables, SchemaRows
  <2> DEFINE x == Layout(s)[t]
             m == s[t].max
             z == AreaSize(s, t)
  <2>2. rows[t].index = x /\ rows[t].data = x + m + 1 /\ rows[t].max = m /\ DataAreaSize(rows[t]) = z
    BY <1>1, <1>3, <2>1, RowFields, SchemaRowType, BytesPlace
  <2>3. /\ x \in Nat /\ m \in Nat /\ z \in Nat /\ m >= 1 /\ z >= 1
    <3>1. x \in Nat /\ m \in Nat /\ z \in Nat
      BY <1>1, <2>1, LaidOut, ShapeOf, ShapeIsNat DEF IsLaid
    <3>2. m \in 1..250 /\ z >= 1
      BY <1>1, <2>1, ShapeOf DEF IsShape
    <3> HIDE DEF x, m, z
    <3> QED BY <3>1, <3>2, SMT
  <2>4. x + m + z + 2 <= W
    <3> DEFINE e == Layout(s)[n + 1]
    <3>1. x + m + z + 2 <= e
      BY <1>1, <2>1, LaidOut DEF IsLaid
    <3>2. n + 1 \in 1..(n + 1)
      <4> HIDE DEF n
      <4> QED BY <1>1, SMT
    <3>3. e \in Nat /\ e <= W
      BY <1>1, <1>3, <3>2, LayoutNat, BytesPlace DEF NoWrap
    <3> HIDE DEF x, m, z, e
    <3> QED BY <2>3, <3>1, <3>3, SMT DEF W
  <2>5. \/ \E r \in {0, m - 1}, slot \in {0, EE_CLEAR_VALUE} : ee' = Written(ee, (x + r) % W, slot)
        \/ \E o \in {0, z - 1}, byte \in {0, EE_CLEAR_VALUE} : ee' = Written(ee, (x + m + 1 + o) % W, byte)
    BY <1>7, <2>2 DEF WriteTable
  <2>6. InArea(s, x, t) /\ InArea(s, x + (m - 1), t)
    <3> HIDE DEF x, m, z
    <3>1. x <= x /\ x < x + m /\ x <= x + (m - 1) /\ x + (m - 1) < x + m
      BY <2>3, SMT
    <3> QED BY <3>1 DEF InArea, x, m, z
  <2>7. InArea(s, x + m + 1, t) /\ InArea(s, x + m + 1 + (z - 1), t)
    <3> HIDE DEF x, m, z
    <3>1. /\ x + m + 1 <= x + m + 1 /\ x + m + 1 <= x + m + z
          /\ x + m + 1 <= x + m + 1 + (z - 1) /\ x + m + 1 + (z - 1) <= x + m + z
      BY <2>3, SMT
    <3> QED BY <3>1 DEF InArea, x, m, z
  <2>8. /\ (x + 0) % W = x /\ (x + (m - 1)) % W = x + (m - 1)
        /\ (x + m + 1 + 0) % W = x + m + 1 /\ (x + m + 1 + (z - 1)) % W = x + m + 1 + (z - 1)
    <3> HIDE DEF x, m, z
    <3> QED BY <2>3, <2>4, SMT DEF W
  <2>9. /\ x \in Int /\ x + (m - 1) \in Int /\ x + m + 1 \in Int /\ x + m + 1 + (z - 1) \in Int
    <3> HIDE DEF x, m, z
    <3> QED BY <2>3, SMT
  <2> DEFINE places == {x, x + (m - 1), x + m + 1, x + m + 1 + (z - 1)}
  <2>10. \E a \in places : \E v : ee' = Written(ee, a, v)
    <3> HIDE DEF x, m, z
    <3> QED BY <2>5, <2>8, Zenon
  <2>11. \A a \in places : a \in Int /\ InArea(s, a, t)
    BY <2>6, <2>7, <2>9
  <2> HIDE DEF places, x, m, z
  <2>12. PICK a \in places : \E v : ee' = Written(ee, a, v)
    BY <2>10
  <2>13. PICK v : ee' = Written(ee, a, v)
    BY <2>12
  <2>14. a \in Int /\ InArea(s, a, t)
    BY <2>11
  <2>15. \A i : ~Goes(s, i, a)
    BY <1>1, <2>1, <2>14, NothingInAreas
  <2>16. a # ADDR_NUM_TABLES
    <3>1. Goes(s, 1, 0)
      BY DEF Goes, InCatalog
    <3> QED BY <2>15, <3>1 DEF ADDR_NUM_TABLES
  <2>17. WrittenBut1(ee', s)
    BY <1>1, <1>3, <1>4, <1>5, <2>13, <2>15, <2>16, WrittenElsewhere
  <2>18. OpenOK'
    BY <1>2, <1>3, <2>17 DEF OpenOK
  <2> QED BY <1>2, <2>18 DEF CatalogInv
<1> QED BY <1>6, <1>7

LEMMA PowerStep ==
  ASSUME SchemasFit, CatalogInv, CatalogType', PowerCut \/ SwitchOff \/ Restart
  PROVE  CatalogInv'
<1> DEFINE s == schema
           n == Len(schema)
           N == NumWrites(s)
<1>1. s \in Schemas /\ n \in Nat /\ n >= 1 /\ n <= 250
  BY SchemaFits DEF CatalogInv
<1>2. status' = "off" /\ UNCHANGED <<ee, schema>>
  BY DEF PowerCut, SwitchOff, Restart, PowerDown
<1>3. status \in {"clearing", "creating", "committing", "open", "halted"}
  BY DEF PowerCut, SwitchOff, Restart
<1>4. UnopenedOK
  <2>1. CASE status \in {"clearing", "halted"}
    BY <2>1 DEF CatalogInv
  <2>2. CASE status = "creating"
    <3>1. DOMAIN ee = {}
      BY <2>2 DEF CatalogInv, CreatingOK
    <3>2. ByteOf(ee, ADDR_NUM_TABLES) # n
      BY <1>1, <3>1, NoNumber
    <3> QED BY <3>2 DEF UnopenedOK
  <2>3. CASE status = "committing"
    <3>1. Fits(s)
      BY <2>3 DEF CatalogInv, CommittingOK
    <3>2. PICK k \in 0..N : WrittenUpTo(ee, SchemaBytes(s), k)
      BY <2>3 DEF CatalogInv, CommittingOK
    <3>3. N \in Nat /\ N > 1
      BY <1>1, <3>1, BytesPlace
    <3>4. k = N \/ k = 0 \/ k \in 1..(N - 1)
      <4> HIDE DEF N
      <4> QED BY <3>3, SMT
    <3>5. CASE k = N
      BY <1>1, <3>1, <3>2, <3>5, UpToAll DEF UnopenedOK
    <3>6. CASE k = 0
      <4>1. \A i \in 1..0 : FALSE
        BY SMT
      <4>2. 0 \in 0..(EESize - 1)
        BY SizeIsNat, SMT
      <4>3. ByteOf(ee, 0) = EE_CLEAR_VALUE
        BY <3>2, <3>6, <4>1, <4>2 DEF WrittenUpTo
      <4>4. n # 255
        <5> HIDE DEF n
        <5> QED BY <1>1, SMT
      <4> QED BY <4>3, <4>4 DEF UnopenedOK, ADDR_NUM_TABLES, EE_CLEAR_VALUE
    <3>7. CASE k \in 1..(N - 1)
      BY <3>1, <3>2, <3>7 DEF UnopenedOK
    <3> QED BY <3>4, <3>5, <3>6, <3>7
  <2>4. CASE status = "open"
    BY <1>1, <2>4, OpenIsWhole DEF CatalogInv, OpenOK, UnopenedOK
  <2> QED BY <1>3, <2>1, <2>2, <2>3, <2>4
<1>5. UnopenedOK'
  BY <1>2, <1>4 DEF UnopenedOK
<1> QED BY <1>2, <1>5 DEF CatalogInv

LEMMA InvStep ==
  ASSUME SchemasFit, CatalogInv, [Next]_vars
  PROVE  CatalogInv'
<1>1. CatalogType'
  BY TypeStep DEF CatalogInv
<1>2. CASE TryToOpen
  BY <1>1, <1>2, OpenStep
<1>3. CASE ClearByte \/ OpenFailed
  BY <1>1, <1>3, ClearStep
<1>4. CASE CreateTable
  BY <1>1, <1>4, CreateStep
<1>5. CASE CreateTableHalts
  BY <1>1, <1>5, HaltStep
<1>6. CASE CommitTables
  BY <1>1, <1>6, CommitStep
<1>7. CASE CommitByte \/ Committed
  BY <1>1, <1>7, WriteStep
<1>8. CASE DeleteTableCatalog \/ \E t \in Tables(rows) : WriteTable(t)
  BY <1>1, <1>8, OpenWriteStep
<1>9. CASE PowerCut \/ SwitchOff \/ Restart
  BY <1>1, <1>9, PowerStep
<1>10. ASSUME NEW s \in device.schemas, LoadFirmware(s)
       PROVE  CatalogInv'
  <2>1. /\ status' = "off" /\ ByteOf(ee', ADDR_NUM_TABLES) # Len(schema')
    BY <1>10 DEF LoadFirmware
  <2>2. UnopenedOK'
    BY <2>1 DEF UnopenedOK
  <2> QED BY <1>1, <2>1, <2>2 DEF CatalogInv
<1>11. CASE UNCHANGED vars
  BY <1>1, <1>11 DEF vars, CatalogInv, UnopenedOK, ClearingOK, NoRowFree, CreatingOK, CommittingOK, OpenOK
<1> QED BY <1>2, <1>3, <1>4, <1>5, <1>6, <1>7, <1>8, <1>9, <1>10, <1>11 DEF Next, Run

LEMMA InitInv ==
  ASSUME SchemasFit, Init
  PROVE  CatalogInv
<1>1. CatalogType
  BY InitType
<1>2. 0 \notin DOMAIN ee /\ status = "off"
  BY DEF Init
<1>3. ByteOf(ee, ADDR_NUM_TABLES) # Len(schema)
  BY <1>1, <1>2, SchemaFits, NoNumber
<1>4. UnopenedOK
  BY <1>3 DEF UnopenedOK
<1> QED BY <1>1, <1>2, <1>4 DEF CatalogInv

-----------------------------------------------------------------------------
(***************************************************************************)
(* What the invariant says of the properties.                              *)
(***************************************************************************)

(* Where a catalog that is open or being written lies.                     *)
LEMMA OpenCatalog ==
  ASSUME SchemasFit, CatalogInv, status \in {"committing", "open"}
  PROVE  /\ rows = SchemaRows(schema) /\ schema \in Schemas /\ Fits(schema)
         /\ Len(rows) = Len(schema) /\ Tables(rows) = 1..Len(schema)
         /\ \A t \in 1..Len(schema) : rows[t] = SchemaRow(schema, t)
<1>1. rows = SchemaRows(schema) /\ Fits(schema)
  BY DEF CatalogInv, CommittingOK, OpenOK
<1>2. schema \in Schemas /\ Len(schema) \in Nat
  BY SchemaFits DEF CatalogInv
<1>3. Len(rows) = Len(schema) /\ \A t \in 1..Len(schema) : rows[t] = SchemaRow(schema, t)
  BY <1>1, <1>2 DEF SchemaRows
<1> QED BY <1>1, <1>2, <1>3 DEF Tables

LEMMA InvOpenMeansCommitted ==
  ASSUME SchemasFit, CatalogInv
  PROVE  OpenMeansCommitted
<1> SUFFICES ASSUME status = "open" PROVE OpenMeansCommitted
  BY DEF OpenMeansCommitted
<1> DEFINE s == schema
           b == CatalogWrites(rows)
<1>1. /\ rows = SchemaRows(s) /\ s \in Schemas /\ Fits(s)
      /\ \A t \in 1..Len(s) : rows[t] = SchemaRow(s, t)
  BY OpenCatalog
<1>2. \A t \in Tables(s) : rows[t].max = s[t].max /\ rows[t].size = s[t].size
  BY <1>1, RowFields DEF Tables
<1>3. b = SchemaBytes(s)
  BY <1>1 DEF SchemaBytes
<1>4. DOMAIN b = 1..NumWrites(s)
  BY <1>1, <1>3, BytesPlace
<1>5. WrittenBut1(ee, s)
  BY DEF CatalogInv, OpenOK
<1>6. b[1] = <<ADDR_NUM_TABLES, Len(s)>>
  BY <1>1, <1>3, BytesPlace DEF IsSchemaBytes
<1>7. \A i \in 1..NumWrites(s) : i = 1 \/ i \in 2..NumWrites(s)
  BY <1>1, BytesPlace, SMT
<1>8. ASSUME NEW i \in DOMAIN b
      PROVE  \/ ByteOf(ee, b[i][1]) = b[i][2]
             \/ i = 1 /\ ByteOf(ee, ADDR_NUM_TABLES) = 0
  <2>1. CASE i = 1
    <3>1. b[i][1] = ADDR_NUM_TABLES /\ b[i][2] = Len(s)
      BY <1>6, <2>1
    <3> HIDE DEF b
    <3> QED BY <1>5, <2>1, <3>1 DEF WrittenBut1
  <2>2. CASE i \in 2..NumWrites(s)
    BY <1>3, <1>5, <2>2 DEF WrittenBut1
  <2> QED BY <1>4, <1>7, <2>1, <2>2
<1> HIDE DEF b
<1> QED BY <1>2, <1>8, Zenon DEF OpenMeansCommitted, b

LEMMA InvAreasDisjoint ==
  ASSUME SchemasFit, CatalogInv
  PROVE  AreasDisjoint
<1> SUFFICES ASSUME status \in {"committing", "open"} PROVE AreasDisjoint
  BY DEF AreasDisjoint
<1> DEFINE s == schema
           n == Len(schema)
           area == [t \in Tables(rows) |-> Extent(rows[t])]
<1>1. /\ s \in Schemas /\ Fits(s) /\ Len(rows) = n /\ Tables(rows) = 1..n
      /\ \A t \in 1..n : rows[t] = SchemaRow(s, t)
  BY OpenCatalog
<1>2. n \in Nat
  BY <1>1, LenIsNat
<1>3. ASSUME NEW t \in 1..n
      PROVE  /\ Layout(s)[t] \in Nat /\ Layout(s)[t] >= 6 * n + 2
             /\ s[t].max \in Nat /\ AreaSize(s, t) \in Nat
             /\ Layout(s)[t] + s[t].max + AreaSize(s, t) + 2 <= EESize
             /\ rows[t].index = Layout(s)[t] /\ rows[t].max = s[t].max
             /\ rows[t].data = Layout(s)[t] + s[t].max + 1
             /\ area[t].first = Layout(s)[t] - 1
             /\ area[t].last = Layout(s)[t] + s[t].max + 1 + AreaSize(s, t) - 1
  <2> DEFINE e == Layout(s)[n + 1]
             x == Layout(s)[t]
             m == s[t].max
             z == AreaSize(s, t)
  <2>1. x \in Nat /\ x >= 6 * n + 2 /\ x + m + z + 2 <= e
    BY <1>1, LaidOut DEF IsLaid
  <2>2. m \in Nat /\ z \in Nat
    BY <1>1, ShapeOf, ShapeIsNat
  <2>3. n + 1 \in 1..(n + 1)
    <3> HIDE DEF n
    <3> QED BY <1>2, SMT
  <2>4. e \in Nat /\ e <= EESize
    BY <1>1, <2>3, LayoutNat DEF Fits
  <2>5. rows[t] = SchemaRow(s, t)
    BY <1>1
  <2>6. rows[t].index = x /\ rows[t].max = m /\ rows[t].data = x + m + 1 /\ rows[t].size = s[t].size
    BY <2>5, RowFields
  <2>7. area[t] = [first |-> rows[t].index - 1, last |-> rows[t].data + rows[t].size * rows[t].max - 1]
    BY <1>1 DEF Extent
  <2>8. rows[t].size * rows[t].max = z
    BY <2>6 DEF AreaSize
  <2>9. area[t].first = x - 1 /\ area[t].last = x + m + 1 + z - 1
    BY <2>6, <2>7, <2>8
  <2> HIDE DEF e, x, m, z, area, n
  <2>10. x + m + z + 2 <= EESize
    BY <2>1, <2>2, <2>4, SizeIsNat, SMT
  <2> QED BY <2>1, <2>2, <2>6, <2>9, <2>10 DEF x, m, z
<1>4. ASSUME NEW t \in 1..n
      PROVE  /\ area[t].first > Len(rows) * TABLE_CATALOG_ROW_SIZE
             /\ rows[t].index + rows[t].max < rows[t].data
             /\ area[t].last + 1 < EESize
  <2> DEFINE x == Layout(s)[t]
             m == s[t].max
             z == AreaSize(s, t)
  <2>1. /\ x \in Nat /\ x >= 6 * n + 2 /\ m \in Nat /\ z \in Nat /\ x + m + z + 2 <= EESize
        /\ rows[t].index = x /\ rows[t].max = m /\ rows[t].data = x + m + 1
        /\ area[t].first = x - 1 /\ area[t].last = x + m + 1 + z - 1
    BY <1>3
  <2> HIDE DEF x, m, z, area, n
  <2>2. x - 1 > n * 6 /\ x + m < x + m + 1 /\ x + m + 1 + z - 1 + 1 < EESize
    BY <1>2, <2>1, SizeIsNat, SMT
  <2> QED BY <1>1, <2>1, <2>2 DEF TABLE_CATALOG_ROW_SIZE
<1>5. ASSUME NEW t \in 1..n, NEW u \in 1..n, t < u
      PROVE  area[t].last < area[u].first
  <2> DEFINE x == Layout(s)[t]
             y == Layout(s)[u]
             m == s[t].max
             z == AreaSize(s, t)
  <2>1. /\ x \in Nat /\ m \in Nat /\ z \in Nat /\ area[t].last = x + m + 1 + z - 1
        /\ y \in Nat /\ area[u].first = y - 1
    BY <1>3
  <2>2. u \in 1..(n + 1)
    <3> HIDE DEF n
    <3> QED BY <1>2, SMT
  <2>3. x + m + z + 2 <= y
    BY <1>1, <1>5, <2>2, LayoutOrdered
  <2> HIDE DEF x, y, m, z, area, n
  <2>4. x + m + 1 + z - 1 < y - 1
    BY <2>1, <2>3, SMT
  <2> QED BY <2>1, <2>4
<1> HIDE DEF area, n
<1> QED BY <1>1, <1>4, <1>5, Zenon DEF AreasDisjoint, area

-----------------------------------------------------------------------------
(***************************************************************************)
(* No part of a catalog looks like the whole of another one.               *)
(***************************************************************************)
LEMMA HeldSeparators ==
  ASSUME NEW rs \in Seq(RowSet), Len(rs) >= 1, Len(rs) <= 250,
         NEW mem, HoldsCatalog(mem, rs), NEW t \in 1..Len(rs)
  PROVE  IsSeparator(mem, rs[t].index)
<1> DEFINE n == Len(rs)
           b == CatalogWrites(rs)
           i == 8 * (t - 1) + 7 + 1
<1>1. n \in Nat /\ t \in 1..n
  OBVIOUS
<1>2. IsCatalog(rs, n, b)
  BY TypedCatalog
<1>3. b \in Seq(ByteWrites) /\ Len(b) = 8 * n + 2 /\ 7 \in 1..8
  BY <1>2, SMT DEF IsCatalog
<1>4. b[i] = RowTuple(rs[t], t)[7]
  BY <1>2, <1>3 DEF IsCatalog
<1>5. RowTuple(rs[t], t)[7] = <<(rs[t].index + W - 1) % W, 0>>
  BY DEF RowTuple
<1>6. i \in 1..(8 * n + 2)
  <2> HIDE DEF n
  <2> QED BY <1>1, SMT
<1>7. \A l \in DOMAIN b : ByteOf(mem, b[l][1]) = b[l][2]
  BY DEF HoldsCatalog
<1> HIDE DEF b, i, n
<1>8. i \in DOMAIN b
  BY <1>3, <1>6
<1>9. ByteOf(mem, (rs[t].index + W - 1) % W) = 0
  BY <1>4, <1>5, <1>7, <1>8
<1> QED BY <1>9 DEF IsSeparator

(* Nothing that is written before the high byte of the index of table t    *)
(* goes behind the address of the byte in front of the index area.         *)
LEMMA WrittenBelow ==
  ASSUME NEW s \in Schemas, NEW t \in 1..Len(s), NEW i \in Nat, i <= 8 * (t - 1) + 2,
         NEW a \in Int, Goes(s, i, a)
  PROVE  a < Layout(s)[t] - 1
<1> DEFINE n == Len(s)
           x == Layout(s)[t]
<1>1. n \in Nat /\ n >= 1
  BY LenIsNat
<1>2. t \in Nat /\ t >= 1 /\ t <= n /\ t \in 1..(n + 1)
  <2> HIDE DEF n
  <2> QED BY <1>1, SMT DEF n
<1>3. x \in Nat /\ x >= 6 * n + 2
  BY <1>2, LayoutNat
<1>4. ASSUME NEW u \in 1..n, 8 * u <= i
      PROVE  /\ Layout(s)[u] - 1 < x - 1
             /\ Layout(s)[u] + s[u].max < x - 1
  <2> DEFINE y == Layout(s)[u]
             m == s[u].max
             z == AreaSize(s, u)
  <2>1. u < t
    <3> HIDE DEF n
    <3> QED BY <1>1, <1>2, <1>4, SMT
  <2>2. y + m + z + 2 <= x
    BY <1>2, <2>1, LayoutOrdered
  <2>3. y \in Nat /\ m \in Nat /\ z \in Nat
    BY LaidOut, ShapeOf, ShapeIsNat DEF IsLaid
  <2> HIDE DEF x, y, m, z
  <2>4. y - 1 < x - 1 /\ y + m < x - 1
    <3>1. z >= 0
      BY <2>3, SMT
    <3> QED BY <1>3, <2>2, <2>3, <3>1, SMT
  <2> QED BY <2>4 DEF y, m
<1>5. CASE InCatalog(s, i, a)
  <2>1. a <= 6 * n
    BY <1>5, CatalogIsLow
  <2> HIDE DEF n, x
  <2> QED BY <1>1, <1>3, <2>1, SMT DEF x
<1>6. ASSUME NEW u \in 1..n, BeforeIndex(s, i, a, u)
      PROVE  a < x - 1
  <2>1. i = 8 * u /\ a = Layout(s)[u] - 1
    BY <1>6 DEF BeforeIndex
  <2>2. 8 * u <= i
    BY <2>1, SMT
  <2> QED BY <1>4, <2>1, <2>2
<1>7. ASSUME NEW u \in 1..n, BeforeData(s, i, a, u)
      PROVE  a < x - 1
  <2>1. i = 8 * u + 1 /\ a = Layout(s)[u] + s[u].max
    BY <1>7 DEF BeforeData
  <2>2. 8 * u <= i
    <3>1. u \in Int
      <4> HIDE DEF n
      <4> QED BY <1>1, SMT
    <3> QED BY <2>1, <3>1, SMT
  <2> QED BY <1>4, <2>1, <2>2
<1>8. ~Closing(s, i, a)
  <2> SUFFICES ASSUME Closing(s, i, a) PROVE FALSE
    OBVIOUS
  <2>1. i = 8 * n + 2
    BY DEF Closing, NumWrites
  <2> HIDE DEF n
  <2> QED BY <1>1, <1>2, <2>1, SMT
<1> QED BY <1>5, <1>6, <1>7, <1>8 DEF Goes

LEMMA PartialDoesNotHold ==
  ASSUME AbsentByte # 0, NEW s \in Schemas, Fits(s), NEW mem, IsMemory(mem),
         NEW k \in Nat, k < NumWrites(s), WrittenUpTo(mem, SchemaBytes(s), k),
         ByteOf(mem, ADDR_NUM_TABLES) = Len(s), HoldsCatalog(mem, LoadedRows(mem, Len(s)))
  PROVE  FALSE
<1> DEFINE n == Len(s)
           N == NumWrites(s)
           b == SchemaBytes(s)
           rs == LoadedRows(mem, n)
<1>1. n \in Nat /\ n >= 1 /\ n <= 250 /\ NoWrap(s) /\ N \in Nat /\ N > 1 /\ k <= N
  <2>1. k <= N
    BY BytesPlace, SMT
  <2> QED BY <2>1, LenIsNat, BytesPlace
<1>2. rs \in Seq(RowSet) /\ Len(rs) = n
  BY <1>1, LoadedRowsType
<1>3. \A t \in 1..n : rs[t] = LoadedRow(mem, t)
  BY DEF LoadedRows
<1> HIDE DEF rs
<1>4. \A t \in 1..n : IsSeparator(mem, rs[t].index)
  BY <1>1, <1>2, HeldSeparators DEF rs
<1>5. ASSUME NEW t \in 1..n
      PROVE  8 * t <= k
  <2> SUFFICES ASSUME ~(8 * t <= k) PROVE FALSE
    OBVIOUS
  <2> DEFINE x == Layout(s)[t]
             y == rs[t].index
  <2>1. t \in Nat /\ t >= 1 /\ t <= n /\ t \in 1..(n + 1)
    <3> HIDE DEF n
    <3> QED BY <1>1, SMT
  <2>2. x \in Nat /\ x >= 2 /\ x < W /\ x % W = x
    <3>1. x \in Nat /\ x >= 6 * n + 2 /\ x < W /\ x % W = x
      BY <1>1, <2>1, LayoutNat, LayoutModulo, SchemaRowType
    <3> HIDE DEF x, n
    <3> QED BY <1>1, <3>1, SMT
  <2>3. ASSUME y = x
        PROVE  FALSE
    <3>1. ByteOf(mem, x - 1) = 0
      BY <1>1, <1>4, <2>1, <2>2, <2>3, SeparatorAt
    <3>2. 8 * t \in 1..N /\ b[8 * t] = <<x - 1, 0>>
      BY RowAmongBytes
    <3>3. ByteOf(mem, b[8 * t][1]) = 0
      BY <3>1, <3>2
    <3> QED BY <1>1, <3>2, <3>3, ZeroIsWritten
  <2> DEFINE i == 8 * (t - 1) + 2
             c == 6 * (t - 1) + 1
             lo == ByteOf(mem, c)
             hi == ByteOf(mem, c + 1)
  <2>4. y = lo + 256 * hi
    <3>1. ADDR_TABLE_CATALOG + (t - 1) * TABLE_CATALOG_ROW_SIZE = c
      BY <2>1, SMT DEF ADDR_TABLE_CATALOG, TABLE_CATALOG_ROW_SIZE
    <3>2. (c + 1) % W = c + 1
      <4> HIDE DEF n
      <4>1. c + 1 \in Nat /\ c + 1 < W
        BY <1>1, <2>1, SMT DEF W
      <4> HIDE DEF c
      <4> QED BY <4>1, Mods
    <3>3. LoadedRow(mem, t).index = WordOf(mem, ADDR_TABLE_CATALOG + (t - 1) * TABLE_CATALOG_ROW_SIZE)
      BY DEF LoadedRow
    <3>4. rs[t].index = WordOf(mem, c)
      BY <1>3, <3>1, <3>3
    <3> HIDE DEF c
    <3> QED BY <3>2, <3>4 DEF WordOf
  <2>5. lo \in Bytes /\ hi \in Bytes
    BY ByteType DEF Bytes
  <2>6. /\ i \in 1..N /\ i + 1 \in 1..N
        /\ b[i] = <<c, x % 256>> /\ b[i + 1] = <<c + 1, x \div 256>>
    <3> DEFINE row == SchemaRow(s, t)
    <3>1. 1 \in 1..8 /\ 2 \in 1..8 /\ 8 * (t - 1) + 1 + 1 = i /\ 8 * (t - 1) + 2 + 1 = i + 1
      BY <2>1, SMT
    <3>2. RowBytes(row, t)[1] = <<6 * (t - 1) + 1, row.index % 256>>
          /\ RowBytes(row, t)[2] = <<6 * (t - 1) + 2, row.index \div 256>>
      BY DEF RowBytes
    <3>3. row.index = x
      BY RowFields
    <3>4. c + 1 = 6 * (t - 1) + 2
      BY <2>1, SMT
    <3>5. /\ 8 * (t - 1) + 1 + 1 \in 1..N /\ 8 * (t - 1) + 2 + 1 \in 1..N
          /\ b[8 * (t - 1) + 1 + 1] = RowBytes(row, t)[1]
          /\ b[8 * (t - 1) + 2 + 1] = RowBytes(row, t)[2]
      BY <3>1, RowAmongBytes
    <3> HIDE DEF row, i, c, x, b, N
    <3> QED BY <3>1, <3>2, <3>3, <3>4, <3>5 DEF c
  <2>7. ASSUME NEW l \in 1..N, l <= k
        PROVE  ByteOf(mem, b[l][1]) = b[l][2]
    <3>1. l \in 1..k
      <4> HIDE DEF N
      <4> QED BY <1>1, <2>7, SMT
    <3> QED BY <3>1 DEF WrittenUpTo
  <2>8. ASSUME NEW l \in 1..N, ~(l <= k)
        PROVE  ByteOf(mem, b[l][1]) = 255
    <3> DEFINE d == b[l][1]
    <3>1. Goes(s, l, d) /\ d \in Nat /\ d < EESize
      BY BytesPlace
    <3>2. \A j \in 1..k : j # l /\ j \in 1..N
      <4> HIDE DEF N
      <4> QED BY <1>1, <2>8, SMT
    <3>3. \A j \in 1..k : b[j][1] # d
      BY <3>1, <3>2, BytesPlace, GoesOnce
    <3>4. d \in 0..(EESize - 1)
      <4> HIDE DEF d
      <4> QED BY <3>1, SizeIsNat, SMT
    <3> QED BY <3>3, <3>4 DEF WrittenUpTo, EE_CLEAR_VALUE
  <2>9. i \in Nat
    BY <2>1, SMT
  <2> HIDE DEF x, y, i, c, lo, hi, b, N
  <2>10. lo \in {x % 256, 255}
    BY <2>6, <2>7, <2>8 DEF lo
  <2>11. hi \in {x \div 256, 255}
    BY <2>6, <2>7, <2>8 DEF hi
  <2>12. ~(i + 1 <= k)
    <3> SUFFICES ASSUME i + 1 <= k PROVE FALSE
      OBVIOUS
    <3>1. i <= k
      BY <2>9, SMT
    <3>2. lo = x % 256 /\ hi = x \div 256
      BY <2>6, <2>7, <3>1 DEF lo, hi
    <3>3. y = x
      BY <2>2, <2>4, <3>2, WordBytes
    <3> QED BY <2>3, <3>3
  <2>13. hi = 255
    BY <2>6, <2>8, <2>12 DEF hi
  <2>14. y \in Nat /\ y >= x /\ y < W
    <3>1. x % 256 \in Nat /\ x \div 256 \in Nat /\ x \div 256 <= 255 /\ x % 256 <= 255
          /\ x = (x % 256) + 256 * (x \div 256)
      BY <2>2, SMT DEF W
    <3> DEFINE q == x % 256
               r == x \div 256
    <3>2. q \in Nat /\ r \in Nat /\ r <= 255 /\ q <= 255 /\ x = q + 256 * r
      BY <3>1
    <3>3. lo = q \/ lo = 255
      BY <2>10
    <3> HIDE DEF q, r
    <3>4. y = lo + 65280
      BY <2>4, <2>13, SMT
    <3> QED BY <3>2, <3>3, <3>4, SMT DEF W
  <2>15. ByteOf(mem, y - 1) = 0
    <3>1. (y + W - 1) % W = y - 1
      BY <2>2, <2>14, SMT DEF W
    <3> QED BY <1>4, <3>1 DEF IsSeparator, y
  <2>16. ~(y - 1 >= EESize)
    BY <2>15, Zenon DEF ByteOf
  <2>17. y - 1 \in 0..(EESize - 1)
    BY <2>2, <2>14, <2>16, SizeIsNat, SMT
  <2>18. PICK j \in 1..k : b[j][1] = y - 1
    <3>1. ByteOf(mem, y - 1) # EE_CLEAR_VALUE
      BY <2>15 DEF EE_CLEAR_VALUE
    <3> QED BY <2>17, <3>1 DEF WrittenUpTo, b
  <2>19. j \in 1..N /\ j \in Nat /\ j <= i
    BY <1>1, <2>9, <2>12, SMT
  <2>20. Goes(s, j, y - 1)
    BY <2>18, <2>19, BytesPlace DEF b, N
  <2>21. y - 1 < x - 1
    <3>1. y - 1 \in Int /\ j <= 8 * (t - 1) + 2
      BY <2>14, <2>19, SMT DEF i
    <3> QED BY <2>19, <2>20, <3>1, WrittenBelow DEF x
  <2> QED BY <2>2, <2>14, <2>21, SMT
<1>6. ASSUME NEW t \in 1..n
      PROVE  rs[t] = SchemaRow(s, t)
  <2>1. \A j \in 1..6 : 8 * (t - 1) + j + 1 \in 1..k
    <3>1. t \in Nat /\ t >= 1
      <4> HIDE DEF n
      <4> QED BY <1>1, SMT
    <3>2. 8 * t <= k
      BY <1>5
    <3> HIDE DEF n, N
    <3> QED BY <3>1, <3>2, SMT
  <2>2. LoadedRow(mem, t) = SchemaRow(s, t)
    BY <2>1, WholeRowStored DEF WrittenUpTo
  <2> QED BY <1>3, <2>2
<1>7. rs = SchemaRows(s)
  <2>1. rs = [t \in 1..n |-> rs[t]]
    BY DEF rs, LoadedRows
  <2>2. rs = [t \in 1..n |-> SchemaRow(s, t)]
    BY <1>6, <2>1
  <2> QED BY <2>2 DEF SchemaRows
<1>8. N \in 1..N
  <2> HIDE DEF N
  <2> QED BY <1>1, SMT
<1>9. ByteOf(mem, b[N][1]) = 0
  <2>1. HoldsCatalog(mem, SchemaRows(s))
    BY <1>7 DEF rs
  <2>2. ByteOf(mem, b[N][1]) = b[N][2]
    BY <1>8, <2>1, BytesPlace DEF HoldsCatalog, SchemaBytes
  <2>3. b[N] = <<Layout(s)[n + 1] - 1, 0>>
    BY BytesPlace DEF IsSchemaBytes
  <2>4. b[N][2] = 0
    BY <2>3
  <2> QED BY <2>2, <2>4
<1>10. N <= k
  BY <1>1, <1>8, <1>9, ZeroIsWritten
<1> HIDE DEF N
<1>11. k < N
  BY DEF N
<1> QED BY <1>1, <1>10, <1>11, SMT

Reopens ==
  status = "off" /\ status' # "off"
    /\ ByteOf(ee, ADDR_NUM_TABLES) = Len(schema)
    /\ HoldsCatalog(ee, LoadedRows(ee, Len(schema)))
  => status' = "open"

LEMMA ReopenStep ==
  ASSUME SchemasFit, AbsentByte # 0, CatalogInv, [Next]_vars
  PROVE  [Reopens]_vars
<1> SUFFICES ASSUME status = "off", status' # "off",
                    ByteOf(ee, ADDR_NUM_TABLES) = Len(schema),
                    HoldsCatalog(ee, LoadedRows(ee, Len(schema)))
             PROVE  status' = "open"
  BY DEF Reopens
<1>1. TryToOpen
  BY DEF Next, Run, vars, ClearByte, OpenFailed, CreateTable, CreateTableHalts, CommitTables,
         CommitByte, Committed, DeleteTableCatalog, PowerCut, SwitchOff, Restart, WriteTable, LoadFirmware
<1> DEFINE s == schema
           N == NumWrites(s)
           loaded == LoadedRows(ee, Len(s))
<1>2. s \in Schemas /\ IsMemory(ee)
  BY SchemaFits DEF CatalogInv
<1>3. /\ Fits(s)
      /\ \/ HoldsCatalog(ee, SchemaRows(s))
         \/ \E k \in 1..(N - 1) : WrittenUpTo(ee, SchemaBytes(s), k)
  BY DEF CatalogInv, UnopenedOK
<1>4. HoldsCatalog(ee, SchemaRows(s))
  <2>1. ASSUME NEW k \in 1..(N - 1), WrittenUpTo(ee, SchemaBytes(s), k)
        PROVE  FALSE
    <3>1. k \in Nat /\ k < N
      BY <1>2, <1>3, BytesPlace, SMT
    <3> QED BY <1>2, <1>3, <2>1, <3>1, PartialDoesNotHold
  <2> QED BY <1>3, <2>1
<1>5. loaded = SchemaRows(s)
  BY <1>2, <1>3, <1>4, WholeLoads
<1>6. ~LoadHalts(ee, loaded) /\ IsValid(ee, loaded)
  BY <1>2, <1>3, <1>4, <1>5, CountInside, WholeIsValid
<1> QED BY <1>1, <1>6 DEF TryToOpen

-----------------------------------------------------------------------------
(***************************************************************************)
(* The theorems.                                                           *)
(***************************************************************************)

(* The variables keep their types: no call leaves a row, a byte still to   *)
(* be written or a count of src/RecordStore.c that does not fit the type   *)
(* of the code.  This needs nothing of the schemas.                        *)
THEOREM SpecTypeOK == Spec => []TypeOK
<1>1. Init => CatalogType
  BY InitType
<1>2. CatalogType /\ [Next]_vars => CatalogType'
  BY TypeStep
<1>3. CatalogType => TypeOK
  BY DEF CatalogType
<1> QED BY <1>1, <1>2, <1>3, PTL DEF Spec

(* With schemas whose tables have room, the store is open only when the    *)
(* EEPROM holds the whole catalog of the firmware in the device, however   *)
(* the power has failed while rs_tryToOpenRecordStore() cleared it or      *)
(* rs_commitTables() wrote it.                                             *)
THEOREM SpecOpenMeansCommitted ==
  ASSUME SchemasFit
  PROVE  Spec => []OpenMeansCommitted
<1>1. Init => CatalogInv
  BY InitInv
<1>2. CatalogInv /\ [Next]_vars => CatalogInv'
  BY InvStep
<1>3. CatalogInv => OpenMeansCommitted
  BY InvOpenMeansCommitted
<1> QED BY <1>1, <1>2, <1>3, PTL DEF Spec

(* The index and data areas that rs_createTable() lays out, with their     *)
(* separators, lie behind the catalog and behind each other in the EEPROM. *)
THEOREM SpecAreasDisjoint ==
  ASSUME SchemasFit
  PROVE  Spec => []AreasDisjoint
<1>1. Init => CatalogInv
  BY InitInv
<1>2. CatalogInv /\ [Next]_vars => CatalogInv'
  BY InvStep
<1>3. CatalogInv => AreasDisjoint
  BY InvAreasDisjoint
<1> QED BY <1>1, <1>2, <1>3, PTL DEF Spec

(* rs_tryToOpenRecordStore() opens what a finished rs_commitTables() left, *)
(* and what an interrupted one left is nowhere taken for a catalog: a byte *)
(* beyond the EEPROM must not read as the zero of a separator for that.    *)
THEOREM SpecCommittedStoreReopens ==
  ASSUME SchemasFit, AbsentByte # 0
  PROVE  Spec => CommittedStoreReopens
<1>1. Init => CatalogInv
  BY InitInv
<1>2. CatalogInv /\ [Next]_vars => CatalogInv'
  BY InvStep
<1>3. CatalogInv /\ [Next]_vars => [Reopens]_vars
  BY ReopenStep
<1>4. CommittedStoreReopens <=> [][Reopens]_vars
  BY DEF CommittedStoreReopens, Reopens
<1> QED BY <1>1, <1>2, <1>3, <1>4, PTL DEF Spec
=============================================================================
