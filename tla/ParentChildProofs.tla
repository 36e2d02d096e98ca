-------------------------- MODULE ParentChildProofs --------------------------
(***************************************************************************)
(* Proofs about ParentChild for every range of child tables, every number  *)
(* of bits that holds it, and every set of imported tables.                *)
(***************************************************************************)
EXTENDS ParentChild, Integers, Sequences, SequencesExt, WellFoundedInduction,
        SequenceTheorems, TLAPS

-----------------------------------------------------------------------------
(***************************************************************************)
(* Induction over numbers, as facts about sets of them: a theorem with an  *)
(* operator as its parameter cannot be applied by the provers, one with a  *)
(* set can.                                                                *)
(***************************************************************************)

(* A set of natural numbers has a least element.                           *)
LEMMA LeastElement ==
  ASSUME NEW T, T \subseteq Nat, T # {}
  PROVE  \E x \in T : \A y \in T : x <= y
<1> DEFINE R == OpToRel(<, Nat)
<1>1. IsWellFoundedOn(R, Nat)
  BY NatLessThanWellFounded
<1>2. \A x, y \in Nat : x < y => <<x, y>> \in R
  BY SMT DEF OpToRel
<1> HIDE DEF R
<1>3. PICK x \in T : \A y \in T : ~(<<y, x>> \in R)
  BY <1>1, WFMin
<1>4. ASSUME NEW y \in T
      PROVE  x <= y
  <2>1. x \in Nat /\ y \in Nat
    OBVIOUS
  <2>2. ~(y < x)
    BY <1>2, <1>3, <2>1
  <2> QED BY <2>1, <2>2, SMT
<1> QED BY <1>4

(* A set that holds zero, and with a number its successor, holds them all. *)
LEMMA SetInduction ==
  ASSUME NEW S, S \subseteq Nat, 0 \in S, \A n \in S : n + 1 \in S
  PROVE  S = Nat
<1> SUFFICES ASSUME Nat \ S # {} PROVE FALSE
  OBVIOUS
<1>1. PICK x \in Nat \ S : \A y \in Nat \ S : x <= y
  BY LeastElement
<1>2. x - 1 \in Nat /\ x - 1 < x
  BY <1>1, SMT
<1>3. x - 1 \in S
  BY <1>1, <1>2, SMT
<1> QED BY <1>1, <1>2, <1>3, SMT
-----------------------------------------------------------------------------
(***************************************************************************)
(* Insertion and removal in a sequence, element by element.                *)
(***************************************************************************)
WithInserted(s, i, e, j) == IF j < i THEN s[j] ELSE IF j = i THEN e ELSE s[j - 1]

LEMMA InsertAtEffect ==
  ASSUME NEW S, NEW s \in Seq(S), NEW i \in 1..(Len(s) + 1), NEW e \in S
  PROVE  /\ InsertAt(s, i, e) \in Seq(S)
         /\ Len(InsertAt(s, i, e)) = Len(s) + 1
         /\ \A j \in 1..(Len(s) + 1) : InsertAt(s, i, e)[j] = WithInserted(s, i, e, j)
<1> DEFINE a == SubSeq(s, 1, i - 1)
           b == SubSeq(s, i, Len(s))
           m == a \o <<e>>
           len == Len(s)
<1>1. len \in Nat /\ i \in Int /\ \A j \in 1..len : s[j] \in S
  BY LenProperties, ElementOfSeq
<1>2. a \in Seq(S) /\ Len(a) = i - 1 /\ \A j \in 1..(i - 1) : a[j] = s[j]
  <2>1. \A j \in 1..(i - 1) : s[j] \in S
    BY <1>1, SMT
  <2> QED BY <1>1, <2>1, SubSeqProperties, SMT
<1>3. b \in Seq(S) /\ Len(b) = len - i + 1 /\ \A j \in 1..(len - i + 1) : b[j] = s[i + j - 1]
  <2>1. \A j \in i..len : s[j] \in S
    BY <1>1, SMT
  <2>2. /\ b \in Seq(S) /\ Len(b) = IF i <= len THEN len - i + 1 ELSE 0
        /\ \A j \in 1..(len - i + 1) : b[j] = s[i + j - 1]
    BY <1>1, <2>1, SubSeqProperties
  <2>3. (IF i <= len THEN len - i + 1 ELSE 0) = len - i + 1
    BY <1>1, SMT
  <2> QED BY <2>2, <2>3
<1>4. <<e>> \in Seq(S) /\ Len(<<e>>) = 1 /\ <<e>>[1] = e
  OBVIOUS
<1>5. m \in Seq(S) /\ Len(m) = i
      /\ \A j \in 1..i : m[j] = IF j <= i - 1 THEN s[j] ELSE e
  <2> HIDE DEF a
  <2>1. m \in Seq(S) /\ Len(m) = Len(a) + 1
        /\ \A j \in 1..(Len(a) + 1) : m[j] = IF j <= Len(a) THEN a[j] ELSE <<e>>[j - Len(a)]
    BY <1>2, <1>4, ConcatProperties
  <2> HIDE DEF m
  <2>2. Len(a) = i - 1 /\ (i - 1) + 1 = i
    BY <1>1, <1>2, SMT
  <2>3. \A j \in 1..i : /\ j <= i - 1 => j \in 1..(i - 1)
                        /\ ~(j <= i - 1) => j - (i - 1) = 1
    BY <1>1, SMT
  <2>4. \A j \in 1..i : m[j] = IF j <= i - 1 THEN a[j] ELSE <<e>>[j - (i - 1)]
    BY <2>1, <2>2
  <2> QED BY <1>2, <1>4, <2>1, <2>2, <2>3, <2>4
<1>6. InsertAt(s, i, e) = m \o b
  BY DEF InsertAt
<1> HIDE DEF m, b
<1>7. m \o b \in Seq(S) /\ Len(m \o b) = Len(m) + Len(b)
      /\ \A j \in 1..(Len(m) + Len(b)) : (m \o b)[j] = IF j <= Len(m) THEN m[j] ELSE b[j - Len(m)]
  BY <1>3, <1>5, ConcatProperties
<1> DEFINE t == m \o b
<1> HIDE DEF t, len
<1>8. Len(t) = len + 1
  BY <1>1, <1>3, <1>5, <1>7, SMT DEF t
<1>9. ASSUME NEW j \in 1..(len + 1)
      PROVE  t[j] = IF j < i THEN s[j] ELSE IF j = i THEN e ELSE s[j - 1]
  <2>1. Len(m) + Len(b) = len + 1 /\ Len(m) = i
    BY <1>1, <1>3, <1>5, SMT DEF len
  <2>2. t[j] = IF j <= i THEN m[j] ELSE b[j - i]
    BY <1>7, <2>1 DEF t
  <2>3. CASE j <= i
    BY <1>1, <1>5, <2>2, <2>3, SMT
  <2>4. CASE j > i
    <3>1. j - i \in 1..(len - i + 1) /\ i + (j - i) - 1 = j - 1
      BY <1>1, <2>4, SMT
    <3>2. b[j - i] = s[j - 1]
      BY <1>3, <3>1 DEF len
    <3> QED BY <1>1, <2>2, <2>4, <3>2, SMT
  <2> QED BY <1>1, <2>3, <2>4, SMT
<1> QED BY <1>6, <1>7, <1>8, <1>9 DEF t, len, WithInserted

WithRemoved(s, i, j) == IF j < i THEN s[j] ELSE s[j + 1]

LEMMA RemoveAtEffect ==
  ASSUME NEW S, NEW s \in Seq(S), NEW i \in 1..Len(s)
  PROVE  /\ RemoveAt(s, i) \in Seq(S)
         /\ Len(RemoveAt(s, i)) = Len(s) - 1
         /\ \A j \in 1..(Len(s) - 1) : RemoveAt(s, i)[j] = WithRemoved(s, i, j)
<1> DEFINE a == SubSeq(s, 1, i - 1)
           b == SubSeq(s, i + 1, Len(s))
           len == Len(s)
           t == a \o b
<1>1. len \in Nat /\ i \in Int /\ \A j \in 1..len : s[j] \in S
  BY LenProperties, ElementOfSeq
<1>2. a \in Seq(S) /\ Len(a) = i - 1 /\ \A j \in 1..(i - 1) : a[j] = s[j]
  <2>1. \A j \in 1..(i - 1) : s[j] \in S
    BY <1>1, SMT
  <2> QED BY <1>1, <2>1, SubSeqProperties, SMT
<1>3. b \in Seq(S) /\ Len(b) = len - i /\ \A j \in 1..(len - i) : b[j] = s[i + j]
  <2>1. \A j \in (i + 1)..len : s[j] \in S
    BY <1>1, SMT
  <2>2. /\ b \in Seq(S) /\ Len(b) = IF i + 1 <= len THEN len - (i + 1) + 1 ELSE 0
        /\ \A j \in 1..(len - (i + 1) + 1) : b[j] = s[i + 1 + j - 1]
    BY <1>1, <2>1, SubSeqProperties
  <2>3. (IF i + 1 <= len THEN len - (i + 1) + 1 ELSE 0) = len - i /\ len - (i + 1) + 1 = len - i
        /\ \A j \in 1..(len - i) : i + 1 + j - 1 = i + j
    BY <1>1, SMT
  <2> QED BY <2>2, <2>3
<1>4. RemoveAt(s, i) = t
  BY DEF RemoveAt
<1> HIDE DEF a, b
<1>5. t \in Seq(S) /\ Len(t) = Len(a) + Len(b)
      /\ \A j \in 1..(Len(a) + Len(b)) : t[j] = IF j <= Len(a) THEN a[j] ELSE b[j - Len(a)]
  BY <1>2, <1>3, ConcatProperties
<1> HIDE DEF t, len
<1>6. Len(t) = len - 1
  BY <1>1, <1>2, <1>3, <1>5, SMT
<1>7. ASSUME NEW j \in 1..(len - 1)
      PROVE  t[j] = IF j < i THEN s[j] ELSE s[j + 1]
  <2>1. t[j] = IF j <= i - 1 THEN a[j] ELSE b[j - (i - 1)]
    BY <1>1, <1>2, <1>3, <1>5, SMT
  <2>2. CASE j < i
    BY <1>1, <1>2, <2>1, <2>2, SMT
  <2>3. CASE j >= i
    <3>1. j - (i - 1) \in 1..(len - i) /\ i + (j - (i - 1)) = j + 1
      BY <1>1, <2>3, SMT DEF len
    <3>2. b[j - (i - 1)] = s[j + 1]
      BY <1>3, <3>1
    <3> QED BY <1>1, <2>1, <2>3, <3>2, SMT
  <2> QED BY <1>1, <2>2, <2>3, SMT
<1> QED BY <1>4, <1>5, <1>6, <1>7 DEF len, WithRemoved

-----------------------------------------------------------------------------
Range2N == 2 ^ NumBits

LEMMA ConstantsType ==
  /\ MinChild \in Nat /\ MaxChild \in Nat /\ MinChild < MaxChild /\ MaxChild <= 250
  /\ MaxNumRecords \in Nat /\ 1 < MaxNumRecords /\ MaxNumRecords <= 251
  /\ MaxNumRecords = MaxChild - MinChild + 1
  /\ NO_RECORD_ID = 255
BY ParentChildAssumption, SMT DEF MaxNumRecords, NO_RECORD_ID, Buffer!NO_RECORD_ID

LEMMA RangeType ==
  Range2N \in Nat /\ Range2N > 0 /\ Range2N >= MaxNumRecords /\ Range2N <= 256
<1>1. Range2N \in MaxNumRecords..256
  BY ParentChildAssumption DEF Range2N
<1> HIDE DEF Range2N
<1> QED BY <1>1, ConstantsType, SMT

-----------------------------------------------------------------------------
(***************************************************************************)
(* Records with their one column, raw and decoded.                         *)
(***************************************************************************)
ChildOf(raw) == raw["child"] + MinChild
Raw(child)   == Buffer!Encoded(Record(child))

Raws      == Buffer!RawRecords
ValidRaws == {raw \in Buffer!RawRecords : ChildOf(raw) \in ChildTables}

LEMMA ModSmall ==
  ASSUME NEW b \in Nat, NEW a \in 0..(b - 1)
  PROVE  a % b = a
BY SMT

LEMMA DecodedIs == \A raw : Buffer!Decoded(raw) = Record(ChildOf(raw))
BY DEF Buffer!Decoded, Record, ChildOf

LEMMA RawIs ==
  ASSUME NEW child
  PROVE  Raw(child) = [c \in {"child"} |-> (child - MinChild) % Range2N]
BY DEF Raw, Buffer!Encoded, Record, Range2N

LEMMA RawOfChild ==
  ASSUME NEW child \in ChildTables
  PROVE  Raw(child) \in ValidRaws /\ ChildOf(Raw(child)) = child
<1> DEFINE d == child - MinChild
<1>1. d \in 0..(Range2N - 1) /\ d + MinChild = child
  <2> HIDE DEF Range2N
  <2> QED BY ConstantsType, RangeType, SMT DEF ChildTables
<1>2. d % Range2N = d
  <2> HIDE DEF Range2N, d
  <2> QED BY <1>1, RangeType, ModSmall
<1>3. Raw(child) = [c \in {"child"} |-> d]
  BY <1>2, RawIs
<1>4. Raw(child) \in Buffer!RawRecords
  BY <1>1, <1>3 DEF Buffer!RawRecords, Buffer!RawValues, Range2N
<1>5. ChildOf(Raw(child)) = child
  BY <1>1, <1>3 DEF ChildOf
<1> QED BY <1>4, <1>5 DEF ValidRaws

LEMMA RawOfRaw ==
  ASSUME NEW raw \in ValidRaws
  PROVE  /\ raw \in Buffer!RawRecords /\ ChildOf(raw) \in ChildTables
         /\ Raw(ChildOf(raw)) = raw
<1> DEFINE v == raw["child"]
<1>1. raw \in [{"child"} -> 0..(Range2N - 1)] /\ ChildOf(raw) \in ChildTables
  BY DEF ValidRaws, Buffer!RawRecords, Buffer!RawValues, Range2N
<1>2. v \in 0..(Range2N - 1) /\ raw = [c \in {"child"} |-> v]
  <2> HIDE DEF Range2N
  <2> QED BY <1>1
<1>3. ChildOf(raw) - MinChild = v
  <2>1. ChildOf(raw) = v + MinChild
    BY DEF ChildOf
  <2> HIDE DEF Range2N, v
  <2> QED BY <1>2, <2>1, RangeType, ConstantsType, SMT
<1>4. v % Range2N = v
  <2> HIDE DEF Range2N, v
  <2> QED BY <1>2, RangeType, ModSmall
<1>5. Raw(ChildOf(raw)) = [c \in {"child"} |-> v]
  <2>1. Raw(ChildOf(raw)) = [c \in {"child"} |-> (ChildOf(raw) - MinChild) % Range2N]
    BY RawIs
  <2> HIDE DEF v, Range2N
  <2> QED BY <1>3, <1>4, <2>1
<1> QED BY <1>1, <1>2, <1>5 DEF ValidRaws

LEMMA RecordIsValid ==
  ASSUME NEW child \in ChildTables
  PROVE  Record(child) \in Buffer!Valid /\ Record(child)["child"] = child
BY DEF Record, Buffer!Valid, ChildTables

-----------------------------------------------------------------------------
(***************************************************************************)
(* Tables: records, buffer, status and list.                               *)
(***************************************************************************)
Table(s, b, st, l) == [stored |-> s, buffer |-> b, status |-> st, list |-> l]
Buf(r, m, columns) == [recordId |-> r, isModified |-> m, columns |-> columns]
Holds(r, m, s)     == Buf(r, m, Record(ChildOf(s[r + 1])))
Reads(r, s)        == Holds(r, FALSE, s)

Running == {"open", "closed"}

(* The records of an open table.                                           *)
Full(s) == s \in Seq(ValidRaws) /\ Len(s) \in 1..MaxNumRecords

(* A buffer holds no record, or one as it is stored: what the callers      *)
(* write is what is there.                                                 *)
Agrees(s, b) ==
  \/ b = Buffer!NoBuffer
  \/ \E r \in 0..(Len(s) - 1), m \in BOOLEAN : b = Holds(r, m, s)

LEMMA FieldsOfTable ==
  ASSUME NEW s, NEW b, NEW st, NEW l
  PROVE  /\ Table(s, b, st, l).stored = s /\ Table(s, b, st, l).buffer = b
         /\ Table(s, b, st, l).status = st /\ Table(s, b, st, l).list = l
BY DEF Table

LEMMA TableChanged ==
  ASSUME NEW s, NEW b, NEW st, NEW l, NEW x
  PROVE  /\ [Table(s, b, st, l) EXCEPT !.stored = x] = Table(x, b, st, l)
         /\ [Table(s, b, st, l) EXCEPT !.buffer = x] = Table(s, x, st, l)
         /\ [Table(s, b, st, l) EXCEPT !.status = x] = Table(s, b, x, l)
         /\ [Table(s, b, st, l) EXCEPT !.list = x] = Table(s, b, st, x)
BY SMT DEF Table

LEMMA FieldsOfBuf ==
  ASSUME NEW r, NEW m, NEW columns
  PROVE  /\ Buf(r, m, columns).recordId = r /\ Buf(r, m, columns).isModified = m
         /\ Buf(r, m, columns).columns = columns
BY DEF Buf

LEMMA BufChanged ==
  ASSUME NEW r, NEW m, NEW columns, NEW x
  PROVE  /\ [Buf(r, m, columns) EXCEPT !.recordId = x] = Buf(x, m, columns)
         /\ [Buf(r, m, columns) EXCEPT !.isModified = x] = Buf(r, x, columns)
         /\ [Buf(r, m, columns) EXCEPT !.columns = x] = Buf(r, m, x)
BY SMT DEF Buf

LEMMA NoBufferIs == Buffer!NoBuffer = Buf(255, FALSE, [c \in {"child"} |-> 0])
BY DEF Buffer!NoBuffer, Buf, Buffer!NO_RECORD_ID

-----------------------------------------------------------------------------
(***************************************************************************)
(* The helpers of the record buffer, on buffers that agree with the        *)
(* records.                                                                *)
(***************************************************************************)
LEMMA RecordNumbers ==
  ASSUME NEW s, Full(s), NEW r \in 0..(Len(s) - 1)
  PROVE  /\ r \in Nat /\ r + 1 \in 1..Len(s) /\ r < Len(s) /\ r # 255
         /\ r \in 0..(MaxNumRecords - 1)
         /\ s[r + 1] \in ValidRaws /\ Len(s) \in Nat
<1> DEFINE len == Len(s)
<1>1. s \in Seq(ValidRaws) /\ len \in 1..MaxNumRecords
  BY DEF Full
<1>2. r \in 0..(len - 1)
  OBVIOUS
<1>3. r \in Nat /\ r + 1 \in 1..len /\ r < len /\ r # 255 /\ r \in 0..(MaxNumRecords - 1) /\ len \in Nat
  <2> HIDE DEF len
  <2> QED BY <1>1, <1>2, ConstantsType, SMT
<1>4. s[r + 1] \in ValidRaws
  BY <1>1, <1>3, ElementOfSeq
<1> QED BY <1>3, <1>4

LEMMA SameElement ==
  ASSUME NEW S, NEW s \in Seq(S), NEW i \in 1..Len(s)
  PROVE  [s EXCEPT ![i] = s[i]] = s
OBVIOUS

(* storeRecordBuffer() stores what is there.                               *)
LEMMA StoreSame ==
  ASSUME NEW s, Full(s), NEW r \in 0..(Len(s) - 1), NEW m, NEW st, NEW l
  PROVE  Buffer!StoreRecordBuffer(Table(s, Holds(r, m, s), st, l)) = Table(s, Holds(r, m, s), st, l)
<1> DEFINE b == Holds(r, m, s)
           table == Table(s, b, st, l)
           raw == Raw(ChildOf(s[r + 1]))
<1>1. r < Len(s) /\ r + 1 \in 1..Len(s) /\ s[r + 1] \in ValidRaws /\ s \in Seq(ValidRaws)
  BY RecordNumbers DEF Full
<1>2. table.stored = s /\ table.buffer.recordId = r
      /\ table.buffer.columns = Record(ChildOf(s[r + 1]))
  BY FieldsOfTable, FieldsOfBuf DEF Holds
<1>3. raw = s[r + 1]
  BY <1>1, RawOfRaw
<1>4. Buffer!Encoded(table.buffer.columns) = raw
  BY <1>2 DEF Raw
<1> HIDE DEF table, raw
<1>5. Buffer!StoreRecordBuffer(table) = [table EXCEPT !.stored[r + 1] = raw]
  BY <1>1, <1>2, <1>4 DEF Buffer!StoreRecordBuffer, Buffer!RecordExists
<1>6. [table EXCEPT !.stored[r + 1] = raw] = [table EXCEPT !.stored = [s EXCEPT ![r + 1] = raw]]
  BY <1>2
<1>7. [s EXCEPT ![r + 1] = raw] = s
  BY <1>1, <1>3, SameElement
<1>8. [table EXCEPT !.stored = s] = table
  BY TableChanged DEF table
<1> QED BY <1>5, <1>6, <1>7, <1>8 DEF table

LEMMA WriteSame ==
  ASSUME NEW s, Full(s), NEW b, Agrees(s, b), NEW st, NEW l
  PROVE  Buffer!WriteRecordBufferIfDirty(Table(s, b, st, l)) = Table(s, b, st, l)
<1> DEFINE table == Table(s, b, st, l)
<1>1. table.buffer = b
  BY FieldsOfTable
<1>2. CASE b = Buffer!NoBuffer
  <2>1. table.buffer.isModified = FALSE
    BY <1>1, <1>2 DEF Buffer!NoBuffer
  <2> QED BY <2>1 DEF Buffer!WriteRecordBufferIfDirty
<1>3. CASE b # Buffer!NoBuffer
  <2>1. PICK r \in 0..(Len(s) - 1), m \in BOOLEAN : b = Holds(r, m, s)
    BY <1>3 DEF Agrees
  <2>2. Buffer!StoreRecordBuffer(table) = table
    BY <2>1, StoreSame
  <2> QED BY <2>2 DEF Buffer!WriteRecordBufferIfDirty
<1> QED BY <1>2, <1>3

(* fillRecordBuffer() when the buffer holds another record or none.        *)
LEMMA FillRead ==
  ASSUME NEW s, NEW b, NEW st \in Running, NEW l,
         Buffer!WriteRecordBufferIfDirty(Table(s, b, st, l)) = Table(s, b, st, l),
         NEW r, r < Len(s), b.recordId # r
  PROVE  Buffer!FillRecordBuffer(Table(s, b, st, l), r) = Table(s, Reads(r, s), st, l)
<1> DEFINE table == Table(s, b, st, l)
<1>1. table.stored = s /\ table.buffer = b /\ table.status = st /\ st # "halted"
  BY FieldsOfTable DEF Running
<1>2. r < Len(s)
  OBVIOUS
<1>3. Buffer!Decoded(s[r + 1]) = Record(ChildOf(s[r + 1]))
  BY DecodedIs
<1>4. [recordId |-> r, isModified |-> FALSE, columns |-> Record(ChildOf(s[r + 1]))]
        = Reads(r, s)
  BY DEF Reads, Holds, Buf
<1>5. [table EXCEPT !.buffer = Reads(r, s)] = Table(s, Reads(r, s), st, l)
  <2> DEFINE x == Reads(r, s)
  <2> HIDE DEF x
  <2>1. [table EXCEPT !.buffer = x] = Table(s, x, st, l)
    BY SMT DEF Table
  <2> QED BY <2>1 DEF x
<1>6. Buffer!WriteRecordBufferIfDirty(table) = table
  OBVIOUS
<1> HIDE DEF table
<1>7. Buffer!FillRecordBuffer(table, r)
        = [table EXCEPT !.buffer = [recordId |-> r, isModified |-> FALSE,
                                    columns |-> Buffer!Decoded(table.stored[r + 1])]]
  BY <1>1, <1>2, <1>6, Zenon DEF Buffer!FillRecordBuffer, Buffer!RecordExists
<1> QED BY <1>1, <1>3, <1>4, <1>5, <1>7 DEF table

LEMMA FillOther ==
  ASSUME NEW s, Full(s), NEW b, NEW st \in Running, NEW l,
         Buffer!WriteRecordBufferIfDirty(Table(s, b, st, l)) = Table(s, b, st, l),
         NEW r \in 0..(Len(s) - 1), b.recordId # r
  PROVE  Buffer!FillRecordBuffer(Table(s, b, st, l), r) = Table(s, Reads(r, s), st, l)
<1>1. r < Len(s)
  BY RecordNumbers
<1> QED BY <1>1, FillRead

LEMMA FillIs ==
  ASSUME NEW s, Full(s), NEW b, Agrees(s, b), NEW st \in Running, NEW l,
         NEW r \in 0..(Len(s) - 1)
  PROVE  \E m \in BOOLEAN :
           Buffer!FillRecordBuffer(Table(s, b, st, l), r) = Table(s, Holds(r, m, s), st, l)
<1>1. CASE b.recordId # r
  <2>1. Buffer!WriteRecordBufferIfDirty(Table(s, b, st, l)) = Table(s, b, st, l)
    BY WriteSame
  <2>2. Buffer!FillRecordBuffer(Table(s, b, st, l), r) = Table(s, Reads(r, s), st, l)
    BY <1>1, <2>1, FillOther, ZenonT(60)
  <2> QED BY <2>2, Zenon DEF Reads
<1>2. CASE b.recordId = r
  <2>1. b # Buffer!NoBuffer
    <3>1. Buffer!NoBuffer.recordId = 255
      BY DEF Buffer!NoBuffer, Buffer!NO_RECORD_ID
    <3> QED BY <1>2, <3>1, RecordNumbers
  <2>2. PICK k \in 0..(Len(s) - 1), m \in BOOLEAN : b = Holds(k, m, s)
    BY <2>1 DEF Agrees
  <2>3. k = r
    BY <1>2, <2>2, FieldsOfBuf DEF Holds
  <2>4. Table(s, b, st, l).buffer.recordId = r
    BY <1>2, FieldsOfTable
  <2>5. Buffer!FillRecordBuffer(Table(s, b, st, l), r) = Table(s, b, st, l)
    BY <2>4, Zenon DEF Buffer!FillRecordBuffer
  <2> QED BY <2>2, <2>3, <2>5
<1> QED BY <1>1, <1>2

(* What a caller reads.                                                    *)
Kids(s) == [n \in 1..Len(s) |-> ChildOf(s[n])]

LEMMA ChildrenAreKids ==
  ASSUME NEW s, Full(s), NEW b, Agrees(s, b), NEW st \in Running, NEW l
  PROVE  ChildrenOf(Table(s, b, st, l)) = Kids(s)
<1> DEFINE table == Table(s, b, st, l)
<1>1. table.stored = s
  BY FieldsOfTable
<1>2. ASSUME NEW n \in 1..Len(s)
      PROVE  ChildInBuffer(Buffer!FillRecordBuffer(table, n - 1)) = ChildOf(s[n])
  <2> DEFINE r == n - 1
  <2>1. r \in 0..(Len(s) - 1) /\ r + 1 = n
    <3> DEFINE len == Len(s)
    <3>1. len \in 1..MaxNumRecords
      BY DEF Full
    <3> HIDE DEF len
    <3>2. n - 1 \in 0..(len - 1) /\ n - 1 + 1 = n
      BY <3>1, ConstantsType, SMT DEF len
    <3> QED BY <3>2 DEF len
  <2> HIDE DEF r
  <2>2. PICK m \in BOOLEAN : Buffer!FillRecordBuffer(table, r) = Table(s, Holds(r, m, s), st, l)
    BY <2>1, FillIs, ZenonT(60)
  <2>3. Table(s, Holds(r, m, s), st, l).buffer.columns = Record(ChildOf(s[n]))
    BY <2>1, FieldsOfTable, FieldsOfBuf DEF Holds
  <2>4. ChildInBuffer(Buffer!FillRecordBuffer(table, r)) = Record(ChildOf(s[n]))["child"]
    BY <2>2, <2>3 DEF ChildInBuffer
  <2> QED BY <2>4 DEF Record, r
<1> HIDE DEF table
<1>3. ChildrenOf(table) = [n \in 1..Len(s) |-> ChildInBuffer(Buffer!FillRecordBuffer(table, n - 1))]
  BY <1>1 DEF ChildrenOf
<1> QED BY <1>2, <1>3 DEF Kids, table

(* A buffer that need not agree with the records, but is not marked as     *)
(* modified, is read anew when it does not name the record wanted.         *)
LEMMA WriteClean ==
  ASSUME NEW s, NEW r, NEW columns, NEW st, NEW l
  PROVE  Buffer!WriteRecordBufferIfDirty(Table(s, Buf(r, FALSE, columns), st, l))
           = Table(s, Buf(r, FALSE, columns), st, l)
<1> DEFINE b == Buf(r, FALSE, columns)
<1>1. b.isModified = FALSE
  BY DEF Buf
<1> HIDE DEF b
<1>2. Table(s, b, st, l).buffer.isModified = FALSE
  BY <1>1, FieldsOfTable
<1>3. Buffer!WriteRecordBufferIfDirty(Table(s, b, st, l)) = Table(s, b, st, l)
  BY <1>2 DEF Buffer!WriteRecordBufferIfDirty
<1> QED BY <1>3 DEF b

(* Without a record in the buffer there is nothing to write.               *)
LEMMA NoBufferWritten ==
  ASSUME NEW s, NEW st, NEW l
  PROVE  Buffer!WriteRecordBufferIfDirty(Table(s, Buffer!NoBuffer, st, l))
           = Table(s, Buffer!NoBuffer, st, l)
<1> DEFINE table == Table(s, Buffer!NoBuffer, st, l)
<1>1. table.buffer = Buffer!NoBuffer
  BY FieldsOfTable
<1>2. table.buffer.isModified = FALSE
  BY <1>1 DEF Buffer!NoBuffer
<1> QED BY <1>2 DEF Buffer!WriteRecordBufferIfDirty

-----------------------------------------------------------------------------
(***************************************************************************)
(* buildParentRecordList(): after n records the list leads to the last of  *)
(* them that names a child table.                                          *)
(***************************************************************************)
Parents(s, n, i) == {r \in 0..(n - 1) : ChildOf(s[r + 1]) = MinChild + i}

ListOf(s, n) ==
  [i \in ListIndexes |->
     IF Parents(s, n, i) = {} THEN NO_RECORD_ID ELSE Max(Parents(s, n, i))]

LEMMA MaxIs ==
  ASSUME NEW S, S \subseteq Int, NEW x \in S, \A y \in S : y <= x
  PROVE  Max(S) = x
<1> DEFINE m == CHOOSE y \in S : \A z \in S : y >= z
<1>1. x \in S /\ \A z \in S : x >= z
  BY SMT
<1>2. m \in S /\ \A z \in S : m >= z
  BY <1>1, Zenon
<1>3. Max(S) = m
  BY DEF Max
<1> HIDE DEF m
<1>4. m = x
  BY <1>2, SMT
<1> QED BY <1>3, <1>4

LEMMA MaxIsIn ==
  ASSUME NEW n \in Nat, NEW S, S \subseteq 0..(n - 1), S # {}
  PROVE  Max(S) \in S
<1> DEFINE T == {d \in Nat : \E x \in S : d = n - 1 - x}
<1>1. T \subseteq Nat /\ T # {}
  <2>1. PICK x \in S : TRUE
    OBVIOUS
  <2>2. n - 1 - x \in Nat
    BY <2>1, SMT
  <2> QED BY <2>1, <2>2
<1>2. PICK d \in T : \A e \in T : d <= e
  BY <1>1, LeastElement
<1>3. PICK x \in S : d = n - 1 - x
  BY <1>2
<1>4. ASSUME NEW y \in S PROVE y <= x
  <2> DEFINE e == n - 1 - y
  <2>1. e \in Nat
    BY SMT
  <2>2. e \in T
    BY <2>1
  <2>3. d <= e
    BY <1>2, <2>2
  <2> HIDE DEF T
  <2> QED BY <1>3, <2>3, SMT
<1>5. S \subseteq Int
  BY SMT
<1> HIDE DEF T
<1>6. Max(S) = x
  BY <1>4, <1>5, MaxIs
<1> QED BY <1>6

LEMMA ParentsGrow ==
  ASSUME NEW s, NEW n \in Nat, NEW i
  PROVE  /\ Parents(s, n, i) \subseteq 0..(n - 1) /\ Parents(s, n, i) \subseteq Int
         /\ Parents(s, n + 1, i) = IF ChildOf(s[n + 1]) = MinChild + i
                                   THEN Parents(s, n, i) \union {n} ELSE Parents(s, n, i)
<1>1. Parents(s, n, i) \subseteq 0..(n - 1) /\ Parents(s, n, i) \subseteq Int
  BY SMT DEF Parents
<1>2. 0..(n + 1 - 1) = 0..(n - 1) \union {n} /\ n \notin 0..(n - 1)
  BY SMT
<1>3. Parents(s, n + 1, i) = {r \in 0..(n - 1) \union {n} : ChildOf(s[r + 1]) = MinChild + i}
  BY <1>2 DEF Parents
<1>4. ASSUME NEW r
      PROVE  r \in Parents(s, n + 1, i) <=>
               r \in IF ChildOf(s[n + 1]) = MinChild + i
                     THEN Parents(s, n, i) \union {n} ELSE Parents(s, n, i)
  BY <1>2, <1>3, Zenon DEF Parents
<1> QED BY <1>1, <1>4, Zenon

LEMMA ListGrows ==
  ASSUME NEW s, NEW n \in Nat, NEW j \in ListIndexes, ChildOf(s[n + 1]) = MinChild + j
  PROVE  [ListOf(s, n) EXCEPT ![j] = n] = ListOf(s, n + 1)
<1>1. ASSUME NEW i \in ListIndexes
      PROVE  [ListOf(s, n) EXCEPT ![j] = n][i] = ListOf(s, n + 1)[i]
  <2>1. CASE i = j
    <3> DEFINE S == Parents(s, n, i)
               S1 == Parents(s, n + 1, i)
    <3>1. S1 = S \union {n} /\ S \subseteq 0..(n - 1)
      BY <2>1, ParentsGrow
    <3> HIDE DEF S, S1
    <3>2. S1 \subseteq Int /\ n \in S1 /\ \A y \in S1 : y <= n
      BY <3>1, SMT
    <3>3. Max(S1) = n
      BY <3>2, MaxIs
    <3>4. S1 # {}
      BY <3>1
    <3> QED BY <2>1, <3>3, <3>4 DEF ListOf, S1
  <2>2. CASE i # j
    <3>1. i \in Int /\ j \in Int
      BY ConstantsType, SMT DEF ListIndexes
    <3>2. ChildOf(s[n + 1]) # MinChild + i
      BY <2>2, <3>1, ConstantsType, SMT
    <3>3. Parents(s, n + 1, i) = Parents(s, n, i)
      BY <3>2, ParentsGrow
    <3> QED BY <2>2, <3>3 DEF ListOf
  <2> QED BY <2>1, <2>2
<1> QED BY <1>1 DEF ListOf

LEMMA ListEmpty == \A s : ListOf(s, 0) = NoParents
<1> SUFFICES ASSUME NEW s, NEW i \in ListIndexes
             PROVE  Parents(s, 0, i) = {}
  BY Zenon DEF ListOf, NoParents
<1>1. 0..(0 - 1) = {}
  BY SMT
<1> QED BY <1>1 DEF Parents

LEMMA IndexOfChild ==
  ASSUME NEW child \in ChildTables
  PROVE  /\ (child - MinChild) % 256 = child - MinChild
         /\ child - MinChild \in ListIndexes
         /\ MinChild + (child - MinChild) = child
<1> DEFINE d == child - MinChild
<1>1. d \in 0..(MaxNumRecords - 1) /\ d \in 0..(256 - 1) /\ MinChild + d = child
  BY ConstantsType, SMT DEF ChildTables
<1> HIDE DEF d
<1>2. d % 256 = d
  BY <1>1, ModSmall
<1> QED BY <1>1, <1>2 DEF d, ListIndexes

LEMMA OpenIsRunning == "open" \in Running /\ "closed" \in Running /\ "open" # "halted"
BY DEF Running

(* A turn of the loop, when the record is read into buffer b.              *)
LEMMA ListedIs ==
  ASSUME NEW s, NEW r \in Nat, NEW table, NEW b, NEW l,
         Buffer!FillRecordBuffer(table, r) = Table(s, b, "open", l),
         b.columns = Record(ChildOf(s[r + 1])), s[r + 1] \in ValidRaws
  PROVE  Listed(table, r) = Table(s, b, "open", [l EXCEPT ![ChildOf(s[r + 1]) - MinChild] = r])
<1> DEFINE filled == Table(s, b, "open", l)
           child == ChildOf(s[r + 1])
           i == child - MinChild
           next == [filled EXCEPT !.list[i] = r]
<1>1. child \in ChildTables
  BY RawOfRaw
<1>2. ChildInBuffer(filled) = child /\ filled.status = "open" /\ filled.list = l
  <2>1. filled.buffer = b
    BY FieldsOfTable
  <2> HIDE DEF filled
  <2>2. ChildInBuffer(filled) = Record(child)["child"]
    BY <2>1 DEF ChildInBuffer
  <2> QED BY <2>2, FieldsOfTable DEF Record, filled
<1> HIDE DEF child
<1>3. (ChildInBuffer(filled) - MinChild) % 256 = i /\ i \in ListIndexes
  BY <1>1, <1>2, IndexOfChild
<1>4. Buffer!FillRecordBuffer(table, r) = filled
  OBVIOUS
<1> HIDE DEF filled, i
<1>5. Listed(table, r) = next
  BY <1>2, <1>3, <1>4, OpenIsRunning DEF Listed
<1>6. next = [filled EXCEPT !.list = [l EXCEPT ![i] = r]]
  BY <1>2
<1>7. [filled EXCEPT !.list = [l EXCEPT ![i] = r]] = Table(s, b, "open", [l EXCEPT ![i] = r])
  <2> DEFINE x == [l EXCEPT ![i] = r]
  <2> HIDE DEF x
  <2>1. [filled EXCEPT !.list = x] = Table(s, b, "open", x)
    BY SMT DEF Table, filled
  <2> QED BY <2>1 DEF x
<1> QED BY <1>5, <1>6, <1>7 DEF i, child

(* The table after n turns; m says if the first record was modified.       *)
BufferAfter(s, m, n) == IF n <= 1 THEN Holds(0, m, s) ELSE Reads(n - 1, s)
Scanned(s, m, n)     == Table(s, BufferAfter(s, m, n), "open", ListOf(s, n))

LEMMA BufferLater ==
  ASSUME NEW s, NEW m, NEW n, ~(n <= 1)
  PROVE  BufferAfter(s, m, n) = Reads(n - 1, s)
BY Zenon DEF BufferAfter

LEMMA ColumnsHeld ==
  ASSUME NEW s, NEW r, NEW m
  PROVE  /\ Holds(r, m, s).columns = Record(ChildOf(s[r + 1])) /\ Holds(r, m, s).recordId = r
         /\ Reads(r, s).columns = Record(ChildOf(s[r + 1])) /\ Reads(r, s).recordId = r
BY DEF Holds, Reads, Buf

LEMMA BufferAfterAgrees ==
  ASSUME NEW s, Full(s), NEW m \in BOOLEAN, NEW n \in 0..Len(s)
  PROVE  Agrees(s, BufferAfter(s, m, n))
<1> DEFINE len == Len(s)
<1>1. len \in 1..MaxNumRecords
  BY DEF Full
<1>2. CASE n <= 1
  <2>1. 0 \in 0..(len - 1)
    <3> HIDE DEF len
    <3> QED BY <1>1, SMT
  <2> QED BY <1>2, <2>1, Zenon DEF BufferAfter, Agrees
<1>3. CASE ~(n <= 1)
  <2>1. n - 1 \in 0..(len - 1)
    <3> HIDE DEF len
    <3> QED BY <1>1, <1>3, SMT DEF len
  <2> QED BY <1>3, <2>1, Zenon DEF BufferAfter, Agrees, Reads
<1> QED BY <1>2, <1>3

LEMMA ScanStep ==
  ASSUME NEW s, Full(s), NEW m \in BOOLEAN, NEW r \in 0..(Len(s) - 1)
  PROVE  Listed(Scanned(s, m, r), r) = Scanned(s, m, r + 1)
<1> DEFINE b == BufferAfter(s, m, r)
           b1 == BufferAfter(s, m, r + 1)
           l == ListOf(s, r)
           child == ChildOf(s[r + 1])
<1>1. r \in Nat /\ r \in 0..Len(s)
  <2> DEFINE len == Len(s)
  <2>1. len \in Nat /\ r \in 0..(len - 1)
    BY RecordNumbers
  <2> HIDE DEF len
  <2>2. r \in Nat /\ r \in 0..len
    BY <2>1, SMT
  <2> QED BY <2>2 DEF len
<1>2. Buffer!FillRecordBuffer(Scanned(s, m, r), r) = Table(s, b1, "open", l)
      /\ b1.columns = Record(child)
  <2>1. CASE r = 0
    <3>1. b1 = Holds(0, m, s) /\ b = Holds(0, m, s)
      <4>1. r <= 1 /\ r + 1 <= 1
        BY <2>1, SMT
      <4> QED BY <4>1, Zenon DEF BufferAfter
    <3>2. Scanned(s, m, r).buffer.recordId = 0
      BY <3>1, ColumnsHeld, FieldsOfTable DEF Scanned
    <3>3. Buffer!FillRecordBuffer(Scanned(s, m, r), r) = Scanned(s, m, r)
      BY <2>1, <3>2, Zenon DEF Buffer!FillRecordBuffer
    <3> QED BY <2>1, <3>1, <3>3, ColumnsHeld DEF Scanned
  <2>2. CASE r # 0
    <3>1. ~(r + 1 <= 1) /\ r + 1 - 1 = r /\ (r <= 1 => r = 1) /\ r - 1 # r
      BY <1>1, <2>2, SMT
    <3>2. b1 = Reads(r, s)
      <4> DEFINE k == r + 1
      <4>1. ~(k <= 1) /\ k - 1 = r
        BY <3>1
      <4> HIDE DEF k
      <4>2. BufferAfter(s, m, k) = Reads(k - 1, s)
        BY <4>1, BufferLater
      <4> QED BY <4>1, <4>2 DEF k
    <3>3. b.recordId # r
      <4>1. CASE r <= 1
        BY <2>2, <4>1, ColumnsHeld DEF BufferAfter
      <4>2. CASE ~(r <= 1)
        <5>1. b = Reads(r - 1, s)
          BY <4>2 DEF BufferAfter
        <5>2. Reads(r - 1, s).recordId = r - 1
          BY ColumnsHeld
        <5> QED BY <3>1, <5>1, <5>2
      <4> QED BY <4>1, <4>2
    <3>4. Agrees(s, b)
      BY <1>1, BufferAfterAgrees
    <3> HIDE DEF b, l
    <3>5. Buffer!WriteRecordBufferIfDirty(Table(s, b, "open", l)) = Table(s, b, "open", l)
      BY <3>4, WriteSame
    <3>6. Buffer!FillRecordBuffer(Table(s, b, "open", l), r) = Table(s, Reads(r, s), "open", l)
      BY <3>3, <3>5, FillOther, OpenIsRunning
    <3>7. Scanned(s, m, r) = Table(s, b, "open", l)
      BY DEF Scanned, b, l
    <3>8. b1.columns = Record(child)
      BY <3>2, ColumnsHeld
    <3> HIDE DEF b1
    <3> QED BY <3>2, <3>6, <3>7, <3>8
  <2> QED BY <2>1, <2>2
<1> HIDE DEF b1, l
<1>3. Listed(Scanned(s, m, r), r) = Table(s, b1, "open", [l EXCEPT ![child - MinChild] = r])
  <2>1. s[r + 1] \in ValidRaws
    BY RecordNumbers
  <2> DEFINE t == Scanned(s, m, r)
  <2>2. Buffer!FillRecordBuffer(t, r) = Table(s, b1, "open", l) /\ b1.columns = Record(ChildOf(s[r + 1]))
    BY <1>2
  <2> HIDE DEF t
  <2>3. Listed(t, r) = Table(s, b1, "open", [l EXCEPT ![ChildOf(s[r + 1]) - MinChild] = r])
    BY <1>1, <2>1, <2>2, ListedIs
  <2> QED BY <2>3 DEF t
<1>4. child \in ChildTables
  BY RecordNumbers, RawOfRaw
<1>5. child - MinChild \in ListIndexes /\ child = MinChild + (child - MinChild)
  BY <1>4, IndexOfChild
<1>6. [l EXCEPT ![child - MinChild] = r] = ListOf(s, r + 1)
  BY <1>1, <1>5, ListGrows DEF l
<1> QED BY <1>3, <1>6 DEF Scanned, b1

(* The function that the loop defines by recursion.                        *)
IsScan(table, f) ==
  f = [n \in 0..Len(table.stored) |->
         IF n = 0 THEN [Buffer!FillRecordBuffer(table, 0) EXCEPT !.list = NoParents]
         ELSE IF f[n - 1].status = "halted" THEN f[n - 1]
         ELSE Listed(f[n - 1], n - 1)]

LEMMA BuiltByScan ==
  ASSUME NEW table, Buffer!FillRecordBuffer(table, 0).status # "halted",
         NEW g, IsScan(table, g)
  PROVE  \E f : IsScan(table, f) /\ Built(table) = f[Len(table.stored)]
<1> DEFINE f == CHOOSE h : IsScan(table, h)
<1>1. IsScan(table, f)
  OBVIOUS
<1>2. Built(table) = f[Len(table.stored)]
  BY DEF Built, IsScan
<1> QED BY <1>1, <1>2

(* The buffer need not agree with the records when the list is built, as   *)
(* long as the first record can be read.                                   *)
LEMMA BuiltIs ==
  ASSUME NEW s, Full(s), NEW b, NEW l, NEW m \in BOOLEAN,
         Buffer!FillRecordBuffer(Table(s, b, "open", l), 0) = Table(s, Holds(0, m, s), "open", l)
  PROVE  Built(Table(s, b, "open", l)) = Scanned(s, m, Len(s))
<1> DEFINE table == Table(s, b, "open", l)
           filled == Table(s, Holds(0, m, s), "open", l)
           len == Len(s)
           g == [n \in 0..len |-> Scanned(s, m, n)]
<1>1. table.stored = s /\ len \in Nat
  BY FieldsOfTable DEF Full
<1>2. [filled EXCEPT !.list = NoParents] = Scanned(s, m, 0)
  <2>1. [filled EXCEPT !.list = NoParents] = Table(s, Holds(0, m, s), "open", NoParents)
    <3> DEFINE held == Holds(0, m, s)
    <3> HIDE DEF held
    <3>1. [Table(s, held, "open", l) EXCEPT !.list = NoParents] = Table(s, held, "open", NoParents)
      BY SMT DEF Table
    <3> QED BY <3>1 DEF held
  <2>2. BufferAfter(s, m, 0) = Holds(0, m, s)
    <3>1. 0 <= 1
      BY SMT
    <3> QED BY <3>1, Zenon DEF BufferAfter
  <2> QED BY <2>1, <2>2, ListEmpty DEF Scanned
<1>3. \A n \in 0..len : Scanned(s, m, n).status = "open"
  BY FieldsOfTable DEF Scanned
<1>4. Buffer!FillRecordBuffer(table, 0) = filled /\ filled.status = "open"
  BY FieldsOfTable
<1> HIDE DEF table, filled, len
<1>5. ASSUME NEW n \in 0..len
      PROVE  Scanned(s, m, n) =
               IF n = 0 THEN [Buffer!FillRecordBuffer(table, 0) EXCEPT !.list = NoParents]
               ELSE IF g[n - 1].status = "halted" THEN g[n - 1] ELSE Listed(g[n - 1], n - 1)
  <2>1. CASE n = 0
    BY <1>2, <1>4, <2>1
  <2>2. CASE n # 0
    <3> DEFINE r == n - 1
    <3>1. r \in 0..(len - 1) /\ r \in 0..len /\ r + 1 = n
      BY <1>1, <2>2, SMT
    <3> HIDE DEF r
    <3>2. g[r] = Scanned(s, m, r)
      BY <3>1
    <3> HIDE DEF g
    <3>3. g[r].status # "halted"
      BY <1>3, <3>1, <3>2, OpenIsRunning
    <3>4. Listed(g[r], r) = Scanned(s, m, n)
      BY <3>1, <3>2, ScanStep DEF len
    <3>5. (IF g[r].status = "halted" THEN g[r] ELSE Listed(g[r], r)) = Scanned(s, m, n)
      BY <3>3, <3>4
    <3> QED BY <2>2, <3>5 DEF r
  <2> QED BY <2>1, <2>2
<1>6. IsScan(table, g)
  BY <1>1, <1>5 DEF IsScan, len
<1>7. PICK f : IsScan(table, f) /\ Built(table) = f[len]
  BY <1>1, <1>4, <1>6, BuiltByScan, OpenIsRunning DEF len
<1>8. \A n \in 0..len :
        f[n] = IF n = 0 THEN [Buffer!FillRecordBuffer(table, 0) EXCEPT !.list = NoParents]
               ELSE IF f[n - 1].status = "halted" THEN f[n - 1] ELSE Listed(f[n - 1], n - 1)
  BY <1>1, <1>7 DEF IsScan, len
<1> DEFINE S == {n \in Nat : n <= len => f[n] = Scanned(s, m, n)}
<1>9. 0 \in S
  <2>1. 0 \in 0..len
    BY <1>1, SMT
  <2> QED BY <1>2, <1>4, <1>8, <2>1
<1>10. ASSUME NEW r \in S
       PROVE  r + 1 \in S
  <2> SUFFICES ASSUME r + 1 <= len PROVE f[r + 1] = Scanned(s, m, r + 1)
    OBVIOUS
  <2> DEFINE n == r + 1
  <2>1. r \in 0..(len - 1) /\ r \in 0..len /\ n \in 0..len /\ n # 0 /\ n - 1 = r /\ r <= len
    BY <1>1, SMT
  <2>2. f[r] = Scanned(s, m, r)
    BY <2>1
  <2>3. Scanned(s, m, r).status # "halted"
    BY <1>3, <2>1, OpenIsRunning
  <2>4. Listed(Scanned(s, m, r), r) = Scanned(s, m, n)
    BY <2>1, ScanStep DEF len
  <2> HIDE DEF n, S
  <2>5. f[n] = IF f[n - 1].status = "halted" THEN f[n - 1] ELSE Listed(f[n - 1], n - 1)
    BY <1>8, <2>1
  <2>6. f[n] = Listed(f[r], r)
    BY <2>1, <2>2, <2>3, <2>5
  <2> QED BY <2>2, <2>4, <2>6 DEF n
<1>11. S = Nat
  <2> HIDE DEF S
  <2>1. S \subseteq Nat
    BY DEF S
  <2> QED BY <1>9, <1>10, <2>1, SetInduction
<1>12. f[len] = Scanned(s, m, len)
  <2>1. len \in S /\ len <= len
    BY <1>1, <1>11, SMT
  <2> QED BY <2>1
<1> QED BY <1>7, <1>12 DEF table, len

(* So after it the list is right, and the buffer agrees with the records.  *)
Rebuilt(table, s) ==
  \E b : Agrees(s, b) /\ table = Table(s, b, "open", ListOf(s, Len(s)))

LEMMA BuiltIsRebuilt ==
  ASSUME NEW s, Full(s), NEW b, NEW l, NEW m \in BOOLEAN,
         Buffer!FillRecordBuffer(Table(s, b, "open", l), 0) = Table(s, Holds(0, m, s), "open", l)
  PROVE  Rebuilt(Built(Table(s, b, "open", l)), s)
<1>1. Built(Table(s, b, "open", l)) = Scanned(s, m, Len(s))
  BY BuiltIs
<1>2. Len(s) \in 0..Len(s)
  <2>1. Len(s) \in Nat
    BY DEF Full
  <2> QED BY <2>1, SMT
<1>3. Agrees(s, BufferAfter(s, m, Len(s)))
  BY <1>2, BufferAfterAgrees
<1> QED BY <1>1, <1>3, Zenon DEF Rebuilt, Scanned

LEMMA BuiltWhenAgreed ==
  ASSUME NEW s, Full(s), NEW b, Agrees(s, b), NEW l
  PROVE  Rebuilt(Built(Table(s, b, "open", l)), s)
<1>1. 0 \in 0..(Len(s) - 1)
  <2> DEFINE len == Len(s)
  <2>1. len \in 1..MaxNumRecords
    BY DEF Full
  <2> HIDE DEF len
  <2>2. 0 \in 0..(len - 1)
    BY <2>1, SMT
  <2> QED BY <2>2 DEF len
<1>2. PICK m \in BOOLEAN :
        Buffer!FillRecordBuffer(Table(s, b, "open", l), 0) = Table(s, Holds(0, m, s), "open", l)
  BY <1>1, FillIs, OpenIsRunning
<1> QED BY <1>2, BuiltIsRebuilt

LEMMA BuiltWhenClean ==
  ASSUME NEW s, Full(s), NEW r, r # 0, NEW columns, NEW l
  PROVE  Rebuilt(Built(Table(s, Buf(r, FALSE, columns), "open", l)), s)
<1> DEFINE b == Buf(r, FALSE, columns)
<1>1. b.recordId # 0
  BY FieldsOfBuf DEF Buf
<1>2. Buffer!WriteRecordBufferIfDirty(Table(s, b, "open", l)) = Table(s, b, "open", l)
  BY WriteClean
<1>3. 0 \in 0..(Len(s) - 1)
  <2> DEFINE len == Len(s)
  <2>1. len \in 1..MaxNumRecords
    BY DEF Full
  <2> HIDE DEF len
  <2>2. 0 \in 0..(len - 1)
    BY <2>1, SMT
  <2> QED BY <2>2 DEF len
<1> HIDE DEF b
<1>4. Buffer!FillRecordBuffer(Table(s, b, "open", l), 0) = Table(s, Reads(0, s), "open", l)
  BY <1>1, <1>2, <1>3, FillOther, OpenIsRunning
<1>5. Buffer!FillRecordBuffer(Table(s, b, "open", l), 0) = Table(s, Holds(0, FALSE, s), "open", l)
  BY <1>4 DEF Reads
<1> QED BY <1>5, BuiltIsRebuilt DEF b

-----------------------------------------------------------------------------
(***************************************************************************)
(* buildParentRecordList() on a table that a cut has left with records out *)
(* of range: it reads up to one of them and writes outside of the list.    *)
(***************************************************************************)
Lists == [ListIndexes -> 0..(MaxNumRecords - 1) \union {NO_RECORD_ID}]

LEMMA RawChild ==
  ASSUME NEW raw \in Raws, raw \notin ValidRaws
  PROVE  (ChildOf(raw) - MinChild) % 256 \notin ListIndexes
<1> DEFINE v == raw["child"]
           child == ChildOf(raw)
<1>1. raw \in [{"child"} -> 0..(Range2N - 1)] /\ child \notin ChildTables /\ child = v + MinChild
  BY DEF ValidRaws, Raws, Buffer!RawRecords, Buffer!RawValues, Range2N, ChildOf
<1>2. v \in 0..(Range2N - 1)
  <2> HIDE DEF Range2N
  <2> QED BY <1>1
<1> HIDE DEF v, child
<1>3. v \in 0..(256 - 1) /\ child - MinChild = v /\ v \notin 0..(MaxNumRecords - 1)
  <2> HIDE DEF Range2N
  <2> QED BY <1>1, <1>2, RangeType, ConstantsType, SMT DEF ChildTables
<1>4. v % 256 = v
  BY <1>3, ModSmall
<1> QED BY <1>3, <1>4 DEF ListIndexes, child

LEMMA ReadsIs == \A r, s : Reads(r, s) = Buf(r, FALSE, Record(ChildOf(s[r + 1])))
BY DEF Reads, Holds

(* The records are read one after the other, and none is written.          *)
LEMMA ReadNext ==
  ASSUME NEW s, NEW k, NEW l, NEW r, r < Len(s)
  PROVE  Buffer!FillRecordBuffer(Table(s, Reads(k, s), "open", l), r) = Table(s, Reads(r, s), "open", l)
<1> DEFINE b == Reads(k, s)
           table == Table(s, b, "open", l)
<1>1. b.recordId = k
  BY ColumnsHeld
<1>2. CASE k = r
  <2>1. table.buffer.recordId = r
    BY <1>1, <1>2, FieldsOfTable
  <2>2. Buffer!FillRecordBuffer(table, r) = table
    BY <2>1, Zenon DEF Buffer!FillRecordBuffer
  <2> QED BY <1>2, <2>2
<1>3. CASE k # r
  <2>1. Buffer!WriteRecordBufferIfDirty(table) = table
    BY WriteClean, ReadsIs
  <2> HIDE DEF b
  <2>2. b.recordId # r
    BY <1>1, <1>3
  <2> QED BY <2>1, <2>2, FillRead, OpenIsRunning DEF b
<1> QED BY <1>2, <1>3

LEMMA ListedTorn ==
  ASSUME NEW s, NEW r \in Nat, NEW table, NEW b, NEW l,
         Buffer!FillRecordBuffer(table, r) = Table(s, b, "open", l),
         b.columns = Record(ChildOf(s[r + 1])), s[r + 1] \in Raws, s[r + 1] \notin ValidRaws
  PROVE  Listed(table, r) = Table(s, b, "halted", l)
<1> DEFINE filled == Table(s, b, "open", l)
           child == ChildOf(s[r + 1])
<1>1. (child - MinChild) % 256 \notin ListIndexes
  BY RawChild
<1>2. ChildInBuffer(filled) = child /\ filled.status = "open"
  <2>1. filled.buffer = b /\ filled.status = "open"
    BY FieldsOfTable
  <2> HIDE DEF filled
  <2>2. ChildInBuffer(filled) = Record(child)["child"]
    BY <2>1 DEF ChildInBuffer
  <2> QED BY <2>1, <2>2 DEF Record
<1>3. Buffer!Halted(filled) = Table(s, b, "halted", l)
  <2>1. [filled EXCEPT !.status = "halted"] = Table(s, b, "halted", l)
    BY TableChanged
  <2> QED BY <2>1 DEF Buffer!Halted
<1>4. Buffer!FillRecordBuffer(table, r) = filled
  OBVIOUS
<1> HIDE DEF filled, child
<1>5. Listed(table, r) = Buffer!Halted(filled)
  BY <1>1, <1>2, <1>4, OpenIsRunning DEF Listed
<1> QED BY <1>3, <1>5

ScanTurn(n, t) == IF t.status = "halted" THEN t ELSE Listed(t, n - 1)

ScansTo(first, k, f) ==
  f = [n \in 0..k |-> IF n = 0 THEN first ELSE ScanTurn(n, f[n - 1])]

LEMMA ScanExists ==
  ASSUME NEW table, Len(table.stored) \in Nat
  PROVE  \E f : IsScan(table, f)
<1> DEFINE first == [Buffer!FillRecordBuffer(table, 0) EXCEPT !.list = NoParents]
           S == {j \in Nat : \E f : ScansTo(first, j, f)}
<1> HIDE DEF first
<1>1. 0 \in S
  <2> DEFINE f == [n \in 0..0 |-> first]
  <2>1. ScansTo(first, 0, f)
    BY SMT DEF ScansTo
  <2> QED BY <2>1
<1>2. ASSUME NEW j \in S
      PROVE  j + 1 \in S
  <2>1. PICK f : ScansTo(first, j, f)
    OBVIOUS
  <2> DEFINE g == [n \in 0..(j + 1) |-> IF n = j + 1 THEN ScanTurn(j + 1, f[j]) ELSE f[n]]
  <2>2. ScansTo(first, j + 1, g)
    BY <2>1, SMT DEF ScansTo
  <2> QED BY <2>2
<1>3. S = Nat
  BY <1>1, <1>2, SetInduction
<1>4. PICK f : ScansTo(first, Len(table.stored), f)
  BY <1>3
<1>5. IsScan(table, f)
  BY <1>4 DEF IsScan, ScansTo, ScanTurn, first
<1> QED BY <1>5

(* After n records: the list is outside of nothing yet, or it was.         *)
Opening(s, n, t) ==
  \E k \in 0..(Len(s) - 1), l \in Lists :
    \/ t = Table(s, Reads(k, s), "halted", l)
    \/ t = Table(s, Reads(k, s), "open", l) /\ \A j \in 1..n : s[j] \in ValidRaws

LEMMA OpeningStep ==
  ASSUME NEW s \in Seq(Raws), Len(s) \in 1..MaxNumRecords, NEW r \in 0..(Len(s) - 1),
         NEW t, Opening(s, r, t)
  PROVE  Opening(s, r + 1, ScanTurn(r + 1, t))
<1> DEFINE len == Len(s)
<1>1. r \in Nat /\ r < len /\ r + 1 - 1 = r /\ r + 1 \in 1..len /\ r \in 0..(MaxNumRecords - 1)
  <2>1. len \in 1..MaxNumRecords /\ r \in 0..(len - 1)
    OBVIOUS
  <2> HIDE DEF len
  <2> QED BY <2>1, ConstantsType, SMT
<1>2. PICK k \in 0..(len - 1), l \in Lists :
        \/ t = Table(s, Reads(k, s), "halted", l)
        \/ t = Table(s, Reads(k, s), "open", l) /\ \A j \in 1..r : s[j] \in ValidRaws
  BY DEF Opening
<1>3. s[r + 1] \in Raws
  BY <1>1, ElementOfSeq
<1>4. CASE t = Table(s, Reads(k, s), "halted", l)
  <2>1. t.status = "halted"
    BY <1>4, FieldsOfTable
  <2>2. ScanTurn(r + 1, t) = t
    BY <2>1 DEF ScanTurn
  <2> QED BY <1>4, <2>2 DEF Opening
<1>5. CASE t = Table(s, Reads(k, s), "open", l) /\ \A j \in 1..r : s[j] \in ValidRaws
  <2> DEFINE b == Reads(r, s)
             child == ChildOf(s[r + 1])
  <2>1. Buffer!FillRecordBuffer(t, r) = Table(s, b, "open", l) /\ b.columns = Record(child)
    BY <1>1, <1>5, ReadNext, ColumnsHeld
  <2>2. ScanTurn(r + 1, t) = Listed(t, r)
    <3>1. t.status = "open"
      BY <1>5, FieldsOfTable
    <3> QED BY <1>1, <3>1, OpenIsRunning DEF ScanTurn
  <2>3. CASE s[r + 1] \in ValidRaws
    <3> DEFINE l1 == [l EXCEPT ![child - MinChild] = r]
    <3>1. Listed(t, r) = Table(s, b, "open", l1)
      <4> HIDE DEF b
      <4> QED BY <1>1, <2>1, <2>3, ListedIs
    <3>2. l1 \in Lists
      <4>1. child - MinChild \in ListIndexes
        BY <2>3, RawOfRaw, IndexOfChild
      <4> HIDE DEF child
      <4> QED BY <1>1, <4>1 DEF Lists
    <3>3. \A j \in 1..(r + 1) : s[j] \in ValidRaws
      <4> SUFFICES ASSUME NEW j \in 1..(r + 1) PROVE s[j] \in ValidRaws
        OBVIOUS
      <4>1. j = r + 1 \/ j \in 1..r
        BY <1>1, SMT
      <4> QED BY <1>5, <2>3, <4>1
    <3> HIDE DEF l1, b
    <3>4. \E m \in Lists : ScanTurn(r + 1, t) = Table(s, b, "open", m)
      BY <2>2, <3>1, <3>2
    <3> QED BY <3>3, <3>4 DEF Opening, b
  <2>4. CASE s[r + 1] \notin ValidRaws
    <3>1. Listed(t, r) = Table(s, b, "halted", l)
      <4> HIDE DEF b
      <4> QED BY <1>1, <1>3, <2>1, <2>4, ListedTorn
    <3> QED BY <2>2, <3>1 DEF Opening
  <2> QED BY <2>3, <2>4
<1> QED BY <1>2, <1>4, <1>5

LEMMA TornHalts ==
  ASSUME NEW s \in Seq(Raws), Len(s) \in 1..MaxNumRecords,
         NEW q \in 1..Len(s), s[q] \notin ValidRaws, NEW l
  PROVE  \E k \in 0..(Len(s) - 1), m \in Lists :
           Built(Table(s, Buffer!NoBuffer, "open", l)) = Table(s, Reads(k, s), "halted", m)
<1> DEFINE table == Table(s, Buffer!NoBuffer, "open", l)
           len == Len(s)
           filled == Table(s, Reads(0, s), "open", l)
<1>1. len \in Nat /\ 0 < len /\ 0 \in 0..(len - 1) /\ len \in 0..len /\ len \in 1..MaxNumRecords
  <2>1. len \in 1..MaxNumRecords
    OBVIOUS
  <2> HIDE DEF len
  <2> QED BY <2>1, ConstantsType, SMT
<1>2. table.stored = s
  BY FieldsOfTable
<1>3. Buffer!FillRecordBuffer(table, 0) = filled
  <2> DEFINE b == Buffer!NoBuffer
  <2>1. b.recordId # 0
    BY DEF Buffer!NoBuffer, Buffer!NO_RECORD_ID
  <2>2. Buffer!WriteRecordBufferIfDirty(Table(s, b, "open", l)) = Table(s, b, "open", l)
    BY NoBufferWritten
  <2> HIDE DEF b
  <2>3. Buffer!FillRecordBuffer(Table(s, b, "open", l), 0) = Table(s, Reads(0, s), "open", l)
    BY <1>1, <2>1, <2>2, FillRead, OpenIsRunning
  <2> QED BY <2>3 DEF b
<1>4. filled.status # "halted"
  BY FieldsOfTable, OpenIsRunning
<1>5. [filled EXCEPT !.list = NoParents] = Table(s, Reads(0, s), "open", NoParents)
  <2> DEFINE b == Reads(0, s)
             x == NoParents
  <2> HIDE DEF b, x
  <2>1. [Table(s, b, "open", l) EXCEPT !.list = x] = Table(s, b, "open", x)
    BY SMT DEF Table
  <2> QED BY <2>1 DEF b, x
<1> HIDE DEF filled, len, table
<1>6. PICK f : IsScan(table, f) /\ Built(table) = f[len]
  <2>1. PICK g : IsScan(table, g)
    BY <1>1, <1>2, ScanExists DEF len
  <2> QED BY <1>2, <1>3, <1>4, <2>1, BuiltByScan DEF len
<1>7. /\ f[0] = Table(s, Reads(0, s), "open", NoParents)
      /\ \A n \in 1..len : f[n] = ScanTurn(n, f[n - 1])
  <2>1. f = [n \in 0..len |-> IF n = 0 THEN [filled EXCEPT !.list = NoParents]
                             ELSE ScanTurn(n, f[n - 1])]
    BY <1>2, <1>3, <1>6 DEF IsScan, ScanTurn, len
  <2>2. 0 \in 0..len /\ \A n \in 1..len : n \in 0..len /\ n # 0
    BY <1>1, SMT
  <2> QED BY <1>5, <2>1, <2>2
<1> DEFINE S == {n \in Nat : n <= len => Opening(s, n, f[n])}
<1>8. 0 \in S
  <2>1. NoParents \in Lists
    BY DEF NoParents, Lists
  <2>2. \A j \in 1..0 : s[j] \in ValidRaws
    BY SMT
  <2>3. Opening(s, 0, f[0])
    BY <1>1, <1>7, <2>1, <2>2 DEF Opening, len
  <2> QED BY <2>3
<1>9. ASSUME NEW n \in S
      PROVE  n + 1 \in S
  <2> SUFFICES ASSUME n + 1 <= len PROVE Opening(s, n + 1, f[n + 1])
    OBVIOUS
  <2>1. n \in 0..(len - 1) /\ n + 1 \in 1..len /\ n <= len /\ n + 1 - 1 = n
    BY <1>1, SMT
  <2>2. Opening(s, n, f[n])
    BY <2>1
  <2>3. f[n + 1] = ScanTurn(n + 1, f[n])
    BY <1>7, <2>1
  <2>4. Opening(s, n + 1, ScanTurn(n + 1, f[n]))
    BY <1>1, <2>1, <2>2, OpeningStep DEF len
  <2> QED BY <2>3, <2>4
<1>10. S = Nat
  <2> HIDE DEF S
  <2>1. S \subseteq Nat
    BY DEF S
  <2> QED BY <1>8, <1>9, <2>1, SetInduction
<1>11. Opening(s, len, f[len])
  <2>1. len \in S /\ len <= len
    BY <1>1, <1>10, SMT
  <2> QED BY <2>1
<1> QED BY <1>6, <1>11 DEF Opening, len, table

-----------------------------------------------------------------------------
(***************************************************************************)
(* setColumnsToDefaultValue() and insertion.                               *)
(***************************************************************************)
LEMMA FullIsRaw ==
  ASSUME NEW s, Full(s)
  PROVE  s \in Seq(Raws) /\ Len(s) \in Nat
<1>1. s \in Seq(ValidRaws) /\ Len(s) \in 1..MaxNumRecords
  BY DEF Full
<1>2. ValidRaws \subseteq Raws
  BY DEF ValidRaws, Raws
<1>3. s \in Seq(Raws)
  BY <1>1, <1>2, SeqMonotonic
<1> QED BY <1>1, <1>3

Put(s, r, child) == [s EXCEPT ![r + 1] = Raw(child)]

LEMMA StoreIs ==
  ASSUME NEW s, NEW r \in 0..(Len(s) - 1), Len(s) \in Nat, NEW m, NEW child, NEW st, NEW l
  PROVE  Buffer!StoreRecordBuffer(Table(s, Buf(r, m, Record(child)), st, l))
           = Table(Put(s, r, child), Buf(r, m, Record(child)), st, l)
<1> DEFINE b == Buf(r, m, Record(child))
           table == Table(s, b, st, l)
           s1 == [s EXCEPT ![r + 1] = Raw(child)]
<1>1. r < Len(s)
  <2> DEFINE len == Len(s)
  <2>1. len \in Nat /\ r \in 0..(len - 1)
    OBVIOUS
  <2> HIDE DEF len
  <2>2. r < len
    BY <2>1, SMT
  <2> QED BY <2>2 DEF len
<1>2. table.stored = s /\ table.buffer.recordId = r /\ table.buffer.columns = Record(child)
  BY FieldsOfTable, FieldsOfBuf
<1>3. Buffer!Encoded(table.buffer.columns) = Raw(child)
  BY <1>2 DEF Raw
<1> HIDE DEF b
<1>4. [table EXCEPT !.stored = s1] = Table(s1, b, st, l)
  <2> HIDE DEF s1
  <2> QED BY SMT DEF Table
<1> HIDE DEF table
<1>5. Buffer!StoreRecordBuffer(table) = [table EXCEPT !.stored[r + 1] = Raw(child)]
  BY <1>1, <1>2, <1>3 DEF Buffer!StoreRecordBuffer, Buffer!RecordExists
<1>6. [table EXCEPT !.stored[r + 1] = Raw(child)] = [table EXCEPT !.stored = s1]
  BY <1>2
<1> QED BY <1>4, <1>5, <1>6 DEF table, b, Put

LEMMA WithDefaultIs ==
  ASSUME NEW s, NEW r \in 0..(Len(s) - 1), Len(s) \in Nat, NEW table,
         NEW k, NEW m, NEW columns, NEW l,
         Buffer!WriteRecordBufferIfDirty(table) = Table(s, Buf(k, m, columns), "open", l)
  PROVE  WithDefaultChild(table, r)
           = Table(Put(s, r, MinChild + r), Buf(r, m, Record(MinChild + r)), "open", l)
<1> DEFINE b0 == Buf(k, m, columns)
           child == MinChild + r
           b1 == Buf(r, m, columns)
           b2 == Buf(r, m, Record(child))
           written == Table(s, b0, "open", l)
           t1 == [written EXCEPT !.buffer.recordId = r]
           t2 == [t1 EXCEPT !.buffer.columns = Record(child)]
<1>1. Buffer!WriteRecordBufferIfDirty(table) = written /\ written.status = "open" /\ written.buffer = b0
  BY FieldsOfTable
<1>2. [b0 EXCEPT !.recordId = r] = b1 /\ [b1 EXCEPT !.columns = Record(child)] = b2
  BY SMT DEF Buf
<1>3. t1 = Table(s, b1, "open", l)
  <2>1. t1 = [written EXCEPT !.buffer = [b0 EXCEPT !.recordId = r]]
    BY <1>1
  <2> HIDE DEF b0, b1
  <2>2. [written EXCEPT !.buffer = b1] = Table(s, b1, "open", l)
    BY SMT DEF Table
  <2> QED BY <1>2, <2>1, <2>2
<1> HIDE DEF written, b0, b1, child, t1
<1>4. t1.buffer = b1
  BY <1>3, FieldsOfTable
<1>5. t2 = [t1 EXCEPT !.buffer = [b1 EXCEPT !.columns = Record(child)]]
  BY <1>4
<1> HIDE DEF b2
<1>6. [t1 EXCEPT !.buffer = b2] = Table(s, b2, "open", l)
  BY <1>3, SMT DEF Table
<1>7. t2 = Table(s, b2, "open", l)
  BY <1>2, <1>5, <1>6
<1>8. [written EXCEPT !.buffer.recordId = r, !.buffer.columns = Record(child)] = t2
  BY DEF t1
<1> HIDE DEF t2
<1>9. WithDefaultChild(table, r)
        = Buffer!StoreRecordBuffer([written EXCEPT !.buffer.recordId = r,
                                                   !.buffer.columns = Record(child)])
  BY <1>1, OpenIsRunning, Zenon DEF WithDefaultChild, child
<1>10. Buffer!StoreRecordBuffer(Table(s, b2, "open", l))
         = Table(Put(s, r, child), b2, "open", l)
  BY StoreIs DEF b2
<1> QED BY <1>7, <1>8, <1>9, <1>10 DEF b2, child

LEMMA SetToDefaultIs ==
  ASSUME NEW s \in Seq(Raws), NEW r \in 0..(Len(s) - 1), NEW table,
         NEW k, NEW m \in BOOLEAN, NEW columns, NEW l,
         Buffer!WriteRecordBufferIfDirty(table) = Table(s, Buf(k, m, columns), "open", l),
         NEW s1, Full(s1), s1 = Put(s, r, MinChild + r)
  PROVE  Rebuilt(SetToDefault(table, r), s1)
<1> DEFINE child == MinChild + r
           b == Buf(r, m, Record(child))
           set == Table(s1, b, "open", l)
           len == Len(s)
<1>1. len \in Nat
  BY LenProperties
<1>2. WithDefaultChild(table, r) = set
  BY <1>1, WithDefaultIs
<1>3. r + 1 \in 1..len /\ r \in 0..(len - 1) /\ r < len
  <2> HIDE DEF len
  <2> QED BY <1>1, SMT DEF len
<1>4. Len(s1) = len /\ s1[r + 1] = Raw(child)
  BY <1>3 DEF Put
<1>5. child \in ChildTables
  <2>1. len \in 1..MaxNumRecords
    BY <1>4 DEF Full
  <2> HIDE DEF len
  <2> QED BY <1>3, <2>1, ConstantsType, SMT DEF ChildTables
<1>6. b = Holds(r, m, s1)
  <2>1. ChildOf(s1[r + 1]) = child
    BY <1>4, <1>5, RawOfChild
  <2> QED BY <2>1 DEF Holds
<1>7. Agrees(s1, b)
  BY <1>3, <1>4, <1>6, Zenon DEF Agrees
<1> HIDE DEF b
<1>8. Rebuilt(Built(set), s1)
  BY <1>7, BuiltWhenAgreed
<1>9. set.status = "open"
  BY FieldsOfTable
<1> HIDE DEF set
<1>10. SetToDefault(table, r) = Built(set)
  BY <1>2, <1>9, OpenIsRunning, Zenon DEF SetToDefault, b, set
<1> QED BY <1>8, <1>10

(* The new record, whatever stood in its slot before, is the default.      *)
LEMMA InsertedIs ==
  ASSUME NEW s, Full(s), Len(s) < MaxNumRecords, NEW r \in 0..(Len(s) - 1),
         NEW raw \in Raws, NEW s1 \in Seq(Raws), Len(s1) = Len(s) + 1,
         \A j \in 1..(Len(s) + 1) : j # r + 2 => s1[j] = InsertAt(s, r + 2, raw)[j],
         NEW child \in ChildTables
  PROVE  /\ Full(InsertAt(s, r + 2, Raw(child)))
         /\ Put(s1, r + 1, child) = InsertAt(s, r + 2, Raw(child))
         /\ r + 1 \in 0..(Len(s1) - 1)
<1> DEFINE len == Len(s)
           i == r + 2
           e == Raw(child)
           s2 == InsertAt(s, i, e)
<1>1. s \in Seq(ValidRaws) /\ s \in Seq(Raws) /\ len \in 1..MaxNumRecords /\ e \in ValidRaws /\ e \in Raws
  <2>1. e \in ValidRaws
    BY RawOfChild
  <2> QED BY <2>1, FullIsRaw, RawOfRaw DEF Full, Raws
<1>2. /\ i \in 1..(len + 1) /\ r + 1 \in 0..len /\ r + 1 + 1 = i /\ len + 1 - 1 = len
      /\ len + 1 \in 1..MaxNumRecords /\ r \in 0..(len - 1) /\ len < MaxNumRecords
  <2>1. r \in 0..(len - 1) /\ len < MaxNumRecords
    OBVIOUS
  <2> HIDE DEF len
  <2> QED BY <1>1, <2>1, ConstantsType, SMT
<1> HIDE DEF e, i
<1>3. /\ s2 \in Seq(ValidRaws) /\ Len(s2) = len + 1
      /\ \A j \in 1..(len + 1) : s2[j] = WithInserted(s, i, e, j)
  BY <1>1, <1>2, InsertAtEffect
<1>4. \A j \in 1..(len + 1) : InsertAt(s, i, raw)[j] = WithInserted(s, i, raw, j)
  BY <1>1, <1>2, InsertAtEffect
<1>5. /\ Put(s1, r + 1, child) \in Seq(Raws) /\ Len(Put(s1, r + 1, child)) = len + 1
      /\ \A j \in 1..(len + 1) : Put(s1, r + 1, child)[j] = IF j = i THEN e ELSE s1[j]
  <2>1. Put(s1, r + 1, child) = [s1 EXCEPT ![i] = e]
    BY <1>2 DEF Put, e
  <2>2. i \in 1..Len(s1) /\ Len(s1) = len + 1
    BY <1>2
  <2>3. /\ [s1 EXCEPT ![i] = e] \in Seq(Raws) /\ Len([s1 EXCEPT ![i] = e]) = Len(s1)
        /\ \A j \in 1..Len(s1) : [s1 EXCEPT ![i] = e][j] = IF j = i THEN e ELSE s1[j]
    BY <1>1, <2>2, ExceptSeq
  <2> QED BY <2>1, <2>2, <2>3
<1> HIDE DEF s2, len
<1>6. ASSUME NEW j \in 1..(len + 1)
      PROVE  Put(s1, r + 1, child)[j] = s2[j]
  <2>1. CASE j = i
    <3>1. WithInserted(s, i, e, j) = e
      BY <1>2, <2>1, SMT DEF WithInserted
    <3> QED BY <1>3, <1>5, <2>1, <3>1
  <2>2. CASE j # i
    <3>1. WithInserted(s, i, e, j) = WithInserted(s, i, raw, j)
      BY <2>2, Zenon DEF WithInserted
    <3>2. s1[j] = InsertAt(s, i, raw)[j]
      BY <2>2 DEF len, i
    <3> QED BY <1>3, <1>4, <1>5, <2>2, <3>1, <3>2
  <2> QED BY <2>1, <2>2
<1>7. s2 \in Seq(Raws)
  <2>1. ValidRaws \subseteq Raws
    BY DEF ValidRaws, Raws
  <2> QED BY <1>3, <2>1, SeqMonotonic
<1>8. Put(s1, r + 1, child) = s2
  BY <1>3, <1>5, <1>6, <1>7, SeqEqual
<1>9. Full(s2)
  BY <1>2, <1>3 DEF Full
<1>10. r + 1 \in 0..(Len(s1) - 1)
  BY <1>2 DEF len
<1> QED BY <1>8, <1>9, <1>10 DEF s2, i, e

Careful(b, r) == b.isModified => b.recordId <= r + 1

LEMMA InsertRebuilds ==
  ASSUME NEW s, Full(s), Len(s) < MaxNumRecords, NEW r \in 0..(Len(s) - 1),
         NEW b, Agrees(s, b), Careful(b, r), NEW raw \in Raws, NEW l
  PROVE  LET s1 == InsertAt(s, r + 2, Raw(MinChild + (r + 1))) IN
         /\ Full(s1)
         /\ Rebuilt(SetToDefault(Table(InsertAt(s, r + 2, raw), b, "open", l), r + 1), s1)
<1> DEFINE s0 == InsertAt(s, r + 2, raw)
           table == Table(s0, b, "open", l)
           child == MinChild + (r + 1)
           s2 == InsertAt(s, r + 2, Raw(child))
           len == Len(s)
<1>1. len \in 1..MaxNumRecords /\ s \in Seq(Raws) /\ s \in Seq(ValidRaws)
  BY FullIsRaw DEF Full
<1>2. /\ r \in Nat /\ r + 2 \in 1..(len + 1) /\ child \in ChildTables
      /\ r \in 0..(len - 1) /\ len < MaxNumRecords
  <2>1. r \in 0..(len - 1) /\ len < MaxNumRecords
    OBVIOUS
  <2> HIDE DEF len
  <2> QED BY <1>1, <2>1, ConstantsType, SMT DEF ChildTables
<1>3. /\ s0 \in Seq(Raws) /\ Len(s0) = len + 1
      /\ \A j \in 1..(len + 1) : s0[j] = WithInserted(s, r + 2, raw, j)
  BY <1>1, <1>2, InsertAtEffect
<1> HIDE DEF child
<1> SUFFICES \E x \in Seq(Raws) : \E k, columns : \E m \in BOOLEAN :
               /\ Len(x) = len + 1
               /\ \A j \in 1..(len + 1) : j # r + 2 => x[j] = s0[j]
               /\ Buffer!WriteRecordBufferIfDirty(table)
                    = Table(x, Buf(k, m, columns), "open", l)
  <2>1. PICK x \in Seq(Raws) : \E k, columns : \E m \in BOOLEAN :
               /\ Len(x) = len + 1
               /\ \A j \in 1..(len + 1) : j # r + 2 => x[j] = s0[j]
               /\ Buffer!WriteRecordBufferIfDirty(table)
                    = Table(x, Buf(k, m, columns), "open", l)
    OBVIOUS
  <2>2. PICK k, columns : \E m \in BOOLEAN :
               /\ Len(x) = len + 1
               /\ \A j \in 1..(len + 1) : j # r + 2 => x[j] = s0[j]
               /\ Buffer!WriteRecordBufferIfDirty(table)
                    = Table(x, Buf(k, m, columns), "open", l)
    BY <2>1
  <2>3. PICK m \in BOOLEAN :
               /\ Len(x) = len + 1
               /\ \A j \in 1..(len + 1) : j # r + 2 => x[j] = s0[j]
               /\ Buffer!WriteRecordBufferIfDirty(table)
                    = Table(x, Buf(k, m, columns), "open", l)
    BY <2>2
  <2>4. /\ Full(s2) /\ Put(x, r + 1, child) = s2 /\ r + 1 \in 0..(Len(x) - 1)
    BY <1>2, <2>3, InsertedIs
  <2> HIDE DEF table, s2
  <2>5. Rebuilt(SetToDefault(table, r + 1), s2)
    BY <2>3, <2>4, SetToDefaultIs DEF child
  <2> QED BY <2>4, <2>5 DEF table, s2, child
<1>4. ASSUME NEW k, NEW columns, b = Buf(k, FALSE, columns)
      PROVE  \E x \in Seq(Raws) : \E j, c : \E m \in BOOLEAN :
               /\ Len(x) = len + 1
               /\ \A n \in 1..(len + 1) : n # r + 2 => x[n] = s0[n]
               /\ Buffer!WriteRecordBufferIfDirty(table) = Table(x, Buf(j, m, c), "open", l)
  <2> DEFINE m == FALSE
  <2>1. Buffer!WriteRecordBufferIfDirty(table) = Table(s0, Buf(k, m, columns), "open", l)
    BY <1>4, WriteClean
  <2>2. m \in BOOLEAN
    OBVIOUS
  <2> HIDE DEF m, s0, len, table
  <2> QED BY <1>3, <2>1, <2>2, Zenon
<1>5. CASE b = Buffer!NoBuffer
  BY <1>4, <1>5, NoBufferIs
<1>6. ASSUME NEW k \in 0..(len - 1), NEW modified \in BOOLEAN, b = Holds(k, modified, s)
      PROVE  \E x \in Seq(Raws) : \E j, c : \E m \in BOOLEAN :
               /\ Len(x) = len + 1
               /\ \A n \in 1..(len + 1) : n # r + 2 => x[n] = s0[n]
               /\ Buffer!WriteRecordBufferIfDirty(table) = Table(x, Buf(j, m, c), "open", l)
  <2> DEFINE kid == ChildOf(s[k + 1])
  <2>1. CASE ~modified
    <3>1. b = Buf(k, FALSE, Record(kid))
      BY <1>6, <2>1 DEF Holds
    <3> QED BY <1>4, <3>1
  <2>2. CASE modified
    <3> DEFINE x == Put(s0, k, kid)
    <3>1. b.isModified = modified /\ b.recordId = k
      BY <1>6 DEF Holds, Buf
    <3>2. k <= r + 1
      BY <2>2, <3>1 DEF Careful
    <3>3. /\ k \in Nat /\ k + 1 \in 1..(len + 1) /\ k \in 0..(len + 1 - 1) /\ k + 1 \in 1..len
          /\ (k + 1 # r + 2 => k + 1 < r + 2)
      <4> HIDE DEF len
      <4> QED BY <1>1, <1>2, <3>2, ConstantsType, SMT
    <3>4. s[k + 1] \in ValidRaws /\ Raw(kid) = s[k + 1] /\ s[k + 1] \in Raws
      <4>1. s[k + 1] \in ValidRaws
        BY <1>1, <3>3, ElementOfSeq
      <4> QED BY <4>1, RawOfRaw DEF Raws
    <3> HIDE DEF s0, len
    <3>5. Buffer!StoreRecordBuffer(table) = Table(x, b, "open", l)
      <4>1. k \in 0..(Len(s0) - 1) /\ Len(s0) \in Nat
        BY <1>3, <3>3, LenProperties
      <4>2. b = Buf(k, modified, Record(kid))
        BY <1>6 DEF Holds
      <4> HIDE DEF kid
      <4> QED BY <4>1, <4>2, StoreIs
    <3>6. table.buffer.isModified
      <4>1. table.buffer = b
        BY FieldsOfTable
      <4> HIDE DEF table
      <4> QED BY <2>2, <3>1, <4>1, Zenon
    <3> HIDE DEF x, table
    <3>7. Buffer!WriteRecordBufferIfDirty(table) = Table(x, b, "open", l)
      BY <3>5, <3>6 DEF Buffer!WriteRecordBufferIfDirty
    <3>8. x \in Seq(Raws) /\ Len(x) = len + 1
          /\ \A n \in 1..(len + 1) : x[n] = IF n = k + 1 THEN s[k + 1] ELSE s0[n]
      <4>1. k + 1 \in 1..Len(s0)
        BY <1>3, <3>3
      <4>2. x = [s0 EXCEPT ![k + 1] = s[k + 1]]
        BY <3>4 DEF x, Put
      <4> DEFINE i == k + 1
                 v == s[k + 1]
      <4> HIDE DEF i, v
      <4>3. i \in 1..Len(s0) /\ v \in Raws
        BY <3>4, <4>1 DEF i, v
      <4>4. /\ [s0 EXCEPT ![i] = v] \in Seq(Raws) /\ Len([s0 EXCEPT ![i] = v]) = Len(s0)
            /\ \A n \in 1..Len(s0) : [s0 EXCEPT ![i] = v][n] = IF n = i THEN v ELSE s0[n]
        BY <1>3, <4>3, ExceptSeq
      <4> QED BY <1>3, <4>2, <4>4 DEF i, v
    <3>9. ASSUME NEW n \in 1..(len + 1), n # r + 2
          PROVE  x[n] = s0[n]
      <4>1. CASE n = k + 1
        <5>1. n < r + 2
          BY <3>3, <3>9, <4>1
        <5>2. WithInserted(s, r + 2, raw, n) = s[n]
          BY <5>1, Zenon DEF WithInserted
        <5> QED BY <1>3, <3>8, <4>1, <5>2
      <4>2. CASE n # k + 1
        BY <3>8, <4>2
      <4> QED BY <4>1, <4>2
    <3>10. b = Buf(k, modified, Record(kid))
      BY <1>6 DEF Holds
    <3> HIDE DEF kid
    <3> QED BY <3>7, <3>8, <3>9, <3>10, Zenon
  <2> QED BY <2>1, <2>2
<1> QED BY <1>5, <1>6 DEF Agrees

-----------------------------------------------------------------------------
(***************************************************************************)
(* BDB_importTable(), whose loop works on the table without its list.      *)
(***************************************************************************)
Bare(s, b) == [stored |-> s, buffer |-> b, status |-> "open"]

LEMMA FieldsOfBare ==
  ASSUME NEW s, NEW b
  PROVE  Bare(s, b).stored = s /\ Bare(s, b).buffer = b /\ Bare(s, b).status = "open"
BY DEF Bare

(* A record in the buffer that is marked as modified.                      *)
Kept(r, child) == Buf(r, TRUE, Record(child))

LEMMA BareWritten ==
  ASSUME NEW s, Len(s) \in Nat, NEW r \in 0..(Len(s) - 1), NEW child
  PROVE  Buffer!WriteRecordBufferIfDirty(Bare(s, Kept(r, child)))
           = Bare(Put(s, r, child), Kept(r, child))
<1> DEFINE b == Kept(r, child)
           table == Bare(s, b)
           s1 == [s EXCEPT ![r + 1] = Raw(child)]
<1>1. r < Len(s)
  <2> DEFINE len == Len(s)
  <2>1. len \in Nat /\ r \in 0..(len - 1)
    OBVIOUS
  <2> HIDE DEF len
  <2>2. r < len
    BY <2>1, SMT
  <2> QED BY <2>2 DEF len
<1>2. b.recordId = r /\ b.columns = Record(child) /\ b.isModified
  BY DEF Kept, Buf
<1>3. table.stored = s /\ table.buffer = b
  BY FieldsOfBare
<1>4. Buffer!Encoded(Record(child)) = Raw(child)
  BY DEF Raw
<1> HIDE DEF b
<1>5. [table EXCEPT !.stored = s1] = Bare(s1, b)
  <2> HIDE DEF s1
  <2> QED BY SMT DEF Bare
<1> HIDE DEF table
<1>6. Buffer!StoreRecordBuffer(table) = [table EXCEPT !.stored[r + 1] = Raw(child)]
  BY <1>1, <1>2, <1>3, <1>4 DEF Buffer!StoreRecordBuffer, Buffer!RecordExists
<1>7. [table EXCEPT !.stored[r + 1] = Raw(child)] = [table EXCEPT !.stored = s1]
  BY <1>3
<1>8. Buffer!WriteRecordBufferIfDirty(table) = Buffer!StoreRecordBuffer(table)
  BY <1>2, <1>3 DEF Buffer!WriteRecordBufferIfDirty
<1> QED BY <1>5, <1>6, <1>7, <1>8 DEF table, b, Put

LEMMA BareClean ==
  ASSUME NEW s, NEW r, NEW columns
  PROVE  Buffer!WriteRecordBufferIfDirty(Bare(s, Buf(r, FALSE, columns)))
           = Bare(s, Buf(r, FALSE, columns))
<1> DEFINE b == Buf(r, FALSE, columns)
<1>1. b.isModified = FALSE
  BY DEF Buf
<1> HIDE DEF b
<1>2. Bare(s, b).buffer.isModified = FALSE
  BY <1>1, FieldsOfBare
<1>3. Buffer!WriteRecordBufferIfDirty(Bare(s, b)) = Bare(s, b)
  BY <1>2 DEF Buffer!WriteRecordBufferIfDirty
<1> QED BY <1>3 DEF b

LEMMA BareSet ==
  ASSUME NEW table, NEW s, NEW b, Buffer!WriteRecordBufferIfDirty(table) = Bare(s, b),
         NEW r, NEW child \in ChildTables
  PROVE  Buffer!SetRecordIn(table, r, Record(child)) = Bare(s, Kept(r, child))
<1> DEFINE data == Record(child)
           copied == [recordId |-> r, isModified |-> TRUE, columns |-> data]
           written == Bare(s, b)
<1>1. data \in Buffer!Valid
  BY RecordIsValid
<1>2. written.status # "halted" /\ Buffer!WriteRecordBufferIfDirty(table) = written
  BY FieldsOfBare, OpenIsRunning
<1>3. copied = Kept(r, child)
  BY DEF Kept, Buf
<1> HIDE DEF copied, data
<1>4. [written EXCEPT !.buffer = copied] = Bare(s, copied)
  BY SMT DEF Bare
<1> HIDE DEF written
<1>5. Buffer!SetRecordIn(table, r, data) = [written EXCEPT !.buffer = copied]
  BY <1>1, <1>2 DEF Buffer!SetRecordIn, copied
<1> QED BY <1>3, <1>4, <1>5 DEF written, data

(* After n turns all but the last record are written.                      *)
Given(children, n, raw) == [j \in 1..n |-> IF j < n THEN Raw(children[j]) ELSE raw]
AllRaw(children)        == [j \in 1..Len(children) |-> Raw(children[j])]

LEMMA GivenIs ==
  ASSUME NEW children, NEW n \in Nat, NEW raw
  PROVE  /\ Given(children, n, raw) = [j \in 1..n |-> IF j < n THEN Raw(children[j]) ELSE raw]
         /\ DOMAIN Given(children, n, raw) = 1..n
         /\ Len(Given(children, n, raw)) = n
BY DEF Given

(* The records in front of n are written, those from n on are not.         *)
WrittenTo(children, n, raw, s) ==
  \A j \in DOMAIN s : s[j] = IF j < n THEN Raw(children[j]) ELSE raw

(* Record n is written when the buffer goes to it.                         *)
LEMMA GivenWritten ==
  ASSUME NEW children, NEW n \in Nat \ {0}, NEW raw, NEW s,
         DOMAIN s \in {1..n, 1..(n + 1)}, WrittenTo(children, n, raw, s)
  PROVE  /\ DOMAIN Put(s, n - 1, children[n]) = DOMAIN s
         /\ WrittenTo(children, n + 1, raw, Put(s, n - 1, children[n]))
<1> DEFINE t == Put(s, n - 1, children[n])
<1>1. n - 1 + 1 = n /\ n \in DOMAIN s /\ DOMAIN s \subseteq Int
  BY SMT
<1>2. DOMAIN t = DOMAIN s
  BY DEF Put
<1>3. ASSUME NEW j \in DOMAIN s
      PROVE  t[j] = IF j < n + 1 THEN Raw(children[j]) ELSE raw
  <2>1. CASE j = n
    <3>1. t[n] = Raw(children[n])
      <4> DEFINE i == n - 1 + 1
      <4>1. i \in DOMAIN s /\ i = n
        BY <1>1
      <4> HIDE DEF i
      <4>2. [s EXCEPT ![i] = Raw(children[n])][i] = Raw(children[n])
        BY <4>1
      <4> QED BY <4>1, <4>2 DEF i, Put
    <3>2. n < n + 1
      BY SMT
    <3> QED BY <2>1, <3>1, <3>2
  <2>2. CASE j # n
    <3>1. t[j] = s[j]
      BY <1>1, <2>2 DEF Put
    <3>2. j < n <=> j < n + 1
      BY <1>1, <2>2, SMT
    <3> HIDE DEF t
    <3> QED BY <3>1, <3>2, Zenon DEF WrittenTo
  <2> QED BY <2>1, <2>2
<1>4. WrittenTo(children, n + 1, raw, t)
  BY <1>2, <1>3, Zenon DEF WrittenTo
<1> QED BY <1>2, <1>4

IsImported(children) ==
  children \in Seq(ChildTables) /\ Len(children) \in 1..MaxNumRecords

LEMMA ImportedData ==
  ASSUME NEW children, IsImported(children)
  PROVE  /\ Len(children) \in Nat /\ Len(children) >= 1
         /\ Records(children) = [n \in 1..Len(children) |-> Record(children[n])]
         /\ Len(Records(children)) = Len(children)
         /\ \A n \in 1..Len(children) :
              /\ children[n] \in ChildTables /\ Records(children)[n] = Record(children[n])
              /\ Records(children)[n] \in Buffer!Valid
<1> DEFINE len == Len(children)
<1>1. children \in Seq(ChildTables) /\ len \in 1..MaxNumRecords
  BY DEF IsImported
<1>2. len \in Nat /\ len >= 1
  <2> HIDE DEF len
  <2> QED BY <1>1, ConstantsType, SMT
<1>3. DOMAIN children = 1..len
  BY <1>1, LenProperties
<1> HIDE DEF len
<1>4. Records(children) = [n \in 1..len |-> Record(children[n])]
  BY <1>3 DEF Records
<1>5. Len(Records(children)) = len
  BY <1>2, <1>4
<1>6. \A n \in 1..len : children[n] \in ChildTables
  BY <1>1, ElementOfSeq DEF len
<1> QED BY <1>2, <1>4, <1>5, <1>6, RecordIsValid DEF len

Emptied == [Buffer!Now EXCEPT !.stored = <<>>, !.buffer.recordId = Buffer!NO_RECORD_ID,
                              !.buffer.isModified = FALSE]

Turn(data, raw, n, table) ==
  IF \E m \in 1..(n - 1) : data[m] \notin Buffer!Valid THEN table
  ELSE Buffer!SetRecordIn([table EXCEPT !.stored = Append(@, raw)], n - 1, data[n])

IsImport(data, raw, k, f) ==
  f = [n \in 0..k |-> IF n = 0 THEN Emptied ELSE Turn(data, raw, n, f[n - 1])]

LEMMA ImportExists ==
  ASSUME NEW data, NEW raw, NEW k \in Nat
  PROVE  \E f : IsImport(data, raw, k, f)
<1> DEFINE S == {j \in Nat : \E f : IsImport(data, raw, j, f)}
<1>1. 0 \in S
  <2> DEFINE f == [n \in 0..0 |-> Emptied]
  <2>1. IsImport(data, raw, 0, f)
    BY SMT DEF IsImport
  <2> QED BY <2>1
<1>2. ASSUME NEW j \in S
      PROVE  j + 1 \in S
  <2>1. PICK f : IsImport(data, raw, j, f)
    OBVIOUS
  <2> DEFINE g == [n \in 0..(j + 1) |-> IF n = j + 1 THEN Turn(data, raw, j + 1, f[j]) ELSE f[n]]
  <2>2. IsImport(data, raw, j + 1, g)
    BY <2>1, SMT DEF IsImport
  <2> QED BY <2>2
<1>3. S = Nat
  BY <1>1, <1>2, SetInduction
<1> QED BY <1>3

LEMMA ImportedIs ==
  ASSUME NEW data, NEW raw, NEW k \in Nat
  PROVE  \E f : IsImport(data, raw, k, f) /\ Buffer!Imported(data, k, raw) = f[k]
<1> DEFINE f == CHOOSE g : IsImport(data, raw, k, g)
<1>1. IsImport(data, raw, k, f)
  BY ImportExists
<1>2. Buffer!Imported(data, k, raw) = f[k]
  BY DEF Buffer!Imported, IsImport, Turn, Emptied
<1> QED BY <1>1, <1>2

(* The table after n turns of the loop.                                    *)
ImportedSoFar(children, raw, n, table) ==
  IF n = 0 THEN \E columns : table = Bare(<<>>, Buf(255, FALSE, columns))
  ELSE table = Bare(Given(children, n, raw), Kept(n - 1, children[n]))

LEMMA EmptiedIs ==
  ASSUME NEW children, NEW raw, NEW r, NEW m, NEW columns,
         buffer = Buf(r, m, columns), status = "open"
  PROVE  ImportedSoFar(children, raw, 0, Emptied)
<1> DEFINE b1 == [buffer EXCEPT !.recordId = 255]
           b2 == [b1 EXCEPT !.isModified = FALSE]
           t0 == Bare(<<>>, buffer)
           t1 == [t0 EXCEPT !.buffer.recordId = 255]
           t2 == [t1 EXCEPT !.buffer.isModified = FALSE]
<1>1. b1 = Buf(255, m, columns)
  BY SMT DEF Buf
<1> HIDE DEF b1
<1>2. b2 = Buf(255, FALSE, columns)
  <2> DEFINE x == FALSE
  <2> HIDE DEF x
  <2>1. [Buf(255, m, columns) EXCEPT !.isModified = x] = Buf(255, x, columns)
    BY SMT DEF Buf
  <2> QED BY <1>1, <2>1 DEF x
<1> HIDE DEF b2
<1>3. [Buffer!Now EXCEPT !.stored = <<>>] = t0
  BY SMT DEF Buffer!Now, Bare
<1>4. t0.buffer = buffer
  BY FieldsOfBare
<1> HIDE DEF t0
<1>5. t1 = [t0 EXCEPT !.buffer = b1]
  BY <1>4 DEF b1
<1>6. [t0 EXCEPT !.buffer = b1] = Bare(<<>>, b1)
  BY SMT DEF Bare, t0
<1>7. t1.buffer = b1
  <2> HIDE DEF t1
  <2> QED BY <1>5, <1>6, FieldsOfBare
<1> HIDE DEF t1
<1>8. t2 = [t1 EXCEPT !.buffer = b2]
  BY <1>7 DEF b2
<1>9. [t1 EXCEPT !.buffer = b2] = Bare(<<>>, b2)
  <2>1. t1 = Bare(<<>>, b1)
    BY <1>5, <1>6
  <2> QED BY <2>1, SMT DEF Bare
<1>10. Emptied = t2
  <2>1. Emptied = [[[Buffer!Now EXCEPT !.stored = <<>>] EXCEPT !.buffer.recordId = 255]
                     EXCEPT !.buffer.isModified = FALSE]
    BY DEF Emptied, Buffer!NO_RECORD_ID
  <2> QED BY <1>3, <2>1 DEF t1
<1> HIDE DEF t2
<1>11. Emptied = Bare(<<>>, Buf(255, FALSE, columns))
  BY <1>2, <1>8, <1>9, <1>10
<1> QED BY <1>11 DEF ImportedSoFar

LEMMA GivenInSeq ==
  ASSUME NEW children, IsImported(children), NEW n \in 0..Len(children), NEW raw \in Raws
  PROVE  Given(children, n, raw) \in Seq(Raws) /\ Len(Given(children, n, raw)) = n
<1> DEFINE len == Len(children)
<1>1. n \in Nat /\ \A j \in 1..n : j \in 1..len
  <2>1. len \in Nat /\ n \in 0..len
    BY ImportedData
  <2> HIDE DEF len
  <2> QED BY <2>1, SMT
<1>2. \A j \in 1..n : Raw(children[j]) \in Raws
  BY <1>1, ImportedData, RawOfChild, RawOfRaw DEF Raws
<1>3. \A j \in 1..n : (IF j < n THEN Raw(children[j]) ELSE raw) \in Raws
  BY <1>2
<1>4. Given(children, n, raw) \in [1..n -> Raws]
  BY <1>3 DEF Given
<1> QED BY <1>1, <1>4, SMT DEF Given

LEMMA TurnIs ==
  ASSUME NEW children, IsImported(children), NEW raw \in Raws,
         NEW n \in 0..(Len(children) - 1), NEW table, ImportedSoFar(children, raw, n, table)
  PROVE  ImportedSoFar(children, raw, n + 1, Turn(Records(children), raw, n + 1, table))
<1> DEFINE len == Len(children)
           q == n + 1
           data == Records(children)
           s == Given(children, n, raw)
           grown == Append(s, raw)
           s1 == Given(children, q, raw)
           appended == [table EXCEPT !.stored = Append(@, raw)]
<1>1. /\ n \in Nat /\ q \in 1..len /\ q - 1 = n /\ n \in 0..len /\ q # 0 /\ q \in Nat
      /\ \A m \in 1..(q - 1) : m \in 1..len
  <2>1. len \in Nat /\ n \in 0..(len - 1)
    BY ImportedData
  <2> HIDE DEF len
  <2> QED BY <2>1, SMT
<1>2. /\ children[q] \in ChildTables /\ data[q] = Record(children[q])
      /\ \A m \in 1..(q - 1) : data[m] \in Buffer!Valid
  BY <1>1, ImportedData
<1>3. Turn(data, raw, q, table) = Buffer!SetRecordIn(appended, n, Record(children[q]))
  <2> HIDE DEF data, appended, q
  <2> QED BY <1>1, <1>2, Zenon DEF Turn, appended
<1>4. s \in Seq(Raws) /\ Len(s) = n
  BY <1>1, GivenInSeq
<1>5. /\ grown \in Seq(Raws) /\ Len(grown) = n + 1
      /\ \A j \in 1..n : grown[j] = s[j]
      /\ grown[n + 1] = raw
  BY <1>4, AppendProperties
<1>6. DOMAIN grown = 1..(n + 1) /\ DOMAIN s1 = 1..(n + 1)
      /\ \A j \in DOMAIN s1 : s1[j] = IF j < q THEN Raw(children[j]) ELSE raw
  BY <1>5, LenProperties DEF Given
<1>7. \A j \in 1..(n + 1) : grown[j] = IF j < n THEN Raw(children[j]) ELSE raw
  <2> SUFFICES ASSUME NEW j \in 1..(n + 1)
               PROVE  grown[j] = IF j < n THEN Raw(children[j]) ELSE raw
    OBVIOUS
  <2>1. CASE j = n + 1
    <3>1. ~(j < n)
      BY <1>1, <2>1, SMT
    <3> QED BY <1>5, <2>1, <3>1
  <2>2. CASE j # n + 1
    <3>1. j \in 1..n
      BY <1>1, <2>2, SMT
    <3> QED BY <1>5, <3>1 DEF Given
  <2> QED BY <2>1, <2>2
<1> HIDE DEF s, s1, grown
<1>8. \E b : Buffer!WriteRecordBufferIfDirty(appended) = Bare(s1, b)
  <2>1. CASE n = 0
    <3>1. PICK columns : table = Bare(<<>>, Buf(255, FALSE, columns))
      BY <2>1 DEF ImportedSoFar
    <3> DEFINE b == Buf(255, FALSE, columns)
    <3>2. table = Bare(<<>>, b) /\ table.stored = <<>>
      BY <3>1, FieldsOfBare
    <3>3. s = <<>>
      BY <1>4, <2>1, EmptySeq
    <3> HIDE DEF b
    <3>4. appended = Bare(grown, b)
      <4>1. appended = [table EXCEPT !.stored = grown]
        BY <3>2, <3>3 DEF grown
      <4> HIDE DEF appended
      <4> QED BY <3>2, <4>1, SMT DEF Bare
    <3>5. Buffer!WriteRecordBufferIfDirty(Bare(grown, b)) = Bare(grown, b)
      BY BareClean, ZenonT(60) DEF b
    <3>6. grown = s1
      <4>1. \A j \in 1..(n + 1) : grown[j] = s1[j]
        <5> SUFFICES ASSUME NEW j \in 1..(n + 1) PROVE grown[j] = s1[j]
          OBVIOUS
        <5>1. ~(j < n) /\ ~(j < q)
          BY <2>1, SMT
        <5> QED BY <1>6, <1>7, <5>1
      <4>2. s1 \in Seq(Raws) /\ Len(s1) = n + 1
        <5>1. q \in 0..len
          BY <1>1, SMT
        <5> QED BY <5>1, GivenInSeq DEF s1
      <4> QED BY <1>5, <4>1, <4>2, SeqEqual
    <3> HIDE DEF appended
    <3> QED BY <3>4, <3>5, <3>6
  <2>2. CASE n # 0
    <3> DEFINE r == n - 1
               child == children[n]
               b == Kept(r, child)
    <3>1. table = Bare(s, b) /\ table.stored = s
      <4>1. table = Bare(s, b)
        BY <2>2, Zenon DEF ImportedSoFar, s
      <4> QED BY <4>1, FieldsOfBare
    <3>2. appended = Bare(grown, b)
      <4>1. appended = [table EXCEPT !.stored = grown]
        BY <3>1 DEF grown
      <4> HIDE DEF appended, b
      <4> QED BY <3>1, <4>1, SMT DEF Bare
    <3>3. r \in 0..(Len(grown) - 1) /\ Len(grown) \in Nat /\ n >= 1
      BY <1>1, <1>5, <2>2, SMT
    <3>4. Buffer!WriteRecordBufferIfDirty(Bare(grown, b)) = Bare(Put(grown, r, child), b)
      BY <3>3, BareWritten
    <3>5. /\ DOMAIN Put(grown, r, child) = DOMAIN grown
          /\ WrittenTo(children, q, raw, Put(grown, r, child))
      <4>1. DOMAIN grown \in {1..n, 1..(n + 1)} /\ n \in Nat \ {0}
        BY <1>1, <1>6, <2>2
      <4>2. WrittenTo(children, n, raw, grown)
        BY <1>6, <1>7 DEF WrittenTo
      <4> QED BY <4>1, <4>2, GivenWritten
    <3>6. Put(grown, r, child) = s1
      <4>1. \A j \in 1..(n + 1) : Put(grown, r, child)[j] = s1[j]
        <5> SUFFICES ASSUME NEW j \in 1..(n + 1) PROVE Put(grown, r, child)[j] = s1[j]
          OBVIOUS
        <5> HIDE DEF q, r, child
        <5> QED BY <1>6, <3>5, Zenon DEF WrittenTo
      <4>2. s1 = [j \in 1..(n + 1) |-> s1[j]]
        BY DEF s1, Given
      <4>3. Put(grown, r, child) = [j \in 1..(n + 1) |-> Put(grown, r, child)[j]]
        <5>1. grown = [j \in 1..(n + 1) |-> grown[j]]
          BY <1>5, IsASeq
        <5> QED BY <1>6, <5>1 DEF Put
      <4> HIDE DEF r, child
      <4> QED BY <4>1, <4>2, <4>3
    <3> HIDE DEF appended, b
    <3> QED BY <3>2, <3>4, <3>6
  <2> QED BY <2>1, <2>2
<1> HIDE DEF appended, data
<1>9. Buffer!SetRecordIn(appended, n, Record(children[q])) = Bare(s1, Kept(n, children[q]))
  BY <1>2, <1>8, BareSet
<1> HIDE DEF q
<1>10. ImportedSoFar(children, raw, q, Turn(data, raw, q, table))
  BY <1>1, <1>3, <1>9 DEF ImportedSoFar, s1
<1> QED BY <1>10 DEF data, q

LEMMA ImportedTable ==
  ASSUME NEW children, IsImported(children), NEW raw \in Raws, NEW k \in 0..Len(children),
         NEW r, NEW m, NEW columns, buffer = Buf(r, m, columns), status = "open"
  PROVE  ImportedSoFar(children, raw, k, Buffer!Imported(Records(children), k, raw))
<1> DEFINE len == Len(children)
           data == Records(children)
<1>1. k \in Nat /\ len \in Nat /\ k <= len
  <2>1. len \in Nat /\ k \in 0..len
    BY ImportedData
  <2> HIDE DEF len
  <2> QED BY <2>1, SMT
<1> HIDE DEF len, data
<1>2. PICK f : IsImport(data, raw, k, f) /\ Buffer!Imported(data, k, raw) = f[k]
  BY <1>1, ImportedIs
<1>3. f[0] = Emptied /\ \A n \in 1..k : f[n] = Turn(data, raw, n, f[n - 1])
  BY <1>1, <1>2, SMT DEF IsImport
<1> DEFINE S == {n \in Nat : n <= k => ImportedSoFar(children, raw, n, f[n])}
<1>4. 0 \in S
  BY <1>3, EmptiedIs
<1>5. ASSUME NEW n \in S
      PROVE  n + 1 \in S
  <2> SUFFICES ASSUME n + 1 <= k PROVE ImportedSoFar(children, raw, n + 1, f[n + 1])
    OBVIOUS
  <2>1. n \in 0..(len - 1) /\ n + 1 \in 1..k /\ n <= k /\ n + 1 - 1 = n
    BY <1>1, SMT
  <2>2. ImportedSoFar(children, raw, n, f[n])
    BY <2>1
  <2>3. f[n + 1] = Turn(data, raw, n + 1, f[n])
    BY <1>3, <2>1
  <2>4. ImportedSoFar(children, raw, n + 1, Turn(data, raw, n + 1, f[n]))
    BY <2>1, <2>2, TurnIs DEF data, len
  <2> QED BY <2>3, <2>4
<1>6. S = Nat
  <2> HIDE DEF S
  <2>1. S \subseteq Nat
    BY DEF S
  <2> QED BY <1>4, <1>5, <2>1, SetInduction
<1>7. ImportedSoFar(children, raw, k, f[k])
  <2>1. k \in S /\ k <= k
    BY <1>1, <1>6, SMT
  <2> QED BY <2>1
<1> QED BY <1>2, <1>7 DEF data

LEMMA AllRawIsFull ==
  ASSUME NEW children, IsImported(children)
  PROVE  /\ Full(AllRaw(children)) /\ Len(AllRaw(children)) = Len(children)
         /\ \A n \in 1..Len(children) :
              AllRaw(children)[n] = Raw(children[n]) /\ ChildOf(AllRaw(children)[n]) = children[n]
<1> DEFINE len == Len(children)
<1>1. len \in Nat /\ len \in 1..MaxNumRecords
  BY ImportedData DEF IsImported
<1>2. \A n \in 1..len : Raw(children[n]) \in ValidRaws /\ ChildOf(Raw(children[n])) = children[n]
  BY ImportedData, RawOfChild
<1> HIDE DEF len
<1>3. AllRaw(children) = [n \in 1..len |-> Raw(children[n])]
  BY DEF AllRaw, len
<1>4. AllRaw(children) \in [1..len -> ValidRaws]
  BY <1>2, <1>3
<1>5. AllRaw(children) \in Seq(ValidRaws) /\ Len(AllRaw(children)) = len
  BY <1>1, <1>3, <1>4, SMT
<1> QED BY <1>1, <1>2, <1>3, <1>5 DEF Full, len

(* The whole of BDB_importTable(), up to the list.                         *)
LEMMA ImportIs ==
  ASSUME NEW children, IsImported(children), NEW raw \in Raws,
         NEW r, NEW m, NEW columns, buffer = Buf(r, m, columns), status = "open"
  PROVE  LET data == Records(children) IN
         Buffer!SetRecordIn(Buffer!Imported(data, Len(data), raw), 0, data[1])
           = Bare(AllRaw(children), Holds(0, TRUE, AllRaw(children)))
<1> DEFINE k == Len(children)
           data == Records(children)
           table == Buffer!Imported(data, k, raw)
           s == Given(children, k, raw)
           q == k - 1
           child == children[k]
           s1 == Put(s, q, child)
<1>1. k \in Nat /\ k >= 1 /\ Len(data) = k /\ data[1] = Record(children[1])
      /\ children[1] \in ChildTables
  <2>1. k \in Nat /\ k >= 1
    BY ImportedData
  <2>2. 1 \in 1..k
    BY <2>1, SMT
  <2> QED BY <2>1, <2>2, ImportedData
<1>2. ImportedSoFar(children, raw, k, table)
  <2>1. k \in 0..k
    <3> HIDE DEF k
    <3> QED BY <1>1, SMT
  <2> QED BY <2>1, ImportedTable
<1>3. /\ k # 0 /\ k \in 0..k /\ q \in 0..(k - 1) /\ k \in Nat \ {0} /\ 1 \in 1..k
      /\ \A j \in 1..k : j < k + 1
  <2> HIDE DEF k
  <2> QED BY <1>1, SMT
<1>4. table = Bare(s, Kept(q, child))
  <2> HIDE DEF table
  <2> QED BY <1>2, <1>3, Zenon DEF ImportedSoFar
<1>5. Len(s) = k /\ DOMAIN s = 1..k
  BY <1>1, <1>3, GivenInSeq, GivenIs
<1>6. Buffer!WriteRecordBufferIfDirty(table) = Bare(s1, Kept(q, child))
  <2> HIDE DEF table, s, q, child, k
  <2> QED BY <1>1, <1>3, <1>4, <1>5, BareWritten DEF s1
<1>7. s1 = AllRaw(children)
  <2>1. WrittenTo(children, k, raw, s)
    BY DEF WrittenTo, Given
  <2> HIDE DEF s, k
  <2>2. DOMAIN s1 = 1..k /\ WrittenTo(children, k + 1, raw, s1)
    <3>1. DOMAIN s \in {1..k, 1..(k + 1)}
      BY <1>5
    <3> QED BY <1>3, <1>5, <2>1, <3>1, GivenWritten DEF s1
  <2>3. \A j \in 1..k : s1[j] = AllRaw(children)[j]
    BY <1>3, <2>2 DEF WrittenTo, AllRaw, k
  <2>4. s1 = [j \in 1..k |-> s1[j]]
    <3>1. s = [j \in DOMAIN s |-> s[j]]
      BY DEF s, Given
    <3> QED BY <2>2, <3>1 DEF s1, Put
  <2>5. AllRaw(children) = [j \in 1..k |-> AllRaw(children)[j]]
    BY DEF AllRaw, k
  <2> HIDE DEF s1
  <2> QED BY <2>3, <2>4, <2>5
<1>8. Kept(0, children[1]) = Holds(0, TRUE, AllRaw(children))
  <2>1. ChildOf(AllRaw(children)[0 + 1]) = children[1]
    BY <1>3, AllRawIsFull
  <2> QED BY <2>1, Zenon DEF Kept, Holds
<1> HIDE DEF table, s1
<1>9. Buffer!SetRecordIn(table, 0, Record(children[1])) = Bare(s1, Kept(0, children[1]))
  BY <1>1, <1>6, BareSet
<1> QED BY <1>1, <1>7, <1>8, <1>9 DEF table

-----------------------------------------------------------------------------
(***************************************************************************)
(* The invariant: what the callers write is what the records already have, *)
(* so the buffer always agrees with them, and the list follows from them.  *)
(* What a cut leaves need not be like that, but all of its records but two *)
(* are.                                                                    *)
(***************************************************************************)
LeftByCut(s) ==
  /\ s \in Seq(Raws) /\ Len(s) \in 1..MaxNumRecords
  /\ \E i, j \in 1..Len(s) : \A n \in 1..Len(s) : n \notin {i, j} => s[n] \in ValidRaws

Torn(s) == LeftByCut(s) /\ \E n \in 1..Len(s) : s[n] \notin ValidRaws

ParentInv ==
  /\ status \in {"creating", "open", "closed", "halted"}
  /\ status = "open" =>
       /\ Full(stored) /\ Agrees(stored, buffer)
       /\ parentRecordList = ListOf(stored, Len(stored))
  /\ status \in {"creating", "closed"} =>
       buffer = Buffer!NoBuffer /\ parentRecordList = NoParents
  /\ status = "creating" => stored = <<>>
  /\ status = "closed" => stored = <<>> \/ LeftByCut(stored)
  /\ status = "halted" =>
       /\ stored = <<>> \/ Torn(stored)
       /\ buffer = Buffer!NoBuffer \/ \E k \in 0..(Len(stored) - 1) : buffer = Reads(k, stored)
       /\ parentRecordList \in Lists

(* What a call does to the records, and what a cut within it leaves.       *)
PartOf(children, s) ==
  /\ s \in Seq(Raws) /\ Len(s) <= Len(children)
  /\ \A n \in 1..(Len(s) - 2) : s[n] = Raw(children[n])

Followed ==
  \/ stored' = stored
  \/ \E r \in RecordIds : /\ Len(stored) < MaxNumRecords
                           /\ stored' = InsertAt(stored, r + 2, Raw(MinChild + (r + 1)))
  \/ \E r \in RecordIds : Len(stored) > 1 /\ stored' = RemoveAt(stored, r + 1)
  \/ \E children \in ImportData : stored' = AllRaw(children)
  \/ \E r \in RecordIds, raw \in Raws :
       CutDuringInsertion(r) /\ stored' = InsertAt(stored, r + 2, raw)
  \/ \E children \in ImportData : CutDuringImport(children) /\ PartOf(children, stored')

Step ==
  /\ ParentInv'
  /\ status = "open" => status' \in Running /\ Followed
  /\ status = "closed" => stored' = stored

LEMMA NowIs == Now = Table(stored, buffer, status, parentRecordList)
BY DEF Now, Table

LEMMA BecomesIs ==
  ASSUME NEW s, NEW b, NEW st, NEW l, Becomes(Table(s, b, st, l))
  PROVE  stored' = s /\ buffer' = b /\ status' = st /\ parentRecordList' = l
BY FieldsOfTable DEF Becomes

LEMMA CallStep ==
  ASSUME ParentInv', status = "open", status' = "open", Followed
  PROVE  Step
BY OpenIsRunning, Zenon DEF Step

LEMMA RebuiltInv ==
  ASSUME NEW s, Full(s), NEW table, Rebuilt(table, s), Becomes(table)
  PROVE  ParentInv' /\ status' = "open" /\ stored' = s
<1>1. PICK b : Agrees(s, b) /\ table = Table(s, b, "open", ListOf(s, Len(s)))
  BY DEF Rebuilt
<1>2. /\ stored' = s /\ buffer' = b /\ status' = "open"
      /\ parentRecordList' = ListOf(s, Len(s))
  BY <1>1, BecomesIs
<1> QED BY <1>1, <1>2 DEF ParentInv

(* A call that leaves the records and the list alone.                      *)
LEMMA BufferMoves ==
  ASSUME ParentInv, status = "open", NEW b, Agrees(stored, b),
         Becomes(Table(stored, b, "open", parentRecordList))
  PROVE  Step
<1>1. stored' = stored /\ buffer' = b /\ status' = "open" /\ parentRecordList' = parentRecordList
  BY BecomesIs
<1> QED BY <1>1, OpenIsRunning DEF Step, ParentInv, Followed

LEMMA OpenState ==
  ASSUME ParentInv, status = "open"
  PROVE  /\ Full(stored) /\ Agrees(stored, buffer)
         /\ Now = Table(stored, buffer, "open", parentRecordList)
         /\ 0 \in RecordIds /\ stored \in Seq(ValidRaws) /\ Len(stored) \in 1..MaxNumRecords
<1>1. Full(stored) /\ Agrees(stored, buffer)
  BY DEF ParentInv
<1>2. stored \in Seq(ValidRaws) /\ Len(stored) \in 1..MaxNumRecords
  BY <1>1 DEF Full
<1>3. 0 \in RecordIds
  <2> DEFINE len == Len(stored)
  <2>1. len \in 1..MaxNumRecords
    BY <1>2
  <2> HIDE DEF len
  <2>2. 0 \in 0..(len - 1)
    BY <2>1, SMT
  <2> QED BY <2>2 DEF len, RecordIds
<1> QED BY <1>1, <1>2, <1>3, NowIs

LEMMA FillStep ==
  ASSUME ParentInv, status = "open", NEW r \in RecordIds,
         Becomes(Buffer!FillRecordBuffer(Now, r))
  PROVE  Step
<1>1. PICK m \in BOOLEAN :
        Buffer!FillRecordBuffer(Now, r) = Table(stored, Holds(r, m, stored), "open", parentRecordList)
  BY OpenState, FillIs, OpenIsRunning DEF RecordIds
<1>2. Agrees(stored, Holds(r, m, stored))
  BY Zenon DEF Agrees, RecordIds
<1> DEFINE b == Holds(r, m, stored)
<1>3. Becomes(Table(stored, b, "open", parentRecordList)) /\ Agrees(stored, b)
  BY <1>1, <1>2
<1> HIDE DEF b
<1> QED BY <1>3, BufferMoves

LEMMA SyncStep ==
  ASSUME ParentInv, buffer.recordId # NO_RECORD_ID, SyncTable
  PROVE  Step
<1>1. status = "open"
  BY DEF SyncTable
<1>2. buffer # Buffer!NoBuffer
  BY DEF Buffer!NoBuffer, NO_RECORD_ID
<1>3. PICK r \in 0..(Len(stored) - 1), m \in BOOLEAN : buffer = Holds(r, m, stored)
  BY <1>1, <1>2, OpenState DEF Agrees
<1>4. Buffer!StoreRecordBuffer(Now) = Table(stored, buffer, "open", parentRecordList)
  BY <1>1, <1>3, OpenState, StoreSame
<1> QED BY <1>1, <1>4, BufferMoves, OpenState DEF SyncTable

LEMMA ChildrenIs ==
  ASSUME ParentInv, status = "open", NEW r \in RecordIds
  PROVE  /\ Children = Kids(stored)
         /\ Children[r + 1] = ChildOf(stored[r + 1]) /\ ChildOf(stored[r + 1]) \in ChildTables
<1>1. Children = Kids(stored)
  BY OpenState, ChildrenAreKids, OpenIsRunning DEF Children
<1>2. r + 1 \in 1..Len(stored) /\ stored[r + 1] \in ValidRaws
  BY OpenState, RecordNumbers DEF RecordIds
<1> QED BY <1>1, <1>2, RawOfRaw DEF Kids

LEMMA SetRecordStep ==
  ASSUME ParentInv, NEW r \in RecordIds, SetRecord(r, Children[r + 1])
  PROVE  Step
<1> DEFINE child == ChildOf(stored[r + 1])
           data == Record(child)
           copied == [recordId |-> r, isModified |-> TRUE, columns |-> data]
           b == Holds(r, TRUE, stored)
<1>1. status = "open"
  BY DEF SetRecord
<1>2. Children[r + 1] = child /\ child \in ChildTables
  BY <1>1, ChildrenIs
<1>3. Becomes(Buffer!SetRecordIn(Now, r, data))
  BY <1>2 DEF SetRecord
<1>4. data \in Buffer!Valid
  BY <1>2, RecordIsValid
<1>5. Buffer!WriteRecordBufferIfDirty(Now) = Now /\ Now.status # "halted"
  <2>1. Buffer!WriteRecordBufferIfDirty(Now) = Now
    BY <1>1, OpenState, WriteSame
  <2>2. Now.status = "open"
    BY <1>1, OpenState, FieldsOfTable
  <2> QED BY <2>1, <2>2, OpenIsRunning
<1>6. copied = b
  BY DEF Holds, Buf
<1>7. [Now EXCEPT !.buffer = b] = Table(stored, b, "open", parentRecordList)
  <2> HIDE DEF b
  <2>1. Now = Table(stored, buffer, "open", parentRecordList)
    BY <1>1, OpenState
  <2> QED BY <2>1, SMT DEF Table
<1> HIDE DEF data, b, copied
<1>8. Buffer!SetRecordIn(Now, r, data) = [Now EXCEPT !.buffer = copied]
  BY <1>4, <1>5 DEF Buffer!SetRecordIn, copied
<1>9. Agrees(stored, b)
  <2> DEFINE m == TRUE
  <2>1. m \in BOOLEAN
    OBVIOUS
  <2>2. b = Holds(r, m, stored)
    BY DEF b
  <2> HIDE DEF m
  <2> QED BY <2>1, <2>2, Zenon DEF Agrees, RecordIds
<1>10. Becomes(Table(stored, b, "open", parentRecordList))
  BY <1>3, <1>6, <1>7, <1>8
<1> QED BY <1>1, <1>9, <1>10, BufferMoves

LEMMA InsertStep ==
  ASSUME ParentInv, NEW r \in RecordIds, Careful(buffer, r), InsertRecordAfter(r)
  PROVE  Step
<1>1. status = "open"
  BY DEF InsertRecordAfter
<1>2. /\ Full(stored) /\ Agrees(stored, buffer)
      /\ Now = Table(stored, buffer, "open", parentRecordList)
      /\ Len(stored) \in 1..MaxNumRecords
  BY <1>1, OpenState
<1>3. Buffer!WriteRecordBufferIfDirty(Now) = Now
  BY <1>2, WriteSame
<1>4. Now.status # "halted" /\ Now.stored = stored
  BY <1>2, FieldsOfTable, OpenIsRunning
<1>5. CASE Len(stored) >= MaxNumRecords
  <2>1. Becomes(Now)
    BY <1>3, <1>4, <1>5 DEF InsertRecordAfter
  <2> QED BY <1>1, <1>2, <2>1, BufferMoves
<1>6. CASE ~(Len(stored) >= MaxNumRecords)
  <2>1. PICK raw \in Raws :
          Becomes(SetToDefault([Now EXCEPT !.stored = InsertAt(@, r + 2, raw)], r + 1))
    BY <1>3, <1>4, <1>6, Zenon DEF InsertRecordAfter, Raws
  <2> DEFINE s0 == InsertAt(stored, r + 2, raw)
             s1 == InsertAt(stored, r + 2, Raw(MinChild + (r + 1)))
             table == Table(s0, buffer, "open", parentRecordList)
  <2>2. [Now EXCEPT !.stored = InsertAt(@, r + 2, raw)] = table
    <3>1. [Now EXCEPT !.stored = InsertAt(@, r + 2, raw)] = [Now EXCEPT !.stored = s0]
      BY <1>4
    <3> HIDE DEF s0
    <3>2. [Now EXCEPT !.stored = s0] = table
      BY <1>2, SMT DEF Table
    <3> QED BY <3>1, <3>2
  <2>3. Len(stored) < MaxNumRecords
    <3> DEFINE len == Len(stored)
    <3>1. len \in 1..MaxNumRecords /\ ~(len >= MaxNumRecords)
      BY <1>2, <1>6
    <3> HIDE DEF len
    <3>2. len < MaxNumRecords
      BY <3>1, ConstantsType, SMT
    <3> QED BY <3>2 DEF len
  <2>4. Full(s1) /\ Rebuilt(SetToDefault(table, r + 1), s1)
    BY <1>2, <2>3, InsertRebuilds DEF RecordIds
  <2> HIDE DEF table
  <2>5. ParentInv' /\ status' = "open" /\ stored' = s1
    <3> HIDE DEF s1
    <3> QED BY <2>1, <2>2, <2>4, RebuiltInv
  <2>6. Followed
    BY <2>3, <2>5, Zenon DEF Followed
  <2> QED BY <1>1, <2>5, <2>6, CallStep
<1> QED BY <1>5, <1>6

LEMMA RemovedIsFull ==
  ASSUME NEW s, Full(s), Len(s) > 1, NEW r \in 0..(Len(s) - 1)
  PROVE  /\ Full(RemoveAt(s, r + 1)) /\ Len(RemoveAt(s, r + 1)) = Len(s) - 1
         /\ \A j \in 1..(Len(s) - 1) : RemoveAt(s, r + 1)[j] = WithRemoved(s, r + 1, j)
<1> DEFINE len == Len(s)
           s1 == RemoveAt(s, r + 1)
<1>1. s \in Seq(ValidRaws) /\ len \in 1..MaxNumRecords /\ len > 1 /\ r + 1 \in 1..len
  BY RecordNumbers DEF Full
<1>2. /\ s1 \in Seq(ValidRaws) /\ Len(s1) = len - 1
      /\ \A j \in 1..(len - 1) : s1[j] = WithRemoved(s, r + 1, j)
  BY <1>1, RemoveAtEffect
<1> HIDE DEF s1, len
<1>3. len - 1 \in 1..MaxNumRecords
  BY <1>1, ConstantsType, SMT
<1>4. Full(s1)
  BY <1>2, <1>3 DEF Full
<1> QED BY <1>2, <1>4 DEF s1, len

Unmodified(r, columns) == Buf(r, FALSE, columns)

(* The buffer is clean and of a record other than the first, or of one in  *)
(* front of the deleted record.                                            *)
Unharmed(b, r) ==
  \/ ~b.isModified /\ b.recordId # 0
  \/ b.recordId < r

LEMMA DeleteStep ==
  ASSUME ParentInv, NEW r \in RecordIds, Unharmed(buffer, r), DeleteRecord(r)
  PROVE  Step
<1> DEFINE s1 == RemoveAt(stored, r + 1)
           table == Table(s1, buffer, "open", parentRecordList)
<1>1. status = "open"
  BY DEF DeleteRecord
<1>2. /\ Full(stored) /\ Agrees(stored, buffer)
      /\ Now = Table(stored, buffer, "open", parentRecordList)
      /\ Len(stored) \in 1..MaxNumRecords
  BY <1>1, OpenState
<1>3. CASE ~(Len(stored) > 1)
  <2>1. Becomes(Now)
    BY <1>3 DEF DeleteRecord
  <2> QED BY <1>1, <1>2, <2>1, BufferMoves
<1>4. CASE Len(stored) > 1
  <2>1. Now.stored = stored
    BY <1>2, FieldsOfTable
  <2>2. [Now EXCEPT !.stored = RemoveAt(@, r + 1)] = table
    <3>1. [Now EXCEPT !.stored = RemoveAt(@, r + 1)] = [Now EXCEPT !.stored = s1]
      BY <2>1
    <3> HIDE DEF s1
    <3>2. [Now EXCEPT !.stored = s1] = table
      BY <1>2, SMT DEF Table
    <3> QED BY <3>1, <3>2
  <2>3. Becomes(Built(table))
    BY <1>4, <2>2 DEF DeleteRecord
  <2>4. /\ Full(s1) /\ Len(s1) = Len(stored) - 1
        /\ \A j \in 1..(Len(stored) - 1) : s1[j] = WithRemoved(stored, r + 1, j)
    BY <1>2, <1>4, RemovedIsFull DEF RecordIds
  <2> HIDE DEF s1
  <2>5. CASE ~buffer.isModified /\ buffer.recordId # 0
    <3>1. PICK k, columns : buffer = Unmodified(k, columns) /\ k # 0
      <4>1. CASE buffer = Buffer!NoBuffer
        <5> DEFINE none == [c \in {"child"} |-> 0]
        <5>1. buffer = Unmodified(255, none)
          BY <4>1, NoBufferIs DEF Unmodified
        <5>2. 255 # 0
          BY SMT
        <5> HIDE DEF none
        <5> QED BY <5>1, <5>2
      <4>2. ASSUME NEW k \in 0..(Len(stored) - 1), NEW m \in BOOLEAN, buffer = Holds(k, m, stored)
            PROVE  \E j, columns : buffer = Unmodified(j, columns) /\ j # 0
        <5> DEFINE columns == Record(ChildOf(stored[k + 1]))
        <5>1. buffer.isModified = m /\ buffer.recordId = k
          BY <4>2 DEF Holds, Buf
        <5>2. m = FALSE
          BY <2>5, <5>1
        <5>3. buffer = Unmodified(k, columns)
          BY <4>2, <5>2 DEF Holds, Unmodified
        <5>4. k # 0
          BY <2>5, <5>1
        <5> HIDE DEF columns
        <5> QED BY <5>3, <5>4
      <4> QED BY <1>2, <4>1, <4>2 DEF Agrees
    <3>2. Rebuilt(Built(table), s1)
      <4>1. Rebuilt(Built(Table(s1, Unmodified(k, columns), "open", parentRecordList)), s1)
        BY <2>4, <3>1, BuiltWhenClean DEF Unmodified
      <4> QED BY <3>1, <4>1
    <3>3. ParentInv' /\ status' = "open" /\ stored' = s1
      BY <2>3, <2>4, <3>2, RebuiltInv
    <3>10. Followed
      BY <1>4, <3>3, Zenon DEF Followed, s1
    <3> QED BY <1>1, <3>3, <3>10, CallStep
  <2>6. CASE buffer.recordId < r
    <3>1. buffer # Buffer!NoBuffer
      <4>1. r \in 0..(MaxNumRecords - 1)
        BY <1>2, RecordNumbers DEF RecordIds
      <4>2. ~(255 < r)
        BY <4>1, ConstantsType, SMT
      <4> QED BY <2>6, <4>2, NoBufferIs, FieldsOfBuf DEF Buffer!NoBuffer, Buffer!NO_RECORD_ID
    <3>2. PICK k \in 0..(Len(stored) - 1), m \in BOOLEAN : buffer = Holds(k, m, stored)
      BY <1>2, <3>1 DEF Agrees
    <3>3. k < r
      BY <2>6, <3>2, ColumnsHeld
    <3>4. k \in 0..(Len(s1) - 1) /\ k + 1 \in 1..(Len(stored) - 1) /\ k + 1 < r + 1
      <4> DEFINE len == Len(stored)
      <4>1. len \in 1..MaxNumRecords /\ Len(s1) = len - 1 /\ k \in 0..(len - 1) /\ r \in 0..(len - 1)
        BY <1>2, <2>4 DEF RecordIds
      <4> HIDE DEF len
      <4>2. k \in 0..(len - 1 - 1) /\ k + 1 \in 1..(len - 1) /\ k + 1 < r + 1
        BY <3>3, <4>1, ConstantsType, SMT
      <4> QED BY <4>1, <4>2 DEF len
    <3>5. s1[k + 1] = stored[k + 1]
      BY <2>4, <3>4, Zenon DEF WithRemoved
    <3>6. buffer = Holds(k, m, s1)
      BY <3>2, <3>5 DEF Holds
    <3>7. Agrees(s1, buffer)
      BY <3>4, <3>6, Zenon DEF Agrees
    <3>8. Rebuilt(Built(table), s1)
      BY <2>4, <3>7, BuiltWhenAgreed
    <3>9. ParentInv' /\ status' = "open" /\ stored' = s1
      BY <2>3, <2>4, <3>8, RebuiltInv
    <3>10. Followed
      BY <1>4, <3>9, Zenon DEF Followed, s1
    <3> QED BY <1>1, <3>9, <3>10, CallStep
  <2> QED BY <2>5, <2>6, Zenon DEF Unharmed
<1> QED BY <1>3, <1>4

LEMMA ImportStep ==
  ASSUME ParentInv, NEW children \in ImportData, ImportTable(children)
  PROVE  Step
<1> DEFINE s1 == AllRaw(children)
           b1 == Holds(0, TRUE, s1)
           data == Records(children)
           table == Table(s1, b1, "open", parentRecordList)
<1>1. status = "open" /\ IsImported(children)
  BY ParentChildAssumption DEF ImportTable, IsImported
<1>2. /\ Agrees(stored, buffer) /\ Now = Table(stored, buffer, "open", parentRecordList)
  BY <1>1, OpenState
<1>3. \E r, m, columns : buffer = Buf(r, m, columns)
  <2>1. CASE buffer = Buffer!NoBuffer
    <3> DEFINE m == FALSE
    <3>1. buffer = Buf(255, m, [c \in {"child"} |-> 0])
      BY <2>1, NoBufferIs
    <3> HIDE DEF m
    <3> QED BY <3>1, Zenon
  <2>2. CASE buffer # Buffer!NoBuffer
    <3>1. PICK k \in 0..(Len(stored) - 1), m \in BOOLEAN : buffer = Holds(k, m, stored)
      BY <1>2, <2>2 DEF Agrees
    <3> QED BY <3>1, Zenon DEF Holds
  <2> QED BY <2>1, <2>2
<1>4. PICK raw \in Raws :
        LET imported == Buffer!SetRecordIn(Buffer!Imported(data, Len(data), raw), 0, data[1])
        IN Becomes(Built([Now EXCEPT !.stored = imported.stored,
                                     !.buffer = imported.buffer,
                                     !.status = imported.status]))
  BY DEF ImportTable, Raws
<1>5. Buffer!SetRecordIn(Buffer!Imported(data, Len(data), raw), 0, data[1]) = Bare(s1, b1)
  <2>1. PICK r, m, columns : buffer = Buf(r, m, columns)
    BY <1>3
  <2> QED BY <1>1, <2>1, ImportIs
<1> HIDE DEF s1, b1
<1>6. [Now EXCEPT !.stored = s1, !.buffer = b1, !.status = "open"] = table
  <2> DEFINE t1 == Table(s1, buffer, "open", parentRecordList)
  <2>1. [Now EXCEPT !.stored = s1] = t1
    BY <1>2, SMT DEF Table
  <2>2. [t1 EXCEPT !.buffer = b1] = table
    BY SMT DEF Table
  <2>3. [table EXCEPT !.status = "open"] = table
    BY SMT DEF Table
  <2>4. [Now EXCEPT !.stored = s1, !.buffer = b1, !.status = "open"]
          = [[[Now EXCEPT !.stored = s1] EXCEPT !.buffer = b1] EXCEPT !.status = "open"]
    OBVIOUS
  <2> HIDE DEF t1, table
  <2> QED BY <2>1, <2>2, <2>3, <2>4
<1> DEFINE imported == Buffer!SetRecordIn(Buffer!Imported(data, Len(data), raw), 0, data[1])
<1>7. Becomes(Built(table))
  <2>1. imported.stored = s1 /\ imported.buffer = b1 /\ imported.status = "open"
    BY <1>5, FieldsOfBare
  <2>2. Becomes(Built([Now EXCEPT !.stored = imported.stored, !.buffer = imported.buffer,
                                  !.status = imported.status]))
    BY <1>4
  <2> HIDE DEF imported, table
  <2>3. [Now EXCEPT !.stored = imported.stored, !.buffer = imported.buffer,
                    !.status = imported.status] = table
    BY <1>6, <2>1
  <2> QED BY <2>2, <2>3
<1>8. Full(s1)
  BY <1>1, AllRawIsFull DEF s1
<1>9. Agrees(s1, b1)
  <2> DEFINE m == TRUE
  <2>1. m \in BOOLEAN
    OBVIOUS
  <2>2. b1 = Holds(0, m, s1)
    BY DEF b1
  <2>3. 0 \in 0..(Len(s1) - 1)
    <3> DEFINE len == Len(s1)
    <3>1. len \in 1..MaxNumRecords
      BY <1>8 DEF Full
    <3> HIDE DEF len
    <3>2. 0 \in 0..(len - 1)
      BY <3>1, SMT
    <3> QED BY <3>2 DEF len
  <2> HIDE DEF m
  <2> QED BY <2>1, <2>2, <2>3, Zenon DEF Agrees
<1>10. Rebuilt(Built(table), s1)
  BY <1>8, <1>9, BuiltWhenAgreed
<1>11. ParentInv' /\ status' = "open" /\ stored' = s1
  BY <1>7, <1>8, <1>10, RebuiltInv
<1>12. Followed
  BY <1>11, Zenon DEF Followed, s1
<1> QED BY <1>1, <1>11, <1>12, CallStep

LEMMA CreateStep ==
  ASSUME ParentInv, CreateFirstRecord
  PROVE  Step
<1> DEFINE child == MinChild + 0
           s1 == <<Raw(child)>>
<1>1. status = "creating" /\ stored = <<>> /\ buffer = Buffer!NoBuffer
  BY DEF CreateFirstRecord, ParentInv
<1>2. PICK raw \in Raws :
        Becomes(SetToDefault([Now EXCEPT !.stored = <<raw>>, !.status = "open"], 0))
  BY DEF CreateFirstRecord, Raws
<1> DEFINE s0 == <<raw>>
           table == Table(s0, buffer, "open", parentRecordList)
<1>3. [Now EXCEPT !.stored = <<raw>>, !.status = "open"] = table
  <2> DEFINE t1 == Table(s0, buffer, status, parentRecordList)
  <2> HIDE DEF s0
  <2>1. [Now EXCEPT !.stored = s0] = t1
    BY NowIs, SMT DEF Table
  <2>2. [t1 EXCEPT !.status = "open"] = table
    BY SMT DEF Table
  <2>3. [Now EXCEPT !.stored = <<raw>>, !.status = "open"]
          = [[Now EXCEPT !.stored = s0] EXCEPT !.status = "open"]
    BY DEF s0
  <2> HIDE DEF t1
  <2> QED BY <2>1, <2>2, <2>3
<1>4. child \in ChildTables
  BY ConstantsType, SMT DEF ChildTables
<1>5. Raw(child) \in ValidRaws
  BY <1>4, RawOfChild
<1> HIDE DEF child
<1>6. s0 \in Seq(Raws) /\ Len(s0) = 1 /\ s1 \in Seq(ValidRaws) /\ Len(s1) = 1
  BY <1>5
<1>7. 0 \in 0..(Len(s0) - 1)
  BY <1>6, SMT
<1>8. Full(s1)
  BY <1>6, ConstantsType, SMT DEF Full
<1>9. s1 = Put(s0, 0, child)
  <2>1. 0 + 1 = 1
    BY SMT
  <2>2. [s0 EXCEPT ![1] = Raw(child)] = s1
    BY SMT
  <2> QED BY <2>1, <2>2 DEF Put
<1>10. Buffer!WriteRecordBufferIfDirty(table) = table
  <2>1. Buffer!WriteRecordBufferIfDirty(Table(s0, Buffer!NoBuffer, "open", parentRecordList))
          = Table(s0, Buffer!NoBuffer, "open", parentRecordList)
    BY NoBufferWritten
  <2> HIDE DEF s0
  <2> QED BY <1>1, <2>1
<1> HIDE DEF s0, s1
<1>11. Rebuilt(SetToDefault(table, 0), s1)
  <2>1. PICK k, m, columns : Buffer!NoBuffer = Buf(k, m, columns) /\ m \in BOOLEAN
    BY NoBufferIs, Zenon
  <2>2. table = Table(s0, Buf(k, m, columns), "open", parentRecordList)
    BY <1>1, <2>1
  <2> HIDE DEF table
  <2>3. Buffer!WriteRecordBufferIfDirty(table) = Table(s0, Buf(k, m, columns), "open", parentRecordList)
    BY <1>10, <2>2
  <2>4. s1 = Put(s0, 0, MinChild + 0)
    BY <1>9 DEF child
  <2> QED BY <1>6, <1>7, <1>8, <2>1, <2>3, <2>4, SetToDefaultIs
<1> HIDE DEF table
<1>12. ParentInv' /\ status' = "open" /\ stored' = s1
  BY <1>2, <1>3, <1>8, <1>11, RebuiltInv
<1> QED BY <1>1, <1>12 DEF Step

(* Tables that calls leave, and that cuts leave.                           *)
LEMMA FullIsLeft ==
  ASSUME NEW s, Full(s)
  PROVE  LeftByCut(s)
<1>1. s \in Seq(Raws) /\ s \in Seq(ValidRaws) /\ Len(s) \in 1..MaxNumRecords
  BY FullIsRaw DEF Full
<1>2. \A n \in 1..Len(s) : s[n] \in ValidRaws
  BY <1>1, ElementOfSeq
<1>3. 1 \in 1..Len(s)
  <2> DEFINE len == Len(s)
  <2>1. len \in 1..MaxNumRecords
    BY <1>1
  <2> HIDE DEF len
  <2>2. 1 \in 1..len
    BY <2>1, ConstantsType, SMT
  <2> QED BY <2>2 DEF len
<1> QED BY <1>1, <1>2, <1>3 DEF LeftByCut

LEMMA LeftCases ==
  ASSUME NEW s, LeftByCut(s)
  PROVE  Full(s) \/ Torn(s)
<1> SUFFICES ASSUME ~Torn(s) PROVE Full(s)
  OBVIOUS
<1>1. s \in Seq(Raws) /\ Len(s) \in 1..MaxNumRecords /\ \A n \in 1..Len(s) : s[n] \in ValidRaws
  BY DEF LeftByCut, Torn
<1>2. s \in Seq(ValidRaws)
  <2> DEFINE len == Len(s)
  <2>1. len \in Nat /\ s = [n \in 1..len |-> s[n]]
    BY <1>1, IsASeq, LenProperties
  <2>2. s \in [1..len -> ValidRaws]
    <3>1. \A n \in 1..len : s[n] \in ValidRaws
      BY <1>1
    <3> HIDE DEF len
    <3> QED BY <2>1, <3>1
  <2> HIDE DEF len
  <2> QED BY <2>1, <2>2, SMT
<1> QED BY <1>1, <1>2 DEF Full

LEMMA InsertedIsLeft ==
  ASSUME NEW s, Full(s), Len(s) < MaxNumRecords, NEW r \in 0..(Len(s) - 1), NEW raw \in Raws
  PROVE  LeftByCut(InsertAt(s, r + 2, raw))
<1> DEFINE len == Len(s)
           i == r + 2
           s1 == InsertAt(s, i, raw)
<1>1. s \in Seq(ValidRaws) /\ s \in Seq(Raws) /\ len \in 1..MaxNumRecords
  BY FullIsRaw DEF Full
<1>2. i \in 1..(len + 1) /\ len + 1 \in 1..MaxNumRecords /\ len \in Nat
  <2>1. r \in 0..(len - 1) /\ len < MaxNumRecords
    OBVIOUS
  <2> HIDE DEF len
  <2> QED BY <1>1, <2>1, ConstantsType, SMT
<1> HIDE DEF i
<1>3. /\ s1 \in Seq(Raws) /\ Len(s1) = len + 1
      /\ \A j \in 1..(len + 1) : s1[j] = WithInserted(s, i, raw, j)
  BY <1>1, <1>2, InsertAtEffect
<1>4. ASSUME NEW j \in 1..(len + 1), j # i
      PROVE  s1[j] \in ValidRaws
  <2>1. CASE j < i
    <3>1. j \in 1..len /\ WithInserted(s, i, raw, j) = s[j]
      <4>1. j \in 1..len
        <5> HIDE DEF len
        <5> QED BY <1>2, <2>1, SMT
      <4> QED BY <2>1, <4>1 DEF WithInserted
    <3> QED BY <1>1, <1>3, <3>1, ElementOfSeq
  <2>2. CASE ~(j < i)
    <3>1. j - 1 \in 1..len
      <4> HIDE DEF len
      <4> QED BY <1>2, <1>4, <2>2, SMT
    <3>2. WithInserted(s, i, raw, j) = s[j - 1]
      BY <1>4, <2>2, Zenon DEF WithInserted
    <3>3. s[j - 1] \in ValidRaws
      BY <1>1, <3>1, ElementOfSeq
    <3> QED BY <1>3, <3>2, <3>3
  <2> QED BY <2>1, <2>2
<1> HIDE DEF s1, len
<1>5. LeftByCut(s1)
  BY <1>2, <1>3, <1>4 DEF LeftByCut
<1> QED BY <1>5 DEF s1, i

LEMMA PartIsLeft ==
  ASSUME NEW children, IsImported(children), NEW s, PartOf(children, s)
  PROVE  s = <<>> \/ LeftByCut(s)
<1> SUFFICES ASSUME s # <<>> PROVE LeftByCut(s)
  OBVIOUS
<1> DEFINE len == Len(s)
           all == Len(children)
           i == IF len > 1 THEN len - 1 ELSE len
<1>1. s \in Seq(Raws) /\ len <= all /\ \A n \in 1..(len - 2) : s[n] = Raw(children[n])
  BY DEF PartOf
<1>2. all \in 1..MaxNumRecords /\ \A n \in 1..all : Raw(children[n]) \in ValidRaws
  BY ImportedData, RawOfChild DEF IsImported
<1>3. len \in Nat /\ len # 0
  BY <1>1, LenProperties, EmptySeq
<1> HIDE DEF len, all
<1>4. /\ len \in 1..MaxNumRecords /\ len \in 1..len /\ i \in 1..len
      /\ \A n \in 1..len : n \notin {i, len} => n \in 1..(len - 2) /\ n \in 1..all
  BY <1>1, <1>2, <1>3, ConstantsType, SMT
<1> HIDE DEF i
<1>5. \A n \in 1..len : n \notin {i, len} => s[n] \in ValidRaws
  BY <1>1, <1>2, <1>4
<1> QED BY <1>1, <1>4, <1>5 DEF LeftByCut, len

LEMMA FailedInv ==
  ASSUME NEW s, PowerFails(s), s = <<>> \/ LeftByCut(s)
  PROVE  ParentInv' /\ status' = "closed" /\ stored' = s
<1>1. stored' = s /\ buffer' = Buffer!NoBuffer /\ status' = "closed" /\ parentRecordList' = NoParents
  BY DEF PowerFails
<1> QED BY <1>1 DEF ParentInv

LEMMA OpenStep ==
  ASSUME ParentInv, OpenDataBase
  PROVE  Step
<1> DEFINE table == Table(stored, buffer, "open", parentRecordList)
<1>1. /\ status = "closed" /\ buffer = Buffer!NoBuffer /\ parentRecordList = NoParents
      /\ stored = <<>> \/ LeftByCut(stored)
  BY DEF OpenDataBase, ParentInv
<1>2. [Now EXCEPT !.status = "open"] = table
  BY NowIs, SMT DEF Table
<1>3. Becomes(Built(table))
  BY <1>2 DEF OpenDataBase
<1>4. CASE Full(stored)
  <2>1. Rebuilt(Built(table), stored)
    BY <1>1, <1>4, BuiltWhenAgreed DEF Agrees
  <2>2. ParentInv' /\ stored' = stored
    BY <1>3, <1>4, <2>1, RebuiltInv
  <2> QED BY <1>1, <2>2 DEF Step
<1>5. CASE stored = <<>>
  <2>1. Buffer!WriteRecordBufferIfDirty(table) = table
    BY <1>1, NoBufferWritten
  <2>2. table.buffer.recordId # 0 /\ table.stored = <<>>
    BY <1>1, <1>5, FieldsOfTable DEF Buffer!NoBuffer, Buffer!NO_RECORD_ID
  <2>3. ~(0 < Len(table.stored))
    BY <2>2
  <2>4. [table EXCEPT !.status = "halted"] = Table(stored, buffer, "halted", parentRecordList)
    BY SMT DEF Table
  <2> HIDE DEF table
  <2>5. Buffer!FillRecordBuffer(table, 0) = Buffer!Halted(table)
    BY <2>1, <2>2, <2>3, Zenon DEF Buffer!FillRecordBuffer, Buffer!RecordExists
  <2>6. Buffer!Halted(table) = Table(stored, buffer, "halted", parentRecordList)
    BY <2>4 DEF Buffer!Halted
  <2>7. Buffer!FillRecordBuffer(table, 0).status = "halted"
    BY <2>5, <2>6, FieldsOfTable
  <2>8. Built(table) = Buffer!FillRecordBuffer(table, 0)
    BY <2>7 DEF Built
  <2>9. /\ stored' = stored /\ buffer' = buffer /\ status' = "halted"
        /\ parentRecordList' = parentRecordList
    BY <1>3, <2>5, <2>6, <2>8, BecomesIs
  <2>10. NoParents \in Lists
    BY DEF NoParents, Lists
  <2> QED BY <1>1, <1>5, <2>9, <2>10 DEF Step, ParentInv
<1>6. CASE Torn(stored)
  <2>1. stored \in Seq(Raws) /\ Len(stored) \in 1..MaxNumRecords
        /\ \E n \in 1..Len(stored) : stored[n] \notin ValidRaws
    BY <1>6 DEF Torn, LeftByCut
  <2>2. PICK k \in 0..(Len(stored) - 1), m \in Lists :
          Built(table) = Table(stored, Reads(k, stored), "halted", m)
    BY <1>1, <2>1, TornHalts
  <2> HIDE DEF table
  <2>3. /\ stored' = stored /\ buffer' = Reads(k, stored) /\ status' = "halted"
        /\ parentRecordList' = m
    BY <1>3, <2>2, BecomesIs
  <2>4. \E n \in 0..(Len(stored') - 1) : buffer' = Reads(n, stored')
    BY <2>3
  <2>5. ParentInv'
    BY <1>6, <2>3, <2>4 DEF ParentInv
  <2> QED BY <1>1, <2>3, <2>5 DEF Step
<1> QED BY <1>1, <1>4, <1>5, <1>6, LeftCases

LEMMA CloseStep ==
  ASSUME ParentInv, CloseDataBase
  PROVE  Step
<1>1. /\ status \in {"open", "halted"} /\ status' = "closed"
      /\ buffer' = Buffer!NoBuffer /\ stored' = stored /\ parentRecordList' = NoParents
  BY DEF CloseDataBase, Buffer!CloseDataBase
<1>2. stored = <<>> \/ LeftByCut(stored)
  BY <1>1, FullIsLeft DEF ParentInv, Torn
<1>3. ParentInv'
  BY <1>1, <1>2 DEF ParentInv
<1> QED BY <1>1, <1>3, OpenIsRunning DEF Step, Followed

LEMMA CutCreationStep ==
  ASSUME ParentInv, CutDuringCreation
  PROVE  Step
<1>1. status = "creating" /\ stored = <<>>
  BY DEF CutDuringCreation, ParentInv
<1>2. CASE PowerFails(stored)
  BY <1>1, <1>2, FailedInv DEF Step
<1>3. ASSUME NEW raw \in Raws, PowerFails(<<raw>>)
      PROVE  Step
  <2> DEFINE s == <<raw>>
  <2>1. s \in Seq(Raws) /\ Len(s) = 1
    OBVIOUS
  <2> HIDE DEF s
  <2>2. Len(s) \in 1..MaxNumRecords /\ 1 \in 1..Len(s) /\ \A n \in 1..Len(s) : n = 1
    BY <2>1, ConstantsType, SMT
  <2>3. LeftByCut(s)
    BY <2>1, <2>2 DEF LeftByCut
  <2>4. ParentInv'
    BY <1>3, <2>3, FailedInv DEF s
  <2> QED BY <1>1, <2>4 DEF Step
<1> QED BY <1>2, <1>3 DEF CutDuringCreation, Raws

LEMMA CutInsertionStep ==
  ASSUME ParentInv, NEW r \in RecordIds, CutDuringInsertion(r)
  PROVE  Step
<1>1. status = "open" /\ Len(stored) < MaxNumRecords
  BY DEF CutDuringInsertion
<1>2. Full(stored) /\ Buffer!WriteRecordBufferIfDirty(Now) = Now /\ Now.stored = stored
  BY <1>1, OpenState, WriteSame, FieldsOfTable
<1>3. PICK raw \in Raws : PowerFails(InsertAt(stored, r + 2, raw))
  BY <1>2 DEF CutDuringInsertion, Raws
<1> DEFINE s == InsertAt(stored, r + 2, raw)
<1>4. LeftByCut(s)
  BY <1>1, <1>2, InsertedIsLeft DEF RecordIds
<1>5. ParentInv' /\ status' = "closed" /\ stored' = s
  BY <1>3, <1>4, FailedInv
<1> HIDE DEF s
<1>6. Followed
  BY <1>5 DEF Followed, s
<1> QED BY <1>1, <1>5, <1>6, OpenIsRunning DEF Step

LEMMA CutDeletionStep ==
  ASSUME ParentInv, NEW r \in RecordIds, CutDuringDeletion(r)
  PROVE  Step
<1> DEFINE s == RemoveAt(stored, r + 1)
<1>1. status = "open" /\ Len(stored) > 1 /\ PowerFails(s)
  BY DEF CutDuringDeletion
<1>2. LeftByCut(s)
  BY <1>1, OpenState, RemovedIsFull, FullIsLeft DEF RecordIds
<1>3. ParentInv' /\ status' = "closed" /\ stored' = s
  BY <1>1, <1>2, FailedInv
<1> QED BY <1>1, <1>3, OpenIsRunning DEF Step, Followed

LEMMA BufferIsBuf ==
  ASSUME NEW s, NEW b, Agrees(s, b)
  PROVE  \E r, m, columns : b = Buf(r, m, columns)
<1>1. CASE b = Buffer!NoBuffer
  <2> DEFINE m == FALSE
  <2>1. b = Buf(255, m, [c \in {"child"} |-> 0])
    BY <1>1, NoBufferIs
  <2> HIDE DEF m
  <2> QED BY <2>1, Zenon
<1>2. CASE b # Buffer!NoBuffer
  <2>1. PICK k \in 0..(Len(s) - 1), m \in BOOLEAN : b = Holds(k, m, s)
    BY <1>2 DEF Agrees
  <2> QED BY <2>1, Zenon DEF Holds
<1> QED BY <1>1, <1>2

(* What n turns leave, and the append of the next.                         *)
LEMMA GivenIsPart ==
  ASSUME NEW children, IsImported(children), NEW raw \in Raws, NEW n \in 0..Len(children)
  PROVE  /\ PartOf(children, Given(children, n, raw))
         /\ n < Len(children) =>
              \A next \in Raws : PartOf(children, Append(Given(children, n, raw), next))
<1> DEFINE len == Len(children)
           s == Given(children, n, raw)
<1>1. len \in Nat /\ n \in 0..len
  BY ImportedData
<1>2. s \in Seq(Raws) /\ Len(s) = n /\ \A j \in 1..n : s[j] = IF j < n THEN Raw(children[j]) ELSE raw
  BY GivenInSeq DEF Given
<1> HIDE DEF len, s
<1>3. /\ n <= len /\ n \in Nat /\ n + 1 - 2 = n - 1
      /\ \A j \in 1..(n - 2) : j \in 1..n /\ j < n
      /\ \A j \in 1..(n - 1) : j \in 1..n /\ j < n
      /\ n < len => n + 1 <= len
  BY <1>1, SMT
<1>4. PartOf(children, s)
  BY <1>2, <1>3 DEF PartOf, len
<1>5. ASSUME n < len, NEW next \in Raws
      PROVE  PartOf(children, Append(s, next))
  <2> DEFINE t == Append(s, next)
  <2>1. t \in Seq(Raws) /\ Len(t) = n + 1 /\ \A j \in 1..n : t[j] = s[j]
    BY <1>2, AppendProperties
  <2> HIDE DEF t
  <2>2. \A j \in 1..(Len(t) - 2) : t[j] = Raw(children[j])
    <3> SUFFICES ASSUME NEW j \in 1..(n - 1) PROVE t[j] = Raw(children[j])
      BY <1>3, <2>1
    <3> QED BY <1>2, <1>3, <2>1
  <2>3. Len(t) <= Len(children)
    BY <1>3, <1>5, <2>1 DEF len
  <2>4. PartOf(children, t)
    BY <2>1, <2>2, <2>3 DEF PartOf
  <2> QED BY <2>4 DEF t
<1> QED BY <1>4, <1>5 DEF len, s

LEMMA StoredSoFar ==
  ASSUME NEW children, NEW raw, NEW n, NEW table, ImportedSoFar(children, raw, n, table)
  PROVE  /\ n = 0 => table.stored = <<>>
         /\ n # 0 => table.stored = Given(children, n, raw)
<1>1. CASE n = 0
  <2>1. PICK b : table = Bare(<<>>, b)
    BY <1>1, Zenon DEF ImportedSoFar
  <2> QED BY <1>1, <2>1, FieldsOfBare
<1>2. CASE n # 0
  <2> DEFINE b == Kept(n - 1, children[n])
  <2>1. table = Bare(Given(children, n, raw), b)
    BY <1>2, Zenon DEF ImportedSoFar
  <2> HIDE DEF b
  <2> QED BY <1>2, <2>1, FieldsOfBare
<1> QED BY <1>1, <1>2

LEMMA CutImportStep ==
  ASSUME ParentInv, NEW children \in ImportData, CutDuringImport(children)
  PROVE  Step
<1>1. status = "open" /\ IsImported(children)
  BY ParentChildAssumption DEF CutDuringImport, IsImported
<1>2. PICK k, m, columns : buffer = Buf(k, m, columns)
  BY <1>1, OpenState, BufferIsBuf
<1>3. PICK n \in 0..Len(Records(children)), raw \in Raws :
        LET kept == Buffer!Imported(Records(children), n, raw).stored IN
        \/ PowerFails(kept)
        \/ n < Len(children) /\ \E next \in Raws : PowerFails(Append(kept, next))
  BY <1>1, ImportedData DEF CutDuringImport, Raws
<1> DEFINE kept == Buffer!Imported(Records(children), n, raw).stored
<1>4. n \in 0..Len(children)
  BY <1>1, ImportedData
<1>5. kept = Given(children, n, raw)
  <2> DEFINE table == Buffer!Imported(Records(children), n, raw)
  <2>1. ImportedSoFar(children, raw, n, table)
    BY <1>1, <1>2, <1>4, ImportedTable
  <2> HIDE DEF table
  <2>2. /\ n = 0 => table.stored = <<>>
        /\ n # 0 => table.stored = Given(children, n, raw)
    BY <2>1, StoredSoFar
  <2>3. n = 0 => Given(children, n, raw) = <<>>
    BY <1>1, <1>4, GivenInSeq, EmptySeq
  <2> QED BY <2>2, <2>3 DEF table
<1>6. \E s : PowerFails(s) /\ PartOf(children, s)
  BY <1>1, <1>3, <1>4, <1>5, GivenIsPart
<1>7. PICK s : PowerFails(s) /\ PartOf(children, s)
  BY <1>6
<1>8. ParentInv' /\ status' = "closed" /\ stored' = s
  BY <1>1, <1>7, PartIsLeft, FailedInv
<1>9. Followed
  BY <1>7, <1>8 DEF Followed
<1> QED BY <1>1, <1>8, <1>9, OpenIsRunning DEF Step

LEMMA StutterStep ==
  ASSUME ParentInv, UNCHANGED vars
  PROVE  ParentInv'
BY DEF vars, ParentInv

LEMMA InitInv == Init => ParentInv
<1> SUFFICES ASSUME Init PROVE ParentInv
  OBVIOUS
<1>1. stored = <<>> /\ buffer = Buffer!NoBuffer /\ status = "creating" /\ parentRecordList = NoParents
  BY DEF Init, Buffer!Init
<1> QED BY <1>1 DEF ParentInv

LEMMA NextStep ==
  ASSUME ParentInv, Next
  PROVE  Step
<1>1. CASE CreateFirstRecord
  BY <1>1, CreateStep
<1>2. CASE CutDuringCreation
  BY <1>2, CutCreationStep
<1>3. CASE CloseDataBase
  BY <1>3, CloseStep
<1>4. CASE OpenDataBase
  BY <1>4, OpenStep
<1>5. CASE buffer.recordId # NO_RECORD_ID /\ SyncTable
  BY <1>5, SyncStep
<1>6. ASSUME NEW child \in ChildTables, GetParentRecord(child)
      PROVE  Step
  BY <1>6, OpenState, FillStep DEF GetParentRecord
<1>7. ASSUME NEW children \in ImportData, ImportTable(children)
      PROVE  Step
  BY <1>7, ImportStep
<1>14. ASSUME NEW children \in ImportData, CutDuringImport(children)
       PROVE  Step
  BY <1>14, CutImportStep
<1>8. ASSUME NEW r \in RecordIds, GetChildTable(r)
      PROVE  Step
  BY <1>8, FillStep DEF GetChildTable
<1>9. ASSUME NEW r \in RecordIds, SetRecord(r, Children[r + 1])
      PROVE  Step
  BY <1>9, SetRecordStep
<1>10. ASSUME NEW r \in RecordIds, buffer.isModified => buffer.recordId <= r + 1,
              InsertRecordAfter(r)
       PROVE  Step
  BY <1>10, InsertStep DEF Careful
<1>11. ASSUME NEW r \in RecordIds,
              (~buffer.isModified /\ buffer.recordId # 0) \/ buffer.recordId < r,
              DeleteRecord(r)
       PROVE  Step
  BY <1>11, DeleteStep DEF Unharmed
<1>12. ASSUME NEW r \in RecordIds, CutDuringInsertion(r)
       PROVE  Step
  BY <1>12, CutInsertionStep
<1>13. ASSUME NEW r \in RecordIds, CutDuringDeletion(r)
       PROVE  Step
  BY <1>13, CutDeletionStep
<1> QED BY <1>1, <1>2, <1>3, <1>4, <1>5, <1>6, <1>7, <1>14, <1>8, <1>9, <1>10, <1>11,
           <1>12, <1>13, Zenon DEF Next

LEMMA ParentInvHolds == Spec => []ParentInv
<1>1. ParentInv /\ [Next]_vars => ParentInv'
  BY NextStep, StutterStep DEF Step
<1> QED BY <1>1, InitInv, PTL DEF Spec

-----------------------------------------------------------------------------
(***************************************************************************)
(* The theorems.                                                           *)
(***************************************************************************)
LEMMA ListIsTyped ==
  ASSUME NEW s, Full(s)
  PROVE  ListOf(s, Len(s)) \in Lists
<1> DEFINE len == Len(s)
<1>1. len \in Nat /\ len \in 1..MaxNumRecords
  <2>1. len \in 1..MaxNumRecords
    BY DEF Full
  <2> HIDE DEF len
  <2> QED BY <2>1, SMT
<1> HIDE DEF len
<1>2. 0..(len - 1) \subseteq 0..(MaxNumRecords - 1)
  BY <1>1, ConstantsType, SMT
<1>3. ASSUME NEW i \in ListIndexes, Parents(s, len, i) # {}
      PROVE  Max(Parents(s, len, i)) \in 0..(MaxNumRecords - 1)
  <2> DEFINE S == Parents(s, len, i)
  <2>1. S \subseteq 0..(len - 1) /\ S # {}
    BY <1>1, <1>3, ParentsGrow
  <2> HIDE DEF S
  <2>2. Max(S) \in S
    BY <1>1, <2>1, MaxIsIn
  <2>3. Max(S) \in 0..(MaxNumRecords - 1)
    BY <1>2, <2>1, <2>2
  <2> QED BY <2>3 DEF S
<1>4. ListOf(s, len) \in Lists
  BY <1>3, Zenon DEF ListOf, Lists
<1> QED BY <1>4 DEF len

LEMMA EmptyIsTyped == NoParents \in Lists
BY DEF NoParents, Lists

LEMMA RawIsDecodable ==
  ASSUME NEW raw \in Raws
  PROVE  Record(ChildOf(raw)) \in Buffer!Decodable /\ ChildOf(raw) \in Nat
<1> DEFINE v == raw["child"]
           child == ChildOf(raw)
<1>1. raw \in [{"child"} -> 0..(Range2N - 1)] /\ child = v + MinChild
  BY DEF Raws, Buffer!RawRecords, Buffer!RawValues, Range2N, ChildOf
<1>2. v \in 0..(Range2N - 1)
  <2> HIDE DEF Range2N
  <2> QED BY <1>1
<1> HIDE DEF v, child
<1>3. child \in MinChild..(MinChild + Range2N - 1) /\ child \in Nat
  <2> HIDE DEF Range2N
  <2> QED BY <1>1, <1>2, RangeType, ConstantsType, SMT
<1>4. Record(child) \in Buffer!Decodable
  BY <1>3 DEF Record, Buffer!Decodable, Range2N
<1> QED BY <1>3, <1>4 DEF child

LEMMA LeftNumbers ==
  ASSUME NEW s, LeftByCut(s)
  PROVE  /\ s \in Seq(Raws) /\ Len(s) \in Nat /\ Len(s) <= MaxNumRecords /\ Len(s) > 0
         /\ \A r \in 0..(Len(s) - 1) :
              /\ r \in 0..(MaxNumRecords - 1) /\ r + 1 \in 1..Len(s) /\ s[r + 1] \in Raws
              /\ r # 255
         /\ \A n \in 1..Len(s) : n - 1 \in 0..(Len(s) - 1)
<1> DEFINE len == Len(s)
<1>1. s \in Seq(Raws) /\ len \in 1..MaxNumRecords
  BY DEF LeftByCut
<1>2. /\ len \in Nat /\ len <= MaxNumRecords /\ len > 0
      /\ \A r \in 0..(len - 1) : r \in 0..(MaxNumRecords - 1) /\ r + 1 \in 1..len /\ r # 255
      /\ \A n \in 1..len : n - 1 \in 0..(len - 1)
  <2> HIDE DEF len
  <2> QED BY <1>1, ConstantsType, SMT
<1> QED BY <1>1, <1>2, ElementOfSeq

LEMMA InvRecords ==
  ASSUME ParentInv
  PROVE  stored = <<>> \/ LeftByCut(stored)
BY FullIsLeft DEF ParentInv, Torn

LEMMA HeldIsTyped ==
  ASSUME NEW s, LeftByCut(s), NEW r \in 0..(Len(s) - 1), NEW m \in BOOLEAN
  PROVE  /\ Holds(r, m, s).recordId \in 0..(MaxNumRecords - 1)
         /\ Holds(r, m, s).isModified \in BOOLEAN
         /\ Holds(r, m, s).columns \in Buffer!Decodable
<1>1. r \in 0..(MaxNumRecords - 1) /\ s[r + 1] \in Raws
  BY LeftNumbers
<1>2. Record(ChildOf(s[r + 1])) \in Buffer!Decodable
  BY <1>1, RawIsDecodable
<1>3. Holds(r, m, s).recordId = r /\ Holds(r, m, s).isModified = m
      /\ Holds(r, m, s).columns = Record(ChildOf(s[r + 1]))
  BY FieldsOfBuf DEF Holds
<1> QED BY <1>1, <1>2, <1>3

(* Outside of calls the buffer is empty or holds a record of the table.    *)
LEMMA InvBuffer ==
  ASSUME ParentInv, buffer # Buffer!NoBuffer
  PROVE  LeftByCut(stored) /\ \E r \in 0..(Len(stored) - 1), m \in BOOLEAN : buffer = Holds(r, m, stored)
<1>1. CASE status = "open"
  <2>1. Full(stored) /\ Agrees(stored, buffer)
    BY <1>1, OpenState
  <2> QED BY <2>1, FullIsLeft DEF Agrees
<1>2. CASE status = "halted"
  <2>1. PICK r \in 0..(Len(stored) - 1) : buffer = Reads(r, stored)
    BY <1>2 DEF ParentInv
  <2>2. LeftByCut(stored)
    <3>1. CASE stored = <<>>
      <4> DEFINE len == Len(stored)
      <4>1. len = 0 /\ r \in 0..(len - 1)
        BY <3>1
      <4> HIDE DEF len
      <4>2. FALSE
        BY <4>1, SMT
      <4> QED BY <4>2
    <3> QED BY <3>1, InvRecords
  <2> DEFINE m == FALSE
  <2>3. m \in BOOLEAN /\ buffer = Holds(r, m, stored)
    BY <2>1 DEF Reads
  <2> HIDE DEF m
  <2> QED BY <2>2, <2>3
<1> QED BY <1>1, <1>2 DEF ParentInv

LEMMA InvIsTyped == ParentInv => TypeOK
<1> SUFFICES ASSUME ParentInv PROVE TypeOK
  OBVIOUS
<1>1. stored \in Seq(Buffer!RawRecords) /\ Len(stored) <= MaxNumRecords
  <2>1. CASE stored = <<>>
    BY <2>1, ConstantsType
  <2>2. CASE LeftByCut(stored)
    BY <2>2, LeftNumbers DEF Raws
  <2> QED BY <2>1, <2>2, InvRecords
<1>2. \/ buffer = Buffer!NoBuffer
      \/ /\ buffer.recordId \in 0..(MaxNumRecords - 1)
         /\ buffer.isModified \in BOOLEAN
         /\ buffer.columns \in Buffer!Decodable
  <2> SUFFICES ASSUME buffer # Buffer!NoBuffer
               PROVE  /\ buffer.recordId \in 0..(MaxNumRecords - 1)
                      /\ buffer.isModified \in BOOLEAN
                      /\ buffer.columns \in Buffer!Decodable
    OBVIOUS
  <2>1. PICK r \in 0..(Len(stored) - 1), m \in BOOLEAN : buffer = Holds(r, m, stored)
    BY InvBuffer
  <2> QED BY <2>1, InvBuffer, HeldIsTyped
<1>3. Buffer!TypeOK
  BY <1>1, <1>2 DEF Buffer!TypeOK, ParentInv, NO_RECORD_ID
<1>4. parentRecordList \in Lists
  BY ListIsTyped, EmptyIsTyped DEF ParentInv
<1> QED BY <1>3, <1>4 DEF TypeOK, Lists

(* Types: the records are raw records and at most as many as the column    *)
(* has values, and each entry of ParentRecordList is a record id that can  *)
(* exist, or NO_RECORD_ID: recordId never runs past the list, nor does a   *)
(* child table that is written to it.                                      *)
THEOREM SpecTypeOK == Spec => []TypeOK
BY ParentInvHolds, InvIsTyped, PTL

LEMMA InvIsUpToDate == ParentInv => ParentsUpToDate
<1> SUFFICES ASSUME ParentInv, status = "open", NEW child \in ChildTables
             PROVE  LET parents == {r \in RecordIds : Children[r + 1] = child}
                    IN ParentOf(child) = IF parents = {} THEN NO_RECORD_ID ELSE Max(parents)
  BY DEF ParentsUpToDate
<1> DEFINE i == child - MinChild
           parents == {r \in RecordIds : Children[r + 1] = child}
<1>1. (child - MinChild) % 256 = i /\ i \in ListIndexes /\ MinChild + i = child
  BY IndexOfChild
<1>2. parentRecordList = ListOf(stored, Len(stored))
  BY DEF ParentInv
<1> HIDE DEF i
<1>3. parents = Parents(stored, Len(stored), i)
  <2>1. \A r \in RecordIds : Children[r + 1] = ChildOf(stored[r + 1])
    BY ChildrenIs
  <2> QED BY <1>1, <2>1 DEF Parents, RecordIds
<1>4. ParentOf(child) = ListOf(stored, Len(stored))[i]
  BY <1>1, <1>2 DEF ParentOf
<1>5. ListOf(stored, Len(stored))[i]
        = IF parents = {} THEN NO_RECORD_ID ELSE Max(parents)
  BY <1>1, <1>3 DEF ListOf
<1> QED BY <1>4, <1>5

(* BDB_getParentRecord() is always right: whatever was written, inserted,  *)
(* deleted, imported or lost, the list that is kept in RAM leads from a    *)
(* child table to the last record that names it, as BDB_getValue() would   *)
(* read the records, and from a table that no record names to none.        *)
THEOREM SpecParentsUpToDate == Spec => []ParentsUpToDate
BY ParentInvHolds, InvIsUpToDate, PTL

LEMMA OutOfRangeIs ==
  ASSUME LeftByCut(stored)
  PROVE  OutOfRange = {r \in RecordIds : stored[r + 1] \notin ValidRaws}
<1>1. ASSUME NEW r \in RecordIds
      PROVE  Buffer!Decoded(stored[r + 1])["child"] \notin ChildTables
               <=> stored[r + 1] \notin ValidRaws
  <2>1. stored[r + 1] \in Raws
    BY LeftNumbers DEF RecordIds
  <2>2. Buffer!Decoded(stored[r + 1])["child"] = ChildOf(stored[r + 1])
    BY DecodedIs DEF Record
  <2> QED BY <2>1, <2>2 DEF ValidRaws, Raws
<1> QED BY <1>1 DEF OutOfRange

LEMMA InvHalts == ParentInv => HaltsOnlyTorn
<1> SUFFICES ASSUME ParentInv PROVE HaltsOnlyTorn
  OBVIOUS
<1>1. ASSUME status = "open"
      PROVE  stored # <<>> /\ OutOfRange = {}
  <2>1. Full(stored) /\ LeftByCut(stored)
    BY <1>1, OpenState, FullIsLeft
  <2>2. stored # <<>>
    BY <2>1, LeftNumbers, EmptySeq
  <2>3. \A r \in RecordIds : stored[r + 1] \in ValidRaws
    BY <2>1, RecordNumbers DEF RecordIds
  <2> QED BY <2>1, <2>2, <2>3, OutOfRangeIs
<1>2. ASSUME status = "halted", stored # <<>>
      PROVE  \E r, q \in RecordIds : OutOfRange = {r, q}
  <2>1. Torn(stored) /\ LeftByCut(stored)
    BY <1>2 DEF ParentInv, Torn
  <2>2. PICK i, j \in 1..Len(stored) :
          \A n \in 1..Len(stored) : n \notin {i, j} => stored[n] \in ValidRaws
    BY <2>1 DEF LeftByCut
  <2>3. PICK n \in 1..Len(stored) : stored[n] \notin ValidRaws
    BY <2>1 DEF Torn
  <2> DEFINE Bad == {r \in RecordIds : stored[r + 1] \notin ValidRaws}
             x == i - 1
             y == j - 1
  <2>4. /\ x \in RecordIds /\ y \in RecordIds /\ x + 1 = i /\ y + 1 = j
        /\ \A r \in RecordIds : r + 1 \in 1..Len(stored) /\ (r + 1 = i <=> r = x) /\ (r + 1 = j <=> r = y)
    <3> DEFINE len == Len(stored)
    <3>1. len \in Nat /\ i \in 1..len /\ j \in 1..len
      BY <2>1, <2>2, LeftNumbers
    <3>2. RecordIds = 0..(len - 1)
      BY DEF RecordIds
    <3> HIDE DEF len
    <3>3. /\ x \in 0..(len - 1) /\ y \in 0..(len - 1) /\ x + 1 = i /\ y + 1 = j
          /\ \A r \in 0..(len - 1) : r + 1 \in 1..len /\ (r + 1 = i <=> r = x) /\ (r + 1 = j <=> r = y)
      BY <3>1, SMT
    <3> QED BY <3>2, <3>3 DEF len
  <2> HIDE DEF x, y
  <2>5. Bad \subseteq {x, y}
    BY <2>2, <2>4
  <2>6. x \in Bad \/ y \in Bad
    BY <2>2, <2>3, <2>4
  <2> HIDE DEF Bad
  <2>7. Bad = {x, y} \/ Bad = {x, x} \/ Bad = {y, y}
    BY <2>5, <2>6
  <2>8. \E r, q \in RecordIds : Bad = {r, q}
    BY <2>4, <2>7
  <2> QED BY <2>1, <2>8, OutOfRangeIs DEF Bad
<1> QED BY <1>1, <1>2 DEF HaltsOnlyTorn

(* An open database never halts, wherever the power failed before, and an  *)
(* opening only on what cuts within calls can have left: no record at all, *)
(* or one or two records, appended or inserted and not written, that name  *)
(* no child table.  buildParentRecordList() then writes outside of its     *)
(* list at this opening and at every later one.                            *)
THEOREM SpecHaltsOnlyTorn == Spec => []HaltsOnlyTorn
BY ParentInvHolds, InvHalts, PTL

-----------------------------------------------------------------------------
(***************************************************************************)
(* What becomes of the child tables when the records change.               *)
(***************************************************************************)
LEMMA KidsType ==
  ASSUME NEW s \in Seq(Raws)
  PROVE  /\ Kids(s) \in Seq(Nat) /\ Len(Kids(s)) = Len(s)
         /\ \A n \in 1..Len(s) : Kids(s)[n] = ChildOf(s[n])
<1> DEFINE len == Len(s)
<1>1. len \in Nat /\ \A n \in 1..len : ChildOf(s[n]) \in Nat
  BY LenProperties, ElementOfSeq, RawIsDecodable
<1> HIDE DEF len
<1>2. Kids(s) = [n \in 1..len |-> ChildOf(s[n])]
  BY DEF Kids, len
<1>3. Kids(s) \in [1..len -> Nat]
  BY <1>1, <1>2
<1>4. Kids(s) \in Seq(Nat) /\ Len(Kids(s)) = len
  BY <1>1, <1>2, <1>3, SMT
<1> QED BY <1>2, <1>4 DEF len

LEMMA KidsInserted ==
  ASSUME NEW s, Full(s), NEW r \in 0..(Len(s) - 1), NEW e \in Raws
  PROVE  /\ Kids(InsertAt(s, r + 2, e)) = InsertAt(Kids(s), r + 2, ChildOf(e))
         /\ Len(Kids(InsertAt(s, r + 2, e))) = Len(Kids(s)) + 1
         /\ Kids(InsertAt(s, r + 2, e))[r + 2] = ChildOf(e)
<1> DEFINE len == Len(s)
           i == r + 2
           child == ChildOf(e)
           s1 == InsertAt(s, i, e)
           k1 == InsertAt(Kids(s), i, child)
<1>1. s \in Seq(Raws) /\ len \in 1..MaxNumRecords /\ ChildOf(e) = child /\ child \in Nat
  BY FullIsRaw, RawIsDecodable DEF Full
<1>2. i \in 1..(len + 1) /\ len \in Nat /\ len + 1 \in Nat
  <2>1. r \in 0..(len - 1)
    OBVIOUS
  <2> HIDE DEF len
  <2> QED BY <1>1, <2>1, ConstantsType, SMT
<1>3. Kids(s) \in Seq(Nat) /\ Len(Kids(s)) = len
      /\ \A n \in 1..len : Kids(s)[n] = ChildOf(s[n])
  BY <1>1, KidsType
<1> HIDE DEF i, child
<1>4. /\ s1 \in Seq(Raws) /\ Len(s1) = len + 1
      /\ \A j \in 1..(len + 1) : s1[j] = WithInserted(s, i, e, j)
  BY <1>1, <1>2, InsertAtEffect
<1>5. /\ k1 \in Seq(Nat) /\ Len(k1) = len + 1
      /\ \A j \in 1..(len + 1) : k1[j] = WithInserted(Kids(s), i, child, j)
  <2> DEFINE S == Nat
  <2>1. Kids(s) \in Seq(S) /\ child \in S /\ i \in 1..(Len(Kids(s)) + 1)
    BY <1>1, <1>2, <1>3
  <2> HIDE DEF S
  <2>2. /\ k1 \in Seq(S) /\ Len(k1) = Len(Kids(s)) + 1
        /\ \A j \in 1..(Len(Kids(s)) + 1) : k1[j] = WithInserted(Kids(s), i, child, j)
    BY <2>1, InsertAtEffect
  <2> QED BY <1>3, <2>2 DEF S
<1>6. Kids(s1) \in Seq(Nat) /\ Len(Kids(s1)) = len + 1
      /\ \A n \in 1..(len + 1) : Kids(s1)[n] = ChildOf(s1[n])
  BY <1>4, KidsType
<1> HIDE DEF len, s1, k1
<1>7. ASSUME NEW j \in 1..(len + 1)
      PROVE  Kids(s1)[j] = k1[j]
  <2>1. Kids(s1)[j] = ChildOf(WithInserted(s, i, e, j)) /\ k1[j] = WithInserted(Kids(s), i, child, j)
    BY <1>4, <1>5, <1>6
  <2>2. CASE j < i
    <3>1. WithInserted(s, i, e, j) = s[j] /\ WithInserted(Kids(s), i, child, j) = Kids(s)[j]
      BY <2>2 DEF WithInserted
    <3>2. j \in 1..len
      BY <1>2, <2>2, SMT
    <3> QED BY <1>3, <2>1, <3>1, <3>2
  <2>3. CASE j = i
    <3>1. ~(j < i)
      BY <1>2, <2>3, SMT
    <3>2. WithInserted(s, i, e, j) = e /\ WithInserted(Kids(s), i, child, j) = child
      BY <2>3, <3>1, Zenon DEF WithInserted
    <3> QED BY <1>1, <2>1, <3>2
  <2>4. CASE j > i
    <3>1. ~(j < i) /\ j # i /\ j - 1 \in 1..len
      BY <1>2, <2>4, SMT
    <3>2. WithInserted(s, i, e, j) = s[j - 1] /\ WithInserted(Kids(s), i, child, j) = Kids(s)[j - 1]
      BY <3>1, Zenon DEF WithInserted
    <3> QED BY <1>3, <2>1, <3>1, <3>2
  <2> QED BY <1>2, <2>2, <2>3, <2>4, SMT
<1>8. Kids(s1) = k1
  BY <1>5, <1>6, <1>7, SeqEqual
<1>9. k1[i] = child
  <2>1. ~(i < i)
    BY <1>2, SMT
  <2>2. WithInserted(Kids(s), i, child, i) = child
    BY <2>1, Zenon DEF WithInserted
  <2> QED BY <1>2, <1>5, <2>2
<1> QED BY <1>3, <1>5, <1>8, <1>9 DEF s1, k1, i, child, len

LEMMA KidsRemoved ==
  ASSUME NEW s, Full(s), NEW r \in 0..(Len(s) - 1)
  PROVE  Kids(RemoveAt(s, r + 1)) = RemoveAt(Kids(s), r + 1)
<1> DEFINE len == Len(s)
           i == r + 1
           s1 == RemoveAt(s, i)
           k1 == RemoveAt(Kids(s), i)
<1>1. s \in Seq(Raws) /\ len \in 1..MaxNumRecords
  BY FullIsRaw DEF Full
<1>2. i \in 1..len /\ len \in Nat /\ len - 1 \in Nat
  <2>1. r \in 0..(len - 1)
    OBVIOUS
  <2> HIDE DEF len
  <2> QED BY <1>1, <2>1, ConstantsType, SMT
<1>3. Kids(s) \in Seq(Nat) /\ Len(Kids(s)) = len
      /\ \A n \in 1..len : Kids(s)[n] = ChildOf(s[n])
  BY <1>1, KidsType
<1> HIDE DEF i
<1>4. /\ s1 \in Seq(Raws) /\ Len(s1) = len - 1
      /\ \A j \in 1..(len - 1) : s1[j] = WithRemoved(s, i, j)
  BY <1>1, <1>2, RemoveAtEffect
<1>5. /\ k1 \in Seq(Nat) /\ Len(k1) = len - 1
      /\ \A j \in 1..(len - 1) : k1[j] = WithRemoved(Kids(s), i, j)
  BY <1>2, <1>3, RemoveAtEffect
<1>6. Kids(s1) \in Seq(Nat) /\ Len(Kids(s1)) = len - 1
      /\ \A n \in 1..(len - 1) : Kids(s1)[n] = ChildOf(s1[n])
  BY <1>4, KidsType
<1> HIDE DEF len, s1, k1
<1>7. ASSUME NEW j \in 1..(len - 1)
      PROVE  Kids(s1)[j] = k1[j]
  <2>1. Kids(s1)[j] = ChildOf(WithRemoved(s, i, j)) /\ k1[j] = WithRemoved(Kids(s), i, j)
    BY <1>4, <1>5, <1>6
  <2>2. j \in 1..len /\ j + 1 \in 1..len
    BY <1>2, SMT
  <2>3. CASE j < i
    <3>1. WithRemoved(s, i, j) = s[j] /\ WithRemoved(Kids(s), i, j) = Kids(s)[j]
      BY <2>3 DEF WithRemoved
    <3> QED BY <1>3, <2>1, <2>2, <3>1
  <2>4. CASE ~(j < i)
    <3>1. WithRemoved(s, i, j) = s[j + 1] /\ WithRemoved(Kids(s), i, j) = Kids(s)[j + 1]
      BY <2>4, Zenon DEF WithRemoved
    <3> QED BY <1>3, <2>1, <2>2, <3>1
  <2> QED BY <2>3, <2>4
<1>8. Kids(s1) = k1
  BY <1>5, <1>6, <1>7, SeqEqual
<1> QED BY <1>8 DEF s1, k1, i

LEMMA KidsImported ==
  ASSUME NEW children, IsImported(children)
  PROVE  Kids(AllRaw(children)) = children
<1> DEFINE s == AllRaw(children)
<1>1. Full(s) /\ Len(s) = Len(children)
      /\ \A n \in 1..Len(children) : ChildOf(s[n]) = children[n]
  BY AllRawIsFull
<1> HIDE DEF s
<1>2. Kids(s) \in Seq(Nat) /\ Len(Kids(s)) = Len(s)
      /\ \A n \in 1..Len(s) : Kids(s)[n] = ChildOf(s[n])
  BY <1>1, FullIsRaw, KidsType
<1>3. \A n \in 1..Len(children) : Kids(s)[n] = children[n]
  BY <1>1, <1>2
<1>4. children \in Seq(Nat)
  <2>1. ChildTables \subseteq Nat
    BY ConstantsType, SMT DEF ChildTables
  <2> QED BY <2>1, SeqMonotonic DEF IsImported
<1>5. Kids(s) = children
  BY <1>1, <1>2, <1>3, <1>4, SeqEqual
<1> QED BY <1>5 DEF s

LEMMA KidsOfPart ==
  ASSUME NEW children, IsImported(children), NEW s, PartOf(children, s)
  PROVE  IsTornImport(Kids(s), children)
<1> DEFINE len == Len(s)
           all == Len(children)
<1>1. /\ s \in Seq(Raws) /\ len <= all /\ \A n \in 1..(len - 2) : s[n] = Raw(children[n])
      /\ len \in Nat /\ all \in Nat
  BY ImportedData, LenProperties DEF PartOf
<1>2. Len(Kids(s)) = len /\ \A n \in 1..len : Kids(s)[n] = ChildOf(s[n])
  BY <1>1, KidsType
<1>3. ASSUME NEW n \in 1..(len - 2)
      PROVE  Kids(s)[n] = children[n]
  <2>1. n \in 1..len /\ n \in 1..all
    <3> HIDE DEF len, all
    <3> QED BY <1>1, SMT
  <2>2. children[n] \in ChildTables
    BY <2>1, ImportedData
  <2> QED BY <1>1, <1>2, <2>1, <2>2, RawOfChild
<1> QED BY <1>1, <1>2, <1>3 DEF IsTornImport

(* What the records are read as, of an open database and of a closed one.  *)
LEMMA ReadKids ==
  ASSUME NEW s, NEW b, NEW st \in Running, NEW l,
         st = "open" => Full(s) /\ Agrees(s, b),
         st = "closed" => b = Buffer!NoBuffer /\ (s = <<>> \/ LeftByCut(s))
  PROVE  ChildrenOf(Table(s, b, st, l)) = Kids(s)
<1>1. CASE st = "open"
  BY <1>1, ChildrenAreKids
<1>2. CASE st = "closed"
  <2> DEFINE table == Table(s, b, st, l)
  <2>1. b.recordId = 255 /\ Buffer!WriteRecordBufferIfDirty(table) = table
    <3>1. b = Buffer!NoBuffer
      BY <1>2
    <3>2. b.recordId = 255
      BY <3>1 DEF Buffer!NoBuffer, Buffer!NO_RECORD_ID
    <3> QED BY <3>1, <3>2, NoBufferWritten
  <2>2. table.stored = s
    BY FieldsOfTable
  <2>3. ASSUME NEW n \in 1..Len(s)
        PROVE  ChildInBuffer(Buffer!FillRecordBuffer(table, n - 1)) = ChildOf(s[n])
    <3> DEFINE r == n - 1
               len == Len(s)
    <3>1. len \in Nat /\ len <= MaxNumRecords
      BY <1>2, LeftNumbers, ConstantsType
    <3>2. n \in 1..len
      OBVIOUS
    <3> HIDE DEF len
    <3>3. r < len /\ r + 1 = n /\ r # 255
      BY <3>1, <3>2, ConstantsType, SMT
    <3> HIDE DEF r
    <3>4. r < Len(s) /\ b.recordId # r
      BY <2>1, <3>3 DEF len
    <3>5. Buffer!FillRecordBuffer(table, r) = Table(s, Reads(r, s), st, l)
      BY <2>1, <3>4, FillRead
    <3>6. Table(s, Reads(r, s), st, l).buffer.columns = Record(ChildOf(s[n]))
      <4>1. Reads(r, s).columns = Record(ChildOf(s[n]))
        BY <3>3, ColumnsHeld
      <4> QED BY <4>1, FieldsOfTable
    <3>7. ChildInBuffer(Buffer!FillRecordBuffer(table, r)) = Record(ChildOf(s[n]))["child"]
      BY <3>5, <3>6 DEF ChildInBuffer
    <3> QED BY <3>7 DEF Record, r
  <2> HIDE DEF table
  <2>4. ChildrenOf(table) = Kids(s)
    BY <2>2, <2>3 DEF ChildrenOf, Kids
  <2> QED BY <2>4 DEF table
<1> QED BY <1>1, <1>2 DEF Running

(* The property of one step.                                               *)
KidsFollow ==
  LET left == ChildrenOf(Now') IN
  \/ \E children \in ImportData :
       IsTornImport(left, children) /\ CutDuringImport(children)
  \/ \E r \in RecordIds :
       IsTornInsertion(left, Children, r + 2) /\ CutDuringInsertion(r)
  \/ left = Children
  \/ \E r \in RecordIds :
       \/ left = InsertAt(Children, r + 2, MinChild + r + 1)
       \/ left = RemoveAt(Children, r + 1)
  \/ \E children \in ImportData : left = children

LEMMA StepFollows ==
  ASSUME ParentInv, Step, status \in Running, status' \in Running
  PROVE  KidsFollow
<1>1. Children = Kids(stored)
  <2>1. /\ status = "open" => Full(stored) /\ Agrees(stored, buffer)
        /\ status = "closed" => buffer = Buffer!NoBuffer /\ (stored = <<>> \/ LeftByCut(stored))
    BY DEF ParentInv
  <2>2. ChildrenOf(Table(stored, buffer, status, parentRecordList)) = Kids(stored)
    BY <2>1, ReadKids
  <2> QED BY <2>2, NowIs DEF Children
<1>2. ChildrenOf(Now') = Kids(stored')
  <2>1. /\ status' = "open" => Full(stored') /\ Agrees(stored', buffer')
        /\ status' = "closed" =>
             buffer' = Buffer!NoBuffer /\ (stored' = <<>> \/ LeftByCut(stored'))
    BY DEF Step, ParentInv
  <2>2. ChildrenOf(Table(stored', buffer', status', parentRecordList')) = Kids(stored')
    BY <2>1, ReadKids
  <2>3. Now' = Table(stored', buffer', status', parentRecordList')
    BY DEF Now, Table
  <2> QED BY <2>2, <2>3
<1>3. CASE stored' = stored
  BY <1>1, <1>2, <1>3 DEF KidsFollow
<1>4. CASE status = "open"
  <2>1. Full(stored) /\ Followed
    BY <1>4, OpenState DEF Step
  <2>2. ASSUME NEW r \in RecordIds, Len(stored) < MaxNumRecords,
               stored' = InsertAt(stored, r + 2, Raw(MinChild + (r + 1)))
        PROVE  KidsFollow
    <3> DEFINE child == MinChild + (r + 1)
               len == Len(stored)
    <3>1. child \in ChildTables /\ MinChild + r + 1 = child
      <4>1. len \in 1..MaxNumRecords /\ r \in 0..(len - 1) /\ len < MaxNumRecords
        BY <2>1, <2>2 DEF Full, RecordIds
      <4> HIDE DEF len
      <4> QED BY <4>1, ConstantsType, SMT DEF ChildTables
    <3>2. Raw(child) \in Raws /\ ChildOf(Raw(child)) = child
      BY <3>1, RawOfChild DEF ValidRaws, Raws
    <3> HIDE DEF child
    <3>3. Kids(stored') = InsertAt(Kids(stored), r + 2, child)
      BY <2>1, <2>2, <3>2, KidsInserted DEF RecordIds, child
    <3> QED BY <1>1, <1>2, <3>1, <3>3 DEF KidsFollow
  <2>3. ASSUME NEW r \in RecordIds, stored' = RemoveAt(stored, r + 1)
        PROVE  KidsFollow
    <3>1. Kids(stored') = RemoveAt(Kids(stored), r + 1)
      BY <2>1, <2>3, KidsRemoved DEF RecordIds
    <3> QED BY <1>1, <1>2, <3>1 DEF KidsFollow
  <2>4. ASSUME NEW children \in ImportData, stored' = AllRaw(children)
        PROVE  KidsFollow
    <3>1. Kids(stored') = children
      BY <2>4, KidsImported, ParentChildAssumption DEF IsImported
    <3> QED BY <1>2, <3>1 DEF KidsFollow
  <2>5. ASSUME NEW r \in RecordIds, NEW raw \in Raws,
               CutDuringInsertion(r), stored' = InsertAt(stored, r + 2, raw)
        PROVE  KidsFollow
    <3>1. IsTornInsertion(Kids(stored'), Kids(stored), r + 2)
      BY <2>1, <2>5, KidsInserted DEF RecordIds, IsTornInsertion
    <3> QED BY <1>1, <1>2, <2>5, <3>1 DEF KidsFollow
  <2>6. ASSUME NEW children \in ImportData, CutDuringImport(children), PartOf(children, stored')
        PROVE  KidsFollow
    <3>1. IsTornImport(Kids(stored'), children)
      BY <2>6, KidsOfPart, ParentChildAssumption DEF IsImported
    <3> QED BY <1>2, <2>6, <3>1 DEF KidsFollow
  <2> QED BY <2>1, <1>3, <2>2, <2>3, <2>4, <2>5, <2>6, Zenon DEF Followed
<1> QED BY <1>3, <1>4 DEF Step, Running

(* Each record keeps its child table when others come and go in front of   *)
(* it, when the database is closed and opened, and when the power fails.   *)
(* As the records are read, an insertion puts one new child table in       *)
(* place, a deletion takes one out, an import brings the imported ones,    *)
(* and no other call changes any; a call that is cut leaves besides one    *)
(* record of any content in the place of the insertion, or the beginning   *)
(* of the import with two records of any content at most behind it.        *)
THEOREM SpecChildTablesFollow == Spec => ChildTablesFollow
<1>1. ParentInv /\ [Next]_vars =>
        [{status, status'} \subseteq {"open", "closed"} => KidsFollow]_vars
  BY NextStep, StepFollows DEF Running
<1>2. Spec => [][{status, status'} \subseteq {"open", "closed"} => KidsFollow]_vars
  BY <1>1, ParentInvHolds, PTL DEF Spec
<1> QED BY <1>2 DEF ChildTablesFollow, KidsFollow
=============================================================================
