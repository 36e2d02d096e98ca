------------------------- MODULE RecordBufferProofs --------------------------
(***************************************************************************)
(* Proofs about RecordBuffer for every capacity of the table, every range  *)
(* of the columns and every sequence of calls of the careful caller.       *)
(***************************************************************************)
EXTENDS RecordBuffer, Integers, Sequences, SequencesExt, WellFoundedInduction,
        SequenceTheorems, TLAPS

-----------------------------------------------------------------------------
(***************************************************************************)
(* Induction over numbers, as facts about sets of them: a theorem with an  *)
(* operator as its parameter cannot be applied by the provers, one with a  *)
(* set can.                                                                *)
(***************************************************************************)

(* A set of natural numbers has a least element.                           *)
LEMMA LeastElement ==
  ASSUME NEW T, T \subseteq Nat, T # {}
  PROVE  \E x \in T : \A y \in T : x <= y
<1> DEFINE R == OpToRel(<, Nat)
<1>1. IsWellFoundedOn(R, Nat)
  BY NatLessThanWellFounded
<1>2. \A x, y \in Nat : x < y => <<x, y>> \in R
  BY SMT DEF OpToRel
<1> HIDE DEF R
<1>3. PICK x \in T : \A y \in T : ~(<<y, x>> \in R)
  BY <1>1, WFMin
<1>4. ASSUME NEW y \in T
      PROVE  x <= y
  <2>1. x \in Nat /\ y \in Nat
    OBVIOUS
  <2>2. ~(y < x)
    BY <1>2, <1>3, <2>1
  <2> QED BY <2>1, <2>2, SMT
<1> QED BY <1>4

(* A set that holds zero, and with a number its successor, holds them all. *)
LEMMA SetInduction ==
  ASSUME NEW S, S \subseteq Nat, 0 \in S, \A n \in S : n + 1 \in S
  PROVE  S = Nat
<1> SUFFICES ASSUME Nat \ S # {} PROVE FALSE
  OBVIOUS
<1>1. PICK x \in Nat \ S : \A y \in Nat \ S : x <= y
  BY LeastElement
<1>2. x - 1 \in Nat /\ x - 1 < x
  BY <1>1, SMT
<1>3. x - 1 \in S
  BY <1>1, <1>2, SMT
<1> QED BY <1>1, <1>2, <1>3, SMT
-----------------------------------------------------------------------------
(***************************************************************************)
(* Insertion and removal in a sequence, element by element.                *)
(***************************************************************************)
WithInserted(s, i, e, j) == IF j < i THEN s[j] ELSE IF j = i THEN e ELSE s[j - 1]

LEMMA InsertAtEffect ==
  ASSUME NEW S, NEW s \in Seq(S), NEW i \in 1..(Len(s) + 1), NEW e \in S
  PROVE  /\ InsertAt(s, i, e) \in Seq(S)
         /\ Len(InsertAt(s, i, e)) = Len(s) + 1
         /\ \A j \in 1..(Len(s) + 1) : InsertAt(s, i, e)[j] = WithInserted(s, i, e, j)
<1> DEFINE a == SubSeq(s, 1, i - 1)
           b == SubSeq(s, i, Len(s))
           m == a \o <<e>>
           len == Len(s)
<1>1. len \in Nat /\ i \in Int /\ \A j \in 1..len : s[j] \in S
  BY LenProperties, ElementOfSeq
<1>2. a \in Seq(S) /\ Len(a) = i - 1 /\ \A j \in 1..(i - 1) : a[j] = s[j]
  <2>1. \A j \in 1..(i - 1) : s[j] \in S
    BY <1>1, SMT
  <2> QED BY <1>1, <2>1, SubSeqProperties, SMT
<1>3. b \in Seq(S) /\ Len(b) = len - i + 1 /\ \A j \in 1..(len - i + 1) : b[j] = s[i + j - 1]
  <2>1. \A j \in i..len : s[j] \in S
    BY <1>1, SMT
  <2>2. /\ b \in Seq(S) /\ Len(b) = IF i <= len THEN len - i + 1 ELSE 0
        /\ \A j \in 1..(len - i + 1) : b[j] = s[i + j - 1]
    BY <1>1, <2>1, SubSeqProperties
  <2>3. (IF i <= len THEN len - i + 1 ELSE 0) = len - i + 1
    BY <1>1, SMT
  <2> QED BY <2>2, <2>3
<1>4. <<e>> \in Seq(S) /\ Len(<<e>>) = 1 /\ <<e>>[1] = e
  OBVIOUS
<1>5. m \in Seq(S) /\ Len(m) = i
      /\ \A j \in 1..i : m[j] = IF j <= i - 1 THEN s[j] ELSE e
  <2> HIDE DEF a
  <2>1. m \in Seq(S) /\ Len(m) = Len(a) + 1
        /\ \A j \in 1..(Len(a) + 1) : m[j] = IF j <= Len(a) THEN a[j] ELSE <<e>>[j - Len(a)]
    BY <1>2, <1>4, ConcatProperties
  <2> HIDE DEF m
  <2>2. Len(a) = i - 1 /\ (i - 1) + 1 = i
    BY <1>1, <1>2, SMT
  <2>3. \A j \in 1..i : /\ j <= i - 1 => j \in 1..(i - 1)
                        /\ ~(j <= i - 1) => j - (i - 1) = 1
    BY <1>1, SMT
  <2>4. \A j \in 1..i : m[j] = IF j <= i - 1 THEN a[j] ELSE <<e>>[j - (i - 1)]
    BY <2>1, <2>2
  <2> QED BY <1>2, <1>4, <2>1, <2>2, <2>3, <2>4
<1>6. InsertAt(s, i, e) = m \o b
  BY DEF InsertAt
<1> HIDE DEF m, b
<1>7. m \o b \in Seq(S) /\ Len(m \o b) = Len(m) + Len(b)
      /\ \A j \in 1..(Len(m) + Len(b)) : (m \o b)[j] = IF j <= Len(m) THEN m[j] ELSE b[j - Len(m)]
  BY <1>3, <1>5, ConcatProperties
<1> DEFINE t == m \o b
<1> HIDE DEF t, len
<1>8. Len(t) = len + 1
  BY <1>1, <1>3, <1>5, <1>7, SMT DEF t
<1>9. ASSUME NEW j \in 1..(len + 1)
      PROVE  t[j] = IF j < i THEN s[j] ELSE IF j = i THEN e ELSE s[j - 1]
  <2>1. Len(m) + Len(b) = len + 1 /\ Len(m) = i
    BY <1>1, <1>3, <1>5, SMT DEF len
  <2>2. t[j] = IF j <= i THEN m[j] ELSE b[j - i]
    BY <1>7, <2>1 DEF t
  <2>3. CASE j <= i
    BY <1>1, <1>5, <2>2, <2>3, SMT
  <2>4. CASE j > i
    <3>1. j - i \in 1..(len - i + 1) /\ i + (j - i) - 1 = j - 1
      BY <1>1, <2>4, SMT
    <3>2. b[j - i] = s[j - 1]
      BY <1>3, <3>1 DEF len
    <3> QED BY <1>1, <2>2, <2>4, <3>2, SMT
  <2> QED BY <1>1, <2>3, <2>4, SMT
<1> QED BY <1>6, <1>7, <1>8, <1>9 DEF t, len, WithInserted

WithRemoved(s, i, j) == IF j < i THEN s[j] ELSE s[j + 1]

LEMMA RemoveAtEffect ==
  ASSUME NEW S, NEW s \in Seq(S), NEW i \in 1..Len(s)
  PROVE  /\ RemoveAt(s, i) \in Seq(S)
         /\ Len(RemoveAt(s, i)) = Len(s) - 1
         /\ \A j \in 1..(Len(s) - 1) : RemoveAt(s, i)[j] = WithRemoved(s, i, j)
<1> DEFINE a == SubSeq(s, 1, i - 1)
           b == SubSeq(s, i + 1, Len(s))
           len == Len(s)
           t == a \o b
<1>1. len \in Nat /\ i \in Int /\ \A j \in 1..len : s[j] \in S
  BY LenProperties, ElementOfSeq
<1>2. a \in Seq(S) /\ Len(a) = i - 1 /\ \A j \in 1..(i - 1) : a[j] = s[j]
  <2>1. \A j \in 1..(i - 1) : s[j] \in S
    BY <1>1, SMT
  <2> QED BY <1>1, <2>1, SubSeqProperties, SMT
<1>3. b \in Seq(S) /\ Len(b) = len - i /\ \A j \in 1..(len - i) : b[j] = s[i + j]
  <2>1. \A j \in (i + 1)..len : s[j] \in S
    BY <1>1, SMT
  <2>2. /\ b \in Seq(S) /\ Len(b) = IF i + 1 <= len THEN len - (i + 1) + 1 ELSE 0
        /\ \A j \in 1..(len - (i + 1) + 1) : b[j] = s[i + 1 + j - 1]
    BY <1>1, <2>1, SubSeqProperties
  <2>3. (IF i + 1 <= len THEN len - (i + 1) + 1 ELSE 0) = len - i /\ len - (i + 1) + 1 = len - i
        /\ \A j \in 1..(len - i) : i + 1 + j - 1 = i + j
    BY <1>1, SMT
  <2> QED BY <2>2, <2>3
<1>4. RemoveAt(s, i) = t
  BY DEF RemoveAt
<1> HIDE DEF a, b
<1>5. t \in Seq(S) /\ Len(t) = Len(a) + Len(b)
      /\ \A j \in 1..(Len(a) + Len(b)) : t[j] = IF j <= Len(a) THEN a[j] ELSE b[j - Len(a)]
  BY <1>2, <1>3, ConcatProperties
<1> HIDE DEF t, len
<1>6. Len(t) = len - 1
  BY <1>1, <1>2, <1>3, <1>5, SMT
<1>7. ASSUME NEW j \in 1..(len - 1)
      PROVE  t[j] = IF j < i THEN s[j] ELSE s[j + 1]
  <2>1. t[j] = IF j <= i - 1 THEN a[j] ELSE b[j - (i - 1)]
    BY <1>1, <1>2, <1>3, <1>5, SMT
  <2>2. CASE j < i
    BY <1>1, <1>2, <2>1, <2>2, SMT
  <2>3. CASE j >= i
    <3>1. j - (i - 1) \in 1..(len - i) /\ i + (j - (i - 1)) = j + 1
      BY <1>1, <2>3, SMT DEF len
    <3>2. b[j - (i - 1)] = s[j + 1]
      BY <1>3, <3>1
    <3> QED BY <1>1, <2>1, <2>3, <3>2, SMT
  <2> QED BY <1>1, <2>2, <2>3, SMT
<1> QED BY <1>4, <1>5, <1>6, <1>7 DEF len, WithRemoved

-----------------------------------------------------------------------------
Range2N == 2 ^ NumBits

LEMMA ConstantsType ==
  /\ MaxNumRecords \in Nat /\ 1 <= MaxNumRecords /\ MaxNumRecords <= 250
  /\ MinValue \in Nat /\ MaxValue \in Nat /\ DefaultVal \in Nat
  /\ MinValue <= DefaultVal /\ DefaultVal <= MaxValue
  /\ NO_RECORD_ID = 255
BY RecordBufferAssumption, SMT DEF NO_RECORD_ID

LEMMA RangeType == Range2N \in Nat /\ Range2N > 0 /\ Range2N > MaxValue - MinValue
<1>1. Range2N \in Int
  BY RecordBufferAssumption, Z3 DEF Range2N
<1>2. Range2N > MaxValue - MinValue
  BY RecordBufferAssumption DEF Range2N
<1> HIDE DEF Range2N
<1> QED BY <1>1, <1>2, ConstantsType, SMT

-----------------------------------------------------------------------------
(***************************************************************************)
(* The columns of a raw record.                                            *)
(***************************************************************************)
LEMMA ModSmall ==
  ASSUME NEW b \in Nat, NEW a \in 0..(b - 1)
  PROVE  a % b = a
BY SMT

LEMMA ModRange ==
  ASSUME NEW b \in Nat, b > 0, NEW a \in Int
  PROVE  a % b \in 0..(b - 1)
BY SMT

LEMMA EncodedType ==
  ASSUME NEW columns \in [Columns -> Int]
  PROVE  Encoded(columns) \in RawRecords
<1> SUFFICES ASSUME NEW c \in Columns PROVE (columns[c] - MinValue) % Range2N \in RawValues
  BY DEF Encoded, RawRecords, Range2N
<1>1. columns[c] - MinValue \in Int
  BY ConstantsType, SMT
<1> HIDE DEF Range2N
<1>2. (columns[c] - MinValue) % Range2N \in 0..(Range2N - 1)
  BY <1>1, RangeType, ModRange
<1> QED BY <1>2 DEF RawValues, Range2N

LEMMA DecodedEncoded ==
  ASSUME NEW columns \in Valid
  PROVE  Decoded(Encoded(columns)) = columns
<1>1. ASSUME NEW c \in Columns
      PROVE  ((columns[c] - MinValue) % Range2N) + MinValue = columns[c]
  <2>1. columns[c] \in MinValue..MaxValue
    BY DEF Valid
  <2>2. columns[c] - MinValue \in 0..(Range2N - 1)
    BY <2>1, ConstantsType, RangeType, SMT
  <2> HIDE DEF Range2N
  <2>3. (columns[c] - MinValue) % Range2N = columns[c] - MinValue
    BY <2>2, RangeType, ModSmall
  <2> QED BY <2>1, <2>3, ConstantsType, SMT
<1>2. \A c \in Columns : Decoded(Encoded(columns))[c] = columns[c]
  BY <1>1, Zenon DEF Decoded, Encoded, Range2N
<1> QED BY <1>2 DEF Decoded, Valid

LEMMA DecodedType ==
  ASSUME NEW raw \in RawRecords
  PROVE  Decoded(raw) \in Decodable
<1> SUFFICES ASSUME NEW c \in Columns
             PROVE  raw[c] + MinValue \in MinValue..(MinValue + Range2N - 1)
  BY DEF Decoded, Decodable, Range2N
<1>1. raw[c] \in 0..(Range2N - 1)
  BY DEF RawRecords, RawValues, Range2N
<1> HIDE DEF Range2N
<1> QED BY <1>1, RangeType, ConstantsType, SMT

LEMMA RecordSets ==
  /\ Valid \subseteq Decodable /\ Valid \subseteq Proposed /\ Defaults \in Valid
  /\ Decodable \subseteq [Columns -> Int] /\ Proposed \subseteq [Columns -> Int]
<1>1. MinValue..MaxValue \subseteq MinValue..(MinValue + Range2N - 1)
  BY ConstantsType, RangeType, SMT
<1>2. MinValue..MaxValue \subseteq MinValue..(MaxValue + 1) /\ DefaultVal \in MinValue..MaxValue
  BY ConstantsType, SMT
<1>3. MinValue..(MinValue + Range2N - 1) \subseteq Int /\ MinValue..(MaxValue + 1) \subseteq Int
  OBVIOUS
<1> QED BY <1>1, <1>2, <1>3 DEF Valid, Decodable, Proposed, Defaults, Range2N

-----------------------------------------------------------------------------
(***************************************************************************)
(* The helpers of the record buffer.                                       *)
(***************************************************************************)
Buffers ==
  [recordId : 0..(MaxNumRecords - 1) \union {NO_RECORD_ID}, isModified : BOOLEAN,
   columns : [Columns -> Int]]

Tables ==
  [stored : Seq(RawRecords), buffer : Buffers,
   status : {"creating", "open", "closed", "halted"}]

(* A buffer names a record that exists, or none.  It holds valid columns   *)
(* if it is marked as modified, and those of the stored record if not.     *)
BufferMatches(table) ==
  LET used == table.buffer IN
  /\ used.recordId = NO_RECORD_ID => ~used.isModified
  /\ used.recordId # NO_RECORD_ID =>
       /\ RecordExists(table, used.recordId)
       /\ used.isModified => used.columns \in Valid
       /\ ~used.isModified => used.columns = Decoded(table.stored[used.recordId + 1])

Readable(table) ==
  /\ table \in Tables
  /\ table.status = "open"
  /\ Len(table.stored) \in 1..MaxNumRecords
  /\ BufferMatches(table)

(* What the careful caller's calls leave behind.                           *)
AllValid(table) == \A n \in 1..Len(table.stored) : Decoded(table.stored[n]) \in Valid

(* What a caller reads of record r.                                        *)
ReadOf(table, r) ==
  IF table.buffer.recordId = r THEN table.buffer.columns ELSE Decoded(table.stored[r + 1])

LEMMA FieldsOfTable ==
  ASSUME NEW table \in Tables
  PROVE  /\ table.stored \in Seq(RawRecords) /\ Len(table.stored) \in Nat
         /\ table.buffer \in Buffers /\ table.buffer.recordId \in Nat
         /\ table.buffer.recordId \in 0..(MaxNumRecords - 1) \union {NO_RECORD_ID}
         /\ table.buffer.isModified \in BOOLEAN
         /\ table.buffer.columns \in [Columns -> Int]
<1>1. table.stored \in Seq(RawRecords) /\ table.buffer \in Buffers
  BY DEF Tables
<1>2. Len(table.stored) \in Nat
  BY <1>1, LenProperties
<1>3. /\ table.buffer.recordId \in 0..(MaxNumRecords - 1) \union {NO_RECORD_ID}
      /\ table.buffer.isModified \in BOOLEAN
      /\ table.buffer.columns \in [Columns -> Int]
  BY <1>1 DEF Buffers
<1>4. \A r \in 0..(MaxNumRecords - 1) \union {NO_RECORD_ID} : r \in Nat
  BY ConstantsType, SMT
<1> QED BY <1>1, <1>2, <1>3, <1>4

LEMMA BufferIsItsFields ==
  ASSUME NEW b \in Buffers
  PROVE  b = [recordId |-> b.recordId, isModified |-> b.isModified, columns |-> b.columns]
BY SMT DEF Buffers

LEMMA TableIsItsFields ==
  ASSUME NEW table \in Tables
  PROVE  table = [stored |-> table.stored, buffer |-> table.buffer, status |-> table.status]
BY SMT DEF Tables

LEMMA StoredOfTable ==
  ASSUME NEW table \in Tables, NEW s \in Seq(RawRecords)
  PROVE  LET next == [table EXCEPT !.stored = s] IN
         /\ next \in Tables /\ next.stored = s
         /\ next.buffer = table.buffer /\ next.status = table.status
BY SMT DEF Tables

LEMMA BufferOfTable ==
  ASSUME NEW table \in Tables, NEW b \in Buffers
  PROVE  LET next == [table EXCEPT !.buffer = b] IN
         /\ next \in Tables /\ next.buffer = b
         /\ next.stored = table.stored /\ next.status = table.status
BY SMT DEF Tables

(* A buffer that no longer stands for a record.                            *)
LEMMA BufferEmptied ==
  ASSUME NEW b \in Buffers
  PROVE  [b EXCEPT !.recordId = NO_RECORD_ID, !.isModified = FALSE]
           = [recordId |-> NO_RECORD_ID, isModified |-> FALSE, columns |-> b.columns]
<1> DEFINE b1 == [b EXCEPT !.recordId = NO_RECORD_ID]
           b2 == [b1 EXCEPT !.isModified = FALSE]
<1>1. b1 \in Buffers /\ b1.recordId = NO_RECORD_ID /\ b1.columns = b.columns
  BY SMT DEF Buffers
<1> HIDE DEF b1
<1>2. b2 \in Buffers
  BY <1>1 DEF Buffers
<1>3. b2.isModified = FALSE
  BY <1>1 DEF Buffers
<1>4. b2.recordId = b1.recordId /\ b2.columns = b1.columns
  BY <1>1, SMT DEF Buffers
<1>5. [b EXCEPT !.recordId = NO_RECORD_ID, !.isModified = FALSE] = b2
  BY DEF b1
<1> HIDE DEF b2
<1>6. b2 = [recordId |-> b2.recordId, isModified |-> b2.isModified, columns |-> b2.columns]
  BY <1>2, BufferIsItsFields
<1> QED BY <1>1, <1>3, <1>4, <1>5, <1>6

(* storeRecordBuffer() on a record that exists.                            *)
LEMMA StoreRecordBufferEffect ==
  ASSUME NEW table \in Tables, RecordExists(table, table.buffer.recordId)
  PROVE  LET next == StoreRecordBuffer(table) IN
         /\ next \in Tables
         /\ next.buffer = table.buffer /\ next.status = table.status
         /\ Len(next.stored) = Len(table.stored)
         /\ \A n \in 1..Len(table.stored) :
              next.stored[n] = IF n = table.buffer.recordId + 1 THEN Encoded(table.buffer.columns)
                               ELSE table.stored[n]
<1> DEFINE i == table.buffer.recordId + 1
           raw == Encoded(table.buffer.columns)
           s == [table.stored EXCEPT ![i] = raw]
           next == [table EXCEPT !.stored = s]
<1>1. StoreRecordBuffer(table) = next
  BY DEF StoreRecordBuffer
<1>2. table.stored \in Seq(RawRecords) /\ raw \in RawRecords
  BY FieldsOfTable, EncodedType
<1>3. i \in 1..Len(table.stored)
  <2> DEFINE r == table.buffer.recordId
             len == Len(table.stored)
  <2>1. r \in Nat /\ len \in Nat /\ r < len
    BY FieldsOfTable DEF RecordExists
  <2> HIDE DEF r, len
  <2>2. r + 1 \in 1..len
    BY <2>1, SMT
  <2> QED BY <2>2 DEF r, len
<1>4. /\ s \in Seq(RawRecords) /\ Len(s) = Len(table.stored)
      /\ \A n \in 1..Len(table.stored) : s[n] = IF n = i THEN raw ELSE table.stored[n]
  <2> DEFINE stored1 == table.stored
  <2> HIDE DEF i, raw, stored1
  <2>1. stored1 \in Seq(RawRecords) /\ i \in 1..Len(stored1)
    BY <1>2, <1>3 DEF stored1
  <2>2. /\ [stored1 EXCEPT ![i] = raw] \in Seq(RawRecords)
        /\ Len([stored1 EXCEPT ![i] = raw]) = Len(stored1)
        /\ \A n \in 1..Len(stored1) : [stored1 EXCEPT ![i] = raw][n] = IF n = i THEN raw ELSE stored1[n]
    BY <1>2, <2>1, ExceptSeq
  <2> QED BY <2>2 DEF stored1
<1> HIDE DEF s
<1>5. /\ next \in Tables /\ next.stored = s
      /\ next.buffer = table.buffer /\ next.status = table.status
  BY <1>4, StoredOfTable
<1> HIDE DEF next
<1> QED BY <1>1, <1>4, <1>5

LEMMA ReadableBuffer ==
  ASSUME NEW table, Readable(table)
  PROVE  /\ table \in Tables /\ table.status = "open" /\ Len(table.stored) \in 1..MaxNumRecords
         /\ table.buffer.isModified =>
              RecordExists(table, table.buffer.recordId) /\ table.buffer.columns \in Valid
         /\ RecordExists(table, table.buffer.recordId) => table.buffer.recordId # NO_RECORD_ID
         /\ table.buffer.recordId # NO_RECORD_ID => RecordExists(table, table.buffer.recordId)
<1>1. /\ table \in Tables /\ table.status = "open" /\ Len(table.stored) \in 1..MaxNumRecords
      /\ BufferMatches(table)
  BY DEF Readable
<1>2. RecordExists(table, table.buffer.recordId) => table.buffer.recordId # NO_RECORD_ID
  <2> DEFINE r == table.buffer.recordId
             len == Len(table.stored)
  <2> SUFFICES ASSUME RecordExists(table, r) PROVE r # NO_RECORD_ID
    OBVIOUS
  <2>1. r < len /\ len \in 1..MaxNumRecords
    BY <1>1 DEF RecordExists
  <2> HIDE DEF r, len
  <2> QED BY <2>1, ConstantsType, SMT
<1> QED BY <1>1, <1>2 DEF BufferMatches

LEMMA RecordNumbers ==
  ASSUME NEW table, Readable(table), NEW r \in 0..(Len(table.stored) - 1)
  PROVE  /\ r + 1 \in 1..Len(table.stored) /\ r < Len(table.stored) /\ r # NO_RECORD_ID
         /\ r \in 0..(MaxNumRecords - 1)
<1> DEFINE len == Len(table.stored)
<1>1. len \in 1..MaxNumRecords /\ r \in 0..(len - 1)
  BY DEF Readable
<1> HIDE DEF len
<1>2. r + 1 \in 1..len /\ r < len /\ r # NO_RECORD_ID /\ r \in 0..(MaxNumRecords - 1)
  BY <1>1, ConstantsType, SMT
<1> QED BY <1>2 DEF len

LEMMA ReadIsValid ==
  ASSUME NEW table, Readable(table), AllValid(table), NEW r \in 0..(Len(table.stored) - 1)
  PROVE  ReadOf(table, r) \in Valid
<1>1. Decoded(table.stored[r + 1]) \in Valid
  BY RecordNumbers DEF AllValid
<1>2. CASE table.buffer.recordId = r
  <2>1. r # NO_RECORD_ID /\ BufferMatches(table)
    BY RecordNumbers DEF Readable
  <2> QED BY <1>1, <1>2, <2>1 DEF BufferMatches, ReadOf
<1>3. CASE table.buffer.recordId # r
  BY <1>1, <1>3 DEF ReadOf
<1> QED BY <1>2, <1>3

(* writeRecordBufferIfDirty() stores what a caller reads.                  *)
LEMMA WriteBack ==
  ASSUME NEW table, Readable(table)
  PROVE  LET written == WriteRecordBufferIfDirty(table) IN
         /\ Readable(written)
         /\ written.buffer = table.buffer
         /\ Len(written.stored) = Len(table.stored)
         /\ \A r \in 0..(Len(table.stored) - 1) :
              /\ Decoded(written.stored[r + 1]) = ReadOf(table, r)
              /\ ReadOf(written, r) = ReadOf(table, r)
<1> DEFINE written == WriteRecordBufferIfDirty(table)
           used == table.buffer
           len == Len(table.stored)
<1>1. /\ table \in Tables /\ table.status = "open" /\ len \in 1..MaxNumRecords
      /\ BufferMatches(table) /\ used.isModified \in BOOLEAN
  BY FieldsOfTable DEF Readable
<1>2. CASE ~used.isModified
  <2>1. written = table
    BY <1>2 DEF WriteRecordBufferIfDirty
  <2>2. \A r \in 0..(len - 1) : Decoded(table.stored[r + 1]) = ReadOf(table, r)
    <3> SUFFICES ASSUME NEW r \in 0..(len - 1), used.recordId = r
                 PROVE  Decoded(table.stored[r + 1]) = used.columns
      BY DEF ReadOf
    <3>1. r # NO_RECORD_ID
      BY RecordNumbers
    <3> QED BY <1>1, <1>2, <3>1 DEF BufferMatches
  <2> QED BY <2>1, <2>2
<1>3. CASE used.isModified
  <2>1. RecordExists(table, used.recordId) /\ used.recordId # NO_RECORD_ID /\ used.columns \in Valid
    BY <1>3, ReadableBuffer
  <2>2. /\ written \in Tables /\ written.buffer = used /\ written.status = "open"
        /\ Len(written.stored) = len
        /\ \A n \in 1..len :
             written.stored[n] = IF n = used.recordId + 1 THEN Encoded(used.columns)
                                 ELSE table.stored[n]
    BY <1>1, <1>3, <2>1, StoreRecordBufferEffect DEF WriteRecordBufferIfDirty
  <2>3. Decoded(Encoded(used.columns)) = used.columns
    BY <2>1, DecodedEncoded
  <2> HIDE DEF written
  <2>4. BufferMatches(written)
    BY <1>1, <1>3, <2>1, <2>2 DEF BufferMatches, RecordExists
  <2>5. ASSUME NEW r \in 0..(len - 1)
        PROVE  Decoded(written.stored[r + 1]) = ReadOf(table, r)
    <3>1. r + 1 \in 1..len /\ (r + 1 = used.recordId + 1 <=> used.recordId = r)
      <4> DEFINE id == used.recordId
      <4>1. id \in Nat
        BY <1>1, FieldsOfTable
      <4> HIDE DEF len, id
      <4>2. r + 1 \in 1..len /\ (r + 1 = id + 1 <=> id = r)
        BY <1>1, <4>1, ConstantsType, SMT
      <4> QED BY <4>2 DEF id, len
    <3> QED BY <2>2, <2>3, <3>1 DEF ReadOf
  <2>6. ASSUME NEW r \in 0..(len - 1)
        PROVE  ReadOf(written, r) = ReadOf(table, r)
    BY <2>2, <2>5 DEF ReadOf
  <2>7. Readable(written)
    BY <1>1, <2>2, <2>4 DEF Readable
  <2> QED BY <2>2, <2>5, <2>6, <2>7 DEF written
<1> QED BY <1>1, <1>2, <1>3

(* A table whose stored records are those that another one reads.          *)
LEMMA StoredReadsValid ==
  ASSUME NEW table, Readable(table), AllValid(table), NEW next,
         Len(next.stored) = Len(table.stored),
         \A r \in 0..(Len(table.stored) - 1) : Decoded(next.stored[r + 1]) = ReadOf(table, r)
  PROVE  AllValid(next)
<1> SUFFICES ASSUME NEW n \in 1..Len(table.stored) PROVE Decoded(next.stored[n]) \in Valid
  BY DEF AllValid
<1>1. n - 1 \in 0..(Len(table.stored) - 1) /\ n - 1 + 1 = n
  <2> DEFINE len == Len(table.stored)
  <2>1. len \in Nat /\ n \in 1..len
    BY FieldsOfTable DEF Readable
  <2> HIDE DEF len
  <2>2. n - 1 \in 0..(len - 1) /\ n - 1 + 1 = n
    BY <2>1, SMT
  <2> QED BY <2>2 DEF len
<1>2. ReadOf(table, n - 1) \in Valid
  BY <1>1, ReadIsValid
<1>3. Decoded(next.stored[n - 1 + 1]) = ReadOf(table, n - 1)
  BY <1>1
<1> QED BY <1>1, <1>2, <1>3

(* A record that has just been read from the list or copied into the       *)
(* buffer.                                                                 *)
LEMMA ReplaceBuffer ==
  ASSUME NEW table, Readable(table),
         NEW b \in Buffers, BufferMatches([table EXCEPT !.buffer = b])
  PROVE  LET next == [table EXCEPT !.buffer = b] IN
         Readable(next) /\ next.buffer = b /\ next.stored = table.stored
<1> DEFINE next == [table EXCEPT !.buffer = b]
<1>1. /\ next \in Tables /\ next.buffer = b
      /\ next.stored = table.stored /\ next.status = table.status
  BY BufferOfTable DEF Readable
<1>2. BufferMatches(next)
  OBVIOUS
<1> HIDE DEF next
<1>3. Readable(next)
  BY <1>1, <1>2 DEF Readable
<1> QED BY <1>1, <1>3 DEF next

(* fillRecordBuffer() on a record that exists: the caller reads the same,  *)
(* and when it changes records, all it reads is stored.                    *)
LEMMA FillEffect ==
  ASSUME NEW table, Readable(table), NEW r \in 0..(Len(table.stored) - 1)
  PROVE  LET filled == FillRecordBuffer(table, r) IN
         /\ Readable(filled) /\ filled.status # "halted"
         /\ filled.buffer.recordId = r
         /\ filled.buffer.columns = ReadOf(table, r)
         /\ Len(filled.stored) = Len(table.stored)
         /\ \A n \in 0..(Len(table.stored) - 1) : ReadOf(filled, n) = ReadOf(table, n)
         /\ \/ filled = table
            \/ \A n \in 0..(Len(table.stored) - 1) :
                 Decoded(filled.stored[n + 1]) = ReadOf(table, n)
<1> DEFINE written == WriteRecordBufferIfDirty(table)
           b == [recordId |-> r, isModified |-> FALSE, columns |-> Decoded(written.stored[r + 1])]
           next == [written EXCEPT !.buffer = b]
           len == Len(table.stored)
<1>1. /\ Readable(written) /\ written.buffer = table.buffer /\ Len(written.stored) = len
      /\ \A n \in 0..(len - 1) :
           /\ Decoded(written.stored[n + 1]) = ReadOf(table, n)
           /\ ReadOf(written, n) = ReadOf(table, n)
  BY WriteBack
<1>2. table.status = "open" /\ written.status = "open" /\ len \in 1..MaxNumRecords
  BY <1>1 DEF Readable
<1>3. CASE table.buffer.recordId = r
  <2>1. FillRecordBuffer(table, r) = table
    BY <1>3, Zenon DEF FillRecordBuffer
  <2>2. ReadOf(table, r) = table.buffer.columns
    BY <1>3 DEF ReadOf
  <2> QED BY <1>2, <1>3, <2>1, <2>2
<1>4. CASE table.buffer.recordId # r
  <2> HIDE DEF written
  <2>1. r + 1 \in 1..len /\ r < len /\ r \in 0..(MaxNumRecords - 1) /\ r # NO_RECORD_ID
    BY RecordNumbers
  <2>2. RecordExists(written, r)
    BY <1>1, <2>1 DEF RecordExists
  <2>3. FillRecordBuffer(table, r) = next
    BY <1>2, <1>4, <2>2, Zenon DEF FillRecordBuffer, written
  <2>4. Decoded(written.stored[r + 1]) \in Decodable
    <3> DEFINE raw == written.stored[r + 1]
    <3>1. raw \in RawRecords
      BY <1>1, <2>1, FieldsOfTable, ElementOfSeq DEF Readable
    <3> HIDE DEF raw
    <3>2. Decoded(raw) \in Decodable
      BY <3>1, DecodedType
    <3> QED BY <3>2 DEF raw
  <2>5. b \in Buffers
    BY <2>1, <2>4, RecordSets DEF Buffers
  <2>6. /\ next.buffer = b /\ next.stored = written.stored
    BY <1>1, <2>5, BufferOfTable DEF Readable
  <2>7. BufferMatches(next)
    BY <1>1, <2>1, <2>6 DEF BufferMatches, RecordExists
  <2>8. Readable(next)
    BY <1>1, <2>5, <2>7, ReplaceBuffer
  <2> HIDE DEF next
  <2>9. next.status # "halted"
    BY <2>8 DEF Readable
  <2>10. Len(next.stored) = len /\ next.buffer.recordId = r
         /\ next.buffer.columns = Decoded(next.stored[r + 1])
    BY <1>1, <2>6
  <2>11. \A n \in 0..(len - 1) : ReadOf(next, n) = Decoded(next.stored[n + 1])
    BY <2>10, Zenon DEF ReadOf
  <2>12. \A n \in 0..(len - 1) : Decoded(next.stored[n + 1]) = ReadOf(table, n)
    BY <1>1, <2>6, Zenon
  <2> QED BY <2>3, <2>8, <2>9, <2>10, <2>11, <2>12
<1> QED BY <1>3, <1>4

(* setValue() on the record in the buffer.                                 *)
LEMMA ModifiedEffect ==
  ASSUME NEW table, Readable(table), table.buffer.recordId # NO_RECORD_ID,
         table.buffer.columns \in Valid, NEW c \in Columns, NEW value \in MinValue..MaxValue
  PROVE  LET next == Modified(table, c, value) IN
         /\ Readable(next)
         /\ next.stored = table.stored
         /\ next.buffer.recordId = table.buffer.recordId
         /\ next.buffer.columns = [table.buffer.columns EXCEPT ![c] = value]
<1> DEFINE cols == [table.buffer.columns EXCEPT ![c] = value]
           b == [recordId |-> table.buffer.recordId, isModified |-> TRUE, columns |-> cols]
           next == [table EXCEPT !.buffer = b]
<1>1. table \in Tables /\ BufferMatches(table) /\ RecordExists(table, table.buffer.recordId)
      /\ table.buffer.columns \in Valid
  BY ReadableBuffer DEF Readable
<1>2. cols \in Valid
  BY <1>1, SMT DEF Valid
<1>3. b \in Buffers
  BY <1>1, <1>2, FieldsOfTable, RecordSets DEF Buffers
<1>4. next.buffer = b /\ next.stored = table.stored
  BY <1>1, <1>3, BufferOfTable
<1>5. BufferMatches(next)
  BY <1>1, <1>2, <1>4 DEF BufferMatches, RecordExists
<1>6. Readable(next)
  BY <1>3, <1>5, ReplaceBuffer
<1>7. Modified(table, c, value) = next
  <2> DEFINE b1 == [table.buffer EXCEPT !.columns = cols]
             t1 == [table EXCEPT !.buffer = b1]
  <2>1. table.buffer \in Buffers /\ cols \in [Columns -> Int]
    BY <1>1, <1>2, FieldsOfTable, RecordSets
  <2>2. b1 \in Buffers
    BY <2>1, SMT DEF Buffers
  <2>3. [b1 EXCEPT !.isModified = TRUE] = b
    <3>1. /\ [b1 EXCEPT !.isModified = TRUE] \in Buffers
          /\ [b1 EXCEPT !.isModified = TRUE].recordId = table.buffer.recordId
          /\ [b1 EXCEPT !.isModified = TRUE].isModified = TRUE
          /\ [b1 EXCEPT !.isModified = TRUE].columns = cols
      <4>1. b1 \in Buffers /\ b1.recordId = table.buffer.recordId /\ b1.columns = cols
        BY <2>1, SMT DEF Buffers
      <4> HIDE DEF b1
      <4>2. [b1 EXCEPT !.isModified = TRUE] \in Buffers
        BY <4>1 DEF Buffers
      <4>3. [b1 EXCEPT !.isModified = TRUE].isModified = TRUE
        BY <4>1 DEF Buffers
      <4>4. [b1 EXCEPT !.isModified = TRUE].recordId = b1.recordId
            /\ [b1 EXCEPT !.isModified = TRUE].columns = b1.columns
        BY <4>1 DEF Buffers
      <4> QED BY <4>1, <4>2, <4>3, <4>4
    <3> DEFINE b2 == [b1 EXCEPT !.isModified = TRUE]
    <3> HIDE DEF b2
    <3>2. b2 = [recordId |-> b2.recordId, isModified |-> b2.isModified, columns |-> b2.columns]
      BY <3>1, BufferIsItsFields DEF b2
    <3>3. b2 = b
      BY <3>1, <3>2 DEF b2
    <3> QED BY <3>3 DEF b2
  <2>4. t1 \in Tables /\ t1.buffer = b1
    BY <1>1, <2>2, BufferOfTable
  <2>5. Modified(table, c, value) = [[table EXCEPT !.buffer.columns[c] = value]
                                       EXCEPT !.buffer.isModified = TRUE]
    BY DEF Modified
  <2>6. [table EXCEPT !.buffer.columns[c] = value] = t1
    OBVIOUS
  <2> HIDE DEF b1
  <2>7. [t1 EXCEPT !.buffer = b] = next
    <3> DEFINE t2 == [t1 EXCEPT !.buffer = b]
    <3>1. /\ t2 \in Tables /\ next \in Tables
          /\ t2.stored = next.stored /\ t2.status = next.status
          /\ t2.buffer = b /\ next.buffer = b
      <4>1. /\ t1 \in Tables /\ t1.stored = table.stored /\ t1.status = table.status
            /\ next \in Tables /\ next.stored = table.stored /\ next.status = table.status
            /\ next.buffer = b
        BY <1>1, <1>3, <2>2, BufferOfTable
      <4> HIDE DEF t1, next, b
      <4>2. t2 \in Tables /\ t2.stored = t1.stored /\ t2.status = t1.status /\ t2.buffer = b
        BY <1>3, <4>1, BufferOfTable
      <4> QED BY <4>1, <4>2
    <3> HIDE DEF t1, t2, next, b
    <3>2. t2 = next
      <4>1. /\ t2 = [stored |-> t2.stored, buffer |-> t2.buffer, status |-> t2.status]
            /\ next = [stored |-> next.stored, buffer |-> next.buffer, status |-> next.status]
        BY <3>1, TableIsItsFields
      <4> QED BY <3>1, <4>1
    <3> QED BY <3>2 DEF t2
  <2>8. [t1 EXCEPT !.buffer.isModified = TRUE] = [t1 EXCEPT !.buffer = b]
    <3> HIDE DEF t1
    <3>1. [t1 EXCEPT !.buffer.isModified = TRUE]
            = [t1 EXCEPT !.buffer = [t1.buffer EXCEPT !.isModified = TRUE]]
      OBVIOUS
    <3> QED BY <2>3, <2>4, <3>1
  <2> QED BY <2>5, <2>6, <2>7, <2>8
<1> QED BY <1>4, <1>6, <1>7

(* BDB_setRecord() on a record that exists: all the caller read before is  *)
(* stored, and the data is in the buffer if it is valid.                   *)
LEMMA SetRecordEffect ==
  ASSUME NEW table, Readable(table), NEW r \in 0..(Len(table.stored) - 1),
         NEW data \in [Columns -> Int]
  PROVE  LET next == SetRecordIn(table, r, data) IN
         /\ Readable(next)
         /\ Len(next.stored) = Len(table.stored)
         /\ next.buffer.columns = data
         /\ next.buffer.recordId = IF data \in Valid THEN r ELSE NO_RECORD_ID
         /\ \A n \in 0..(Len(table.stored) - 1) :
              /\ Decoded(next.stored[n + 1]) = ReadOf(table, n)
              /\ ReadOf(next, n) = IF data \in Valid /\ n = r THEN data ELSE ReadOf(table, n)
<1> DEFINE written == WriteRecordBufferIfDirty(table)
           good == [recordId |-> r, isModified |-> TRUE, columns |-> data]
           bad  == [recordId |-> NO_RECORD_ID, isModified |-> FALSE, columns |-> data]
           len == Len(table.stored)
<1>1. /\ Readable(written) /\ Len(written.stored) = len
      /\ \A n \in 0..(len - 1) : Decoded(written.stored[n + 1]) = ReadOf(table, n)
  BY WriteBack
<1>2. written \in Tables /\ written.status = "open"
  BY <1>1 DEF Readable
<1>3. r \in 0..(MaxNumRecords - 1) /\ r < len /\ r # NO_RECORD_ID
  BY RecordNumbers
<1>4. good \in Buffers /\ bad \in Buffers
  BY <1>3 DEF Buffers
<1>5. CASE data \in Valid
  <2> DEFINE next == [written EXCEPT !.buffer = good]
  <2>1. SetRecordIn(table, r, data) = next
    BY <1>2, <1>5 DEF SetRecordIn
  <2> HIDE DEF written
  <2>2. next.buffer = good /\ next.stored = written.stored
    BY <1>2, <1>4, BufferOfTable
  <2>3. BufferMatches(next)
    BY <1>1, <1>3, <1>5, <2>2 DEF BufferMatches, RecordExists
  <2>4. Readable(next)
    BY <1>1, <1>4, <2>3, ReplaceBuffer
  <2> HIDE DEF next
  <2>5. \A n \in 0..(len - 1) : ReadOf(next, n) = IF n = r THEN data ELSE ReadOf(table, n)
    BY <1>1, <2>2 DEF ReadOf
  <2> QED BY <1>1, <1>5, <2>1, <2>2, <2>4, <2>5
<1>6. CASE data \notin Valid
  <2> DEFINE next == [written EXCEPT !.buffer = bad]
  <2>1. SetRecordIn(table, r, data) = next
    <3>1. [good EXCEPT !.recordId = NO_RECORD_ID, !.isModified = FALSE] = bad
      BY <1>4, BufferEmptied
    <3> HIDE DEF written, bad
    <3>2. SetRecordIn(table, r, data)
            = [written EXCEPT !.buffer =
                 [good EXCEPT !.recordId = NO_RECORD_ID, !.isModified = FALSE]]
      BY <1>2, <1>6, Zenon DEF SetRecordIn, written
    <3> QED BY <3>1, <3>2
  <2> HIDE DEF written
  <2>2. next.buffer = bad /\ next.stored = written.stored
    BY <1>2, <1>4, BufferOfTable
  <2>3. BufferMatches(next)
    BY <2>2 DEF BufferMatches
  <2>4. Readable(next)
    BY <1>1, <1>4, <2>3, ReplaceBuffer
  <2> HIDE DEF next
  <2>5. \A n \in 0..(len - 1) : n # NO_RECORD_ID
    BY RecordNumbers
  <2>6. \A n \in 0..(len - 1) : ReadOf(next, n) = ReadOf(table, n)
    BY <1>1, <2>2, <2>5 DEF ReadOf
  <2> QED BY <1>1, <1>6, <2>1, <2>2, <2>4, <2>6
<1> QED BY <1>5, <1>6

-----------------------------------------------------------------------------
(***************************************************************************)
(* Insertion of a record with default values.                              *)
(***************************************************************************)
LEMMA BufferTwice ==
  ASSUME NEW table \in Tables, NEW b1 \in Buffers, NEW b2 \in Buffers
  PROVE  [[table EXCEPT !.buffer = b1] EXCEPT !.buffer = b2] = [table EXCEPT !.buffer = b2]
<1> DEFINE t1 == [table EXCEPT !.buffer = b1]
           t2 == [t1 EXCEPT !.buffer = b2]
           next == [table EXCEPT !.buffer = b2]
<1>1. /\ t1 \in Tables /\ t1.stored = table.stored /\ t1.status = table.status
      /\ next \in Tables /\ next.stored = table.stored /\ next.status = table.status
      /\ next.buffer = b2
  BY BufferOfTable
<1> HIDE DEF t1, next
<1>2. t2 \in Tables /\ t2.stored = t1.stored /\ t2.status = t1.status /\ t2.buffer = b2
  BY <1>1, BufferOfTable
<1> HIDE DEF t2
<1>3. /\ t2 = [stored |-> t2.stored, buffer |-> t2.buffer, status |-> t2.status]
      /\ next = [stored |-> next.stored, buffer |-> next.buffer, status |-> next.status]
  BY <1>1, <1>2, TableIsItsFields
<1>4. t2 = next
  BY <1>1, <1>2, <1>3
<1> QED BY <1>4 DEF t1, t2, next

Renamed(table, r, columns) == [table EXCEPT !.buffer.recordId = r, !.buffer.columns = columns]

LEMMA BufferRenamed ==
  ASSUME NEW table \in Tables, NEW r \in 0..(MaxNumRecords - 1), NEW columns \in [Columns -> Int]
  PROVE  Renamed(table, r, columns)
           = [table EXCEPT !.buffer = [recordId |-> r, isModified |-> table.buffer.isModified,
                                       columns |-> columns]]
<1> DEFINE used == table.buffer
           b1 == [used EXCEPT !.recordId = r]
           b2 == [b1 EXCEPT !.columns = columns]
           t1 == [table EXCEPT !.buffer = b1]
<1>1. used \in Buffers
  BY FieldsOfTable
<1>2. b1 \in Buffers /\ b1.recordId = r /\ b1.isModified = used.isModified
  <2> HIDE DEF used
  <2> QED BY <1>1, SMT DEF Buffers
<1>3. b2 \in Buffers
  <2> HIDE DEF b1
  <2> QED BY <1>2 DEF Buffers
<1>4. b2.columns = columns /\ b2.recordId = b1.recordId /\ b2.isModified = b1.isModified
  <2> HIDE DEF b1
  <2> QED BY <1>2, SMT DEF Buffers
<1>5. b2 = [recordId |-> r, isModified |-> used.isModified, columns |-> columns]
  <2> HIDE DEF b2
  <2>1. b2 = [recordId |-> b2.recordId, isModified |-> b2.isModified, columns |-> b2.columns]
    BY <1>3, BufferIsItsFields
  <2> QED BY <1>2, <1>4, <2>1
<1>6. t1 \in Tables /\ t1.buffer = b1
  BY <1>2, BufferOfTable
<1>7. [table EXCEPT !.buffer.recordId = r] = t1
  OBVIOUS
<1> HIDE DEF b1, t1
<1>8. [t1 EXCEPT !.buffer.columns = columns] = [t1 EXCEPT !.buffer = [t1.buffer EXCEPT !.columns = columns]]
  OBVIOUS
<1>9. [t1 EXCEPT !.buffer = b2] = [table EXCEPT !.buffer = b2]
  BY <1>2, <1>3, BufferTwice DEF t1
<1>10. [t1 EXCEPT !.buffer.columns = columns] = [table EXCEPT !.buffer = b2]
  BY <1>6, <1>8, <1>9
<1>11. [table EXCEPT !.buffer.recordId = r, !.buffer.columns = columns]
         = [[table EXCEPT !.buffer.recordId = r] EXCEPT !.buffer.columns = columns]
  OBVIOUS
<1> HIDE DEF b2
<1> QED BY <1>5, <1>7, <1>10, <1>11 DEF Renamed

(* setColumnsToDefaultValue(): a modified buffer goes to its record first. *)
LEMMA SetToDefaultEffect ==
  ASSUME NEW table \in Tables, table.status = "open",
         table.buffer.isModified => RecordExists(table, table.buffer.recordId),
         NEW r \in 0..(MaxNumRecords - 1), RecordExists(table, r)
  PROVE  LET next == SetToDefault(table, r) IN
         /\ next \in Tables /\ next.status = "open"
         /\ next.buffer = [recordId |-> r, isModified |-> table.buffer.isModified,
                           columns |-> Defaults]
         /\ Len(next.stored) = Len(table.stored)
         /\ \A n \in 1..Len(table.stored) :
              next.stored[n] = IF n = r + 1 THEN Encoded(Defaults)
                               ELSE IF table.buffer.isModified /\ n = table.buffer.recordId + 1
                               THEN Encoded(table.buffer.columns)
                               ELSE table.stored[n]
<1> DEFINE written == WriteRecordBufferIfDirty(table)
           used == table.buffer
           b == [recordId |-> r, isModified |-> used.isModified, columns |-> Defaults]
           mid == [written EXCEPT !.buffer = b]
           next == StoreRecordBuffer(mid)
           len == Len(table.stored)
<1>1. /\ written \in Tables /\ written.status = "open" /\ written.buffer = used
      /\ Len(written.stored) = len
      /\ \A n \in 1..len : written.stored[n] =
           IF used.isModified /\ n = used.recordId + 1 THEN Encoded(used.columns)
           ELSE table.stored[n]
  <2>1. CASE used.isModified
    BY <2>1, StoreRecordBufferEffect DEF WriteRecordBufferIfDirty
  <2>2. CASE ~used.isModified
    BY <2>2 DEF WriteRecordBufferIfDirty
  <2> QED BY <2>1, <2>2
<1>2. Defaults \in [Columns -> Int]
  BY RecordSets
<1>3. b \in Buffers
  BY <1>2, FieldsOfTable DEF Buffers
<1> HIDE DEF written
<1>4. [written EXCEPT !.buffer.recordId = r, !.buffer.columns = Defaults] = mid
  <2> DEFINE b1 == [recordId |-> r, isModified |-> written.buffer.isModified,
                    columns |-> Defaults]
  <2>1. Renamed(written, r, Defaults) = [written EXCEPT !.buffer = b1]
    BY <1>1, <1>2, BufferRenamed
  <2>2. b1 = b
    BY <1>1
  <2> HIDE DEF b1, b
  <2>3. [written EXCEPT !.buffer.recordId = r, !.buffer.columns = Defaults]
          = Renamed(written, r, Defaults)
    BY DEF Renamed
  <2> QED BY <2>1, <2>2, <2>3
<1>5. SetToDefault(table, r) = next
  <2>1. SetToDefault(table, r)
          = StoreRecordBuffer([written EXCEPT !.buffer.recordId = r, !.buffer.columns = Defaults])
    BY <1>1, Zenon DEF SetToDefault, written
  <2> QED BY <1>4, <2>1
<1>6. /\ mid \in Tables /\ mid.buffer = b /\ mid.stored = written.stored
      /\ mid.status = written.status
  BY <1>1, <1>3, BufferOfTable
<1> HIDE DEF mid
<1>7. RecordExists(mid, mid.buffer.recordId)
  BY <1>1, <1>6 DEF RecordExists
<1>8. /\ next \in Tables /\ next.buffer = b /\ next.status = "open"
      /\ Len(next.stored) = len
      /\ \A n \in 1..len :
           next.stored[n] = IF n = r + 1 THEN Encoded(Defaults) ELSE written.stored[n]
  BY <1>1, <1>6, <1>7, StoreRecordBufferEffect
<1> HIDE DEF next
<1>9. \A n \in 1..len :
        next.stored[n] = IF n = r + 1 THEN Encoded(Defaults)
                         ELSE IF used.isModified /\ n = used.recordId + 1
                         THEN Encoded(used.columns)
                         ELSE table.stored[n]
  BY <1>1, <1>8, Zenon
<1> QED BY <1>5, <1>8, <1>9

(* What follows BDB_insertRecordAfter()'s check of the number of records.  *)
Inserted(table, r, raw) ==
  LET written == WriteRecordBufferIfDirty(table) IN
  SetToDefault([written EXCEPT !.stored = InsertAt(@, r + 2, raw)], r + 1)

LEMMA InsertEffect ==
  ASSUME NEW table, Readable(table), NEW r \in 0..(Len(table.stored) - 1), NEW raw \in RawRecords,
         table.buffer.isModified => table.buffer.recordId <= r + 1,
         Len(table.stored) < MaxNumRecords
  PROVE  LET next == Inserted(table, r, raw) IN
         /\ Readable(next)
         /\ Len(next.stored) = Len(table.stored) + 1
         /\ next.buffer.recordId = r + 1 /\ next.buffer.columns = Defaults
         /\ \A n \in 0..Len(table.stored) :
              /\ ReadOf(next, n) = Decoded(next.stored[n + 1])
              /\ ReadOf(next, n) = IF n < r + 1 THEN ReadOf(table, n)
                                   ELSE IF n = r + 1 THEN Defaults ELSE ReadOf(table, n - 1)
<1> DEFINE written == WriteRecordBufferIfDirty(table)
           used == table.buffer
           len == Len(table.stored)
           s == InsertAt(written.stored, r + 2, raw)
           moved == [written EXCEPT !.stored = s]
           next == SetToDefault(moved, r + 1)
<1>1. /\ Readable(written) /\ written.buffer = used /\ Len(written.stored) = len
      /\ \A n \in 0..(len - 1) : Decoded(written.stored[n + 1]) = ReadOf(table, n)
  BY WriteBack
<1>2. /\ len \in 1..(MaxNumRecords - 1) /\ r \in 0..(len - 1)
      /\ used.recordId \in Nat /\ used.isModified \in BOOLEAN
  <2>1. len \in 1..MaxNumRecords /\ table \in Tables
    BY DEF Readable
  <2>2. used.recordId \in Nat /\ used.isModified \in BOOLEAN
    BY <2>1, FieldsOfTable
  <2>3. len < MaxNumRecords
    OBVIOUS
  <2> HIDE DEF len
  <2>4. len \in 1..(MaxNumRecords - 1)
    BY <2>1, <2>3, ConstantsType, SMT
  <2> QED BY <2>2, <2>4 DEF len
<1>3. used.isModified =>
        /\ used.recordId < len /\ used.recordId <= r + 1 /\ used.columns \in Valid
        /\ Decoded(written.stored[used.recordId + 1]) = used.columns
  <2> SUFFICES ASSUME used.isModified
               PROVE  /\ used.recordId < len /\ used.columns \in Valid
                      /\ Decoded(written.stored[used.recordId + 1]) = used.columns
    OBVIOUS
  <2>1. used.recordId < len /\ used.columns \in Valid
    BY ReadableBuffer DEF RecordExists
  <2>2. used.recordId \in 0..(len - 1)
    <3> DEFINE id == used.recordId
    <3> HIDE DEF id, len
    <3>1. id \in 0..(len - 1)
      BY <1>2, <2>1, SMT DEF id
    <3> QED BY <3>1 DEF id
  <2>3. ReadOf(table, used.recordId) = used.columns
    BY DEF ReadOf
  <2> QED BY <1>1, <2>1, <2>2, <2>3
<1>4. written \in Tables /\ written.status = "open" /\ written.stored \in Seq(RawRecords)
  BY <1>1, FieldsOfTable DEF Readable
<1> HIDE DEF written
<1>5. /\ r + 2 \in 1..(len + 1) /\ r + 1 < len + 1 /\ r + 1 \in 0..(MaxNumRecords - 1)
  <2> HIDE DEF len
  <2> QED BY <1>2, ConstantsType, SMT
<1>6. /\ s \in Seq(RawRecords) /\ Len(s) = len + 1
      /\ \A j \in 1..(len + 1) : s[j] = IF j < r + 2 THEN written.stored[j]
                                        ELSE IF j = r + 2 THEN raw ELSE written.stored[j - 1]
  <2> DEFINE ws == written.stored
             i == r + 2
  <2>1. ws \in Seq(RawRecords) /\ Len(ws) = len /\ i \in 1..(Len(ws) + 1)
    BY <1>1, <1>4, <1>5
  <2> HIDE DEF ws, i, len
  <2>2. /\ InsertAt(ws, i, raw) \in Seq(RawRecords)
        /\ Len(InsertAt(ws, i, raw)) = Len(ws) + 1
        /\ \A j \in 1..(Len(ws) + 1) : InsertAt(ws, i, raw)[j] = WithInserted(ws, i, raw, j)
    BY <2>1, InsertAtEffect
  <2> QED BY <2>1, <2>2 DEF ws, i, s, WithInserted
<1> HIDE DEF s
<1>7. /\ moved \in Tables /\ moved.stored = s /\ moved.buffer = used /\ moved.status = "open"
  BY <1>1, <1>4, <1>6, StoredOfTable
<1>8. Inserted(table, r, raw) = next
  BY DEF Inserted, written, s
<1> HIDE DEF moved
<1>9. /\ RecordExists(moved, r + 1)
      /\ moved.buffer.isModified => RecordExists(moved, moved.buffer.recordId)
  <2>1. used.isModified => used.recordId < len + 1
    <3> DEFINE id == used.recordId
    <3> HIDE DEF id, len
    <3>1. id < len => id < len + 1
      BY <1>2, SMT DEF id
    <3> QED BY <1>3, <3>1 DEF id
  <2> QED BY <1>5, <1>6, <1>7, <2>1 DEF RecordExists
<1>10. /\ next \in Tables /\ next.status = "open"
       /\ next.buffer = [recordId |-> r + 1, isModified |-> used.isModified, columns |-> Defaults]
       /\ Len(next.stored) = len + 1
       /\ \A n \in 1..(len + 1) :
            next.stored[n] = IF n = r + 1 + 1 THEN Encoded(Defaults)
                             ELSE IF used.isModified /\ n = used.recordId + 1
                             THEN Encoded(used.columns)
                             ELSE s[n]
  <2> DEFINE q == r + 1
             after == SetToDefault(moved, q)
  <2>1. q \in 0..(MaxNumRecords - 1) /\ RecordExists(moved, q)
    BY <1>5, <1>9
  <2> HIDE DEF q
  <2>2. /\ after \in Tables /\ after.status = "open"
        /\ after.buffer = [recordId |-> q, isModified |-> moved.buffer.isModified,
                           columns |-> Defaults]
        /\ Len(after.stored) = Len(moved.stored)
        /\ \A n \in 1..Len(moved.stored) :
             after.stored[n] = IF n = q + 1 THEN Encoded(Defaults)
                               ELSE IF moved.buffer.isModified /\ n = moved.buffer.recordId + 1
                               THEN Encoded(moved.buffer.columns)
                               ELSE moved.stored[n]
    BY <1>7, <1>9, <2>1, SetToDefaultEffect
  <2> HIDE DEF after
  <2>3. moved.buffer = used /\ moved.stored = s /\ Len(moved.stored) = len + 1
    BY <1>6, <1>7
  <2> HIDE DEF used, len
  <2>4. after.buffer = [recordId |-> q, isModified |-> used.isModified, columns |-> Defaults]
    BY <2>2, <2>3
  <2>5. \A n \in 1..(len + 1) :
          after.stored[n] = IF n = q + 1 THEN Encoded(Defaults)
                            ELSE IF used.isModified /\ n = used.recordId + 1
                            THEN Encoded(used.columns)
                            ELSE s[n]
    BY <2>2, <2>3
  <2> QED BY <2>2, <2>3, <2>4, <2>5 DEF after, q
<1> HIDE DEF next
<1>11. ASSUME NEW n \in 0..len
       PROVE  Decoded(next.stored[n + 1])
                = IF n < r + 1 THEN ReadOf(table, n)
                  ELSE IF n = r + 1 THEN Defaults ELSE ReadOf(table, n - 1)
  <2>1. /\ n + 1 \in 1..(len + 1) /\ n \in Nat
        /\ n < r + 1 => n \in 0..(len - 1) /\ n + 1 < r + 2 /\ n + 1 # r + 1 + 1
        /\ n > r + 1 => n - 1 \in 0..(len - 1) /\ n - 1 + 1 = n /\ n + 1 - 1 = n /\ n + 1 > r + 2
                        /\ n + 1 # r + 1 + 1 /\ n # r + 1 /\ ~(n < r + 1) /\ ~(n + 1 < r + 2)
                        /\ n + 1 # r + 2
        /\ n = r + 1 => n + 1 = r + 1 + 1 /\ ~(n < r + 1)
        /\ n < r + 1 \/ n > r + 1 \/ n = r + 1
    <3> HIDE DEF len
    <3> QED BY <1>2, SMTT(60)
  <2>2. CASE n = r + 1
    <3>1. next.stored[n + 1] = Encoded(Defaults)
      BY <1>10, <2>1, <2>2
    <3> QED BY <2>1, <2>2, <3>1, RecordSets, DecodedEncoded
  <2>3. CASE n < r + 1
    <3>1. s[n + 1] = written.stored[n + 1] /\ Decoded(written.stored[n + 1]) = ReadOf(table, n)
      BY <1>1, <1>6, <2>1, <2>3
    <3>2. CASE used.isModified /\ n + 1 = used.recordId + 1
      <4>1. next.stored[n + 1] = Encoded(used.columns)
        BY <1>10, <2>1, <2>3, <3>2
      <4>2. Decoded(next.stored[n + 1]) = used.columns
        BY <1>3, <3>2, <4>1, DecodedEncoded
      <4>3. Decoded(written.stored[n + 1]) = used.columns
        BY <1>3, <3>2
      <4> QED BY <2>3, <3>1, <4>2, <4>3
    <3>3. CASE ~(used.isModified /\ n + 1 = used.recordId + 1)
      <4>1. next.stored[n + 1] = s[n + 1]
        BY <1>10, <2>1, <2>3, <3>3
      <4> QED BY <2>3, <3>1, <4>1
    <3> QED BY <3>2, <3>3
  <2>4. CASE n > r + 1
    <3>1. s[n + 1] = written.stored[n]
      BY <1>6, <2>1, <2>4
    <3>2. Decoded(written.stored[n]) = ReadOf(table, n - 1)
      <4>1. Decoded(written.stored[n - 1 + 1]) = ReadOf(table, n - 1)
        BY <1>1, <2>1, <2>4
      <4> QED BY <2>1, <2>4, <4>1
    <3>3. ~(used.isModified /\ n + 1 = used.recordId + 1)
      <4>1. used.isModified => used.recordId <= r + 1
        BY <1>3
      <4> DEFINE id == used.recordId
      <4> HIDE DEF id
      <4>2. id <= r + 1 => n + 1 # id + 1
        BY <1>2, <2>1, <2>4, SMT DEF id
      <4> QED BY <4>1, <4>2 DEF id
    <3>4. next.stored[n + 1] = s[n + 1]
      BY <1>10, <2>1, <2>4, <3>3
    <3>5. ~(n < r + 1) /\ n # r + 1
      BY <2>1, <2>4
    <3> QED BY <3>1, <3>2, <3>4, <3>5
  <2> QED BY <2>1, <2>2, <2>3, <2>4
<1>12. Decoded(next.stored[r + 1 + 1]) = Defaults
  <2>1. r + 1 \in 0..len /\ ~(r + 1 < r + 1)
    <3> HIDE DEF len
    <3> QED BY <1>2, SMT
  <2> QED BY <1>11, <2>1
<1>13. \A n \in 0..len : ReadOf(next, n) = Decoded(next.stored[n + 1])
  BY <1>10, <1>12 DEF ReadOf
<1>14. Readable(next)
  <2>1. len + 1 \in 1..MaxNumRecords
    <3> HIDE DEF len
    <3> QED BY <1>2, ConstantsType, SMT
  <2>2. BufferMatches(next)
    <3>1. r + 1 # NO_RECORD_ID /\ RecordExists(next, r + 1)
      <4>1. r + 1 # NO_RECORD_ID
        BY <1>5, ConstantsType, SMT
      <4> QED BY <1>5, <1>10, <4>1 DEF RecordExists
    <3> QED BY <1>10, <1>12, <3>1, RecordSets DEF BufferMatches
  <2> QED BY <1>10, <2>1, <2>2 DEF Readable
<1> HIDE DEF len
<1> QED BY <1>8, <1>10, <1>11, <1>13, <1>14 DEF len

-----------------------------------------------------------------------------
(***************************************************************************)
(* The loop of BDB_importTable(): the table after n turns, as a function   *)
(* of n.                                                                   *)
(***************************************************************************)
Emptied ==
  [Now EXCEPT !.stored = <<>>,
              !.buffer.recordId = NO_RECORD_ID,
              !.buffer.isModified = FALSE]

Turn(data, raw, n, table) ==
  IF \E m \in 1..(n - 1) : data[m] \notin Valid THEN table
  ELSE SetRecordIn([table EXCEPT !.stored = Append(@, raw)], n - 1, data[n])

IsImport(data, raw, k, f) ==
  f = [n \in 0..k |-> IF n = 0 THEN Emptied ELSE Turn(data, raw, n, f[n - 1])]

LEMMA ImportExists ==
  ASSUME NEW data, NEW raw, NEW k \in Nat
  PROVE  \E f : IsImport(data, raw, k, f)
<1> DEFINE S == {j \in Nat : \E f : IsImport(data, raw, j, f)}
<1>1. 0 \in S
  <2> DEFINE f == [n \in 0..0 |-> Emptied]
  <2>1. IsImport(data, raw, 0, f)
    BY SMT DEF IsImport
  <2> QED BY <2>1
<1>2. ASSUME NEW j \in S
      PROVE  j + 1 \in S
  <2>1. PICK f : IsImport(data, raw, j, f)
    OBVIOUS
  <2> DEFINE g == [n \in 0..(j + 1) |-> IF n = j + 1 THEN Turn(data, raw, j + 1, f[j]) ELSE f[n]]
  <2>2. IsImport(data, raw, j + 1, g)
    BY <2>1, SMT DEF IsImport
  <2> QED BY <2>2
<1>3. S = Nat
  BY <1>1, <1>2, SetInduction
<1> QED BY <1>3

LEMMA ImportedIs ==
  ASSUME NEW data, NEW raw, NEW k \in Nat
  PROVE  \E f : IsImport(data, raw, k, f) /\ Imported(data, k, raw) = f[k]
<1> DEFINE f == CHOOSE g : IsImport(data, raw, k, g)
<1>1. IsImport(data, raw, k, f)
  BY ImportExists
<1>2. Imported(data, k, raw) = f[k]
  BY DEF Imported, IsImport, Turn, Emptied
<1> QED BY <1>1, <1>2

(* A table that may be empty, as it is while it is filled.                 *)
Filling(table) ==
  /\ table \in Tables
  /\ table.status = "open"
  /\ Len(table.stored) \in 0..MaxNumRecords
  /\ BufferMatches(table)

LEMMA EmptiedEffect ==
  ASSUME Now \in Tables, status = "open"
  PROVE  Filling(Emptied) /\ Len(Emptied.stored) = 0
<1> DEFINE t1 == [Now EXCEPT !.stored = <<>>]
           used == t1.buffer
           b1 == [used EXCEPT !.recordId = NO_RECORD_ID]
           b2 == [b1 EXCEPT !.isModified = FALSE]
           b == [recordId |-> NO_RECORD_ID, isModified |-> FALSE, columns |-> used.columns]
           t2 == [t1 EXCEPT !.buffer = b1]
           t3 == [t1 EXCEPT !.buffer = b]
<1>1. <<>> \in Seq(RawRecords) /\ Len(<<>>) = 0
  BY EmptySeq
<1>2. t1 \in Tables /\ t1.stored = <<>> /\ t1.status = "open"
  BY <1>1, StoredOfTable DEF Now
<1>3. [t1 EXCEPT !.buffer.recordId = NO_RECORD_ID] = t2
  OBVIOUS
<1>4. Emptied = [[t1 EXCEPT !.buffer.recordId = NO_RECORD_ID] EXCEPT !.buffer.isModified = FALSE]
  BY DEF Emptied
<1> HIDE DEF t1
<1>5. used \in Buffers /\ used.columns \in [Columns -> Int]
  BY <1>2, FieldsOfTable
<1>6. b1 \in Buffers /\ b \in Buffers
  <2> HIDE DEF used
  <2>1. b1 \in Buffers
    BY <1>5, SMT DEF Buffers
  <2>2. b \in Buffers
    BY <1>5 DEF Buffers
  <2> QED BY <2>1, <2>2
<1>7. b2 = b
  <2> HIDE DEF used
  <2>1. [used EXCEPT !.recordId = NO_RECORD_ID, !.isModified = FALSE] = b
    BY <1>5, BufferEmptied
  <2> QED BY <2>1
<1>8. t2.buffer = b1
  BY <1>2, <1>6, BufferOfTable
<1>9. [t2 EXCEPT !.buffer.isModified = FALSE] = [t2 EXCEPT !.buffer = b]
  <2> HIDE DEF b1, t2, b
  <2>1. [t2 EXCEPT !.buffer.isModified = FALSE]
          = [t2 EXCEPT !.buffer = [t2.buffer EXCEPT !.isModified = FALSE]]
    OBVIOUS
  <2> QED BY <1>7, <1>8, <2>1
<1>10. [t2 EXCEPT !.buffer = b] = t3
  <2> HIDE DEF b1, b
  <2> QED BY <1>2, <1>6, BufferTwice
<1>11. Emptied = t3
  BY <1>3, <1>4, <1>9, <1>10
<1>12. t3 \in Tables /\ t3.stored = <<>> /\ t3.status = "open" /\ t3.buffer = b
  <2> HIDE DEF b
  <2> QED BY <1>2, <1>6, BufferOfTable
<1>13. BufferMatches(t3)
  BY <1>12 DEF BufferMatches
<1> HIDE DEF t3
<1>14. 0 \in 0..MaxNumRecords
  BY ConstantsType, SMT
<1> QED BY <1>1, <1>11, <1>12, <1>13, <1>14 DEF Filling

(* rs_appendRecord()                                                       *)
LEMMA AppendEffect ==
  ASSUME NEW table, Filling(table), Len(table.stored) < MaxNumRecords, NEW raw \in RawRecords
  PROVE  LET next == [table EXCEPT !.stored = Append(@, raw)] IN
         /\ Readable(next)
         /\ Len(next.stored) = Len(table.stored) + 1
         /\ \A n \in 0..(Len(table.stored) - 1) : ReadOf(next, n) = ReadOf(table, n)
<1> DEFINE s == Append(table.stored, raw)
           next == [table EXCEPT !.stored = s]
           len == Len(table.stored)
           used == table.buffer
<1>1. /\ table \in Tables /\ table.status = "open" /\ len \in 0..MaxNumRecords
      /\ BufferMatches(table) /\ table.stored \in Seq(RawRecords)
  BY FieldsOfTable DEF Filling
<1>2. s \in Seq(RawRecords) /\ Len(s) = len + 1 /\ \A i \in 1..len : s[i] = table.stored[i]
  BY <1>1, AppendProperties
<1>3. len \in Nat /\ len + 1 \in 1..MaxNumRecords /\ used.recordId \in Nat
      /\ \A n \in 0..(len - 1) : n + 1 \in 1..len
  <2>1. len < MaxNumRecords
    OBVIOUS
  <2> HIDE DEF len
  <2>2. len \in Nat /\ len + 1 \in 1..MaxNumRecords /\ \A n \in 0..(len - 1) : n + 1 \in 1..len
    BY <1>1, <2>1, ConstantsType, SMT
  <2> QED BY <1>1, <2>2, FieldsOfTable
<1> HIDE DEF s
<1>4. /\ next \in Tables /\ next.stored = s
      /\ next.buffer = used /\ next.status = table.status
  BY <1>1, <1>2, StoredOfTable
<1>5. [table EXCEPT !.stored = Append(@, raw)] = next
  BY DEF s
<1> HIDE DEF next
<1>6. \A n \in 0..(len - 1) : next.stored[n + 1] = table.stored[n + 1]
  BY <1>2, <1>3, <1>4
<1>7. \A n \in 0..(len - 1) : ReadOf(next, n) = ReadOf(table, n)
  BY <1>4, <1>6 DEF ReadOf
<1>8. used.recordId # NO_RECORD_ID =>
        used.recordId < len + 1 /\ next.stored[used.recordId + 1] = table.stored[used.recordId + 1]
  <2> SUFFICES ASSUME used.recordId # NO_RECORD_ID
               PROVE  used.recordId < len + 1
                      /\ next.stored[used.recordId + 1] = table.stored[used.recordId + 1]
    OBVIOUS
  <2> DEFINE id == used.recordId
  <2>1. id < len /\ id \in Nat
    BY <1>1, <1>3 DEF BufferMatches, RecordExists
  <2> HIDE DEF id, len
  <2>2. id < len + 1 /\ id \in 0..(len - 1)
    BY <1>3, <2>1, SMT
  <2> QED BY <1>6, <2>2 DEF id
<1>9. BufferMatches(next)
  BY <1>1, <1>2, <1>4, <1>8 DEF BufferMatches, RecordExists
<1>10. Readable(next)
  BY <1>1, <1>2, <1>3, <1>4, <1>9 DEF Readable
<1> HIDE DEF len
<1> QED BY <1>2, <1>4, <1>5, <1>7, <1>10 DEF len

(* What is given to BDB_importTable(): v is the place of the first record  *)
(* that is not valid, or k + 1.                                            *)
IsGiven(data, k, v) ==
  /\ data \in Seq([Columns -> Int]) /\ Len(data) <= MaxNumRecords
  /\ k \in 1..Len(data)
  /\ v \in 1..(k + 1)
  /\ \A m \in 1..(v - 1) : data[m] \in Valid
  /\ v <= k => data[v] \notin Valid

ImportedSoFar(data, v, n, table) ==
  /\ Filling(table)
  /\ Len(table.stored) = IF n < v THEN n ELSE v
  /\ \A m \in 0..(n - 1) : m + 1 < v => ReadOf(table, m) = data[m + 1]

LEMMA TurnEffect ==
  ASSUME NEW data, NEW k, NEW v, IsGiven(data, k, v), NEW raw \in RawRecords,
         NEW n \in 1..k, NEW table, ImportedSoFar(data, v, n - 1, table)
  PROVE  ImportedSoFar(data, v, n, Turn(data, raw, n, table))
<1>1. /\ data \in Seq([Columns -> Int]) /\ Len(data) \in Nat /\ Len(data) <= MaxNumRecords
      /\ k \in Nat /\ k <= Len(data) /\ v \in Nat /\ 1 <= v /\ v <= k + 1
      /\ n \in Nat /\ 1 <= n /\ n <= k
  <2> DEFINE len == Len(data)
  <2>1. /\ data \in Seq([Columns -> Int]) /\ len \in Nat /\ len <= MaxNumRecords
        /\ k \in 1..len /\ v \in 1..(k + 1)
    BY LenProperties DEF IsGiven
  <2> HIDE DEF len
  <2>2. k \in Nat /\ k <= len /\ v \in Nat /\ 1 <= v /\ v <= k + 1 /\ n \in Nat /\ 1 <= n /\ n <= k
    BY <2>1, SMT
  <2> QED BY <2>1, <2>2 DEF len
<1>2. CASE n > v
  <2>1. v \in 1..(n - 1) /\ data[v] \notin Valid
    <3>1. v \in 1..(n - 1) /\ v <= k
      BY <1>1, <1>2, SMT
    <3> QED BY <3>1 DEF IsGiven
  <2>2. Turn(data, raw, n, table) = table
    BY <2>1 DEF Turn
  <2>3. (IF n < v THEN n ELSE v) = (IF n - 1 < v THEN n - 1 ELSE v)
    BY <1>1, <1>2, SMT
  <2>4. ASSUME NEW m \in 0..(n - 1), m + 1 < v
        PROVE  m \in 0..(n - 1 - 1)
    BY <1>1, <1>2, <2>4, SMT
  <2> QED BY <2>2, <2>3, <2>4, Zenon DEF ImportedSoFar
<1>3. CASE n <= v
  <2> DEFINE next == [table EXCEPT !.stored = Append(@, raw)]
             after == SetRecordIn(next, n - 1, data[n])
             q == n - 1
  <2>1. /\ \A m \in 1..(n - 1) : data[m] \in Valid
        /\ n < v => data[n] \in Valid
        /\ n = v => data[n] \notin Valid
        /\ data[n] \in [Columns -> Int]
    <3>1. /\ \A m \in 1..(n - 1) : m \in 1..(v - 1)
          /\ n < v => n \in 1..(v - 1)
          /\ n = v => v <= k
      BY <1>1, <1>3, SMT
    <3>2. n \in 1..Len(data)
      <4> DEFINE len == Len(data)
      <4> HIDE DEF len
      <4>1. n \in 1..len
        BY <1>1, SMT DEF len
      <4> QED BY <4>1 DEF len
    <3>3. data[n] \in [Columns -> Int]
      BY <1>1, <3>2, ElementOfSeq
    <3> QED BY <3>1, <3>3 DEF IsGiven
  <2>2. Turn(data, raw, n, table) = after
    BY <2>1 DEF Turn
  <2>3. Filling(table) /\ Len(table.stored) = q /\ q < MaxNumRecords /\ q \in Nat /\ q < v
    <3>1. q < MaxNumRecords /\ q \in Nat /\ q < v
      <4> DEFINE len == Len(data)
      <4> HIDE DEF len
      <4>1. n - 1 < MaxNumRecords /\ n - 1 \in Nat /\ n - 1 < v
        BY <1>1, <1>3, ConstantsType, SMT DEF len
      <4> QED BY <4>1
    <3> QED BY <3>1 DEF ImportedSoFar
  <2>4. /\ Readable(next) /\ Len(next.stored) = q + 1
        /\ \A m \in 0..(q - 1) : ReadOf(next, m) = ReadOf(table, m)
    <3> HIDE DEF q
    <3>1. Len(table.stored) < MaxNumRecords
      BY <2>3
    <3>2. /\ Readable(next) /\ Len(next.stored) = Len(table.stored) + 1
          /\ \A m \in 0..(Len(table.stored) - 1) : ReadOf(next, m) = ReadOf(table, m)
      BY <2>3, <3>1, AppendEffect
    <3> HIDE DEF next
    <3> QED BY <2>3, <3>2
  <2> HIDE DEF next
  <2>5. q \in 0..(Len(next.stored) - 1) /\ \A m \in 0..(q - 1) : m \in 0..(Len(next.stored) - 1)
    <3>1. q \in 0..(q + 1 - 1) /\ \A m \in 0..(q - 1) : m \in 0..(q + 1 - 1)
      BY <2>3, SMT
    <3> HIDE DEF q
    <3> QED BY <2>4, <3>1
  <2>6. /\ Readable(after) /\ Len(after.stored) = Len(next.stored)
        /\ \A m \in 0..(Len(next.stored) - 1) :
             ReadOf(after, m) = IF data[n] \in Valid /\ m = q THEN data[n] ELSE ReadOf(next, m)
    BY <2>1, <2>4, <2>5, SetRecordEffect
  <2> HIDE DEF after
  <2>7. Filling(after)
    <3> DEFINE len == Len(after.stored)
    <3>1. len \in 1..MaxNumRecords
      BY <2>6 DEF Readable
    <3> HIDE DEF len
    <3>2. len \in 0..MaxNumRecords
      BY <3>1, SMT
    <3> QED BY <2>6, <3>2 DEF Readable, Filling, len
  <2>8. Len(after.stored) = IF n < v THEN n ELSE v
    <3>1. q + 1 = IF n < v THEN n ELSE v
      BY <1>1, <1>3, SMT
    <3> QED BY <2>4, <2>6, <3>1
  <2>9. ASSUME NEW m \in 0..(n - 1), m + 1 < v
        PROVE  ReadOf(after, m) = data[m + 1]
    <3>1. CASE m = q
      <4>1. m + 1 = n /\ n < v
        BY <1>1, <2>9, <3>1, SMT
      <4> QED BY <2>1, <2>5, <2>6, <3>1, <4>1
    <3>2. CASE m # q
      <4>1. m \in 0..(q - 1)
        BY <1>1, <3>2, SMT
      <4>2. ReadOf(table, m) = data[m + 1]
        BY <2>9, <4>1 DEF ImportedSoFar
      <4> QED BY <2>4, <2>5, <2>6, <3>2, <4>1, <4>2
    <3> QED BY <3>1, <3>2
  <2>10. ImportedSoFar(data, v, n, after)
    BY <2>7, <2>8, <2>9 DEF ImportedSoFar
  <2> QED BY <2>2, <2>10
<1> QED BY <1>1, <1>2, <1>3, SMT

LEMMA ImportedEffect ==
  ASSUME Now \in Tables, status = "open",
         NEW data, NEW k, NEW v, IsGiven(data, k, v), NEW raw \in RawRecords
  PROVE  ImportedSoFar(data, v, k, Imported(data, k, raw))
<1>1. k \in Nat /\ v \in Nat /\ 1 <= v
  <2> DEFINE len == Len(data)
  <2>1. len \in Nat /\ k \in 1..len /\ v \in 1..(k + 1)
    BY LenProperties DEF IsGiven
  <2> HIDE DEF len
  <2> QED BY <2>1, SMT
<1>2. PICK f : IsImport(data, raw, k, f) /\ Imported(data, k, raw) = f[k]
  BY <1>1, ImportedIs
<1>3. f[0] = Emptied /\ \A n \in 1..k : f[n] = Turn(data, raw, n, f[n - 1])
  BY <1>1, <1>2, SMT DEF IsImport
<1> DEFINE S == {n \in Nat : n <= k => ImportedSoFar(data, v, n, f[n])}
<1>4. 0 \in S
  <2>1. (IF 0 < v THEN 0 ELSE v) = 0 /\ \A m \in 0..(0 - 1) : FALSE
    BY <1>1, SMT
  <2>2. ImportedSoFar(data, v, 0, Emptied)
    BY <2>1, EmptiedEffect DEF ImportedSoFar
  <2> QED BY <1>3, <2>2
<1>5. ASSUME NEW n \in S
      PROVE  n + 1 \in S
  <2> SUFFICES ASSUME n + 1 <= k PROVE ImportedSoFar(data, v, n + 1, f[n + 1])
    OBVIOUS
  <2> DEFINE q == n + 1
  <2>1. q \in 1..k /\ q - 1 = n /\ n <= k
    BY <1>1, SMT
  <2>2. ImportedSoFar(data, v, q - 1, f[n])
    BY <2>1
  <2>3. f[q] = Turn(data, raw, q, f[n])
    BY <1>3, <2>1
  <2> HIDE DEF q
  <2>4. ImportedSoFar(data, v, q, Turn(data, raw, q, f[n]))
    BY <2>1, <2>2, TurnEffect
  <2> QED BY <2>3, <2>4 DEF q
<1>6. S = Nat
  <2> HIDE DEF S
  <2>1. S \subseteq Nat
    BY DEF S
  <2> QED BY <1>4, <1>5, <2>1, SetInduction
<1>7. k \in S
  BY <1>1, <1>6
<1> QED BY <1>2, <1>7

(* The whole of BDB_importTable(): the records in front of the invalid one *)
(* are as given, and if there is none they are all stored.                 *)
LEMMA ImportEffect ==
  ASSUME Now \in Tables, status = "open",
         NEW data, NEW k, NEW v, IsGiven(data, k, v), NEW raw \in RawRecords
  PROVE  LET imported == SetRecordIn(Imported(data, k, raw), 0, data[1]) IN
         /\ Readable(imported)
         /\ Len(imported.stored) = IF v = k + 1 THEN k ELSE v
         /\ \A m \in 0..(v - 2) :
              ReadOf(imported, m) = data[m + 1] /\ Decoded(imported.stored[m + 1]) = data[m + 1]
         /\ v = k + 1 => imported.buffer.columns = data[1]
<1> DEFINE table == Imported(data, k, raw)
           imported == SetRecordIn(table, 0, data[1])
           size == IF v = k + 1 THEN k ELSE v
<1>1. k \in Nat /\ 1 <= k /\ v \in Nat /\ 1 <= v /\ v <= k + 1 /\ 1 \in 1..Len(data)
      /\ data \in Seq([Columns -> Int]) /\ Len(data) <= MaxNumRecords
      /\ size \in 1..MaxNumRecords
  <2> DEFINE len == Len(data)
  <2>1. /\ len \in Nat /\ k \in 1..len /\ v \in 1..(k + 1) /\ len <= MaxNumRecords
        /\ data \in Seq([Columns -> Int])
    BY LenProperties DEF IsGiven
  <2> HIDE DEF len
  <2>2. k \in Nat /\ 1 <= k /\ v \in Nat /\ 1 <= v /\ v <= k + 1 /\ 1 \in 1..len
    BY <2>1, SMT
  <2>3. k \in 1..MaxNumRecords
    BY <2>1, ConstantsType, SMT
  <2>4. size \in 1..MaxNumRecords
    BY <2>1, <2>2, <2>3, ConstantsType, SMT
  <2> HIDE DEF size
  <2> QED BY <2>1, <2>2, <2>4 DEF len
<1>2. data[1] \in [Columns -> Int] /\ (v > 1 => data[1] \in Valid)
  <2>1. data[1] \in [Columns -> Int]
    BY <1>1, ElementOfSeq
  <2>2. v > 1 => 1 \in 1..(v - 1)
    BY <1>1, SMT
  <2> QED BY <2>1, <2>2 DEF IsGiven
<1>3. ImportedSoFar(data, v, k, table)
  BY ImportedEffect
<1> HIDE DEF table
<1>4. Len(table.stored) = size
  <2>1. (IF k < v THEN k ELSE v) = size
    BY <1>1, SMT
  <2> HIDE DEF size
  <2> QED BY <1>3, <2>1, Zenon DEF ImportedSoFar
<1> HIDE DEF size
<1>5. Readable(table)
  BY <1>1, <1>3, <1>4 DEF ImportedSoFar, Filling, Readable
<1>6. 0 \in 0..(size - 1)
  BY <1>1, SMT
<1>7. /\ Readable(imported) /\ Len(imported.stored) = size
      /\ imported.buffer.columns = data[1]
      /\ \A n \in 0..(size - 1) :
           /\ Decoded(imported.stored[n + 1]) = ReadOf(table, n)
           /\ ReadOf(imported, n) = IF data[1] \in Valid /\ n = 0 THEN data[1] ELSE ReadOf(table, n)
  BY <1>2, <1>4, <1>5, <1>6, SetRecordEffect, ZenonT(60)
<1> HIDE DEF imported
<1>8. ASSUME NEW m \in 0..(v - 2)
      PROVE  ReadOf(imported, m) = data[m + 1] /\ Decoded(imported.stored[m + 1]) = data[m + 1]
  <2>1. m \in 0..(size - 1) /\ m \in 0..(k - 1) /\ m + 1 < v /\ (m = 0 => m + 1 = 1)
    BY <1>1, SMT DEF size
  <2>2. ReadOf(table, m) = data[m + 1]
    BY <1>3, <2>1 DEF ImportedSoFar
  <2> QED BY <1>7, <2>1, <2>2
<1> QED BY <1>7, <1>8 DEF imported, table, size

-----------------------------------------------------------------------------
(***************************************************************************)
(* What the calls of the careful caller do to the records it reads and to  *)
(* those the EEPROM holds.                                                 *)
(***************************************************************************)
Reads(table)  == [n \in 1..Len(table.stored) |-> ReadOf(table, n - 1)]
Stored(table) == [n \in 1..Len(table.stored) |-> Decoded(table.stored[n])]

Careful(table) ==
  /\ Readable(table)
  /\ AllValid(table)
  /\ table.buffer.recordId = NO_RECORD_ID =>
       table.buffer = NoBuffer \/ table.buffer.columns \in Proposed

(* All but record r of what was read is stored.                            *)
Kept(table, next, r) ==
  \E value \in {Stored(table)[r + 1], Reads(table)[r + 1]} :
    Stored(next) = [Reads(table) EXCEPT ![r + 1] = value]

LEMMA Index ==
  ASSUME NEW len \in Nat, NEW n \in 1..len
  PROVE  n - 1 \in 0..(len - 1) /\ n - 1 + 1 = n
BY SMT

LEMMA ViewIsReads ==
  ASSUME NEW table, Readable(table)
  PROVE  ViewOf(table) = Reads(table)
<1> SUFFICES ASSUME NEW n \in 1..Len(table.stored)
             PROVE  FillRecordBuffer(table, n - 1).buffer.columns = ReadOf(table, n - 1)
  BY DEF ViewOf, Reads
<1>1. Len(table.stored) \in Nat
  BY FieldsOfTable DEF Readable
<1>2. n - 1 \in 0..(Len(table.stored) - 1)
  BY <1>1, Index
<1> DEFINE r == n - 1
<1> HIDE DEF r
<1>3. FillRecordBuffer(table, r).buffer.columns = ReadOf(table, r)
  BY <1>2, FillEffect DEF r
<1> QED BY <1>3 DEF r

LEMMA ReadsType ==
  ASSUME NEW table, Careful(table)
  PROVE  /\ Len(table.stored) \in 1..MaxNumRecords
         /\ Reads(table) \in Seq(Valid) /\ Len(Reads(table)) = Len(table.stored)
         /\ Stored(table) \in Seq(Valid) /\ Len(Stored(table)) = Len(table.stored)
<1> DEFINE len == Len(table.stored)
<1>1. len \in 1..MaxNumRecords /\ len \in Nat
  BY FieldsOfTable DEF Careful, Readable
<1>2. \A n \in 1..len : ReadOf(table, n - 1) \in Valid
  BY <1>1, Index, ReadIsValid DEF Careful
<1>3. \A n \in 1..len : Decoded(table.stored[n]) \in Valid
  BY DEF Careful, AllValid
<1>4. Reads(table) = [n \in 1..len |-> ReadOf(table, n - 1)]
      /\ Stored(table) = [n \in 1..len |-> Decoded(table.stored[n])]
  BY DEF Reads, Stored
<1> DEFINE f == [n \in 1..len |-> ReadOf(table, n - 1)]
           g == [n \in 1..len |-> Decoded(table.stored[n])]
<1>5. f \in [1..len -> Valid] /\ g \in [1..len -> Valid]
  BY <1>2, <1>3
<1> HIDE DEF len, f, g
<1>6. f \in Seq(Valid) /\ g \in Seq(Valid) /\ Len(f) = len /\ Len(g) = len
  BY <1>1, <1>5, SMT
<1> QED BY <1>1, <1>4, <1>6 DEF f, g, len

(* Two tables of which one stores what the other reads.                    *)
LEMMA StoredIsReads ==
  ASSUME NEW table, Careful(table), NEW next, Len(next.stored) = Len(table.stored),
         \A n \in 0..(Len(table.stored) - 1) : Decoded(next.stored[n + 1]) = ReadOf(table, n)
  PROVE  Stored(next) = Reads(table) /\ \A r : Kept(table, next, r)
<1> DEFINE len == Len(table.stored)
<1>1. len \in Nat
  BY FieldsOfTable DEF Careful, Readable
<1>2. ASSUME NEW n \in 1..len
      PROVE  Decoded(next.stored[n]) = ReadOf(table, n - 1)
  BY <1>1, <1>2, Index
<1>3. Stored(next) = Reads(table)
  BY <1>2 DEF Stored, Reads
<1>4. ASSUME NEW r
      PROVE  Kept(table, next, r)
  <2>1. Reads(table) = [Reads(table) EXCEPT ![r + 1] = Reads(table)[r + 1]]
    BY DEF Reads
  <2> QED BY <1>3, <2>1 DEF Kept
<1> QED BY <1>3, <1>4

(* A table that stores what it stored before, with record r in its buffer. *)
LEMMA StoredIsSame ==
  ASSUME NEW table, Careful(table), NEW r \in 0..(Len(table.stored) - 1),
         table.buffer.recordId = r, NEW next, next.stored = table.stored
  PROVE  Kept(table, next, r)
<1> DEFINE value == Stored(table)[r + 1]
           len == Len(table.stored)
<1>1. len \in Nat
  BY FieldsOfTable DEF Careful, Readable
<1>2. ASSUME NEW n \in 1..len, n # r + 1
      PROVE  Decoded(table.stored[n]) = ReadOf(table, n - 1)
  <2>1. n - 1 # r /\ n - 1 + 1 = n
    <3> HIDE DEF len
    <3> QED BY <1>1, <1>2, SMT
  <2> QED BY <2>1 DEF ReadOf
<1>3. Stored(next) = Stored(table)
  BY DEF Stored
<1>4. ASSUME NEW n \in 1..len
      PROVE  Stored(table)[n] = [Reads(table) EXCEPT ![r + 1] = value][n]
  <2>1. CASE n = r + 1
    BY <2>1 DEF Reads
  <2>2. CASE n # r + 1
    BY <1>2, <2>2 DEF Reads, Stored
  <2> QED BY <2>1, <2>2
<1>5. Stored(table) = [Reads(table) EXCEPT ![r + 1] = value]
  <2> HIDE DEF value
  <2>1. /\ Stored(table) = [n \in 1..len |-> Stored(table)[n]]
        /\ [Reads(table) EXCEPT ![r + 1] = value]
             = [n \in 1..len |-> [Reads(table) EXCEPT ![r + 1] = value][n]]
    BY DEF Reads, Stored
  <2> QED BY <1>4, <2>1
<1> QED BY <1>3, <1>5 DEF Kept

LEMMA StoresReads ==
  ASSUME NEW table, Careful(table), NEW next, Readable(next),
         Len(next.stored) = Len(table.stored),
         \A n \in 0..(Len(table.stored) - 1) : Decoded(next.stored[n + 1]) = ReadOf(table, n),
         next.buffer.recordId # NO_RECORD_ID \/ next.buffer = NoBuffer \/ next.buffer.columns \in Proposed
  PROVE  Careful(next)
<1>1. AllValid(next)
  BY StoredReadsValid DEF Careful
<1> QED BY <1>1 DEF Careful

(* What both tables read is the same, but for record r.                    *)
WithRead(table, r, value) == [Reads(table) EXCEPT ![r + 1] = value]

LEMMA SameReads ==
  ASSUME NEW table, Careful(table), NEW r \in 0..(Len(table.stored) - 1), NEW value,
         NEW next, Len(next.stored) = Len(table.stored),
         ReadOf(next, r) = value,
         \A n \in 0..(Len(table.stored) - 1) : n # r => ReadOf(next, n) = ReadOf(table, n)
  PROVE  Reads(next) = WithRead(table, r, value)
<1> DEFINE len == Len(table.stored)
<1>1. len \in Nat
  BY FieldsOfTable DEF Careful, Readable
<1>2. ASSUME NEW n \in 1..len
      PROVE  Reads(next)[n] = [Reads(table) EXCEPT ![r + 1] = value][n]
  <2>1. n - 1 \in 0..(len - 1) /\ (n - 1 = r <=> n = r + 1)
    <3> HIDE DEF len
    <3> QED BY <1>1, SMT
  <2>2. ReadOf(next, n - 1) = IF n = r + 1 THEN value ELSE ReadOf(table, n - 1)
    BY <2>1, RecordNumbers DEF Careful
  <2>3. Reads(next)[n] = ReadOf(next, n - 1) /\ Reads(table)[n] = ReadOf(table, n - 1)
    BY DEF Reads
  <2>4. [Reads(table) EXCEPT ![r + 1] = value][n] = IF n = r + 1 THEN value ELSE Reads(table)[n]
    BY DEF Reads
  <2> QED BY <2>2, <2>3, <2>4
<1>3. /\ Reads(next) = [n \in 1..len |-> Reads(next)[n]]
      /\ [Reads(table) EXCEPT ![r + 1] = value]
           = [n \in 1..len |-> [Reads(table) EXCEPT ![r + 1] = value][n]]
  BY DEF Reads
<1> QED BY <1>2, <1>3 DEF WithRead

LEMMA UnchangedReads ==
  ASSUME NEW table, Careful(table), NEW next, Len(next.stored) = Len(table.stored),
         \A n \in 0..(Len(table.stored) - 1) : ReadOf(next, n) = ReadOf(table, n)
  PROVE  Reads(next) = Reads(table)
<1>1. Len(table.stored) \in Nat
  BY FieldsOfTable DEF Careful, Readable
<1>2. \A n \in 1..Len(table.stored) : ReadOf(next, n - 1) = ReadOf(table, n - 1)
  BY <1>1, Index
<1> QED BY <1>2 DEF Reads

LEMMA FillCareful ==
  ASSUME NEW table, Careful(table), NEW r \in 0..(Len(table.stored) - 1)
  PROVE  LET filled == FillRecordBuffer(table, r) IN
         /\ Careful(filled) /\ filled.status # "halted"
         /\ filled.buffer.recordId = r /\ r # NO_RECORD_ID
         /\ filled.buffer.columns = ReadOf(table, r) /\ ReadOf(table, r) \in Valid
         /\ Len(filled.stored) = Len(table.stored)
         /\ \A n \in 0..(Len(table.stored) - 1) : ReadOf(filled, n) = ReadOf(table, n)
         /\ Reads(filled) = Reads(table)
         /\ Kept(table, filled, r)
<1> DEFINE filled == FillRecordBuffer(table, r)
<1>1. /\ Readable(filled) /\ filled.status # "halted"
      /\ filled.buffer.recordId = r
      /\ filled.buffer.columns = ReadOf(table, r)
      /\ Len(filled.stored) = Len(table.stored)
      /\ \A n \in 0..(Len(table.stored) - 1) : ReadOf(filled, n) = ReadOf(table, n)
      /\ \/ filled = table
         \/ \A n \in 0..(Len(table.stored) - 1) :
              Decoded(filled.stored[n + 1]) = ReadOf(table, n)
  BY FillEffect DEF Careful
<1> HIDE DEF filled
<1>2. r # NO_RECORD_ID /\ ReadOf(table, r) \in Valid
  BY RecordNumbers, ReadIsValid DEF Careful
<1>3. Careful(filled)
  BY <1>1, <1>2, StoresReads
<1>4. Reads(filled) = Reads(table)
  BY <1>1, UnchangedReads
<1>5. Kept(table, filled, r)
  BY <1>1, StoredIsReads, StoredIsSame
<1> QED BY <1>1, <1>2, <1>3, <1>4, <1>5 DEF filled

LEMMA SetValueCareful ==
  ASSUME NEW table, Careful(table), NEW r \in 0..(Len(table.stored) - 1),
         NEW c \in Columns, NEW value \in MinValue..MaxValue
  PROVE  LET next == Modified(FillRecordBuffer(table, r), c, value)
             record == [ReadOf(table, r) EXCEPT ![c] = value]
         IN /\ Careful(next)
            /\ record \in Valid
            /\ Reads(next) = [Reads(table) EXCEPT ![r + 1] = record]
            /\ Kept(table, next, r)
<1> DEFINE filled == FillRecordBuffer(table, r)
           next == Modified(filled, c, value)
           record == [ReadOf(table, r) EXCEPT ![c] = value]
<1>1. /\ Careful(filled)
      /\ filled.buffer.recordId = r /\ r # NO_RECORD_ID
      /\ filled.buffer.columns = ReadOf(table, r) /\ ReadOf(table, r) \in Valid
      /\ Len(filled.stored) = Len(table.stored)
      /\ \A n \in 0..(Len(table.stored) - 1) : ReadOf(filled, n) = ReadOf(table, n)
      /\ Kept(table, filled, r)
  BY FillCareful
<1> HIDE DEF filled
<1>2. /\ Readable(next) /\ next.stored = filled.stored /\ next.buffer.recordId = r
      /\ next.buffer.columns = [filled.buffer.columns EXCEPT ![c] = value]
  BY <1>1, ModifiedEffect DEF Careful
<1> HIDE DEF next
<1>3. record \in Valid
  BY <1>1, SMT DEF Valid
<1>4. Careful(next)
  BY <1>1, <1>2 DEF Careful, AllValid
<1>5. \A n \in 0..(Len(table.stored) - 1) :
        ReadOf(next, n) = IF n = r THEN record ELSE ReadOf(table, n)
  BY <1>1, <1>2 DEF ReadOf
<1> HIDE DEF record
<1>6. Reads(next) = [Reads(table) EXCEPT ![r + 1] = record]
  <2>1. Reads(next) = WithRead(table, r, record)
    BY <1>1, <1>2, <1>5, SameReads
  <2> QED BY <2>1 DEF WithRead
<1>7. Kept(table, next, r)
  BY <1>1, <1>2 DEF Kept, Stored
<1> QED BY <1>3, <1>4, <1>6, <1>7 DEF record, next, filled

LEMMA SetRecordCareful ==
  ASSUME NEW table, Careful(table), NEW r \in 0..(Len(table.stored) - 1), NEW data \in Proposed
  PROVE  LET next == SetRecordIn(table, r, data) IN
         /\ Careful(next)
         /\ Kept(table, next, r)
         /\ data \in Valid => Reads(next) = [Reads(table) EXCEPT ![r + 1] = data]
         /\ data \notin Valid => Reads(next) = Reads(table)
<1> DEFINE next == SetRecordIn(table, r, data)
<1>1. data \in [Columns -> Int]
  BY RecordSets
<1>2. /\ Readable(next)
      /\ Len(next.stored) = Len(table.stored)
      /\ next.buffer.columns = data
      /\ \A n \in 0..(Len(table.stored) - 1) :
           /\ Decoded(next.stored[n + 1]) = ReadOf(table, n)
           /\ ReadOf(next, n) = IF data \in Valid /\ n = r THEN data ELSE ReadOf(table, n)
  BY <1>1, SetRecordEffect, ZenonT(60) DEF Careful
<1> HIDE DEF next
<1>3. Careful(next)
  BY <1>2, StoresReads
<1>4. Kept(table, next, r)
  BY <1>2, StoredIsReads
<1>5. CASE data \in Valid
  <2>1. \A n \in 0..(Len(table.stored) - 1) :
          ReadOf(next, n) = IF n = r THEN data ELSE ReadOf(table, n)
    BY <1>2, <1>5
  <2>2. Reads(next) = [Reads(table) EXCEPT ![r + 1] = data]
    <3>1. Reads(next) = WithRead(table, r, data)
      BY <1>2, <2>1, SameReads
    <3> QED BY <3>1 DEF WithRead
  <2> QED BY <1>3, <1>4, <1>5, <2>2 DEF next
<1>6. CASE data \notin Valid
  <2>1. \A n \in 0..(Len(table.stored) - 1) : ReadOf(next, n) = ReadOf(table, n)
    BY <1>2, <1>6
  <2>2. Reads(next) = Reads(table)
    BY <1>2, <2>1, UnchangedReads
  <2> QED BY <1>3, <1>4, <1>6, <2>2 DEF next
<1> QED BY <1>5, <1>6

(* A modified buffer that is written back, by whichever call.              *)
LEMMA WriteCareful ==
  ASSUME NEW table, Careful(table)
  PROVE  LET next == WriteRecordBufferIfDirty(table) IN
         Careful(next) /\ Reads(next) = Reads(table) /\ Stored(next) = Reads(table)
<1> DEFINE next == WriteRecordBufferIfDirty(table)
<1>1. /\ Readable(next) /\ next.buffer = table.buffer
      /\ Len(next.stored) = Len(table.stored)
      /\ \A n \in 0..(Len(table.stored) - 1) :
           Decoded(next.stored[n + 1]) = ReadOf(table, n) /\ ReadOf(next, n) = ReadOf(table, n)
  BY WriteBack DEF Careful
<1> HIDE DEF next
<1>2. Careful(next)
  BY <1>1, StoresReads DEF Careful
<1>3. Reads(next) = Reads(table) /\ Stored(next) = Reads(table)
  BY <1>1, UnchangedReads, StoredIsReads
<1> QED BY <1>2, <1>3 DEF next

(* BDB_syncTable() writes the buffer back, modified or not.                *)
LEMMA SyncCareful ==
  ASSUME NEW table, Careful(table), table.buffer.recordId # NO_RECORD_ID
  PROVE  LET next == StoreRecordBuffer(table) IN
         Careful(next) /\ Reads(next) = Reads(table) /\ Stored(next) = Reads(table)
<1> DEFINE next == StoreRecordBuffer(table)
           used == table.buffer
           len == Len(table.stored)
<1>1. /\ table \in Tables /\ len \in 1..MaxNumRecords /\ table.status = "open"
      /\ BufferMatches(table) /\ RecordExists(table, used.recordId)
      /\ used.recordId \in Nat /\ used.isModified \in BOOLEAN /\ len \in Nat
  BY FieldsOfTable, ReadableBuffer DEF Careful, Readable
<1>2. used.recordId \in 0..(len - 1) /\ used.recordId + 1 \in 1..len
  <2> DEFINE id == used.recordId
  <2>1. id < len /\ id \in Nat
    BY <1>1 DEF RecordExists
  <2> HIDE DEF id, len
  <2>2. id \in 0..(len - 1) /\ id + 1 \in 1..len
    BY <1>1, <2>1, SMT
  <2> QED BY <2>2 DEF id
<1>3. used.columns \in Valid
  BY <1>1, <1>2 DEF BufferMatches, Careful, AllValid
<1>4. /\ next \in Tables /\ next.buffer = used /\ next.status = "open"
      /\ Len(next.stored) = len
      /\ \A n \in 1..len : next.stored[n] = IF n = used.recordId + 1 THEN Encoded(used.columns)
                                            ELSE table.stored[n]
  BY <1>1, StoreRecordBufferEffect
<1> HIDE DEF next
<1>5. Decoded(Encoded(used.columns)) = used.columns
  BY <1>3, DecodedEncoded
<1>6. ASSUME NEW r \in 0..(len - 1)
      PROVE  Decoded(next.stored[r + 1]) = ReadOf(table, r)
  <2>1. r + 1 \in 1..len /\ (r + 1 = used.recordId + 1 <=> used.recordId = r)
    <3> DEFINE id == used.recordId
    <3> HIDE DEF len, id
    <3>1. r + 1 \in 1..len /\ (r + 1 = id + 1 <=> id = r)
      BY <1>1, SMT DEF id
    <3> QED BY <3>1 DEF id
  <2> QED BY <1>4, <1>5, <2>1 DEF ReadOf
<1>7. BufferMatches(next)
  BY <1>1, <1>2, <1>3, <1>4, <1>5 DEF BufferMatches, RecordExists
<1>8. Readable(next)
  BY <1>1, <1>4, <1>7 DEF Readable
<1>9. Careful(next)
  BY <1>4, <1>6, <1>8, StoresReads
<1>10. \A r \in 0..(len - 1) : ReadOf(next, r) = ReadOf(table, r)
  BY <1>4, <1>6 DEF ReadOf
<1>11. Reads(next) = Reads(table) /\ Stored(next) = Reads(table)
  BY <1>4, <1>6, <1>10, UnchangedReads, StoredIsReads
<1> QED BY <1>9, <1>11 DEF next

LEMMA InsertCareful ==
  ASSUME NEW table, Careful(table), NEW r \in 0..(Len(table.stored) - 1), NEW raw \in RawRecords,
         table.buffer.isModified => table.buffer.recordId <= r + 1,
         Len(table.stored) < MaxNumRecords
  PROVE  LET next == Inserted(table, r, raw) IN
         /\ Careful(next)
         /\ Reads(next) = InsertAt(Reads(table), r + 2, Defaults)
         /\ Stored(next) = Reads(next)
<1> DEFINE next == Inserted(table, r, raw)
           len == Len(table.stored)
           reads == Reads(table)
           after == InsertAt(reads, r + 2, Defaults)
<1>1. /\ Readable(next) /\ Len(next.stored) = len + 1 /\ next.buffer.recordId = r + 1
      /\ \A n \in 0..len :
           /\ ReadOf(next, n) = Decoded(next.stored[n + 1])
           /\ ReadOf(next, n) = IF n < r + 1 THEN ReadOf(table, n)
                                ELSE IF n = r + 1 THEN Defaults ELSE ReadOf(table, n - 1)
  BY InsertEffect, ZenonT(60) DEF Careful
<1> HIDE DEF next
<1>2. len \in Nat /\ len \in 1..MaxNumRecords /\ reads \in Seq(Valid) /\ Len(reads) = len
      /\ Defaults \in Valid /\ r \in 0..(len - 1)
  BY ReadsType, RecordSets, FieldsOfTable DEF Careful, Readable
<1>3. \A n \in 0..(len - 1) : ReadOf(table, n) \in Valid /\ reads[n + 1] = ReadOf(table, n)
  <2> SUFFICES ASSUME NEW n \in 0..(len - 1)
               PROVE  ReadOf(table, n) \in Valid /\ reads[n + 1] = ReadOf(table, n)
    OBVIOUS
  <2>1. n + 1 \in 1..len /\ n + 1 - 1 = n
    <3> HIDE DEF len
    <3> QED BY <1>2, SMT
  <2> QED BY <2>1, ReadIsValid DEF Careful, Reads
<1>4. /\ after \in Seq(Valid) /\ Len(after) = len + 1
      /\ \A j \in 1..(len + 1) : after[j] = WithInserted(reads, r + 2, Defaults, j)
  <2> DEFINE i == r + 2
  <2>1. i \in 1..(len + 1)
    <3> HIDE DEF len
    <3> QED BY <1>2, SMT
  <2> HIDE DEF i, reads, len
  <2>2. i \in 1..(Len(reads) + 1)
    BY <1>2, <2>1
  <2>3. /\ InsertAt(reads, i, Defaults) \in Seq(Valid)
        /\ Len(InsertAt(reads, i, Defaults)) = Len(reads) + 1
        /\ \A j \in 1..(Len(reads) + 1) :
             InsertAt(reads, i, Defaults)[j] = WithInserted(reads, i, Defaults, j)
    BY <1>2, <2>2, InsertAtEffect, ZenonT(60)
  <2> QED BY <1>2, <2>3 DEF i
<1>5. ASSUME NEW n \in 1..(len + 1)
      PROVE  ReadOf(next, n - 1) = after[n] /\ Decoded(next.stored[n]) = after[n]
  <2>1. /\ n - 1 \in 0..len /\ n - 1 + 1 = n
        /\ (n - 1 < r + 1 <=> n < r + 2) /\ (n - 1 = r + 1 <=> n = r + 2)
        /\ n < r + 2 => n - 1 \in 0..(len - 1)
        /\ ~(n < r + 2) /\ n # r + 2 => n - 1 - 1 \in 0..(len - 1) /\ n - 1 - 1 + 1 = n - 1
    <3> HIDE DEF len
    <3> QED BY <1>2, SMT
  <2>2. after[n] = IF n < r + 2 THEN reads[n] ELSE IF n = r + 2 THEN Defaults ELSE reads[n - 1]
    BY <1>4 DEF WithInserted
  <2>3. ReadOf(next, n - 1) = IF n < r + 2 THEN ReadOf(table, n - 1)
                              ELSE IF n = r + 2 THEN Defaults ELSE ReadOf(table, n - 1 - 1)
    BY <1>1, <2>1
  <2>4. n < r + 2 => reads[n] = ReadOf(table, n - 1)
    BY <1>3, <2>1
  <2>5. ~(n < r + 2) /\ n # r + 2 => reads[n - 1] = ReadOf(table, n - 1 - 1)
    BY <1>3, <2>1
  <2>6. ReadOf(next, n - 1) = after[n]
    BY <2>2, <2>3, <2>4, <2>5
  <2>7. Decoded(next.stored[n - 1 + 1]) = ReadOf(next, n - 1)
    BY <1>1, <2>1
  <2> QED BY <2>1, <2>6, <2>7
<1>6. \A n \in 1..(len + 1) : after[n] \in Valid
  BY <1>4, ElementOfSeq
<1>7. Careful(next)
  <2>1. AllValid(next)
    BY <1>1, <1>5, <1>6 DEF AllValid
  <2>2. r + 1 # NO_RECORD_ID
    <3> DEFINE size == len
    <3>1. size \in 1..MaxNumRecords /\ r \in 0..(size - 1)
      BY <1>2
    <3> HIDE DEF size
    <3> QED BY <3>1, ConstantsType, SMT
  <2> QED BY <1>1, <2>1, <2>2 DEF Careful
<1>8. Reads(next) = [n \in 1..(len + 1) |-> after[n]] /\ Stored(next) = [n \in 1..(len + 1) |-> after[n]]
  BY <1>1, <1>5 DEF Reads, Stored
<1>9. after = [n \in 1..(len + 1) |-> after[n]]
  BY <1>4, LenProperties
<1> QED BY <1>7, <1>8, <1>9 DEF next

(* BDB_deleteRecord() while the buffer is in front of the deleted record.  *)
LEMMA DeleteCareful ==
  ASSUME NEW table, Careful(table), NEW r \in 0..(Len(table.stored) - 1), Len(table.stored) > 1,
         table.buffer.recordId < r \/ table.buffer.recordId = NO_RECORD_ID
  PROVE  LET next == [table EXCEPT !.stored = RemoveAt(@, r + 1)] IN
         /\ Careful(next)
         /\ Reads(next) = RemoveAt(Reads(table), r + 1)
         /\ Stored(next) = RemoveAt(Stored(table), r + 1)
<1> DEFINE s == RemoveAt(table.stored, r + 1)
           next == [table EXCEPT !.stored = s]
           len == Len(table.stored)
           used == table.buffer
           id == used.recordId
           i == r + 1
<1>1. /\ table \in Tables /\ table.status = "open" /\ len \in 1..MaxNumRecords /\ len \in Nat
      /\ BufferMatches(table) /\ table.stored \in Seq(RawRecords) /\ id \in Nat
      /\ id # NO_RECORD_ID => id < len
      /\ r \in 0..(len - 1)
  BY FieldsOfTable, ReadableBuffer DEF Careful, Readable, RecordExists
<1>2. i \in 1..len /\ len - 1 \in 1..MaxNumRecords /\ len - 1 \in Nat
      /\ \A n \in 1..(len - 1) : n \in 1..len /\ n + 1 \in 1..len
  <2>1. len > 1
    OBVIOUS
  <2> HIDE DEF len
  <2> QED BY <1>1, <2>1, ConstantsType, SMT
<1>3. /\ s \in Seq(RawRecords) /\ Len(s) = len - 1
      /\ \A j \in 1..(len - 1) : s[j] = WithRemoved(table.stored, i, j)
  <2> DEFINE ws == table.stored
  <2>1. ws \in Seq(RawRecords) /\ i \in 1..Len(ws)
    BY <1>1, <1>2
  <2> HIDE DEF ws, i
  <2>2. /\ RemoveAt(ws, i) \in Seq(RawRecords) /\ Len(RemoveAt(ws, i)) = Len(ws) - 1
        /\ \A j \in 1..(Len(ws) - 1) : RemoveAt(ws, i)[j] = WithRemoved(ws, i, j)
    BY <2>1, RemoveAtEffect
  <2> QED BY <2>2 DEF ws, i
<1>4. [table EXCEPT !.stored = RemoveAt(@, r + 1)] = next
  OBVIOUS
<1> HIDE DEF s
<1>5. /\ next \in Tables /\ next.stored = s /\ next.buffer = used /\ next.status = "open"
  BY <1>1, <1>3, StoredOfTable
<1> HIDE DEF next
<1>6. id # NO_RECORD_ID => id < r /\ id < len - 1 /\ id + 1 \in 1..(len - 1) /\ id + 1 < i
  <2> SUFFICES ASSUME id # NO_RECORD_ID
               PROVE  id < r /\ id < len - 1 /\ id + 1 \in 1..(len - 1) /\ id + 1 < i
    OBVIOUS
  <2>1. id < r /\ id \in Nat
    BY <1>1
  <2> HIDE DEF id, len
  <2> QED BY <1>1, <1>2, <2>1, SMT
<1>7. id # NO_RECORD_ID => next.stored[id + 1] = table.stored[id + 1]
  BY <1>3, <1>5, <1>6 DEF WithRemoved
<1>8. BufferMatches(next)
  BY <1>1, <1>3, <1>5, <1>6, <1>7 DEF BufferMatches, RecordExists
<1>9. Readable(next)
  BY <1>2, <1>3, <1>5, <1>8 DEF Readable
<1>10. \A n \in 1..(len - 1) :
         Decoded(next.stored[n]) = IF n < i THEN Decoded(table.stored[n]) ELSE Decoded(table.stored[n + 1])
  BY <1>3, <1>5 DEF WithRemoved
<1>11. Careful(next)
  <2>1. AllValid(next)
    BY <1>2, <1>3, <1>5, <1>10 DEF AllValid, Careful
  <2> QED BY <1>5, <1>9, <2>1 DEF Careful
<1>12. Stored(next) = RemoveAt(Stored(table), i)
  <2> DEFINE ws == Stored(table)
             after == RemoveAt(ws, i)
  <2>1. ws \in Seq(Valid) /\ Len(ws) = len /\ i \in 1..Len(ws)
    BY <1>2, ReadsType
  <2>2. \A n \in 1..len : ws[n] = Decoded(table.stored[n])
    BY DEF Stored
  <2> HIDE DEF ws, i
  <2>3. after \in Seq(Valid) /\ Len(after) = Len(ws) - 1
        /\ \A j \in 1..(Len(ws) - 1) : after[j] = WithRemoved(ws, i, j)
    BY <2>1, RemoveAtEffect
  <2> HIDE DEF after
  <2>4. after = [n \in 1..(len - 1) |-> after[n]]
    BY <2>1, <2>3, LenProperties
  <2>5. \A n \in 1..(len - 1) : after[n] = Decoded(next.stored[n])
    BY <1>2, <1>10, <2>1, <2>2, <2>3 DEF WithRemoved
  <2>6. Stored(next) = [n \in 1..(len - 1) |-> Decoded(next.stored[n])]
    BY <1>3, <1>5 DEF Stored
  <2>7. Stored(next) = after
    BY <2>4, <2>5, <2>6
  <2> QED BY <2>7 DEF after, ws
<1>13. Reads(next) = RemoveAt(Reads(table), i)
  <2> DEFINE ws == Reads(table)
             after == RemoveAt(ws, i)
  <2>1. ws \in Seq(Valid) /\ Len(ws) = len /\ i \in 1..Len(ws)
    BY <1>2, ReadsType
  <2>2. \A n \in 1..len : ws[n] = ReadOf(table, n - 1)
    BY DEF Reads
  <2> HIDE DEF ws, i
  <2>3. after \in Seq(Valid) /\ Len(after) = Len(ws) - 1
        /\ \A j \in 1..(Len(ws) - 1) : after[j] = WithRemoved(ws, i, j)
    BY <2>1, RemoveAtEffect
  <2> HIDE DEF after
  <2>4. after = [n \in 1..(len - 1) |-> after[n]]
    BY <2>1, <2>3, LenProperties
  <2>5. ASSUME NEW n \in 1..(len - 1)
        PROVE  after[n] = ReadOf(next, n - 1)
    <3>1. /\ n - 1 + 1 = n /\ n + 1 - 1 = n /\ n \in Nat
          /\ n < i \/ ~(n < i)
          /\ ~(n < i) => n - 1 >= r /\ n >= r
      <4> HIDE DEF len
      <4> QED BY <1>1, <1>2, SMT DEF i
    <3>2. after[n] = IF n < i THEN ReadOf(table, n - 1) ELSE ReadOf(table, n)
      BY <1>2, <2>1, <2>2, <2>3, <3>1 DEF WithRemoved
    <3>3. Decoded(next.stored[n]) = IF n < i THEN Decoded(table.stored[n])
                                    ELSE Decoded(table.stored[n + 1])
      BY <1>10
    <3>4. CASE n < i
      <4>1. ReadOf(next, n - 1) = ReadOf(table, n - 1)
        BY <1>5, <3>1, <3>3, <3>4 DEF ReadOf
      <4> QED BY <3>2, <3>4, <4>1
    <3>5. CASE ~(n < i)
      <4>1. id # n - 1 /\ id # n
        <5>1. n # NO_RECORD_ID /\ n - 1 # NO_RECORD_ID
          <6>1. n \in 1..(MaxNumRecords - 1)
            <7> HIDE DEF len
            <7> QED BY <1>1, ConstantsType, SMT
          <6> QED BY <6>1, ConstantsType, SMT
        <5>2. CASE id = NO_RECORD_ID
          BY <5>1, <5>2
        <5>3. CASE id # NO_RECORD_ID
          <6>1. id < r /\ id \in Nat
            BY <1>1, <1>6, <5>3
          <6> HIDE DEF id
          <6> QED BY <3>1, <3>5, <6>1, SMT
        <5> QED BY <5>2, <5>3
      <4>2. ReadOf(next, n - 1) = Decoded(table.stored[n + 1])
        BY <1>5, <3>1, <3>3, <3>5, <4>1 DEF ReadOf
      <4>3. ReadOf(table, n) = Decoded(table.stored[n + 1])
        BY <4>1 DEF ReadOf
      <4> QED BY <3>2, <3>5, <4>2, <4>3
    <3> QED BY <3>4, <3>5
  <2>6. Reads(next) = [n \in 1..(len - 1) |-> ReadOf(next, n - 1)]
    BY <1>3, <1>5 DEF Reads
  <2>7. Reads(next) = after
    BY <2>4, <2>5, <2>6
  <2> QED BY <2>7 DEF after, ws
<1> QED BY <1>4, <1>11, <1>12, <1>13

(* BDB_importTable() with records that are valid.                          *)
LEMMA ImportCareful ==
  ASSUME Now \in Tables, status = "open", NEW data \in ImportData, NEW k \in 1..Len(data),
         IsImportable(data, k), NEW raw \in RawRecords
  PROVE  LET imported == SetRecordIn(Imported(data, k, raw), 0, data[1])
             given == [m \in 1..k |-> data[m]]
         IN /\ Careful(imported)
            /\ Reads(imported) = given /\ Stored(imported) = given
            /\ k \in 1..MaxNumRecords /\ given \in [1..k -> Valid] /\ given # <<>>
<1> DEFINE imported == SetRecordIn(Imported(data, k, raw), 0, data[1])
           given == [m \in 1..k |-> data[m]]
           v == k + 1
<1>1. /\ data \in Seq([Columns -> Int]) /\ Len(data) \in 1..MaxNumRecords
      /\ \A m \in 1..k : data[m] \in Valid
  BY RecordBufferAssumption DEF IsImportable
<1>2. /\ k \in Nat /\ 1 <= k /\ k \in 1..MaxNumRecords /\ v \in 1..(k + 1) /\ ~(v <= k)
      /\ v - 1 = k /\ v - 2 = k - 1 /\ Len(data) <= MaxNumRecords /\ 1 \in 1..k
  <2> DEFINE len == Len(data)
  <2>1. len \in 1..MaxNumRecords /\ k \in 1..len
    BY <1>1
  <2> HIDE DEF len
  <2>2. /\ k \in Nat /\ 1 <= k /\ k \in 1..MaxNumRecords /\ v \in 1..(k + 1) /\ ~(v <= k)
        /\ v - 1 = k /\ v - 2 = k - 1 /\ len <= MaxNumRecords /\ 1 \in 1..k
    BY <2>1, ConstantsType, SMT
  <2> QED BY <2>2 DEF len
<1>3. v = k + 1
  OBVIOUS
<1> HIDE DEF v
<1>4. IsGiven(data, k, v)
  BY <1>1, <1>2 DEF IsGiven
<1>5. /\ Readable(imported)
      /\ Len(imported.stored) = k
      /\ \A m \in 0..(k - 1) :
           ReadOf(imported, m) = data[m + 1] /\ Decoded(imported.stored[m + 1]) = data[m + 1]
      /\ imported.buffer.columns = data[1]
  BY <1>2, <1>3, <1>4, ImportEffect
<1> HIDE DEF imported
<1>6. ASSUME NEW n \in 1..k
      PROVE  ReadOf(imported, n - 1) = data[n] /\ Decoded(imported.stored[n]) = data[n]
  <2>1. n - 1 \in 0..(k - 1) /\ n - 1 + 1 = n
    BY <1>2, Index
  <2>2. ReadOf(imported, n - 1) = data[n - 1 + 1]
        /\ Decoded(imported.stored[n - 1 + 1]) = data[n - 1 + 1]
    BY <1>5, <2>1
  <2> QED BY <2>1, <2>2
<1>7. Reads(imported) = given /\ Stored(imported) = given
  BY <1>5, <1>6 DEF Reads, Stored
<1>8. Careful(imported)
  <2>1. AllValid(imported)
    BY <1>1, <1>5, <1>6 DEF AllValid
  <2>2. data[1] \in Proposed
    BY <1>1, <1>2, RecordSets
  <2> QED BY <1>5, <2>1, <2>2 DEF Careful
<1>9. given \in [1..k -> Valid]
  BY <1>1
<1>10. given # <<>>
  <2>1. Len(given) = k
    BY <1>2, <1>9, SMT
  <2>2. Len(<<>>) = 0 /\ k # 0
    BY <1>2, EmptySeq, SMT
  <2> QED BY <2>1, <2>2
<1> QED BY <1>2, <1>7, <1>8, <1>9, <1>10 DEF imported

(* createFirstRecordInEveryTable()                                         *)
LEMMA CreateCareful ==
  ASSUME stored = <<>>, buffer = NoBuffer, status = "creating", NEW raw \in RawRecords
  PROVE  LET created == SetToDefault([Now EXCEPT !.stored = <<raw>>, !.status = "open"], 0) IN
         /\ Careful(created)
         /\ Reads(created) = <<Defaults>> /\ Stored(created) = <<Defaults>>
<1> DEFINE t1 == [Now EXCEPT !.stored = <<raw>>, !.status = "open"]
           t2 == [stored |-> <<raw>>, buffer |-> NoBuffer, status |-> "open"]
           created == SetToDefault(t2, 0)
<1>1. NoBuffer \in Buffers
  BY ConstantsType, SMT DEF NoBuffer, Buffers
<1>2. <<raw>> \in Seq(RawRecords) /\ Len(<<raw>>) = 1
  OBVIOUS
<1>3. t1 = t2
  <2> DEFINE t3 == [Now EXCEPT !.stored = <<raw>>]
             t4 == [t3 EXCEPT !.status = "open"]
  <2>1. Now \in Tables
    <3>1. <<>> \in Seq(RawRecords)
      BY EmptySeq
    <3> QED BY <1>1, <3>1 DEF Now, Tables
  <2>2. t3 \in Tables /\ t3.stored = <<raw>> /\ t3.buffer = NoBuffer
    BY <1>2, <2>1, StoredOfTable DEF Now
  <2>3. t1 = t4
    OBVIOUS
  <2> HIDE DEF t3
  <2>4. t4 \in Tables /\ t4.status = "open"
    BY <2>2, SMT DEF Tables
  <2>5. t4.stored = t3.stored /\ t4.buffer = t3.buffer
    BY <2>2, SMT DEF Tables
  <2> HIDE DEF t4
  <2>6. t4 = [stored |-> t4.stored, buffer |-> t4.buffer, status |-> t4.status]
    BY <2>4, TableIsItsFields
  <2> QED BY <2>2, <2>3, <2>4, <2>5, <2>6
<1>4. t2 \in Tables /\ t2.status = "open" /\ ~t2.buffer.isModified /\ Len(t2.stored) = 1
  BY <1>1, <1>2 DEF Tables, NoBuffer
<1>5. 0 \in 0..(MaxNumRecords - 1) /\ 0 < 1 /\ 1 \in 1..MaxNumRecords /\ 0 # NO_RECORD_ID
      /\ 0 + 1 = 1 /\ 1 - 1 = 0 /\ 1 \in 1..1 /\ \A n \in 1..1 : n = 1
  BY ConstantsType, SMT
<1>6. RecordExists(t2, 0)
  BY <1>4, <1>5 DEF RecordExists
<1> HIDE DEF t2
<1>7. /\ created \in Tables /\ created.status = "open"
      /\ created.buffer = [recordId |-> 0, isModified |-> t2.buffer.isModified,
                           columns |-> Defaults]
      /\ Len(created.stored) = 1
      /\ created.stored[1] = Encoded(Defaults)
  <2>1. /\ created \in Tables /\ created.status = "open"
        /\ created.buffer = [recordId |-> 0, isModified |-> t2.buffer.isModified,
                             columns |-> Defaults]
        /\ Len(created.stored) = Len(t2.stored)
        /\ \A n \in 1..Len(t2.stored) :
             created.stored[n] = IF n = 0 + 1 THEN Encoded(Defaults)
                                 ELSE IF t2.buffer.isModified /\ n = t2.buffer.recordId + 1
                                 THEN Encoded(t2.buffer.columns)
                                 ELSE t2.stored[n]
    BY <1>4, <1>5, <1>6, SetToDefaultEffect
  <2> HIDE DEF created
  <2> QED BY <1>4, <1>5, <2>1
<1> HIDE DEF created
<1>8. Decoded(created.stored[1]) = Defaults /\ Defaults \in Valid
  BY <1>7, RecordSets, DecodedEncoded
<1>9. Reads(created) = <<Defaults>> /\ Stored(created) = <<Defaults>>
  <2>1. ReadOf(created, 0) = Defaults
    BY <1>7 DEF ReadOf
  <2>2. Reads(created) = [n \in 1..1 |-> Defaults] /\ Stored(created) = [n \in 1..1 |-> Defaults]
    BY <1>5, <1>7, <1>8, <2>1 DEF Reads, Stored
  <2>3. [n \in 1..1 |-> Defaults] = <<Defaults>>
    BY SMT
  <2> QED BY <2>2, <2>3
<1>10. BufferMatches(created)
  BY <1>4, <1>5, <1>7, <1>8 DEF BufferMatches, RecordExists
<1>11. AllValid(created)
  BY <1>5, <1>7, <1>8 DEF AllValid
<1>12. Careful(created)
  BY <1>5, <1>7, <1>10, <1>11 DEF Careful, Readable
<1> QED BY <1>3, <1>9, <1>12 DEF created

-----------------------------------------------------------------------------
(***************************************************************************)
(* The inductive invariant of the careful caller.                          *)
(***************************************************************************)
Opened == [stored |-> stored, buffer |-> buffer, status |-> "open"]

CarefulInv ==
  /\ status \in {"creating", "open", "closed"}
  /\ status = "creating" => stored = <<>> /\ buffer = NoBuffer
  /\ status # "creating" => Careful(Opened)
  /\ status = "closed" => buffer = NoBuffer

LEMMA OpenIsCareful ==
  ASSUME CarefulInv, status = "open"
  PROVE  /\ Now = Opened /\ Careful(Now) /\ Now \in Tables
         /\ Now.stored = stored /\ Now.buffer = buffer /\ Now.status = "open"
         /\ RecordIds = 0..(Len(Now.stored) - 1)
BY DEF CarefulInv, Now, Opened, Careful, Readable, RecordIds

(* What the mapping makes of a state.                                      *)
LEMMA ViewOfState ==
  ASSUME CarefulInv, status # "creating"
  PROVE  View = Reads(Opened) /\ Persisted = Stored(Opened)
<1>1. Careful(Opened) /\ Readable(Opened) /\ Opened.stored = stored /\ Opened.buffer = buffer
  BY DEF CarefulInv, Careful, Opened
<1>2. Persisted = Stored(Opened)
  BY <1>1 DEF Persisted, Stored
<1>3. CASE status = "open"
  BY <1>1, <1>2, <1>3, OpenIsCareful, ViewIsReads DEF View
<1>4. CASE status = "closed"
  <2>1. Now.buffer = NoBuffer /\ Now.stored = stored /\ Now.status = "closed" /\ buffer = NoBuffer
    BY <1>4 DEF CarefulInv, Now
  <2>2. ASSUME NEW n \in 1..Len(stored)
        PROVE  FillRecordBuffer(Now, n - 1).buffer.columns = ReadOf(Opened, n - 1)
    <3> DEFINE r == n - 1
    <3>1. Len(stored) \in Nat /\ r \in 0..(Len(stored) - 1)
      BY <1>1, FieldsOfTable, Index DEF Readable
    <3>2. r < Len(stored) /\ r # NO_RECORD_ID
      BY <1>1, <3>1, RecordNumbers
    <3> HIDE DEF r
    <3>3. NoBuffer.recordId = NO_RECORD_ID /\ NoBuffer.isModified = FALSE
      BY DEF NoBuffer
    <3>4. WriteRecordBufferIfDirty(Now) = Now
      BY <2>1, <3>3 DEF WriteRecordBufferIfDirty
    <3>5. RecordExists(Now, r)
      BY <2>1, <3>2 DEF RecordExists
    <3> DEFINE b == [recordId |-> r, isModified |-> FALSE, columns |-> Decoded(Now.stored[r + 1])]
    <3>6. FillRecordBuffer(Now, r) = [Now EXCEPT !.buffer = b]
      BY <2>1, <3>2, <3>3, <3>4, <3>5, Zenon DEF FillRecordBuffer
    <3>7. [Now EXCEPT !.buffer = b].buffer = b
      BY DEF Now
    <3>8. FillRecordBuffer(Now, r).buffer.columns = Decoded(stored[r + 1])
      BY <2>1, <3>6, <3>7
    <3>9. ReadOf(Opened, r) = Decoded(stored[r + 1])
      BY <1>1, <2>1, <3>2, <3>3 DEF ReadOf
    <3> QED BY <3>8, <3>9 DEF r
  <2>3. View = Reads(Opened)
    BY <1>1, <2>1, <2>2 DEF View, ViewOf, Reads
  <2> QED BY <1>2, <2>3
<1> QED BY <1>3, <1>4 DEF CarefulInv

ViewIsOfState ==
  CarefulInv /\ status # "creating" => View = Reads(Opened) /\ Persisted = Stored(Opened)

LEMMA ViewOfNextState == ViewIsOfState'
<1>1. ViewIsOfState
  BY ViewOfState DEF ViewIsOfState
<1> QED BY <1>1, PTL

LEMMA BecomesCareful ==
  ASSUME NEW table, Careful(table), Becomes(table)
  PROVE  /\ status' = "open" /\ CarefulInv'
         /\ View' = Reads(table) /\ Persisted' = Stored(table)
<1>1. table \in Tables /\ Readable(table) /\ table.status = "open"
  BY DEF Careful, Readable
<1>2. table = [stored |-> stored', buffer |-> buffer', status |-> status'] /\ status' = "open"
  <2>1. table = [stored |-> table.stored, buffer |-> table.buffer, status |-> table.status]
    BY <1>1, TableIsItsFields
  <2> QED BY <1>1, <2>1 DEF Becomes
<1>3. Opened' = table /\ Now' = table
  BY <1>2 DEF Opened, Now
<1>4. CarefulInv'
  BY <1>2, <1>3 DEF CarefulInv
<1>5. View' = Reads(table)
  BY <1>1, <1>3, ViewIsReads DEF View
<1>6. Persisted' = Stored(table)
  <2>1. table.stored = stored'
    BY DEF Becomes
  <2> QED BY <2>1 DEF Persisted, Stored
<1> QED BY <1>2, <1>4, <1>5, <1>6

-----------------------------------------------------------------------------
(***************************************************************************)
(* The steps of TableView, in terms of what the mapping makes of an open   *)
(* database.                                                               *)
(***************************************************************************)
KeptBut(r) ==
  \E value \in {Persisted[r + 1], View[r + 1]} : Persisted' = [View EXCEPT ![r + 1] = value]

LEMMA TableAccess ==
  ASSUME status = "open", status' = "open", NEW r \in 0..(Len(View) - 1), View' = View, KeptBut(r)
  PROVE  Table!Next
<1>1. Table!Access(r)
  BY DEF Table!Access, Table!PersistedBut, KeptBut
<1>2. r \in Table!RecordIds
  BY DEF Table!RecordIds
<1> QED BY <1>1, <1>2 DEF Table!Next

LEMMA TableSet ==
  ASSUME status = "open", status' = "open", NEW r \in 0..(Len(View) - 1), NEW record \in Valid,
         View' = [View EXCEPT ![r + 1] = record], KeptBut(r)
  PROVE  Table!Next
<1>1. Table!Set(r, record)
  BY DEF Table!Set, Table!PersistedBut, KeptBut
<1>2. r \in Table!RecordIds
  BY DEF Table!RecordIds
<1> QED BY <1>1, <1>2 DEF Table!Next

LEMMA TableInsert ==
  ASSUME status = "open", status' = "open", NEW r \in 0..(Len(View) - 1),
         Len(View) < MaxNumRecords,
         View' = InsertAt(View, r + 2, Defaults), Persisted' = View'
  PROVE  Table!Next
<1>1. Table!InsertAfter(r)
  BY DEF Table!InsertAfter, Table!InsertAt, InsertAt
<1>2. r \in Table!RecordIds
  BY DEF Table!RecordIds
<1> QED BY <1>1, <1>2 DEF Table!Next

LEMMA TableDelete ==
  ASSUME status = "open", status' = "open", NEW r \in 0..(Len(View) - 1), Len(View) > 1,
         View' = RemoveAt(View, r + 1), Persisted' = RemoveAt(Persisted, r + 1)
  PROVE  Table!Next
<1>1. Table!Delete(r)
  BY DEF Table!Delete, Table!RemoveAt, RemoveAt
<1>2. r \in Table!RecordIds
  BY DEF Table!RecordIds
<1> QED BY <1>1, <1>2 DEF Table!Next

LEMMA TableImport ==
  ASSUME status = "open", status' = "open", NEW n \in 1..MaxNumRecords, NEW data \in [1..n -> Valid],
         data # <<>>, View' = data, Persisted' = data
  PROVE  Table!Next
<1>1. Table!Import(data)
  BY DEF Table!Import
<1> QED BY <1>1 DEF Table!Next

LEMMA TableSync ==
  ASSUME status = "open", status' = "open", View' = View, Persisted' = View
  PROVE  Table!Next
<1>1. Table!Sync
  BY DEF Table!Sync
<1> QED BY <1>1 DEF Table!Next

-----------------------------------------------------------------------------
(***************************************************************************)
(* Every call of the careful caller keeps the invariant, and is a step of  *)
(* TableView or changes nothing that TableView tells.                      *)
(***************************************************************************)
Step == CarefulInv' /\ [Table!Next]_(Table!vars)

LEMMA OpenState ==
  ASSUME CarefulInv, status = "open"
  PROVE  /\ Careful(Now) /\ Now \in Tables
         /\ Now.stored = stored /\ Now.buffer = buffer /\ Now.status = "open"
         /\ View = Reads(Now) /\ Persisted = Stored(Now)
         /\ Len(View) = Len(Now.stored)
         /\ RecordIds = 0..(Len(View) - 1) /\ RecordIds = 0..(Len(Now.stored) - 1)
<1>1. Careful(Now) /\ View = Reads(Now) /\ Persisted = Stored(Now)
  BY OpenIsCareful, ViewOfState
<1>2. Len(View) = Len(Now.stored)
  BY <1>1, ReadsType
<1> QED BY <1>1, <1>2, OpenIsCareful

(* A call that leaves table behind, and in it what is read of the records. *)
LEMMA AccessStep ==
  ASSUME CarefulInv, status = "open", NEW r \in RecordIds, NEW table, Careful(table), Becomes(table),
         Reads(table) = Reads(Now), Kept(Now, table, r)
  PROVE  Step
<1>1. status' = "open" /\ CarefulInv' /\ View' = View /\ KeptBut(r)
  BY OpenState, BecomesCareful DEF Kept, KeptBut
<1>2. r \in 0..(Len(View) - 1)
  BY OpenState
<1> QED BY <1>1, <1>2, TableAccess DEF Step

LEMMA SetStep ==
  ASSUME CarefulInv, status = "open", NEW r \in RecordIds, NEW table, Careful(table), Becomes(table),
         NEW record \in Valid, Reads(table) = [Reads(Now) EXCEPT ![r + 1] = record],
         Kept(Now, table, r)
  PROVE  Step
<1>1. status' = "open" /\ CarefulInv' /\ View' = [View EXCEPT ![r + 1] = record] /\ KeptBut(r)
  BY OpenState, BecomesCareful DEF Kept, KeptBut
<1>2. r \in 0..(Len(View) - 1)
  BY OpenState
<1> QED BY <1>1, <1>2, TableSet DEF Step

LEMMA GetRecordStep ==
  ASSUME CarefulInv, NEW r \in RecordIds, GetRecord(r)
  PROVE  Step
<1> DEFINE filled == FillRecordBuffer(Now, r)
<1>1. status = "open" /\ Becomes(filled)
  BY DEF GetRecord
<1>2. Careful(filled) /\ Reads(filled) = Reads(Now) /\ Kept(Now, filled, r)
  BY <1>1, OpenState, FillCareful
<1> HIDE DEF filled
<1> QED BY <1>1, <1>2, AccessStep

LEMMA SetRecordStep ==
  ASSUME CarefulInv, NEW r \in RecordIds, NEW data \in Proposed, SetRecord(r, data)
  PROVE  Step
<1> DEFINE next == SetRecordIn(Now, r, data)
<1>1. status = "open" /\ Becomes(next)
  BY DEF SetRecord
<1>2. /\ Careful(next) /\ Kept(Now, next, r)
      /\ data \in Valid => Reads(next) = [Reads(Now) EXCEPT ![r + 1] = data]
      /\ data \notin Valid => Reads(next) = Reads(Now)
  BY <1>1, OpenState, SetRecordCareful
<1> HIDE DEF next
<1>3. CASE data \in Valid
  BY <1>1, <1>2, <1>3, SetStep
<1>4. CASE data \notin Valid
  BY <1>1, <1>2, <1>4, AccessStep
<1> QED BY <1>3, <1>4

LEMMA SetValueStep ==
  ASSUME CarefulInv, NEW r \in RecordIds, NEW c \in Columns, NEW value, SetValue(r, c, value)
  PROVE  Step
<1> DEFINE filled == FillRecordBuffer(Now, r)
           next == Modified(filled, c, value)
           record == [ReadOf(Now, r) EXCEPT ![c] = value]
<1>1. status = "open"
      /\ Becomes(IF filled.status = "halted" \/ value \notin MinValue..MaxValue THEN filled ELSE next)
  BY DEF SetValue
<1>2. /\ Careful(filled) /\ filled.status # "halted"
      /\ Reads(filled) = Reads(Now) /\ Kept(Now, filled, r)
  BY <1>1, OpenState, FillCareful
<1>3. CASE value \in MinValue..MaxValue
  <2>1. r \in 0..(Len(Now.stored) - 1) /\ Careful(Now)
    BY <1>1, OpenState
  <2>2. /\ Careful(next) /\ record \in Valid
        /\ Reads(next) = [Reads(Now) EXCEPT ![r + 1] = record] /\ Kept(Now, next, r)
    BY <1>3, <2>1, SetValueCareful
  <2> HIDE DEF filled
  <2>3. Becomes(next)
    BY <1>1, <1>2, <1>3
  <2> HIDE DEF next, record
  <2> QED BY <1>1, <2>2, <2>3, SetStep
<1>4. CASE value \notin MinValue..MaxValue
  <2> HIDE DEF filled, next
  <2>1. Becomes(filled)
    BY <1>1, <1>4
  <2> QED BY <1>1, <1>2, <2>1, AccessStep
<1> QED BY <1>3, <1>4

LEMMA LimitRange ==
  ASSUME NEW value \in Int
  PROVE  LimitValue(value) \in MinValue..MaxValue
BY ConstantsType, SMT DEF LimitValue

LEMMA ChangeValueStep ==
  ASSUME CarefulInv, NEW r \in RecordIds, NEW c \in Columns, NEW delta \in Deltas,
         ChangeValue(r, c, delta)
  PROVE  Step
<1> DEFINE filled == FillRecordBuffer(Now, r)
           value == filled.buffer.columns[c]
           newValue == LimitValue(value + delta)
           next == Modified(filled, c, newValue)
           record == [ReadOf(Now, r) EXCEPT ![c] = newValue]
<1>1. status = "open"
      /\ Becomes(IF filled.status = "halted" \/ newValue = value THEN filled ELSE next)
  BY DEF ChangeValue
<1>2. /\ Careful(filled) /\ filled.status # "halted"
      /\ Reads(filled) = Reads(Now) /\ Kept(Now, filled, r)
      /\ filled.buffer.columns \in Valid
  BY <1>1, OpenState, FillCareful
<1>3. newValue \in MinValue..MaxValue
  <2> HIDE DEF filled
  <2>1. value \in MinValue..MaxValue
    BY <1>2 DEF Valid
  <2>2. delta \in Int
    BY RecordBufferAssumption
  <2> HIDE DEF value
  <2>3. value + delta \in Int
    BY <2>1, <2>2, ConstantsType, SMT
  <2> QED BY <2>3, LimitRange
<1> HIDE DEF newValue, value
<1>4. CASE newValue # value
  <2>1. r \in 0..(Len(Now.stored) - 1) /\ Careful(Now)
    BY <1>1, OpenState
  <2>2. /\ Careful(next) /\ record \in Valid
        /\ Reads(next) = [Reads(Now) EXCEPT ![r + 1] = record] /\ Kept(Now, next, r)
    BY <1>3, <2>1, SetValueCareful
  <2> HIDE DEF filled
  <2>3. Becomes(next)
    BY <1>1, <1>2, <1>4
  <2> HIDE DEF next, record
  <2> QED BY <1>1, <2>2, <2>3, SetStep
<1>5. CASE newValue = value
  <2> HIDE DEF filled, next
  <2>1. Becomes(filled)
    BY <1>1, <1>5
  <2> QED BY <1>1, <1>2, <2>1, AccessStep
<1> QED BY <1>4, <1>5

LEMMA StutterStep ==
  ASSUME CarefulInv, UNCHANGED vars
  PROVE  Step
<1>1. stored' = stored /\ buffer' = buffer /\ status' = status
  BY DEF vars
<1>2. CarefulInv'
  BY <1>1 DEF CarefulInv, Opened
<1>3. View' = View /\ Persisted' = Persisted
  BY <1>1 DEF View, Persisted, Now
<1> QED BY <1>1, <1>2, <1>3 DEF Step, Table!vars

LEMMA InsertRecordStep ==
  ASSUME CarefulInv, NEW r \in RecordIds, InsertRecordAfter(r),
         buffer.isModified => buffer.recordId <= r + 1
  PROVE  Step
<1> DEFINE written == WriteRecordBufferIfDirty(Now)
<1>1. status = "open"
  BY DEF InsertRecordAfter
<1>2. r \in 0..(Len(Now.stored) - 1) /\ Careful(Now)
  BY <1>1, OpenState
<1>3. Careful(written) /\ Reads(written) = Reads(Now) /\ Stored(written) = Reads(Now)
  BY <1>2, WriteCareful
<1>4. written.status = "open"
  BY <1>3 DEF Careful, Readable
<1>5. CASE Len(stored) >= MaxNumRecords
  <2>1. Becomes(written)
    BY <1>5 DEF InsertRecordAfter
  <2> HIDE DEF written
  <2>2. status' = "open" /\ CarefulInv' /\ View' = View /\ Persisted' = View
    BY <1>1, <1>3, <2>1, OpenState, BecomesCareful
  <2> QED BY <1>1, <2>2, TableSync DEF Step
<1>6. CASE ~(Len(stored) >= MaxNumRecords)
  <2>1. PICK raw \in RawRecords :
          Becomes(SetToDefault([written EXCEPT !.stored = InsertAt(@, r + 2, raw)], r + 1))
    BY <1>4, <1>6 DEF InsertRecordAfter
  <2> DEFINE next == Inserted(Now, r, raw)
  <2>2. Becomes(next)
    BY <2>1 DEF Inserted
  <2>3. Len(Now.stored) < MaxNumRecords
    <3> DEFINE len == Len(Now.stored)
    <3>1. len \in 1..MaxNumRecords /\ ~(len >= MaxNumRecords)
      BY <1>1, <1>2, <1>6, OpenState, ReadsType
    <3> HIDE DEF len
    <3>2. len < MaxNumRecords
      BY <3>1, ConstantsType, SMT
    <3> QED BY <3>2 DEF len
  <2>4. Now.buffer.isModified => Now.buffer.recordId <= r + 1
    BY <1>1, OpenState
  <2>5. /\ Careful(next) /\ Reads(next) = InsertAt(Reads(Now), r + 2, Defaults)
        /\ Stored(next) = Reads(next)
    BY <1>2, <2>3, <2>4, InsertCareful
  <2> HIDE DEF next
  <2>6. /\ status' = "open" /\ CarefulInv' /\ View' = Reads(next) /\ Persisted' = Stored(next)
    BY <2>2, <2>5, BecomesCareful
  <2>7. /\ View' = InsertAt(View, r + 2, Defaults) /\ Persisted' = View'
        /\ Len(View) < MaxNumRecords /\ r \in 0..(Len(View) - 1)
    BY <1>1, <2>3, <2>5, <2>6, OpenState
  <2> QED BY <1>1, <2>6, <2>7, TableInsert DEF Step
<1> QED BY <1>5, <1>6

LEMMA DeleteRecordStep ==
  ASSUME CarefulInv, NEW r \in RecordIds, DeleteRecord(r),
         buffer.recordId < r \/ buffer.recordId = NO_RECORD_ID
  PROVE  Step
<1>1. status = "open" /\ UNCHANGED <<buffer, status>>
  BY DEF DeleteRecord
<1>2. r \in 0..(Len(Now.stored) - 1) /\ Careful(Now)
      /\ (Now.buffer.recordId < r \/ Now.buffer.recordId = NO_RECORD_ID)
  BY <1>1, OpenState
<1>3. CASE Len(stored) > 1
  <2> DEFINE next == [Now EXCEPT !.stored = RemoveAt(@, r + 1)]
  <2>1. Len(Now.stored) > 1
    BY <1>1, <1>3, OpenState
  <2>2. /\ Careful(next) /\ Reads(next) = RemoveAt(Reads(Now), r + 1)
        /\ Stored(next) = RemoveAt(Stored(Now), r + 1)
    BY <1>2, <2>1, DeleteCareful
  <2>3. Becomes(next)
    <3>1. stored' = RemoveAt(stored, r + 1)
      BY <1>3 DEF DeleteRecord
    <3>2. /\ next.stored = RemoveAt(stored, r + 1) /\ next.buffer = buffer
          /\ next.status = status
      BY DEF Now
    <3> QED BY <1>1, <3>1, <3>2 DEF Becomes
  <2> HIDE DEF next
  <2>4. status' = "open" /\ CarefulInv' /\ View' = Reads(next) /\ Persisted' = Stored(next)
    BY <2>2, <2>3, BecomesCareful
  <2>5. /\ View' = RemoveAt(View, r + 1) /\ Persisted' = RemoveAt(Persisted, r + 1)
        /\ Len(View) > 1 /\ r \in 0..(Len(View) - 1)
    BY <1>1, <2>1, <2>2, <2>4, OpenState
  <2> QED BY <1>1, <2>4, <2>5, TableDelete DEF Step
<1>4. CASE ~(Len(stored) > 1)
  <2>1. stored' = stored
    BY <1>4 DEF DeleteRecord
  <2>2. UNCHANGED vars
    BY <1>1, <2>1 DEF vars
  <2> QED BY <2>2, StutterStep
<1> QED BY <1>3, <1>4

LEMMA SyncStep ==
  ASSUME CarefulInv, SyncTable, buffer.recordId # NO_RECORD_ID
  PROVE  Step
<1> DEFINE next == StoreRecordBuffer(Now)
<1>1. status = "open" /\ Becomes(next)
  BY DEF SyncTable
<1>2. Careful(Now) /\ Now.buffer.recordId # NO_RECORD_ID
  BY <1>1, OpenState
<1>3. Careful(next) /\ Reads(next) = Reads(Now) /\ Stored(next) = Reads(Now)
  BY <1>2, SyncCareful
<1> HIDE DEF next
<1>4. status' = "open" /\ CarefulInv' /\ View' = View /\ Persisted' = View
  BY <1>1, <1>3, OpenState, BecomesCareful
<1> QED BY <1>1, <1>4, TableSync DEF Step

LEMMA ImportStep ==
  ASSUME CarefulInv, NEW data \in ImportData, NEW k \in 1..Len(data), IsImportable(data, k),
         ImportTable(data, k)
  PROVE  Step
<1>1. status = "open"
  BY DEF ImportTable
<1>2. PICK raw \in RawRecords : Becomes(SetRecordIn(Imported(data, k, raw), 0, data[1]))
  BY DEF ImportTable
<1> DEFINE next == SetRecordIn(Imported(data, k, raw), 0, data[1])
           given == [m \in 1..k |-> data[m]]
<1>3. Now \in Tables
  BY <1>1, OpenState
<1>4. /\ Careful(next) /\ Reads(next) = given /\ Stored(next) = given
      /\ k \in 1..MaxNumRecords /\ given \in [1..k -> Valid] /\ given # <<>>
  BY <1>1, <1>3, ImportCareful
<1>5. Becomes(next)
  BY <1>2
<1> HIDE DEF next, given
<1>6. status' = "open" /\ CarefulInv' /\ View' = given /\ Persisted' = given
  BY <1>4, <1>5, BecomesCareful
<1> QED BY <1>1, <1>4, <1>6, TableImport DEF Step

(* The first record is there from the beginning for a caller.              *)
LEMMA CreateStep ==
  ASSUME CarefulInv, CreateFirstRecord
  PROVE  Step
<1>1. status = "creating" /\ stored = <<>> /\ buffer = NoBuffer
  BY DEF CreateFirstRecord, CarefulInv
<1>2. PICK raw \in RawRecords :
        Becomes(SetToDefault([Now EXCEPT !.stored = <<raw>>, !.status = "open"], 0))
  BY DEF CreateFirstRecord
<1> DEFINE next == SetToDefault([Now EXCEPT !.stored = <<raw>>, !.status = "open"], 0)
<1>3. Careful(next) /\ Reads(next) = <<Defaults>> /\ Stored(next) = <<Defaults>>
  BY <1>1, CreateCareful
<1>4. Becomes(next)
  BY <1>2
<1> HIDE DEF next
<1>5. status' = "open" /\ CarefulInv' /\ View' = <<Defaults>> /\ Persisted' = <<Defaults>>
  BY <1>3, <1>4, BecomesCareful
<1> QED BY <1>1, <1>5 DEF Step, Table!vars

LEMMA CloseStep ==
  ASSUME CarefulInv, CloseDataBase
  PROVE  Step
<1>1. status = "open" /\ status' = "closed" /\ buffer' = NoBuffer /\ stored' = stored
  BY DEF CloseDataBase, CarefulInv
<1>2. /\ Careful(Opened) /\ Opened \in Tables /\ Opened.stored = stored
      /\ Len(stored) \in 1..MaxNumRecords /\ AllValid(Opened) /\ stored \in Seq(RawRecords)
      /\ Len(stored) \in Nat
  <2>1. Careful(Opened) /\ Opened \in Tables /\ Opened.stored = stored
    BY <1>1 DEF CarefulInv, Careful, Readable, Opened
  <2> QED BY <2>1, FieldsOfTable DEF Careful, Readable
<1>3. NoBuffer.recordId = NO_RECORD_ID /\ NoBuffer.isModified = FALSE /\ NoBuffer \in Buffers
  BY ConstantsType, SMT DEF NoBuffer, Buffers
<1>4. /\ Opened'.stored = stored /\ Opened'.buffer = NoBuffer /\ Opened'.status = "open"
      /\ Opened' \in Tables
  BY <1>1, <1>2, <1>3 DEF Opened, Tables
<1> DEFINE next == Opened'
<1>5. Opened' = next
  OBVIOUS
<1> HIDE DEF next
<1>6. Careful(next)
  <2>1. BufferMatches(next)
    BY <1>3, <1>4, <1>5 DEF BufferMatches
  <2>2. AllValid(next)
    BY <1>2, <1>4, <1>5 DEF AllValid
  <2> QED BY <1>2, <1>3, <1>4, <1>5, <2>1, <2>2 DEF Careful, Readable
<1>7. CarefulInv'
  BY <1>1, <1>5, <1>6 DEF CarefulInv
<1>8. View' = Reads(next) /\ Persisted' = Stored(next)
  <2>1. CarefulInv' /\ status' # "creating" => View' = Reads(Opened') /\ Persisted' = Stored(Opened')
    BY ViewOfNextState DEF ViewIsOfState
  <2> QED BY <1>1, <1>5, <1>7, <2>1
<1>9. Persisted' = Persisted
  BY <1>1 DEF Persisted
<1>10. Reads(next) = Stored(next)
  <2>1. ASSUME NEW n \in 1..Len(stored)
        PROVE  ReadOf(next, n - 1) = Decoded(stored[n])
    <3> DEFINE r == n - 1
    <3>1. r \in 0..(Len(stored) - 1) /\ r + 1 = n
      BY <1>2, Index
    <3>2. r # NO_RECORD_ID
      BY <1>2, <3>1, RecordNumbers DEF Careful
    <3> HIDE DEF r
    <3> QED BY <1>3, <1>4, <1>5, <3>1, <3>2 DEF ReadOf, r
  <2> QED BY <1>4, <1>5, <2>1 DEF Reads, Stored
<1>11. Table!Close
  <2>1. (status \in {"creating", "open"})' = FALSE
    <3>1. ~(status' \in {"creating", "open"})
      BY <1>1
    <3> QED BY <3>1
  <2>2. View' = Persisted
    BY <1>8, <1>9, <1>10
  <2> QED BY <1>1, <1>9, <2>1, <2>2 DEF Table!Close
<1> QED BY <1>7, <1>11 DEF Step, Table!Next

LEMMA OpenStep ==
  ASSUME CarefulInv, OpenDataBase
  PROVE  Step
<1>1. /\ status = "closed" /\ status' = "open" /\ stored' = stored /\ buffer' = buffer
  BY DEF OpenDataBase
<1>2. Opened' = Opened
  BY <1>1 DEF Opened
<1>3. CarefulInv'
  BY <1>1, <1>2 DEF CarefulInv
<1>4. View = Reads(Opened) /\ Persisted = Stored(Opened)
  BY <1>1, ViewOfState
<1>5. View' = Reads(Opened') /\ Persisted' = Stored(Opened')
  <2>1. CarefulInv' /\ status' # "creating" => View' = Reads(Opened') /\ Persisted' = Stored(Opened')
    BY ViewOfNextState DEF ViewIsOfState
  <2> QED BY <1>1, <1>3, <2>1
<1>6. Table!Open
  BY <1>1, <1>2, <1>4, <1>5 DEF Table!Open
<1> QED BY <1>3, <1>6 DEF Step, Table!Next

LEMMA InitStep == Init => CarefulInv /\ Table!Init
<1> SUFFICES ASSUME Init PROVE CarefulInv /\ Table!Init
  OBVIOUS
<1>1. stored = <<>> /\ buffer = NoBuffer /\ status = "creating"
  BY DEF Init
<1>2. CarefulInv
  BY <1>1 DEF CarefulInv
<1>3. Table!Init
  <2>1. status \in {"creating", "open"}
    BY <1>1
  <2> QED BY <1>1, <2>1 DEF Table!Init
<1> QED BY <1>2, <1>3

LEMMA CarefulStep == CarefulInv /\ [NextCareful]_vars => Step
<1> SUFFICES ASSUME CarefulInv, [NextCareful]_vars PROVE Step
  OBVIOUS
<1>1. CASE UNCHANGED vars
  BY <1>1, StutterStep
<1>2. CASE CreateFirstRecord
  BY <1>2, CreateStep
<1>3. CASE CloseDataBase
  BY <1>3, CloseStep
<1>4. CASE OpenDataBase
  BY <1>4, OpenStep
<1>5. ASSUME NEW r \in RecordIds, GetRecord(r) PROVE Step
  BY <1>5, GetRecordStep
<1>6. ASSUME NEW r \in RecordIds, NEW data \in Proposed, SetRecord(r, data) PROVE Step
  BY <1>6, SetRecordStep
<1>7. ASSUME NEW r \in RecordIds, NEW c \in Columns, NEW value, SetValue(r, c, value) PROVE Step
  BY <1>7, SetValueStep
<1>8. ASSUME NEW r \in RecordIds, NEW c \in Columns, NEW delta \in Deltas, ChangeValue(r, c, delta)
      PROVE  Step
  BY <1>8, ChangeValueStep
<1>9. ASSUME NEW data \in ImportData, NEW k \in 1..Len(data), IsImportable(data, k),
             ImportTable(data, k)
      PROVE  Step
  BY <1>9, ImportStep
<1>10. ASSUME buffer.recordId # NO_RECORD_ID, SyncTable PROVE Step
  BY <1>10, SyncStep
<1>11. ASSUME NEW r \in RecordIds, InsertRecordAfter(r),
              buffer.isModified => buffer.recordId <= r + 1
       PROVE  Step
  BY <1>11, InsertRecordStep
<1>12. ASSUME NEW r \in RecordIds, DeleteRecord(r),
              buffer.recordId < r \/ buffer.recordId = NO_RECORD_ID
       PROVE  Step
  BY <1>12, DeleteRecordStep
<1> HIDE DEF Step
<1>13. CASE NextPlain
  BY <1>2, <1>3, <1>4, <1>5, <1>6, <1>7, <1>8, <1>9, <1>13, Zenon DEF NextPlain
<1> QED BY <1>1, <1>10, <1>11, <1>12, <1>13, Zenon DEF NextCareful

LEMMA CarefulInvHolds == SpecCareful => []CarefulInv
<1>1. CarefulInv /\ [NextCareful]_vars => CarefulInv'
  BY CarefulStep DEF Step
<1> QED BY InitStep, <1>1, PTL DEF SpecCareful

(* BitsOfData.c's record buffer keeps what BitsOfData.h promises about a   *)
(* table, for a caller that knows of the buffer: every call changes the    *)
(* record it names and no other, and only the record used last can be      *)
(* lost with the power.                                                    *)
THEOREM SpecImplementsTableView == SpecCareful => ImplementsTableView
<1>1. CarefulInv /\ [NextCareful]_vars => [Table!Next]_(Table!vars)
  BY CarefulStep DEF Step
<1> QED BY InitStep, CarefulInvHolds, <1>1, PTL DEF SpecCareful, ImplementsTableView, Table!Spec

(* The asserts of rs_getRawRecord() and rs_setRawRecord() hold: the buffer *)
(* names a record that exists whenever it is written back or filled.       *)
THEOREM SpecNeverHalted == SpecCareful => []NeverHalted
<1>1. CarefulInv => NeverHalted
  BY DEF CarefulInv, NeverHalted
<1> QED BY CarefulInvHolds, <1>1, PTL

(* The types of the stored records and of the record buffer.               *)
THEOREM SpecTypeOK == SpecCareful => []TypeOK
<1>1. CarefulInv => TypeOK
  <2> SUFFICES ASSUME CarefulInv PROVE TypeOK
    OBVIOUS
  <2>1. CASE status = "creating"
    <3>1. stored = <<>> /\ buffer = NoBuffer
      BY <2>1 DEF CarefulInv
    <3>2. <<>> \in Seq(RawRecords) /\ Len(<<>>) = 0 /\ 0 <= MaxNumRecords
      BY EmptySeq, ConstantsType, SMT
    <3> QED BY <2>1, <3>1, <3>2 DEF TypeOK
  <2>2. CASE status # "creating"
    <3>1. /\ Careful(Opened) /\ Readable(Opened) /\ Opened \in Tables
          /\ Opened.stored = stored /\ Opened.buffer = buffer
      BY <2>2 DEF CarefulInv, Careful, Readable, Opened
    <3>2. /\ stored \in Seq(RawRecords)
          /\ buffer.recordId \in 0..(MaxNumRecords - 1) \union {NO_RECORD_ID}
          /\ buffer.isModified \in BOOLEAN
      BY <3>1, FieldsOfTable
    <3>3. Len(stored) <= MaxNumRecords
      <4> DEFINE len == Len(stored)
      <4>1. len \in 1..MaxNumRecords
        BY <3>1 DEF Readable
      <4> HIDE DEF len
      <4>2. len <= MaxNumRecords
        BY <4>1, ConstantsType, SMT
      <4> QED BY <4>2 DEF len
    <3>4. buffer = NoBuffer \/ buffer.columns \in Decodable \union Proposed
      <4>1. CASE buffer.recordId = NO_RECORD_ID
        BY <3>1, <4>1 DEF Careful
      <4>2. CASE buffer.recordId # NO_RECORD_ID
        <5> DEFINE r == buffer.recordId
        <5>1. r \in 0..(Len(stored) - 1)
          <6> DEFINE len == Len(stored)
          <6>1. r < len /\ r \in Nat /\ len \in Nat
            BY <3>1, <4>2, ReadableBuffer, FieldsOfTable DEF RecordExists
          <6> HIDE DEF r, len
          <6>2. r \in 0..(len - 1)
            BY <6>1, SMT
          <6> QED BY <6>2 DEF len
        <5>2. ReadOf(Opened, r) \in Valid
          BY <3>1, <5>1, ReadIsValid DEF Careful
        <5>3. ReadOf(Opened, r) = buffer.columns
          BY <3>1 DEF ReadOf
        <5> QED BY <5>2, <5>3, RecordSets
      <4> QED BY <4>1, <4>2
    <3>5. status \in {"creating", "open", "closed", "halted"}
      BY DEF CarefulInv
    <3> QED BY <3>2, <3>3, <3>4, <3>5 DEF TypeOK
  <2> QED BY <2>1, <2>2
<1> QED BY CarefulInvHolds, <1>1, PTL

(* SubSeq() of what is read, where it is what was given.                   *)
LEMMA PrefixIsGiven ==
  ASSUME NEW S, NEW s \in Seq(S), NEW t \in Seq(S), NEW n \in Nat, n <= Len(s), n <= Len(t),
         \A i \in 1..n : s[i] = t[i]
  PROVE  SubSeq(s, 1, n) = SubSeq(t, 1, n)
<1>1. Len(s) \in Nat /\ Len(t) \in Nat
  BY LenProperties
<1>2. \A i \in 1..n : s[i] \in S /\ t[i] \in S
  <2> SUFFICES ASSUME NEW i \in 1..n PROVE s[i] \in S /\ t[i] \in S
    OBVIOUS
  <2>1. i \in 1..Len(s) /\ i \in 1..Len(t)
    BY <1>1, SMT
  <2> QED BY <2>1, ElementOfSeq
<1> DEFINE a == SubSeq(s, 1, n)
           b == SubSeq(t, 1, n)
<1>3. (IF 1 <= n THEN n - 1 + 1 ELSE 0) = n /\ n - 1 + 1 = n /\ \A i \in 1..n : 1 + i - 1 = i
  BY SMT
<1>4. a \in Seq(S) /\ Len(a) = n /\ \A i \in 1..n : a[i] = s[i]
  <2>1. /\ a \in Seq(S) /\ Len(a) = IF 1 <= n THEN n - 1 + 1 ELSE 0
        /\ \A i \in 1..(n - 1 + 1) : a[i] = s[1 + i - 1]
    BY <1>2, SubSeqProperties
  <2> QED BY <1>3, <2>1
<1>5. b \in Seq(S) /\ Len(b) = n /\ \A i \in 1..n : b[i] = t[i]
  <2>1. /\ b \in Seq(S) /\ Len(b) = IF 1 <= n THEN n - 1 + 1 ELSE 0
        /\ \A i \in 1..(n - 1 + 1) : b[i] = t[1 + i - 1]
    BY <1>2, SubSeqProperties
  <2> QED BY <1>3, <2>1
<1> HIDE DEF a, b
<1>6. a = b
  BY <1>4, <1>5, SeqEqual
<1> QED BY <1>6 DEF a, b

LEMMA ImportPrefix ==
  ASSUME Now \in Tables, status = "open",
         NEW data \in ImportData, NEW raw \in RawRecords, NEW k \in 1..Len(data)
  PROVE  LET imported == SetRecordIn(Imported(data, k, raw), 0, data[1])
             invalid  == {n \in 1..k : data[n] \notin Valid}
             numValid == IF invalid = {} THEN k ELSE Min(invalid) - 1
         IN /\ SubSeq(ViewOf(imported), 1, numValid) = SubSeq(data, 1, numValid)
            /\ Len(imported.stored) = IF invalid = {} THEN k ELSE numValid + 1
<1> DEFINE imported == SetRecordIn(Imported(data, k, raw), 0, data[1])
           invalid  == {n \in 1..k : data[n] \notin Valid}
           numValid == IF invalid = {} THEN k ELSE Min(invalid) - 1
           v == numValid + 1
<1>1. data \in Seq([Columns -> Int]) /\ Len(data) \in 1..MaxNumRecords /\ Len(data) \in Nat
      /\ k \in Nat /\ k >= 1 /\ Len(data) <= MaxNumRecords /\ k <= Len(data)
  <2> DEFINE len == Len(data)
  <2>1. data \in Seq([Columns -> Int]) /\ len \in 1..MaxNumRecords /\ k \in 1..len
    BY RecordBufferAssumption
  <2> HIDE DEF len
  <2>2. len \in Nat /\ k \in Nat /\ k >= 1 /\ len <= MaxNumRecords /\ k <= len
    BY <2>1, ConstantsType, SMT
  <2> QED BY <2>1, <2>2 DEF len
<1>2. /\ numValid \in Nat /\ numValid <= k /\ v \in 1..(k + 1)
      /\ \A m \in 1..(v - 1) : data[m] \in Valid
      /\ v <= k => data[v] \notin Valid
      /\ invalid = {} => v = k + 1
      /\ invalid # {} => v # k + 1
  <2>1. CASE invalid = {}
    <3>1. numValid = k
      BY <2>1
    <3>2. v = k + 1 /\ k \in Nat /\ k <= k /\ k + 1 \in 1..(k + 1) /\ ~(v <= k) /\ v - 1 = k
      BY <1>1, <3>1, SMT
    <3>3. \A m \in 1..k : data[m] \in Valid
      BY <2>1
    <3> QED BY <2>1, <3>1, <3>2, <3>3
  <2>2. CASE invalid # {}
    <3>1. PICK x \in invalid : \A y \in invalid : x <= y
      <4>1. invalid \subseteq Nat
        BY SMT
      <4> QED BY <2>2, <4>1, LeastElement
    <3> DEFINE least == Min(invalid)
    <3>2. least \in invalid /\ \A y \in invalid : least <= y
      BY <3>1 DEF Min
    <3> HIDE DEF least
    <3>3. numValid = least - 1
      BY <2>2 DEF least
    <3>4. least \in 1..k /\ data[least] \notin Valid
      BY <3>2
    <3>5. v = least /\ v - 1 = least - 1 /\ numValid \in Nat /\ numValid <= k /\ v \in 1..(k + 1)
          /\ v # k + 1
      BY <1>1, <3>3, <3>4, SMT
    <3>6. ASSUME NEW m \in 1..(least - 1)
          PROVE  data[m] \in Valid
      <4>1. m \in 1..k /\ ~(least <= m)
        BY <3>4, SMT
      <4> QED BY <3>2, <4>1
    <3> QED BY <2>2, <3>4, <3>5, <3>6
  <2> QED BY <2>1, <2>2
<1>3. v = numValid + 1
  OBVIOUS
<1> HIDE DEF v, numValid, invalid
<1>4. IsGiven(data, k, v)
  BY <1>1, <1>2 DEF IsGiven
<1>5. /\ Readable(imported)
      /\ Len(imported.stored) = IF v = k + 1 THEN k ELSE v
      /\ \A m \in 0..(v - 2) : ReadOf(imported, m) = data[m + 1]
  BY <1>4, ImportEffect
<1> HIDE DEF imported
<1> DEFINE size == Len(imported.stored)
           read == ViewOf(imported)
<1>6. /\ size \in Nat /\ size = (IF invalid = {} THEN k ELSE numValid + 1)
      /\ numValid <= size
  <2>1. size = (IF invalid = {} THEN k ELSE numValid + 1)
    BY <1>2, <1>3, <1>5
  <2> QED BY <1>1, <1>2, <2>1, SMT
<1>7. /\ read = [n \in 1..size |-> ReadOf(imported, n - 1)]
  BY <1>5, ViewIsReads DEF Reads
<1>8. read \in Seq([Columns -> Int]) /\ Len(read) = size
  <2>1. ASSUME NEW n \in 1..size
        PROVE  ReadOf(imported, n - 1) \in [Columns -> Int]
    <3> DEFINE r == n - 1
    <3>1. r \in 0..(size - 1)
      BY <1>6, Index
    <3> HIDE DEF r
    <3>2. /\ FillRecordBuffer(imported, r).buffer.columns = ReadOf(imported, r)
          /\ Readable(FillRecordBuffer(imported, r))
      BY <1>5, <3>1, FillEffect
    <3>3. FillRecordBuffer(imported, r).buffer.columns \in [Columns -> Int]
      BY <3>2, FieldsOfTable DEF Readable
    <3> QED BY <3>2, <3>3 DEF r
  <2> DEFINE f == [n \in 1..size |-> ReadOf(imported, n - 1)]
  <2>2. f \in [1..size -> [Columns -> Int]]
    BY <2>1
  <2> HIDE DEF f, size, read
  <2>3. f \in Seq([Columns -> Int]) /\ Len(f) = size
    BY <1>6, <2>2, SMT
  <2> QED BY <1>7, <2>3 DEF f
<1>9. ASSUME NEW i \in 1..numValid
      PROVE  read[i] = data[i]
  <2>1. i \in 1..size /\ i - 1 \in 0..(v - 2) /\ i - 1 + 1 = i
    <3> HIDE DEF size
    <3> QED BY <1>2, <1>3, <1>6, SMT
  <2>2. ReadOf(imported, i - 1) = data[i - 1 + 1]
    BY <1>5, <2>1
  <2> QED BY <1>7, <2>1, <2>2
<1> HIDE DEF read, size
<1>10. numValid <= Len(data)
  <2> DEFINE len == Len(data)
  <2> HIDE DEF len
  <2>1. numValid <= len
    BY <1>1, <1>2, SMT DEF len
  <2> QED BY <2>1 DEF len
<1>11. SubSeq(read, 1, numValid) = SubSeq(data, 1, numValid)
  <2>1. numValid <= Len(read) /\ numValid \in Nat
    BY <1>2, <1>6, <1>8
  <2> QED BY <1>1, <1>8, <1>9, <1>10, <2>1, PrefixIsGiven
<1> QED BY <1>6, <1>11 DEF read, size, imported, numValid, invalid

(* Whatever is in the buffer when it starts, BDB_importTable() leaves the  *)
(* records in front of the first invalid one as given, and of the others   *)
(* the table has one at most.                                              *)
THEOREM SpecImportsValidPrefix == SpecCareful => []ImportsValidPrefix
<1>1. CarefulInv => ImportsValidPrefix
  <2> SUFFICES ASSUME CarefulInv, status = "open" PROVE ImportsValidPrefix
    BY DEF ImportsValidPrefix
  <2>1. Now \in Tables
    BY OpenState
  <2> QED BY <2>1, ImportPrefix DEF ImportsValidPrefix
<1> QED BY CarefulInvHolds, <1>1, PTL
=============================================================================
