--------------------------- MODULE ReferencesProofs ---------------------------
(***************************************************************************)
(* Proofs about References for every capacity of the two tables and every  *)
(* number of bits that holds a reference.                                  *)
(***************************************************************************)
EXTENDS References, Integers, Sequences, SequencesExt, WellFoundedInduction,
        SequenceTheorems, TLAPS

-----------------------------------------------------------------------------
(***************************************************************************)
(* Induction over numbers, as facts about sets of them: a theorem with an  *)
(* operator as its parameter cannot be applied by the provers, one with a  *)
(* set can.                                                                *)
(***************************************************************************)

(* A set of natural numbers has a least element.                           *)
LEMMA LeastElement ==
  ASSUME NEW T, T \subseteq Nat, T # {}
  PROVE  \E x \in T : \A y \in T : x <= y
<1> DEFINE R == OpToRel(<, Nat)
<1>1. IsWellFoundedOn(R, Nat)
  BY NatLessThanWellFounded
<1>2. \A x, y \in Nat : x < y => <<x, y>> \in R
  BY SMT DEF OpToRel
<1> HIDE DEF R
<1>3. PICK x \in T : \A y \in T : ~(<<y, x>> \in R)
  BY <1>1, WFMin
<1>4. ASSUME NEW y \in T
      PROVE  x <= y
  <2>1. x \in Nat /\ y \in Nat
    OBVIOUS
  <2>2. ~(y < x)
    BY <1>2, <1>3, <2>1
  <2> QED BY <2>1, <2>2, SMT
<1> QED BY <1>4

(* A set that holds zero, and with a number its successor, holds them all. *)
LEMMA SetInduction ==
  ASSUME NEW S, S \subseteq Nat, 0 \in S, \A n \in S : n + 1 \in S
  PROVE  S = Nat
<1> SUFFICES ASSUME Nat \ S # {} PROVE FALSE
  OBVIOUS
<1>1. PICK x \in Nat \ S : \A y \in Nat \ S : x <= y
  BY LeastElement
<1>2. x - 1 \in Nat /\ x - 1 < x
  BY <1>1, SMT
<1>3. x - 1 \in S
  BY <1>1, <1>2, SMT
<1> QED BY <1>1, <1>2, <1>3, SMT
-----------------------------------------------------------------------------
(***************************************************************************)
(* Insertion and removal in a sequence, element by element.                *)
(***************************************************************************)
WithInserted(s, i, e, j) == IF j < i THEN s[j] ELSE IF j = i THEN e ELSE s[j - 1]

LEMMA InsertAtEffect ==
  ASSUME NEW S, NEW s \in Seq(S), NEW i \in 1..(Len(s) + 1), NEW e \in S
  PROVE  /\ InsertAt(s, i, e) \in Seq(S)
         /\ Len(InsertAt(s, i, e)) = Len(s) + 1
         /\ \A j \in 1..(Len(s) + 1) : InsertAt(s, i, e)[j] = WithInserted(s, i, e, j)
<1> DEFINE a == SubSeq(s, 1, i - 1)
           b == SubSeq(s, i, Len(s))
           m == a \o <<e>>
           len == Len(s)
<1>1. len \in Nat /\ i \in Int /\ \A j \in 1..len : s[j] \in S
  BY LenProperties, ElementOfSeq
<1>2. a \in Seq(S) /\ Len(a) = i - 1 /\ \A j \in 1..(i - 1) : a[j] = s[j]
  <2>1. \A j \in 1..(i - 1) : s[j] \in S
    BY <1>1, SMT
  <2> QED BY <1>1, <2>1, SubSeqProperties, SMT
<1>3. b \in Seq(S) /\ Len(b) = len - i + 1 /\ \A j \in 1..(len - i + 1) : b[j] = s[i + j - 1]
  <2>1. \A j \in i..len : s[j] \in S
    BY <1>1, SMT
  <2>2. /\ b \in Seq(S) /\ Len(b) = IF i <= len THEN len - i + 1 ELSE 0
        /\ \A j \in 1..(len - i + 1) : b[j] = s[i + j - 1]
    BY <1>1, <2>1, SubSeqProperties
  <2>3. (IF i <= len THEN len - i + 1 ELSE 0) = len - i + 1
    BY <1>1, SMT
  <2> QED BY <2>2, <2>3
<1>4. <<e>> \in Seq(S) /\ Len(<<e>>) = 1 /\ <<e>>[1] = e
  OBVIOUS
<1>5. m \in Seq(S) /\ Len(m) = i
      /\ \A j \in 1..i : m[j] = IF j <= i - 1 THEN s[j] ELSE e
  <2> HIDE DEF a
  <2>1. m \in Seq(S) /\ Len(m) = Len(a) + 1
        /\ \A j \in 1..(Len(a) + 1) : m[j] = IF j <= Len(a) THEN a[j] ELSE <<e>>[j - Len(a)]
    BY <1>2, <1>4, ConcatProperties
  <2> HIDE DEF m
  <2>2. Len(a) = i - 1 /\ (i - 1) + 1 = i
    BY <1>1, <1>2, SMT
  <2>3. \A j \in 1..i : /\ j <= i - 1 => j \in 1..(i - 1)
                        /\ ~(j <= i - 1) => j - (i - 1) = 1
    BY <1>1, SMT
  <2>4. \A j \in 1..i : m[j] = IF j <= i - 1 THEN a[j] ELSE <<e>>[j - (i - 1)]
    BY <2>1, <2>2
  <2> QED BY <1>2, <1>4, <2>1, <2>2, <2>3, <2>4
<1>6. InsertAt(s, i, e) = m \o b
  BY DEF InsertAt
<1> HIDE DEF m, b
<1>7. m \o b \in Seq(S) /\ Len(m \o b) = Len(m) + Len(b)
      /\ \A j \in 1..(Len(m) + Len(b)) : (m \o b)[j] = IF j <= Len(m) THEN m[j] ELSE b[j - Len(m)]
  BY <1>3, <1>5, ConcatProperties
<1> DEFINE t == m \o b
<1> HIDE DEF t, len
<1>8. Len(t) = len + 1
  BY <1>1, <1>3, <1>5, <1>7, SMT DEF t
<1>9. ASSUME NEW j \in 1..(len + 1)
      PROVE  t[j] = IF j < i THEN s[j] ELSE IF j = i THEN e ELSE s[j - 1]
  <2>1. Len(m) + Len(b) = len + 1 /\ Len(m) = i
    BY <1>1, <1>3, <1>5, SMT DEF len
  <2>2. t[j] = IF j <= i THEN m[j] ELSE b[j - i]
    BY <1>7, <2>1 DEF t
  <2>3. CASE j <= i
    BY <1>1, <1>5, <2>2, <2>3, SMT
  <2>4. CASE j > i
    <3>1. j - i \in 1..(len - i + 1) /\ i + (j - i) - 1 = j - 1
      BY <1>1, <2>4, SMT
    <3>2. b[j - i] = s[j - 1]
      BY <1>3, <3>1 DEF len
    <3> QED BY <1>1, <2>2, <2>4, <3>2, SMT
  <2> QED BY <1>1, <2>3, <2>4, SMT
<1> QED BY <1>6, <1>7, <1>8, <1>9 DEF t, len, WithInserted

WithRemoved(s, i, j) == IF j < i THEN s[j] ELSE s[j + 1]

LEMMA RemoveAtEffect ==
  ASSUME NEW S, NEW s \in Seq(S), NEW i \in 1..Len(s)
  PROVE  /\ RemoveAt(s, i) \in Seq(S)
         /\ Len(RemoveAt(s, i)) = Len(s) - 1
         /\ \A j \in 1..(Len(s) - 1) : RemoveAt(s, i)[j] = WithRemoved(s, i, j)
<1> DEFINE a == SubSeq(s, 1, i - 1)
           b == SubSeq(s, i + 1, Len(s))
           len == Len(s)
           t == a \o b
<1>1. len \in Nat /\ i \in Int /\ \A j \in 1..len : s[j] \in S
  BY LenProperties, ElementOfSeq
<1>2. a \in Seq(S) /\ Len(a) = i - 1 /\ \A j \in 1..(i - 1) : a[j] = s[j]
  <2>1. \A j \in 1..(i - 1) : s[j] \in S
    BY <1>1, SMT
  <2> QED BY <1>1, <2>1, SubSeqProperties, SMT
<1>3. b \in Seq(S) /\ Len(b) = len - i /\ \A j \in 1..(len - i) : b[j] = s[i + j]
  <2>1. \A j \in (i + 1)..len : s[j] \in S
    BY <1>1, SMT
  <2>2. /\ b \in Seq(S) /\ Len(b) = IF i + 1 <= len THEN len - (i + 1) + 1 ELSE 0
        /\ \A j \in 1..(len - (i + 1) + 1) : b[j] = s[i + 1 + j - 1]
    BY <1>1, <2>1, SubSeqProperties
  <2>3. (IF i + 1 <= len THEN len - (i + 1) + 1 ELSE 0) = len - i /\ len - (i + 1) + 1 = len - i
        /\ \A j \in 1..(len - i) : i + 1 + j - 1 = i + j
    BY <1>1, SMT
  <2> QED BY <2>2, <2>3
<1>4. RemoveAt(s, i) = t
  BY DEF RemoveAt
<1> HIDE DEF a, b
<1>5. t \in Seq(S) /\ Len(t) = Len(a) + Len(b)
      /\ \A j \in 1..(Len(a) + Len(b)) : t[j] = IF j <= Len(a) THEN a[j] ELSE b[j - Len(a)]
  BY <1>2, <1>3, ConcatProperties
<1> HIDE DEF t, len
<1>6. Len(t) = len - 1
  BY <1>1, <1>2, <1>3, <1>5, SMT
<1>7. ASSUME NEW j \in 1..(len - 1)
      PROVE  t[j] = IF j < i THEN s[j] ELSE s[j + 1]
  <2>1. t[j] = IF j <= i - 1 THEN a[j] ELSE b[j - (i - 1)]
    BY <1>1, <1>2, <1>3, <1>5, SMT
  <2>2. CASE j < i
    BY <1>1, <1>2, <2>1, <2>2, SMT
  <2>3. CASE j >= i
    <3>1. j - (i - 1) \in 1..(len - i) /\ i + (j - (i - 1)) = j + 1
      BY <1>1, <2>3, SMT DEF len
    <3>2. b[j - (i - 1)] = s[j + 1]
      BY <1>3, <3>1
    <3> QED BY <1>1, <2>1, <2>3, <3>2, SMT
  <2> QED BY <1>1, <2>2, <2>3, SMT
<1> QED BY <1>4, <1>5, <1>6, <1>7 DEF len, WithRemoved

-----------------------------------------------------------------------------
N == 2 ^ NumBits

LEMMA ConstantsType ==
  /\ MaxFrom \in Nat /\ 1 <= MaxFrom /\ MaxFrom <= 250
  /\ MaxTo \in Nat /\ 2 <= MaxTo /\ MaxTo <= 250
  /\ Buffer!NO_RECORD_ID = 255
BY ReferencesAssumption, SMT DEF Buffer!NO_RECORD_ID

LEMMA NType == N \in Nat /\ N > 0 /\ N >= MaxTo
<1>1. N \in Int
  BY ReferencesAssumption, Z3 DEF N
<1>2. N >= MaxTo
  BY ReferencesAssumption DEF N
<1> HIDE DEF N
<1> QED BY <1>1, <1>2, ConstantsType, SMT

-----------------------------------------------------------------------------
(***************************************************************************)
(* Records: a reference that fits is stored as it is.                      *)
(***************************************************************************)
Refs   == 0..(N - 1)
Raws   == Buffer!RawRecords
Rec(v) == [c \in {"ref"} |-> v]
Zero   == Rec(0)

LEMMA RawsAre == Raws = [{"ref"} -> Refs]
BY DEF Raws, Refs, N, Buffer!RawRecords, Buffer!RawValues

LEMMA RefOf ==
  ASSUME NEW raw \in Raws
  PROVE  raw["ref"] \in Refs /\ raw["ref"] \in Nat /\ Rec(raw["ref"]) = raw
<1>1. raw \in [{"ref"} -> Refs]
  BY RawsAre
<1>2. raw["ref"] \in Refs
  BY <1>1
<1>3. raw["ref"] \in Nat
  BY <1>2, NType, SMT DEF Refs
<1>4. Rec(raw["ref"]) = raw
  BY <1>1 DEF Rec
<1> QED BY <1>2, <1>3, <1>4

LEMMA RecType ==
  ASSUME NEW v \in Refs
  PROVE  Rec(v) \in Raws /\ Rec(v)["ref"] = v
BY RawsAre DEF Rec

LEMMA ZeroType == Zero \in Raws /\ Zero["ref"] = 0 /\ Buffer!Defaults = Zero
                  /\ Buffer!NoBuffer.columns = Zero
<1>1. 0 \in Refs
  BY NType, SMT DEF Refs
<1> QED BY <1>1, RecType DEF Zero, Rec, Buffer!Defaults, Buffer!NoBuffer

LEMMA ModSmall ==
  ASSUME NEW b \in Nat, NEW a \in 0..(b - 1)
  PROVE  a % b = a
BY SMT

LEMMA CodecIsIdentity ==
  ASSUME NEW raw \in Raws
  PROVE  Buffer!Encoded(raw) = raw /\ Buffer!Decoded(raw) = raw
<1> DEFINE v == raw["ref"]
<1>1. v \in Refs /\ Rec(v) = raw
  BY RefOf
<1>2. (v - 0) % N = v /\ v + 0 = v
  <2> HIDE DEF v
  <2>1. v \in 0..(N - 1) /\ v - 0 = v /\ v + 0 = v
    BY <1>1, NType, SMT DEF Refs
  <2> QED BY <2>1, NType, ModSmall
<1>3. Buffer!Encoded(raw) = [c \in {"ref"} |-> (v - 0) % N]
  BY DEF Buffer!Encoded, N
<1>4. Buffer!Decoded(raw) = [c \in {"ref"} |-> v + 0]
  BY DEF Buffer!Decoded
<1> HIDE DEF v
<1> QED BY <1>1, <1>2, <1>3, <1>4 DEF Rec

-----------------------------------------------------------------------------
(***************************************************************************)
(* A table and its buffer.  What a caller reads is what would be stored if *)
(* the buffer were written back (Written), provided that a buffer which is *)
(* not modified is what is stored (Good); while a call is under way it     *)
(* need not be (Sound).                                                    *)
(***************************************************************************)
Table(s, b, st) == [stored |-> s, buffer |-> b, status |-> st]
Buf(r, m, raw)  == [recordId |-> r, isModified |-> m, columns |-> raw]
Clean(r, raw)   == Buf(r, FALSE, raw)
Dirty(r, raw)   == Buf(r, TRUE, raw)

Running == {"open", "closed"}

Overlaid(s, r, m, raw) == IF m THEN [s EXCEPT ![r + 1] = raw] ELSE s

Written(table) ==
  Overlaid(table.stored, table.buffer.recordId, table.buffer.isModified, table.buffer.columns)

SoundParts(s, r, m, raw) ==
  /\ s \in Seq(Raws) /\ Len(s) \in 1..250
  /\ r \in Nat /\ m \in BOOLEAN /\ raw \in Raws
  /\ m => r < Len(s)

Sound(table) ==
  \E s, r, m, raw : \E st \in Running :
    SoundParts(s, r, m, raw) /\ table = Table(s, Buf(r, m, raw), st)

Good(table) ==
  /\ Sound(table)
  /\ table.buffer.recordId < Len(table.stored) =>
       table.buffer.columns = Written(table)[table.buffer.recordId + 1]

(* A table that reads as the records v, and one of which only record k is  *)
(* known to be read so.                                                    *)
Holds(table, v) == Good(table) /\ Written(table) = v

Offers(table, v, k) ==
  /\ Sound(table) /\ Written(table) = v
  /\ table.buffer.recordId = k => table.buffer.columns = v[k + 1]

LEMMA FieldsOfTable ==
  ASSUME NEW s, NEW b, NEW st
  PROVE  /\ Table(s, b, st).stored = s /\ Table(s, b, st).buffer = b
         /\ Table(s, b, st).status = st
BY DEF Table

LEMMA TableChanged ==
  ASSUME NEW s, NEW b, NEW st, NEW x
  PROVE  /\ [Table(s, b, st) EXCEPT !.stored = x] = Table(x, b, st)
         /\ [Table(s, b, st) EXCEPT !.buffer = x] = Table(s, x, st)
         /\ [Table(s, b, st) EXCEPT !.status = x] = Table(s, b, x)
BY SMT DEF Table

LEMMA FieldsOfBuf ==
  ASSUME NEW r, NEW m, NEW raw
  PROVE  /\ Buf(r, m, raw).recordId = r /\ Buf(r, m, raw).isModified = m
         /\ Buf(r, m, raw).columns = raw
BY DEF Buf

LEMMA BufChanged ==
  ASSUME NEW r, NEW m, NEW raw, NEW x
  PROVE  /\ [Buf(r, m, raw) EXCEPT !.recordId = x] = Buf(x, m, raw)
         /\ [Buf(r, m, raw) EXCEPT !.isModified = x] = Buf(r, x, raw)
         /\ [Buf(r, m, raw) EXCEPT !.columns = x] = Buf(r, m, x)
BY SMT DEF Buf

LEMMA WrittenIs ==
  ASSUME NEW s, NEW r, NEW m, NEW raw, NEW st
  PROVE  Written(Table(s, Buf(r, m, raw), st)) = Overlaid(s, r, m, raw)
BY FieldsOfTable, FieldsOfBuf DEF Written

LEMMA RunningIs == "open" \in Running /\ "closed" \in Running /\ "halted" \notin Running
BY DEF Running

LEMMA IndexesOf ==
  ASSUME NEW s \in Seq(Raws), NEW r \in 0..(Len(s) - 1)
  PROVE  r \in Nat /\ r + 1 \in 1..Len(s) /\ r < Len(s) /\ s[r + 1] \in Raws /\ Len(s) \in Nat
<1> DEFINE len == Len(s)
<1>1. len \in Nat /\ r \in 0..(len - 1)
  BY LenProperties
<1> HIDE DEF len
<1>2. r \in Nat /\ r + 1 \in 1..len /\ r < len
  BY <1>1, SMT
<1>3. s[r + 1] \in Raws
  BY <1>2, ElementOfSeq DEF len
<1> QED BY <1>1, <1>2, <1>3 DEF len

LEMMA OverlaidIs ==
  ASSUME NEW s, NEW r, NEW m, NEW raw, SoundParts(s, r, m, raw)
  PROVE  LET v == Overlaid(s, r, m, raw) IN
         /\ v \in Seq(Raws) /\ Len(v) = Len(s) /\ Len(s) \in Nat /\ Len(s) \in 1..250
         /\ m => v[r + 1] = raw
         /\ m => r \in 0..(Len(s) - 1) /\ v = [s EXCEPT ![r + 1] = raw]
         /\ ~m => v = s
<1> DEFINE len == Len(s)
<1>1. s \in Seq(Raws) /\ len \in Nat /\ len \in 1..250 /\ r \in Nat /\ raw \in Raws
  BY LenProperties DEF SoundParts
<1>2. CASE ~m
  BY <1>1, <1>2, Zenon DEF Overlaid
<1>3. CASE m
  <2>1. r < len
    BY <1>3 DEF SoundParts
  <2> HIDE DEF len
  <2>2. r + 1 \in 1..len /\ r \in 0..(len - 1)
    BY <1>1, <2>1, SMT
  <2>3. Overlaid(s, r, m, raw) = [s EXCEPT ![r + 1] = raw]
    BY <1>3 DEF Overlaid
  <2> DEFINE i == r + 1
  <2>4. i \in 1..Len(s)
    BY <2>2 DEF len
  <2> HIDE DEF i
  <2>5. /\ [s EXCEPT ![i] = raw] \in Seq(Raws) /\ Len([s EXCEPT ![i] = raw]) = Len(s)
        /\ [s EXCEPT ![i] = raw][i] = raw
    BY <1>1, <2>4, ExceptSeq
  <2> QED BY <1>1, <1>3, <2>2, <2>3, <2>5 DEF i, len
<1> QED BY <1>2, <1>3

LEMMA HeldIsTyped ==
  ASSUME NEW table, NEW v, Holds(table, v)
  PROVE  v \in Seq(Raws) /\ Len(v) = Len(table.stored) /\ Len(v) \in Nat /\ Len(v) \in 1..250
<1>1. PICK s, r, m, raw : \E st \in Running :
        SoundParts(s, r, m, raw) /\ table = Table(s, Buf(r, m, raw), st)
  BY DEF Holds, Good, Sound
<1>2. PICK st \in Running : SoundParts(s, r, m, raw) /\ table = Table(s, Buf(r, m, raw), st)
  BY <1>1
<1>3. v = Overlaid(s, r, m, raw) /\ table.stored = s
  BY <1>2, WrittenIs, FieldsOfTable DEF Holds
<1> QED BY <1>2, <1>3, OverlaidIs

LEMMA HeldParts ==
  ASSUME NEW table, NEW v, Holds(table, v)
  PROVE  \E s, r, m, raw : \E st \in Running :
           /\ SoundParts(s, r, m, raw) /\ table = Table(s, Buf(r, m, raw), st)
           /\ v = Overlaid(s, r, m, raw)
           /\ r < Len(s) => raw = v[r + 1]
<1>1. PICK s, r, m, raw : \E st \in Running :
        SoundParts(s, r, m, raw) /\ table = Table(s, Buf(r, m, raw), st)
  BY DEF Holds, Good, Sound
<1>2. PICK st \in Running : SoundParts(s, r, m, raw) /\ table = Table(s, Buf(r, m, raw), st)
  BY <1>1
<1>3. v = Overlaid(s, r, m, raw) /\ Written(table) = v
  BY <1>2, WrittenIs DEF Holds
<1>4. table.stored = s /\ table.buffer.recordId = r /\ table.buffer.columns = raw
  BY <1>2, FieldsOfTable, FieldsOfBuf
<1>5. r < Len(s) => raw = v[r + 1]
  BY <1>3, <1>4 DEF Holds, Good
<1> QED BY <1>2, <1>3, <1>5

LEMMA PartsHold ==
  ASSUME NEW s, NEW r, NEW m, NEW raw, NEW st \in Running, SoundParts(s, r, m, raw),
         r < Len(s) => raw = Overlaid(s, r, m, raw)[r + 1]
  PROVE  Holds(Table(s, Buf(r, m, raw), st), Overlaid(s, r, m, raw))
<1> DEFINE table == Table(s, Buf(r, m, raw), st)
<1>1. Sound(table)
  BY Zenon DEF Sound
<1>2. Written(table) = Overlaid(s, r, m, raw)
  BY WrittenIs
<1>3. table.stored = s /\ table.buffer.recordId = r /\ table.buffer.columns = raw
  BY FieldsOfTable, FieldsOfBuf
<1> HIDE DEF table
<1> QED BY <1>1, <1>2, <1>3 DEF Holds, Good, table

(* writeRecordBufferIfDirty()                                              *)
LEMMA WrittenBack ==
  ASSUME NEW s, NEW r, NEW m, NEW raw, NEW st, SoundParts(s, r, m, raw)
  PROVE  Buffer!WriteRecordBufferIfDirty(Table(s, Buf(r, m, raw), st))
           = Table(Overlaid(s, r, m, raw), Buf(r, m, raw), st)
<1> DEFINE b == Buf(r, m, raw)
           table == Table(s, b, st)
<1>1. table.stored = s /\ table.buffer = b /\ b.recordId = r /\ b.isModified = m /\ b.columns = raw
  BY FieldsOfTable, FieldsOfBuf
<1>2. CASE ~m
  <2>1. Overlaid(s, r, m, raw) = s
    BY <1>2, Zenon DEF Overlaid
  <2> HIDE DEF table
  <2>2. Buffer!WriteRecordBufferIfDirty(table) = table
    BY <1>1, <1>2, Zenon DEF Buffer!WriteRecordBufferIfDirty
  <2> QED BY <2>1, <2>2 DEF table
<1>3. CASE m
  <2> DEFINE s1 == [s EXCEPT ![r + 1] = raw]
  <2>1. r < Len(s) /\ Buffer!Encoded(raw) = raw
    BY <1>3, CodecIsIdentity DEF SoundParts
  <2>2. Overlaid(s, r, m, raw) = s1
    BY <1>3, Zenon DEF Overlaid
  <2> HIDE DEF b
  <2>3. [table EXCEPT !.stored = s1] = Table(s1, b, st)
    <3> HIDE DEF s1
    <3> QED BY TableChanged
  <2> HIDE DEF table
  <2>4. Buffer!WriteRecordBufferIfDirty(table) = Buffer!StoreRecordBuffer(table)
    BY <1>1, <1>3, Zenon DEF Buffer!WriteRecordBufferIfDirty
  <2>5. Buffer!StoreRecordBuffer(table) = [table EXCEPT !.stored[r + 1] = raw]
    BY <1>1, <2>1 DEF Buffer!StoreRecordBuffer, Buffer!RecordExists
  <2>6. [table EXCEPT !.stored[r + 1] = raw] = [table EXCEPT !.stored = s1]
    BY <1>1
  <2> QED BY <2>2, <2>3, <2>4, <2>5, <2>6 DEF table, b
<1>4. m \in BOOLEAN
  BY DEF SoundParts
<1> QED BY <1>2, <1>3, <1>4

(* fillRecordBuffer()                                                      *)
LEMMA FillOther ==
  ASSUME NEW s, NEW r, NEW m, NEW raw, NEW st \in Running, SoundParts(s, r, m, raw),
         NEW k \in 0..(Len(s) - 1), k # r
  PROVE  LET v == Overlaid(s, r, m, raw) IN
         Buffer!FillRecordBuffer(Table(s, Buf(r, m, raw), st), k) = Table(v, Clean(k, v[k + 1]), st)
<1> DEFINE v == Overlaid(s, r, m, raw)
           b == Buf(r, m, raw)
           table == Table(s, b, st)
           written == Table(v, b, st)
           e == v[k + 1]
<1>1. v \in Seq(Raws) /\ Len(v) = Len(s)
  BY OverlaidIs
<1>2. k < Len(v) /\ e \in Raws
  BY <1>1, IndexesOf
<1> HIDE DEF v
<1>3. Buffer!WriteRecordBufferIfDirty(table) = written
  BY WrittenBack DEF v
<1>4. /\ table.buffer.recordId # k /\ written.status # "halted" /\ written.stored = v
  BY FieldsOfTable, FieldsOfBuf, RunningIs
<1>5. Buffer!Decoded(e) = e
  BY <1>2, CodecIsIdentity
<1> HIDE DEF b
<1>6. [written EXCEPT !.buffer = Clean(k, e)] = Table(v, Clean(k, e), st)
  <2> DEFINE c == Clean(k, e)
  <2> HIDE DEF c
  <2>1. [written EXCEPT !.buffer = c] = Table(v, c, st)
    BY SMT DEF Table
  <2> QED BY <2>1 DEF c
<1>7. [recordId |-> k, isModified |-> FALSE, columns |-> e] = Clean(k, e)
  BY DEF Clean, Buf
<1> HIDE DEF table, written
<1>8. Buffer!FillRecordBuffer(table, k)
        = [written EXCEPT !.buffer = [recordId |-> k, isModified |-> FALSE,
                                      columns |-> Buffer!Decoded(written.stored[k + 1])]]
  BY <1>2, <1>3, <1>4, Zenon DEF Buffer!FillRecordBuffer, Buffer!RecordExists
<1>9. Buffer!FillRecordBuffer(table, k) = [written EXCEPT !.buffer = Clean(k, e)]
  BY <1>4, <1>5, <1>7, <1>8
<1> QED BY <1>6, <1>9 DEF v, table, b, written

LEMMA CleanHolds ==
  ASSUME NEW v \in Seq(Raws), Len(v) \in 1..250, NEW k \in 0..(Len(v) - 1), NEW st \in Running
  PROVE  LET table == Table(v, Clean(k, v[k + 1]), st) IN
         /\ Holds(table, v) /\ table.status = st
         /\ table.buffer.recordId = k /\ table.buffer.columns = v[k + 1]
<1> DEFINE m == FALSE
           e == v[k + 1]
<1>1. k \in Nat /\ e \in Raws
  BY IndexesOf
<1>2. m \in BOOLEAN /\ ~m
  OBVIOUS
<1>3. Clean(k, e) = Buf(k, m, e)
  BY DEF Clean
<1> HIDE DEF m, e
<1>4. SoundParts(v, k, m, e)
  BY <1>1, <1>2 DEF SoundParts
<1>5. Overlaid(v, k, m, e) = v
  BY <1>2, Zenon DEF Overlaid
<1>6. Holds(Table(v, Buf(k, m, e), st), v)
  BY <1>4, <1>5, PartsHold DEF e
<1> QED BY <1>3, <1>6, FieldsOfTable, FieldsOfBuf DEF e

LEMMA FillOffers ==
  ASSUME NEW table, NEW v, NEW k, Offers(table, v, k), k \in 0..(Len(v) - 1)
  PROVE  LET filled == Buffer!FillRecordBuffer(table, k) IN
         /\ Holds(filled, v) /\ filled.status = table.status
         /\ filled.buffer.recordId = k /\ filled.buffer.columns = v[k + 1]
<1>1. PICK s, r, m, raw : \E st \in Running :
        SoundParts(s, r, m, raw) /\ table = Table(s, Buf(r, m, raw), st)
  BY DEF Offers, Sound
<1>2. PICK st \in Running : SoundParts(s, r, m, raw) /\ table = Table(s, Buf(r, m, raw), st)
  BY <1>1
<1>3. v = Overlaid(s, r, m, raw)
  BY <1>2, WrittenIs DEF Offers
<1>4. v \in Seq(Raws) /\ Len(v) = Len(s) /\ Len(v) \in 1..250
  BY <1>2, <1>3, OverlaidIs
<1>5. table.status = st /\ table.buffer.recordId = r /\ table.buffer.columns = raw
  BY <1>2, FieldsOfTable, FieldsOfBuf
<1>6. CASE k # r
  <2>1. Buffer!FillRecordBuffer(table, k) = Table(v, Clean(k, v[k + 1]), st)
    BY <1>2, <1>3, <1>4, <1>6, FillOther
  <2> DEFINE filled == Table(v, Clean(k, v[k + 1]), st)
  <2>2. /\ Holds(filled, v) /\ filled.status = st
        /\ filled.buffer.recordId = k /\ filled.buffer.columns = v[k + 1]
    BY <1>4, CleanHolds
  <2> HIDE DEF filled
  <2> QED BY <1>5, <2>1, <2>2 DEF filled
<1>7. CASE k = r
  <2>1. Buffer!FillRecordBuffer(table, k) = table
    BY <1>5, <1>7, Zenon DEF Buffer!FillRecordBuffer
  <2>2. table.buffer.columns = v[k + 1]
    BY <1>5, <1>7 DEF Offers
  <2>3. Good(table)
    BY <1>5, <1>7, <2>2 DEF Offers, Good
  <2> QED BY <1>5, <1>7, <2>1, <2>2, <2>3 DEF Holds, Offers
<1> QED BY <1>6, <1>7

LEMMA HoldsOffers ==
  ASSUME NEW table, NEW v, Holds(table, v), NEW k \in 0..(Len(v) - 1)
  PROVE  Offers(table, v, k)
<1>1. v \in Seq(Raws) /\ Len(v) = Len(table.stored)
  BY HeldIsTyped
<1>2. k < Len(table.stored)
  BY <1>1, IndexesOf
<1> QED BY <1>2 DEF Holds, Good, Offers

LEMMA FillHolds ==
  ASSUME NEW table, NEW v, Holds(table, v), NEW k \in 0..(Len(v) - 1)
  PROVE  LET filled == Buffer!FillRecordBuffer(table, k) IN
         /\ Holds(filled, v) /\ filled.status = table.status
         /\ filled.buffer.recordId = k /\ filled.buffer.columns = v[k + 1]
BY HoldsOffers, FillOffers

(* A reference of record k is set.                                         *)
Put(v, k, x) == [v EXCEPT ![k + 1] = Rec(x)]

LEMMA PutIs ==
  ASSUME NEW v \in Seq(Raws), NEW k \in 0..(Len(v) - 1), NEW x \in Refs
  PROVE  /\ Put(v, k, x) \in Seq(Raws) /\ Len(Put(v, k, x)) = Len(v)
         /\ Put(v, k, x)[k + 1] = Rec(x)
         /\ \A j \in 1..Len(v) : Put(v, k, x)[j] = IF j = k + 1 THEN Rec(x) ELSE v[j]
<1> DEFINE i == k + 1
           e == Rec(x)
<1>1. i \in 1..Len(v) /\ e \in Raws
  BY IndexesOf, RecType
<1> HIDE DEF i, e
<1>2. /\ [v EXCEPT ![i] = e] \in Seq(Raws) /\ Len([v EXCEPT ![i] = e]) = Len(v)
      /\ \A j \in 1..Len(v) : [v EXCEPT ![i] = e][j] = IF j = i THEN e ELSE v[j]
  BY <1>1, ExceptSeq
<1>3. [v EXCEPT ![i] = e][i] = e
  BY <1>1, <1>2
<1> QED BY <1>2, <1>3 DEF Put, i, e

LEMMA PutTwice ==
  ASSUME NEW s, NEW r, NEW m, NEW raw, SoundParts(s, r, m, raw), NEW x
  PROVE  Put(Overlaid(s, r, m, raw), r, x) = Put(s, r, x)
<1> DEFINE e == Rec(x)
           i == r + 1
<1>1. s \in [1..Len(s) -> Raws] /\ m \in BOOLEAN
  BY LenProperties DEF SoundParts
<1> HIDE DEF e, i
<1>2. [[s EXCEPT ![i] = raw] EXCEPT ![i] = e] = [s EXCEPT ![i] = e]
  BY <1>1
<1>3. CASE m
  <2>1. Overlaid(s, r, m, raw) = [s EXCEPT ![i] = raw]
    BY <1>3, Zenon DEF Overlaid, i
  <2> QED BY <1>2, <2>1 DEF Put, e, i
<1>4. CASE ~m
  BY <1>4, Zenon DEF Overlaid
<1> QED BY <1>1, <1>3, <1>4

(* setValue() on the record in the buffer.                                 *)
LEMMA ModifiedIs ==
  ASSUME NEW s, NEW r, NEW m, NEW raw \in Raws, NEW st, NEW x
  PROVE  Buffer!Modified(Table(s, Buf(r, m, raw), st), "ref", x) = Table(s, Dirty(r, Rec(x)), st)
<1> DEFINE b == Buf(r, m, raw)
           e == Rec(x)
           b1 == Buf(r, m, e)
           b2 == Dirty(r, e)
           table == Table(s, b, st)
           t1 == [table EXCEPT !.buffer.columns["ref"] = x]
           t2 == [t1 EXCEPT !.buffer.isModified = TRUE]
<1>1. [raw EXCEPT !["ref"] = x] = e
  BY RawsAre DEF Rec
<1>2. table.buffer = b /\ b.columns = raw
  BY FieldsOfTable, FieldsOfBuf
<1> HIDE DEF e
<1>3. [b EXCEPT !.columns = e] = b1 /\ [b1 EXCEPT !.isModified = TRUE] = b2
  <2> DEFINE n == TRUE
  <2> HIDE DEF n
  <2>1. [Buf(r, m, e) EXCEPT !.isModified = n] = Buf(r, n, e)
    BY SMT DEF Buf
  <2>2. [b EXCEPT !.columns = e] = b1
    BY SMT DEF Buf
  <2> QED BY <2>1, <2>2 DEF n, Dirty
<1>4. t1 = [table EXCEPT !.buffer = [b EXCEPT !.columns = e]]
  BY <1>1, <1>2
<1> HIDE DEF b, b1, b2
<1>5. [table EXCEPT !.buffer = b1] = Table(s, b1, st)
  BY SMT DEF Table
<1> HIDE DEF t1
<1>6. t1 = Table(s, b1, st) /\ t1.buffer = b1
  BY <1>3, <1>4, <1>5, FieldsOfTable
<1>7. t2 = [t1 EXCEPT !.buffer = b2]
  BY <1>3, <1>6
<1>8. [t1 EXCEPT !.buffer = b2] = Table(s, b2, st)
  BY <1>6, SMT DEF Table
<1>9. Buffer!Modified(table, "ref", x) = t2
  BY DEF Buffer!Modified, t1
<1> QED BY <1>7, <1>8, <1>9 DEF table, b, b2, e

LEMMA ModifiedHolds ==
  ASSUME NEW table, NEW v, Holds(table, v), NEW k \in 0..(Len(v) - 1),
         table.buffer.recordId = k, NEW x \in Refs
  PROVE  LET modified == Buffer!Modified(table, "ref", x) IN
         /\ Holds(modified, Put(v, k, x))
         /\ modified.status = table.status /\ modified.buffer.recordId = k
<1>1. PICK s, r, m, raw : \E st \in Running :
           /\ SoundParts(s, r, m, raw) /\ table = Table(s, Buf(r, m, raw), st)
           /\ v = Overlaid(s, r, m, raw)
           /\ r < Len(s) => raw = v[r + 1]
  BY HeldParts
<1>2. PICK st \in Running :
           /\ SoundParts(s, r, m, raw) /\ table = Table(s, Buf(r, m, raw), st)
           /\ v = Overlaid(s, r, m, raw)
           /\ r < Len(s) => raw = v[r + 1]
  BY <1>1
<1> DEFINE e == Rec(x)
           n == TRUE
           modified == Buffer!Modified(table, "ref", x)
<1>3. /\ table.status = st /\ r = k /\ s \in Seq(Raws) /\ raw \in Raws /\ Len(s) \in 1..250
      /\ m \in BOOLEAN
  BY <1>2, FieldsOfTable, FieldsOfBuf DEF SoundParts
<1>4. Len(v) = Len(s) /\ v \in Seq(Raws) /\ (~m => v = s) /\ (m => v = [s EXCEPT ![r + 1] = raw])
  BY <1>2, OverlaidIs
<1>5. k \in Nat /\ k < Len(s) /\ e \in Raws
  BY <1>4, IndexesOf, RecType
<1>6. modified = Table(s, Buf(k, n, e), st)
  <2>1. Buffer!Modified(Table(s, Buf(r, m, raw), st), "ref", x) = Table(s, Dirty(r, Rec(x)), st)
    BY <1>3, ModifiedIs
  <2>2. Dirty(r, e) = Buf(k, n, e)
    BY <1>3 DEF Dirty
  <2> QED BY <1>2, <2>1, <2>2
<1>7. Put(v, k, x) = Put(s, k, x) /\ Put(s, k, x)[k + 1] = e
  <2>1. Put(s, k, x)[k + 1] = e
    BY <1>3, <1>4, PutIs
  <2> QED BY <1>2, <1>3, <2>1, PutTwice
<1>8. n /\ n \in BOOLEAN
  OBVIOUS
<1> HIDE DEF n, modified
<1>9. Overlaid(s, k, n, e) = Put(s, k, x)
  BY <1>8, Zenon DEF Overlaid, Put
<1> HIDE DEF e
<1>10. SoundParts(s, k, n, e)
  BY <1>3, <1>5, <1>8 DEF SoundParts
<1>11. Holds(modified, Put(s, k, x))
  BY <1>6, <1>7, <1>9, <1>10, PartsHold
<1> QED BY <1>3, <1>6, <1>7, <1>11, FieldsOfTable, FieldsOfBuf DEF modified

(* BDB_syncTable() while the buffer holds a record.                        *)
LEMMA SyncedHolds ==
  ASSUME NEW table, NEW v, Holds(table, v), NEW k \in 0..(Len(v) - 1),
         table.buffer.recordId = k
  PROVE  LET stored == Buffer!StoreRecordBuffer(table) IN
         /\ Holds(stored, v) /\ stored.status = table.status /\ stored.buffer.recordId = k
<1>1. PICK s, r, m, raw : \E st \in Running :
           /\ SoundParts(s, r, m, raw) /\ table = Table(s, Buf(r, m, raw), st)
           /\ v = Overlaid(s, r, m, raw)
           /\ r < Len(s) => raw = v[r + 1]
  BY HeldParts
<1>2. PICK st \in Running :
           /\ SoundParts(s, r, m, raw) /\ table = Table(s, Buf(r, m, raw), st)
           /\ v = Overlaid(s, r, m, raw)
           /\ r < Len(s) => raw = v[r + 1]
  BY <1>1
<1> DEFINE b == Buf(r, m, raw)
           s1 == [s EXCEPT ![r + 1] = raw]
<1>3. /\ table.status = st /\ table.buffer = b /\ table.stored = s /\ b.recordId = r /\ b.columns = raw
      /\ r = k /\ s \in Seq(Raws) /\ raw \in Raws /\ Len(s) \in 1..250 /\ m \in BOOLEAN
  BY <1>2, FieldsOfTable, FieldsOfBuf DEF SoundParts
<1>4. v \in Seq(Raws) /\ Len(v) = Len(s) /\ (~m => v = s) /\ (m => v = s1)
  BY <1>2, OverlaidIs
<1>5. r < Len(s) /\ r + 1 \in 1..Len(s) /\ raw = v[r + 1] /\ r \in Nat
  BY <1>2, <1>3, <1>4, IndexesOf
<1>6. s1 = v
  <2>1. CASE ~m
    BY <1>4, <1>5, <2>1
  <2>2. CASE m
    BY <1>4, <2>2
  <2> QED BY <1>3, <2>1, <2>2
<1> HIDE DEF b
<1>7. Buffer!StoreRecordBuffer(table) = Table(v, b, st)
  <2>1. [table EXCEPT !.stored = v] = Table(v, b, st)
    <3> DEFINE t0 == Table(s, b, st)
    <3>1. [t0 EXCEPT !.stored = v] = Table(v, b, st)
      BY SMT DEF Table
    <3> QED BY <1>2, <3>1 DEF b
  <2>2. Buffer!StoreRecordBuffer(table) = [table EXCEPT !.stored[r + 1] = raw]
    BY <1>3, <1>5, CodecIsIdentity DEF Buffer!StoreRecordBuffer, Buffer!RecordExists
  <2>3. [table EXCEPT !.stored[r + 1] = raw] = [table EXCEPT !.stored = s1]
    BY <1>3
  <2> QED BY <1>6, <2>1, <2>2, <2>3
<1>8. Overlaid(v, r, m, raw) = v
  <2>1. [v EXCEPT ![r + 1] = raw] = v
    BY <1>4, <1>5
  <2> QED BY <2>1, Zenon DEF Overlaid
<1>9. SoundParts(v, r, m, raw)
  BY <1>3, <1>4, <1>5 DEF SoundParts
<1>10. Holds(Table(v, b, st), v)
  BY <1>5, <1>8, <1>9, PartsHold DEF b
<1>11. Table(v, b, st).status = st /\ Table(v, b, st).buffer.recordId = r
  BY FieldsOfTable, FieldsOfBuf DEF b
<1> QED BY <1>3, <1>7, <1>10, <1>11

(* setColumnsToDefaultValue()                                              *)
LEMMA SetToDefaultIs ==
  ASSUME NEW s, NEW r, NEW m, NEW raw, NEW st \in Running, SoundParts(s, r, m, raw),
         NEW q \in 0..(Len(s) - 1)
  PROVE  Buffer!SetToDefault(Table(s, Buf(r, m, raw), st), q)
           = Table(Put(Overlaid(s, r, m, raw), q, 0), Buf(q, m, Zero), st)
<1> DEFINE v == Overlaid(s, r, m, raw)
           b0 == Buf(r, m, raw)
           b1 == Buf(q, m, raw)
           b2 == Buf(q, m, Zero)
           table == Table(s, b0, st)
           written == Table(v, b0, st)
           t1 == [written EXCEPT !.buffer.recordId = q]
           t2 == [t1 EXCEPT !.buffer.columns = Zero]
           v1 == [v EXCEPT ![q + 1] = Zero]
<1>1. v \in Seq(Raws) /\ Len(v) = Len(s)
  BY OverlaidIs
<1>2. q < Len(v)
  BY <1>1, IndexesOf
<1> HIDE DEF v
<1>3. Buffer!WriteRecordBufferIfDirty(table) = written
  BY WrittenBack DEF v
<1>4. written.buffer = b0 /\ written.status # "halted"
  BY FieldsOfTable, RunningIs
<1>5. Zero \in Raws /\ Buffer!Defaults = Zero /\ Buffer!Encoded(Zero) = Zero
  BY ZeroType, CodecIsIdentity
<1>6. [b0 EXCEPT !.recordId = q] = b1 /\ [b1 EXCEPT !.columns = Zero] = b2
  BY SMT DEF Buf
<1>7. t1 = Table(v, b1, st)
  <2>1. t1 = [written EXCEPT !.buffer = [b0 EXCEPT !.recordId = q]]
    BY <1>4
  <2> HIDE DEF b0, b1
  <2>2. [written EXCEPT !.buffer = b1] = Table(v, b1, st)
    BY SMT DEF Table
  <2> QED BY <1>6, <2>1, <2>2
<1>8. b2.recordId = q /\ b2.columns = Zero
  BY FieldsOfBuf
<1> HIDE DEF table, written, b0, b1, b2, t1
<1>9. t2 = Table(v, b2, st)
  <2>1. t1.buffer = b1
    BY <1>7, FieldsOfTable
  <2>2. t2 = [t1 EXCEPT !.buffer = [b1 EXCEPT !.columns = Zero]]
    BY <2>1
  <2>3. [t1 EXCEPT !.buffer = b2] = Table(v, b2, st)
    BY <1>7, SMT DEF Table
  <2> QED BY <1>6, <2>2, <2>3
<1>10. [written EXCEPT !.buffer.recordId = q, !.buffer.columns = Zero] = t2
  BY DEF t1
<1>11. Buffer!SetToDefault(table, q) = Buffer!StoreRecordBuffer(t2)
  <2>1. Buffer!SetToDefault(table, q)
          = Buffer!StoreRecordBuffer([written EXCEPT !.buffer.recordId = q, !.buffer.columns = Zero])
    BY <1>3, <1>4, <1>5, Zenon DEF Buffer!SetToDefault
  <2> QED BY <1>10, <2>1
<1> HIDE DEF t2
<1>12. t2.stored = v /\ t2.buffer.recordId = q /\ t2.buffer.columns = Zero
  BY <1>8, <1>9, FieldsOfTable
<1>13. Buffer!StoreRecordBuffer(t2) = [t2 EXCEPT !.stored[q + 1] = Zero]
  BY <1>2, <1>5, <1>12 DEF Buffer!StoreRecordBuffer, Buffer!RecordExists
<1>14. [t2 EXCEPT !.stored[q + 1] = Zero] = [t2 EXCEPT !.stored = v1]
  BY <1>12
<1>15. v1 = Put(v, q, 0)
  BY DEF Put, Zero
<1> HIDE DEF v1
<1>16. [t2 EXCEPT !.stored = v1] = Table(v1, b2, st)
  BY <1>9, SMT DEF Table
<1> QED BY <1>11, <1>13, <1>14, <1>15, <1>16 DEF table, b0, b2, v

LEMMA DefaultHolds ==
  ASSUME NEW table, Sound(table), NEW v, Written(table) = v, NEW q \in 0..(Len(v) - 1)
  PROVE  LET set == Buffer!SetToDefault(table, q) IN
         /\ Holds(set, Put(v, q, 0)) /\ set.status = table.status /\ set.buffer.recordId = q
<1>1. PICK s, r, m, raw : \E st \in Running :
        SoundParts(s, r, m, raw) /\ table = Table(s, Buf(r, m, raw), st)
  BY DEF Sound
<1>2. PICK st \in Running : SoundParts(s, r, m, raw) /\ table = Table(s, Buf(r, m, raw), st)
  BY <1>1
<1>3. v = Overlaid(s, r, m, raw) /\ table.status = st
  BY <1>2, WrittenIs, FieldsOfTable
<1>4. v \in Seq(Raws) /\ Len(v) = Len(s) /\ Len(v) \in 1..250 /\ m \in BOOLEAN
  BY <1>2, <1>3, OverlaidIs DEF SoundParts
<1> DEFINE v1 == Put(v, q, 0)
           b == Buf(q, m, Zero)
<1>5. Buffer!SetToDefault(table, q) = Table(v1, b, st)
  BY <1>2, <1>3, <1>4, SetToDefaultIs
<1>6. 0 \in Refs /\ Rec(0) = Zero /\ Zero \in Raws
  BY ZeroType, NType, SMT DEF Refs, Zero
<1>7. v1 \in Seq(Raws) /\ Len(v1) = Len(v) /\ v1[q + 1] = Zero
  BY <1>4, <1>6, PutIs
<1>8. q \in Nat /\ q < Len(v1) /\ q + 1 \in 1..Len(v1)
  BY <1>4, <1>7, IndexesOf
<1> HIDE DEF v1
<1>9. SoundParts(v1, q, m, Zero)
  BY <1>4, <1>6, <1>7, <1>8 DEF SoundParts
<1>10. Overlaid(v1, q, m, Zero) = v1
  <2>1. [v1 EXCEPT ![q + 1] = Zero] = v1
    BY <1>7, <1>8
  <2> QED BY <2>1, Zenon DEF Overlaid
<1>11. Holds(Table(v1, b, st), v1)
  BY <1>7, <1>9, <1>10, PartsHold
<1>12. Table(v1, b, st).status = st /\ Table(v1, b, st).buffer.recordId = q
  BY FieldsOfTable, FieldsOfBuf
<1> QED BY <1>3, <1>5, <1>11, <1>12 DEF v1

-----------------------------------------------------------------------------
(***************************************************************************)
(* The two tables of an open database.                                     *)
(***************************************************************************)
DB(a, b)      == [t \in TableIds |-> IF t = "from" THEN a ELSE b]
IsDb(d)       == \E a, b : d = DB(a, b)
With(d, t, x) == [d EXCEPT ![t] = x]
AllOpen(d)    == \A t \in TableIds : d[t].status = "open"
Others(d, t, e) == \A u \in TableIds : u # t => e[u] = d[u]

(* The buffer holds a record that exists, or none.                         *)
Named(table) ==
  table.buffer.recordId < Len(table.stored) \/ table.buffer.recordId = 255

Opened(table, v) == Holds(table, v) /\ table.status = "open" /\ Named(table)

LEMMA WithIs ==
  ASSUME NEW d, IsDb(d), NEW t \in TableIds, NEW x
  PROVE  /\ IsDb(With(d, t, x)) /\ With(d, t, x)[t] = x
         /\ \A u \in TableIds : u # t => With(d, t, x)[u] = d[u]
<1>1. PICK a, b : d = DB(a, b)
  BY DEF IsDb
<1>2. CASE t = "from"
  <2>1. With(d, t, x) = DB(x, b)
    BY <1>1, <1>2, SMT DEF With, TableIds, DB
  <2>2. IsDb(With(d, t, x))
    BY <2>1, Zenon DEF IsDb
  <2> QED BY <1>1, <2>2 DEF With, DB
<1>3. CASE t = "to"
  <2>1. With(d, t, x) = DB(a, x)
    BY <1>1, <1>3, SMT DEF With, TableIds, DB
  <2>2. IsDb(With(d, t, x))
    BY <2>1, Zenon DEF IsDb
  <2> QED BY <1>1, <2>2 DEF With, DB
<1> QED BY <1>2, <1>3 DEF TableIds

LEMMA WithSame ==
  ASSUME NEW d, IsDb(d), NEW t \in TableIds
  PROVE  With(d, t, d[t]) = d
<1>1. PICK a, b : d = DB(a, b)
  BY DEF IsDb
<1> QED BY <1>1, SMT DEF With, TableIds, DB

LEMMA TheTables == "from" \in TableIds /\ "to" \in TableIds /\ "from" # "to"
                   /\ \A t \in TableIds : t = "from" \/ t = "to"
BY DEF TableIds

LEMMA NotHalted ==
  ASSUME NEW d, AllOpen(d)
  PROVE  ~IsHalted(d)
BY DEF IsHalted, AllOpen

LEMMA OpenedIs ==
  ASSUME NEW table, NEW v, Holds(table, v), table.status = "open",
         NEW k \in 0..(Len(v) - 1), table.buffer.recordId = k
  PROVE  Opened(table, v)
<1>1. v \in Seq(Raws) /\ Len(v) = Len(table.stored)
  BY HeldIsTyped
<1>2. k < Len(table.stored)
  BY <1>1, IndexesOf
<1> QED BY <1>2 DEF Opened, Named

LEMMA OfferIsTyped ==
  ASSUME NEW table, NEW v, NEW k, Offers(table, v, k)
  PROVE  v \in Seq(Raws) /\ Len(v) = Len(table.stored) /\ Len(v) \in Nat /\ Len(v) \in 1..250
<1>1. PICK s, r, m, raw : \E st \in Running :
        SoundParts(s, r, m, raw) /\ table = Table(s, Buf(r, m, raw), st)
  BY DEF Offers, Sound
<1>2. PICK st \in Running : SoundParts(s, r, m, raw) /\ table = Table(s, Buf(r, m, raw), st)
  BY <1>1
<1>3. v = Overlaid(s, r, m, raw) /\ table.stored = s
  BY <1>2, WrittenIs, FieldsOfTable DEF Offers
<1> QED BY <1>2, <1>3, OverlaidIs

-----------------------------------------------------------------------------
(***************************************************************************)
(* One turn of forEachReference() when references are shifted: Mover is    *)
(* what becomes of a reference.                                            *)
(***************************************************************************)
Directions      == {-1, 1}
LastRefs        == 0..(MaxTo - 1)
Limited(y, max) == IF y < 0 THEN 0 ELSE IF y > max THEN max ELSE y
Delta(up)       == IF up THEN 1 ELSE -1

Mover(p, delta, max) ==
  [x \in Refs |-> IF x > p THEN Limited(x + delta, max) ELSE x]

LEMMA MoverIs ==
  ASSUME NEW p \in Nat, NEW delta \in Directions, NEW max \in LastRefs, NEW x \in Refs
  PROVE  /\ Mover(p, delta, max)[x] = IF x > p THEN Limited(x + delta, max) ELSE x
         /\ Mover(p, delta, max)[x] \in Refs
<1>1. Mover(p, delta, max)[x] = IF x > p THEN Limited(x + delta, max) ELSE x
  BY DEF Mover
<1>2. (IF x > p THEN Limited(x + delta, max) ELSE x) \in Refs
  BY NType, ConstantsType, SMT DEF Limited, Refs, Directions, LastRefs
<1> QED BY <1>1, <1>2

OpenDb(d, max) == IsDb(d) /\ AllOpen(d) /\ MaxRef(d) = max

MovedOne(v, k, mv) == Put(v, k, mv[v[k + 1]["ref"]])

Turn(d, t, k, p, delta) ==
  LET filled == Filled(d, t, k) IN
  IF IsHalted(filled) \/ IsPassedOver(filled, t, p) THEN filled
  ELSE IF BufferedRef(filled, t) > p THEN Changed(filled, t, delta) ELSE filled

LEMMA ChangedIs ==
  ASSUME NEW d, IsDb(d), NEW t \in TableIds, NEW v, Opened(d[t], v),
         NEW k \in 0..(Len(v) - 1), d[t].buffer.recordId = k, d[t].buffer.columns = v[k + 1],
         NEW delta \in Directions, NEW max \in LastRefs, MaxRef(d) = max
  PROVE  LET e == Changed(d, t, delta)
             x == Limited(v[k + 1]["ref"] + delta, max)
         IN /\ x \in Refs
            /\ IsDb(e) /\ Opened(e[t], Put(v, k, x)) /\ e[t].buffer.recordId = k
            /\ Others(d, t, e)
<1> DEFINE value == v[k + 1]["ref"]
           x == Limited(value + delta, max)
           e == Changed(d, t, delta)
<1>1. Holds(d[t], v) /\ v \in Seq(Raws) /\ d[t].status = "open"
  BY HeldIsTyped DEF Opened
<1>2. v[k + 1] \in Raws /\ k \in Nat /\ k + 1 \in 1..Len(v)
  BY <1>1, IndexesOf
<1>3. value \in Refs /\ Rec(value) = v[k + 1]
  BY <1>2, RefOf
<1>4. BufferedRef(d, t) = value
  BY DEF BufferedRef
<1> HIDE DEF value
<1>5. x \in Refs
  BY <1>3, NType, ConstantsType, SMT DEF Limited, Refs, Directions, LastRefs
<1>6. CASE x = value
  <2>1. e = d /\ Others(d, t, e)
    BY <1>4, <1>6, Zenon DEF Changed, Limited, Others
  <2>2. Put(v, k, x) = v
    <3>1. Put(v, k, x) = [v EXCEPT ![k + 1] = v[k + 1]]
      BY <1>3, <1>6 DEF Put
    <3>2. [v EXCEPT ![k + 1] = v[k + 1]] = v
      BY <1>1, <1>2
    <3> QED BY <3>1, <3>2
  <2> HIDE DEF x, e
  <2> QED BY <1>5, <2>1, <2>2 DEF value, x, e
<1>7. CASE x # value
  <2> DEFINE modified == Buffer!Modified(d[t], "ref", x)
  <2>1. e = [d EXCEPT ![t] = Buffer!Modified(@, "ref", x)]
    BY <1>4, <1>7, Zenon DEF Changed, Limited
  <2>2. e = With(d, t, modified)
    BY <2>1 DEF With
  <2>3. /\ Holds(modified, Put(v, k, x))
        /\ modified.status = d[t].status /\ modified.buffer.recordId = k
    BY <1>1, <1>5, ModifiedHolds
  <2>4. Len(Put(v, k, x)) = Len(v)
    BY <1>1, <1>5, PutIs
  <2> HIDE DEF modified, x, e
  <2>5. Opened(modified, Put(v, k, x))
    BY <1>1, <2>3, <2>4, OpenedIs
  <2>6. /\ IsDb(e) /\ e[t] = modified /\ Others(d, t, e)
    BY <2>2, WithIs DEF Others
  <2> QED BY <1>5, <2>3, <2>5, <2>6 DEF x, e, value
<1> QED BY <1>6, <1>7

LEMMA FilledIs ==
  ASSUME NEW d, IsDb(d), AllOpen(d), NEW t \in TableIds,
         NEW v, NEW k \in 0..(Len(v) - 1), Offers(d[t], v, k)
  PROVE  LET e == Filled(d, t, k) IN
         /\ IsDb(e) /\ Opened(e[t], v) /\ e[t].buffer.recordId = k /\ e[t].buffer.columns = v[k + 1]
         /\ Others(d, t, e)
         /\ ~IsHalted(e)
<1> DEFINE e == Filled(d, t, k)
           filled == Buffer!FillRecordBuffer(d[t], k)
<1>1. e = With(d, t, filled)
  BY DEF Filled, With
<1>2. /\ Holds(filled, v) /\ filled.status = d[t].status
      /\ filled.buffer.recordId = k /\ filled.buffer.columns = v[k + 1]
  BY FillOffers
<1> HIDE DEF e, filled
<1>3. IsDb(e) /\ e[t] = filled /\ Others(d, t, e)
  BY <1>1, WithIs DEF Others
<1>4. Opened(filled, v)
  <2>1. filled.status = "open"
    BY <1>2 DEF AllOpen
  <2> QED BY <1>2, <2>1, OpenedIs
<1>5. AllOpen(e)
  BY <1>2, <1>3 DEF AllOpen, Others
<1>6. ~IsHalted(e)
  BY <1>5, NotHalted
<1> QED BY <1>2, <1>3, <1>4, <1>6 DEF e

LEMMA TurnIs ==
  ASSUME NEW d, NEW max \in LastRefs, OpenDb(d, max), NEW t \in TableIds,
         NEW v, NEW k \in 0..(Len(v) - 1), Offers(d[t], v, k),
         NEW p \in Nat, NEW delta \in Directions
  PROVE  LET e == Turn(d, t, k, p, delta) IN
         /\ OpenDb(e, max)
         /\ Opened(e[t], MovedOne(v, k, Mover(p, delta, max)))
         /\ e[t].buffer.recordId = k
         /\ Others(d, t, e)
<1> DEFINE filled == Filled(d, t, k)
           value == v[k + 1]["ref"]
           x == Mover(p, delta, max)[value]
           e == Turn(d, t, k, p, delta)
<1>1. /\ IsDb(filled) /\ Opened(filled[t], v) /\ filled[t].buffer.recordId = k
      /\ filled[t].buffer.columns = v[k + 1]
      /\ Others(d, t, filled)
      /\ ~IsHalted(filled)
  <2>1. IsDb(d) /\ AllOpen(d)
    BY DEF OpenDb
  <2> QED BY <2>1, FilledIs
<1>2. v \in Seq(Raws) /\ Len(v) = Len(d[t].stored)
  BY OfferIsTyped
<1>3. Holds(filled[t], v)
  BY <1>1 DEF Opened
<1>4. MaxRef(filled) = max
  <2>1. Len(filled[t].stored) = Len(d[t].stored)
    BY <1>2, <1>3, HeldIsTyped
  <2>2. Len(filled["to"].stored) = Len(d["to"].stored)
    BY <1>1, <2>1, TheTables DEF Others
  <2> QED BY <2>2 DEF MaxRef, NumRecords, OpenDb
<1>5. v[k + 1] \in Raws /\ k \in Nat /\ k + 1 \in 1..Len(v)
  BY <1>2, IndexesOf
<1>6. value \in Refs /\ Rec(value) = v[k + 1] /\ value \in Nat
  BY <1>5, RefOf
<1>7. BufferedRef(filled, t) = value
  BY <1>1 DEF BufferedRef
<1>8. x = (IF value > p THEN Limited(value + delta, max) ELSE value)
  BY <1>6, MoverIs
<1> HIDE DEF filled, x
<1>9. CASE value > p
  <2> DEFINE y == Limited(value + delta, max)
             c == Changed(filled, t, delta)
  <2>1. ~IsPassedOver(filled, t, p)
    <3>1. value # p
      BY <1>6, <1>9, SMT
    <3> QED BY <1>7, <3>1 DEF IsPassedOver
  <2>2. e = c
    BY <1>1, <1>7, <1>9, <2>1, Zenon DEF Turn, filled
  <2>3. x = y
    BY <1>8, <1>9
  <2>4. /\ y \in Refs /\ IsDb(c) /\ Opened(c[t], Put(v, k, y)) /\ c[t].buffer.recordId = k
        /\ Others(filled, t, c)
    BY <1>1, <1>4, ChangedIs
  <2> HIDE DEF y, c, e
  <2>5. MaxRef(e) = max
    <3>1. Holds(e[t], Put(v, k, y)) /\ Len(Put(v, k, y)) = Len(v)
      BY <1>2, <2>2, <2>4, PutIs DEF Opened
    <3>2. Len(e[t].stored) = Len(filled[t].stored)
      BY <1>3, <3>1, HeldIsTyped
    <3>3. Len(e["to"].stored) = Len(filled["to"].stored)
      BY <2>2, <2>4, <3>2, TheTables DEF Others
    <3> QED BY <1>4, <3>3 DEF MaxRef, NumRecords
  <2>6. AllOpen(e) /\ Others(d, t, e)
    BY <1>1, <2>2, <2>4 DEF AllOpen, Others, Opened, OpenDb
  <2> QED BY <1>1, <2>2, <2>3, <2>4, <2>5, <2>6 DEF e, x, MovedOne, OpenDb
<1>10. CASE ~(value > p)
  <2>1. e = filled
    BY <1>7, <1>10, Zenon DEF Turn, filled
  <2>2. Put(v, k, x) = v
    <3>1. Put(v, k, x) = [v EXCEPT ![k + 1] = v[k + 1]]
      BY <1>6, <1>8, <1>10 DEF Put
    <3>2. [v EXCEPT ![k + 1] = v[k + 1]] = v
      BY <1>2, <1>5
    <3> QED BY <3>1, <3>2
  <2>3. AllOpen(e)
    BY <1>1, <2>1 DEF AllOpen, Others, Opened, OpenDb
  <2> HIDE DEF e
  <2> QED BY <1>1, <1>4, <2>1, <2>2, <2>3 DEF x, e, MovedOne, OpenDb
<1> QED BY <1>9, <1>10

-----------------------------------------------------------------------------
(***************************************************************************)
(* The records of a table when the references of the first n are shifted.  *)
(***************************************************************************)
MovedTo(v, n, mv) ==
  [i \in 1..Len(v) |-> IF i <= n THEN Rec(mv[v[i]["ref"]]) ELSE v[i]]

LEMMA MovedIs ==
  ASSUME NEW v \in Seq(Raws), NEW n \in Nat, NEW mv \in [Refs -> Refs]
  PROVE  /\ MovedTo(v, n, mv) \in Seq(Raws) /\ Len(MovedTo(v, n, mv)) = Len(v)
         /\ \A i \in 1..Len(v) : MovedTo(v, n, mv)[i] = IF i <= n THEN Rec(mv[v[i]["ref"]]) ELSE v[i]
<1> DEFINE w == MovedTo(v, n, mv)
           len == Len(v)
<1>1. len \in Nat /\ \A i \in 1..len : v[i] \in Raws
  BY LenProperties, ElementOfSeq
<1>2. \A i \in 1..len : (IF i <= n THEN Rec(mv[v[i]["ref"]]) ELSE v[i]) \in Raws
  <2> SUFFICES ASSUME NEW i \in 1..len PROVE Rec(mv[v[i]["ref"]]) \in Raws /\ v[i] \in Raws
    OBVIOUS
  <2>1. v[i]["ref"] \in Refs
    BY <1>1, RefOf
  <2> QED BY <1>1, <2>1, RecType
<1>3. w \in [1..len -> Raws]
  BY <1>2 DEF MovedTo
<1> HIDE DEF w
<1>4. w \in Seq(Raws) /\ Len(w) = len
  BY <1>1, <1>3
<1> QED BY <1>4 DEF w, MovedTo

LEMMA MovedStep ==
  ASSUME NEW v \in Seq(Raws), NEW k \in 0..(Len(v) - 1), NEW mv \in [Refs -> Refs]
  PROVE  LET w == MovedTo(v, k, mv) IN
         /\ w[k + 1] = v[k + 1]
         /\ Put(w, k, mv[w[k + 1]["ref"]]) = MovedTo(v, k + 1, mv)
<1> DEFINE w == MovedTo(v, k, mv)
           len == Len(v)
           x == mv[v[k + 1]["ref"]]
<1>1. len \in Nat /\ k \in Nat /\ k + 1 \in 1..len /\ v[k + 1] \in Raws
  BY IndexesOf, LenProperties
<1>2. x \in Refs
  BY <1>1, RefOf
<1>3. /\ w \in Seq(Raws) /\ Len(w) = len
      /\ \A i \in 1..len : w[i] = IF i <= k THEN Rec(mv[v[i]["ref"]]) ELSE v[i]
  BY <1>1, MovedIs
<1>4. w[k + 1] = v[k + 1]
  <2>1. ~(k + 1 <= k)
    BY <1>1, SMT
  <2> QED BY <1>1, <1>3, <2>1
<1>5. k + 1 \in Nat
  BY <1>1, SMT
<1> DEFINE w1 == MovedTo(v, k + 1, mv)
<1>6. /\ w1 \in Seq(Raws) /\ Len(w1) = len
      /\ \A i \in 1..len : w1[i] = IF i <= k + 1 THEN Rec(mv[v[i]["ref"]]) ELSE v[i]
  BY <1>5, MovedIs
<1> HIDE DEF w, w1, x
<1>7. /\ Put(w, k, x) \in Seq(Raws) /\ Len(Put(w, k, x)) = len
      /\ \A i \in 1..len : Put(w, k, x)[i] = IF i = k + 1 THEN Rec(x) ELSE w[i]
  BY <1>2, <1>3, PutIs
<1>8. ASSUME NEW i \in 1..len
      PROVE  Put(w, k, x)[i] = w1[i]
  <2>1. CASE i = k + 1
    <3>1. i <= k + 1
      BY <1>1, <2>1, SMT
    <3> QED BY <1>6, <1>7, <2>1, <3>1 DEF x
  <2>2. CASE i # k + 1
    <3>1. i <= k <=> i <= k + 1
      BY <1>1, <2>2, SMT
    <3> QED BY <1>3, <1>6, <1>7, <2>2, <3>1
  <2> QED BY <2>1, <2>2
<1>9. Put(w, k, x) = w1
  BY <1>6, <1>7, <1>8, SeqEqual
<1> QED BY <1>4, <1>9 DEF w, w1, x

LEMMA MovedNone ==
  ASSUME NEW v \in Seq(Raws), NEW mv \in [Refs -> Refs]
  PROVE  MovedTo(v, 0, mv) = v
<1> DEFINE w == MovedTo(v, 0, mv)
<1>1. /\ w \in Seq(Raws) /\ Len(w) = Len(v)
      /\ \A i \in 1..Len(v) : w[i] = IF i <= 0 THEN Rec(mv[v[i]["ref"]]) ELSE v[i]
  BY MovedIs
<1>2. \A i \in 1..Len(v) : ~(i <= 0)
  BY SMT
<1> HIDE DEF w
<1>3. \A i \in 1..Len(v) : w[i] = v[i]
  BY <1>1, <1>2
<1> QED BY <1>1, <1>3, SeqEqual DEF w

-----------------------------------------------------------------------------
(***************************************************************************)
(* shiftRecordReferencesUp() and Down(): one turn after the other.         *)
(***************************************************************************)
TurnOf(d, visit, p, up) ==
  LET t      == visit[1]
      filled == Filled(d, t, visit[2])
  IN IF IsHalted(filled) \/ IsPassedOver(filled, t, p) THEN filled
     ELSE IF up THEN ShiftReferenceUp(filled, t, p) ELSE ShiftReferenceDown(filled, t, p)

LEMMA TurnOfIs ==
  ASSUME NEW d, NEW t, NEW k, NEW visit, visit = <<t, k>>, NEW p, NEW up \in BOOLEAN
  PROVE  TurnOf(d, visit, p, up) = Turn(d, t, k, p, Delta(up))
<1>1. visit[1] = t /\ visit[2] = k
  OBVIOUS
<1>2. CASE up
  <2>1. Delta(up) = 1
    BY <1>2, Zenon DEF Delta
  <2> QED BY <1>1, <1>2, <2>1, Zenon DEF TurnOf, Turn, ShiftReferenceUp
<1>3. CASE ~up
  <2>1. Delta(up) = -1
    BY <1>3, Zenon DEF Delta
  <2> QED BY <1>1, <1>3, <2>1, Zenon DEF TurnOf, Turn, ShiftReferenceDown
<1> QED BY <1>2, <1>3

Steps(g, visits, p, up) ==
  \A n \in 1..Len(visits) :
    g[n] = IF IsHalted(g[n - 1]) THEN g[n - 1] ELSE TurnOf(g[n - 1], visits[n], p, up)

(* The records base + 1 and on that are visited are those of table t.      *)
VisitsTable(visits, base, t, len) ==
  /\ base + len <= Len(visits)
  /\ \A k \in 0..(len - 1) : visits[base + k + 1] = <<t, k>>

ShiftedPart(table, v, k, mv) ==
  /\ k < Len(v) => Offers(table, MovedTo(v, k, mv), k)
  /\ k > 0 => Opened(table, MovedTo(v, k, mv))

LEMMA ShiftedPartStep ==
  ASSUME NEW d, NEW p \in Nat, NEW delta \in Directions, NEW max \in LastRefs, OpenDb(d, max),
         NEW t \in TableIds, NEW v \in Seq(Raws), NEW k \in 0..(Len(v) - 1),
         ShiftedPart(d[t], v, k, Mover(p, delta, max))
  PROVE  LET e == Turn(d, t, k, p, delta) IN
         /\ OpenDb(e, max) /\ ShiftedPart(e[t], v, k + 1, Mover(p, delta, max))
         /\ Others(d, t, e)
<1> DEFINE mv == Mover(p, delta, max)
           e == Turn(d, t, k, p, delta)
           w == MovedTo(v, k, mv)
           w1 == MovedTo(v, k + 1, mv)
<1>1. mv \in [Refs -> Refs]
  <2>1. \A x \in Refs : mv[x] \in Refs
    BY MoverIs
  <2> QED BY <2>1 DEF Mover
<1>2. k \in Nat /\ k < Len(v) /\ k + 1 \in Nat /\ k + 1 > 0 /\ k + 1 \in 1..Len(v)
  BY IndexesOf, SMT
<1> HIDE DEF mv
<1>3. w \in Seq(Raws) /\ Len(w) = Len(v) /\ Len(w1) = Len(v)
  BY <1>1, <1>2, MovedIs
<1>4. Put(w, k, mv[w[k + 1]["ref"]]) = w1
  BY <1>1, MovedStep
<1> HIDE DEF w, w1
<1>5. Offers(d[t], w, k)
  BY <1>2 DEF ShiftedPart, mv, w
<1>6. k \in 0..(Len(w) - 1)
  BY <1>3
<1>7. /\ OpenDb(e, max) /\ Opened(e[t], MovedOne(w, k, Mover(p, delta, max)))
      /\ Others(d, t, e)
  BY <1>5, <1>6, TurnIs
<1> HIDE DEF e
<1>8. Opened(e[t], w1)
  BY <1>4, <1>7 DEF mv, MovedOne
<1>10. ASSUME k + 1 < Len(v)
       PROVE  Offers(e[t], w1, k + 1)
  <2>1. k + 1 \in 0..(Len(w1) - 1)
    <3> DEFINE len == Len(v)
    <3>1. k + 1 \in 1..len /\ k + 1 < len /\ len \in Nat
      BY <1>2, <1>10, LenProperties
    <3> HIDE DEF len
    <3>2. k + 1 \in 0..(len - 1)
      BY <3>1, SMT
    <3> QED BY <1>3, <3>2 DEF len
  <2> QED BY <1>8, <2>1, HoldsOffers DEF Opened
<1> QED BY <1>7, <1>8, <1>10 DEF ShiftedPart, mv, w1, e

LEMMA RunningIsNotHalted ==
  ASSUME NEW d, NEW max, OpenDb(d, max)
  PROVE  ~IsHalted(d)
BY NotHalted DEF OpenDb

Moved(v, mv) == MovedTo(v, Len(v), mv)

(* What the turns for the records of a table do.                           *)
LEMMA TableShifted ==
  ASSUME NEW g, NEW visits, NEW p \in Nat, NEW up \in BOOLEAN, Steps(g, visits, p, up),
         Len(visits) \in Nat, NEW base \in Nat, NEW t \in TableIds, NEW v \in Seq(Raws), Len(v) > 0,
         VisitsTable(visits, base, t, Len(v)),
         NEW max \in LastRefs, OpenDb(g[base], max), Offers(g[base][t], v, 0)
  PROVE  /\ OpenDb(g[base + Len(v)], max)
         /\ Opened(g[base + Len(v)][t], Moved(v, Mover(p, Delta(up), max)))
         /\ Others(g[base], t, g[base + Len(v)])
<1> DEFINE delta == Delta(up)
           mv == Mover(p, delta, max)
           len == Len(v)
           P(k) == /\ OpenDb(g[base + k], max)
                   /\ ShiftedPart(g[base + k][t], v, k, mv)
                   /\ Others(g[base], t, g[base + k])
           S == {k \in Nat : k <= len => P(k)}
<1>1. delta \in Directions /\ len \in Nat /\ len > 0
  BY LenProperties DEF Delta, Directions
<1>2. mv \in [Refs -> Refs]
  <2> HIDE DEF delta
  <2>1. \A x \in Refs : mv[x] \in Refs
    BY <1>1, MoverIs
  <2> QED BY <2>1 DEF Mover
<1> HIDE DEF delta, mv, len
<1>3. 0 \in S
  <2>1. base + 0 = base /\ ~(0 > 0)
    BY SMT
  <2>2. MovedTo(v, 0, mv) = v
    BY <1>2, MovedNone
  <2>3. ShiftedPart(g[base][t], v, 0, mv)
    BY <2>1, <2>2 DEF ShiftedPart
  <2> QED BY <2>1, <2>3 DEF Others
<1>4. ASSUME NEW k \in S
      PROVE  k + 1 \in S
  <2> SUFFICES ASSUME k + 1 <= len PROVE P(k + 1)
    OBVIOUS
  <2> DEFINE n == base + k + 1
             d == g[base + k]
  <2>1. k \in Nat /\ k <= len /\ k \in 0..(len - 1)
    BY <1>1, SMT
  <2>2. P(k)
    BY <2>1
  <2>3. base + len <= Len(visits) /\ visits[n] = <<t, k>>
    BY <2>1 DEF VisitsTable, len
  <2>4. n \in 1..Len(visits) /\ n - 1 = base + k /\ base + (k + 1) = n
    <3> DEFINE max1 == Len(visits)
    <3>1. max1 \in Nat /\ base + len <= max1
      BY <2>3
    <3> HIDE DEF max1
    <3>2. n \in 1..max1 /\ n - 1 = base + k /\ base + (k + 1) = n
      BY <1>1, <2>1, <3>1, SMT
    <3> QED BY <3>2 DEF max1
  <2> HIDE DEF n
  <2>5. ~IsHalted(d)
    BY <2>2, RunningIsNotHalted
  <2>6. g[n] = TurnOf(d, visits[n], p, up)
    <3>1. g[n] = IF IsHalted(g[n - 1]) THEN g[n - 1] ELSE TurnOf(g[n - 1], visits[n], p, up)
      BY <2>4 DEF Steps
    <3> QED BY <2>4, <2>5, <3>1
  <2>7. TurnOf(d, visits[n], p, up) = Turn(d, t, k, p, delta)
    BY <2>3, TurnOfIs DEF delta
  <2>8. /\ OpenDb(g[n], max) /\ ShiftedPart(g[n][t], v, k + 1, mv) /\ Others(d, t, g[n])
    <3> DEFINE e == Turn(d, t, k, p, delta)
    <3>1. OpenDb(d, max) /\ ShiftedPart(d[t], v, k, Mover(p, delta, max)) /\ k \in 0..(Len(v) - 1)
      BY <2>1, <2>2 DEF mv, len
    <3> HIDE DEF d
    <3>2. /\ OpenDb(e, max) /\ ShiftedPart(e[t], v, k + 1, Mover(p, delta, max)) /\ Others(d, t, e)
      BY <1>1, <3>1, ShiftedPartStep
    <3> HIDE DEF e
    <3>3. g[n] = e
      BY <2>6, <2>7 DEF e
    <3> QED BY <3>2, <3>3 DEF mv
  <2>9. Others(g[base], t, g[n])
    BY <2>2, <2>8 DEF Others
  <2> QED BY <2>4, <2>8, <2>9
<1>5. S = Nat
  <2> HIDE DEF S
  <2>1. S \subseteq Nat
    BY DEF S
  <2> QED BY <1>3, <1>4, <2>1, SetInduction
<1>6. P(len)
  <2>1. len \in S
    BY <1>1, <1>5
  <2>2. len <= len
    BY <1>1, SMT
  <2> QED BY <2>1, <2>2
<1> QED BY <1>1, <1>6 DEF ShiftedPart, Moved, mv, len, delta

VisitsOf(nf, nt) ==
  [i \in 1..nf |-> <<"from", i - 1>>] \o [i \in 1..nt |-> <<"to", i - 1>>]

LEMMA VisitsAre ==
  ASSUME NEW nf \in Nat, NEW nt \in Nat
  PROVE  LET visits == VisitsOf(nf, nt) IN
         /\ Len(visits) = nf + nt /\ Len(visits) \in Nat
         /\ VisitsTable(visits, 0, "from", nf) /\ VisitsTable(visits, nf, "to", nt)
<1> DEFINE S == TableIds \X Int
           a == [i \in 1..nf |-> <<"from", i - 1>>]
           b == [i \in 1..nt |-> <<"to", i - 1>>]
           visits == VisitsOf(nf, nt)
<1>1. a \in [1..nf -> S] /\ b \in [1..nt -> S]
  <2>1. \A i \in 1..nf : <<"from", i - 1>> \in S
    BY TheTables
  <2>2. \A i \in 1..nt : <<"to", i - 1>> \in S
    BY TheTables
  <2> HIDE DEF S
  <2> QED BY <2>1, <2>2
<1> DEFINE isVisit(s, len, t) ==
             /\ s \in Seq(S) /\ Len(s) = len /\ \A i \in 1..len : s[i] = <<t, i - 1>>
<1>2. isVisit(a, nf, "from") /\ isVisit(b, nt, "to")
  <2>1. \A i \in 1..nf : a[i] = <<"from", i - 1>>
    OBVIOUS
  <2>2. \A i \in 1..nt : b[i] = <<"to", i - 1>>
    OBVIOUS
  <2> HIDE DEF S, a, b
  <2> QED BY <1>1, <2>1, <2>2
<1> HIDE DEF S, a, b
<1>3. /\ visits \in Seq(S) /\ Len(visits) = nf + nt
      /\ \A i \in 1..(nf + nt) : visits[i] = IF i <= nf THEN a[i] ELSE b[i - nf]
  <2>1. /\ a \o b \in Seq(S) /\ Len(a \o b) = Len(a) + Len(b)
        /\ \A i \in 1..(Len(a) + Len(b)) : (a \o b)[i] = IF i <= Len(a) THEN a[i] ELSE b[i - Len(a)]
    BY <1>2, ConcatProperties
  <2>2. visits = a \o b
    BY DEF VisitsOf, a, b
  <2> QED BY <1>2, <2>1, <2>2
<1> HIDE DEF visits
<1>4. ASSUME NEW k \in 0..(nf - 1)
      PROVE  visits[0 + k + 1] = <<"from", k>>
  <2> DEFINE i == 0 + k + 1
  <2>1. i \in 1..nf /\ i \in 1..(nf + nt) /\ i <= nf /\ i - 1 = k
    BY SMT
  <2> HIDE DEF i
  <2> QED BY <1>2, <1>3, <2>1 DEF i
<1>5. ASSUME NEW k \in 0..(nt - 1)
      PROVE  visits[nf + k + 1] = <<"to", k>>
  <2> DEFINE i == nf + k + 1
  <2>1. i - nf \in 1..nt /\ i \in 1..(nf + nt) /\ ~(i <= nf) /\ i - nf - 1 = k
    BY SMT
  <2> HIDE DEF i
  <2> QED BY <1>2, <1>3, <2>1 DEF i
<1>6. 0 + nf <= nf + nt /\ nf + nt <= nf + nt /\ nf + nt \in Nat
  BY SMT
<1> QED BY <1>3, <1>4, <1>5, <1>6 DEF VisitsTable, visits

IsShift(d, visits, p, up, len, g) ==
  g = [n \in 0..len |->
         IF n = 0 THEN d
         ELSE IF IsHalted(g[n - 1]) THEN g[n - 1] ELSE TurnOf(g[n - 1], visits[n], p, up)]

LEMMA ShiftExists ==
  ASSUME NEW d, NEW visits, NEW p, NEW up, NEW len \in Nat
  PROVE  \E g : IsShift(d, visits, p, up, len, g)
<1> DEFINE S == {j \in Nat : \E g : IsShift(d, visits, p, up, j, g)}
<1>1. 0 \in S
  <2> DEFINE g == [n \in 0..0 |-> d]
  <2>1. IsShift(d, visits, p, up, 0, g)
    BY SMT DEF IsShift
  <2> QED BY <2>1
<1>2. ASSUME NEW j \in S
      PROVE  j + 1 \in S
  <2>1. PICK g : IsShift(d, visits, p, up, j, g)
    OBVIOUS
  <2> DEFINE h == [n \in 0..(j + 1) |->
                     IF n = j + 1
                     THEN IF IsHalted(g[j]) THEN g[j] ELSE TurnOf(g[j], visits[j + 1], p, up)
                     ELSE g[n]]
  <2>2. IsShift(d, visits, p, up, j + 1, h)
    BY <2>1, SMT DEF IsShift
  <2> QED BY <2>2
<1>3. S = Nat
  BY <1>1, <1>2, SetInduction
<1> QED BY <1>3

LEMMA ShiftedBySteps ==
  ASSUME NEW d, NEW p, NEW up, Len(Visits(d)) \in Nat
  PROVE  \E g : /\ g[0] = d /\ Steps(g, Visits(d), p, up)
                /\ Shifted(d, p, up) = g[Len(Visits(d))]
<1> DEFINE len == Len(Visits(d))
           visits == Visits(d)
           g == CHOOSE h : IsShift(d, visits, p, up, len, h)
<1>1. IsShift(d, visits, p, up, len, g)
  BY ShiftExists
<1>2. Shifted(d, p, up) = g[len]
  BY DEF Shifted, IsShift, TurnOf
<1> HIDE DEF g, visits, len
<1>3. \A n \in 0..len :
        g[n] = IF n = 0 THEN d
               ELSE IF IsHalted(g[n - 1]) THEN g[n - 1] ELSE TurnOf(g[n - 1], visits[n], p, up)
  BY <1>1 DEF IsShift
<1>4. len \in Nat
  BY DEF len
<1>5. 0 \in 0..len /\ \A n \in 1..len : n \in 0..len /\ n # 0
  BY <1>4, SMT
<1>6. g[0] = d
  BY <1>3, <1>5
<1>7. Steps(g, visits, p, up)
  <2> SUFFICES ASSUME NEW n \in 1..len
               PROVE  g[n] = IF IsHalted(g[n - 1]) THEN g[n - 1]
                             ELSE TurnOf(g[n - 1], visits[n], p, up)
    BY DEF Steps, len, visits
  <2> QED BY <1>3, <1>5
<1> QED BY <1>2, <1>6, <1>7 DEF visits, len

(* An open database whose tables read as f and w.                          *)
ReadsAs(d, f, w) == IsDb(d) /\ Opened(d["from"], f) /\ Opened(d["to"], w)

LEMMA ReadsAsIs ==
  ASSUME NEW d, NEW f, NEW w, ReadsAs(d, f, w)
  PROVE  /\ IsDb(d) /\ AllOpen(d) /\ ~IsHalted(d)
         /\ f \in Seq(Raws) /\ Len(f) = NumRecords(d, "from") /\ Len(f) \in Nat /\ Len(f) \in 1..250
         /\ w \in Seq(Raws) /\ Len(w) = NumRecords(d, "to") /\ Len(w) \in Nat /\ Len(w) \in 1..250
<1>1. IsDb(d) /\ Holds(d["from"], f) /\ Holds(d["to"], w)
  BY DEF ReadsAs, Opened
<1>2. AllOpen(d)
  BY TheTables DEF ReadsAs, Opened, AllOpen
<1> QED BY <1>1, <1>2, HeldIsTyped, NotHalted DEF NumRecords

LEMMA ShiftedIs ==
  ASSUME NEW d, IsDb(d), AllOpen(d), NEW f, Opened(d["from"], f), NEW w, Offers(d["to"], w, 0),
         Len(w) <= MaxTo, NEW p \in Nat, NEW up \in BOOLEAN
  PROVE  LET mv == Mover(p, Delta(up), Len(w) - 1) IN
         ReadsAs(Shifted(d, p, up), Moved(f, mv), Moved(w, mv))
<1> DEFINE nf == Len(f)
           nt == Len(w)
           max == nt - 1
           visits == Visits(d)
           delta == Delta(up)
           mv == Mover(p, delta, max)
<1>1. f \in Seq(Raws) /\ nf = Len(d["from"].stored) /\ nf \in Nat /\ nf \in 1..250
  BY HeldIsTyped DEF Opened
<1>2. w \in Seq(Raws) /\ nt = Len(d["to"].stored) /\ nt \in Nat /\ nt \in 1..250
  BY OfferIsTyped
<1>3. visits = VisitsOf(nf, nt)
  BY <1>1, <1>2 DEF Visits, VisitsOf, NumRecords
<1> HIDE DEF nf, nt, delta
<1>5. nf > 0 /\ nt > 0 /\ max \in LastRefs /\ 0 + nf = nf /\ 0 <= nf - 1 /\ 0 \in 0..(nf - 1)
  <2>1. nf \in Nat /\ nf \in 1..250 /\ nt \in Nat /\ nt \in 1..250
    BY <1>1, <1>2
  <2>2. nt <= MaxTo
    BY DEF nt
  <2> QED BY <2>1, <2>2, ConstantsType, SMT DEF LastRefs
<1> HIDE DEF visits
<1>6. /\ Len(visits) = nf + nt /\ Len(visits) \in Nat
      /\ VisitsTable(visits, 0, "from", nf) /\ VisitsTable(visits, nf, "to", nt)
  BY <1>1, <1>2, <1>3, VisitsAre
<1>7. PICK g : /\ g[0] = d /\ Steps(g, visits, p, up) /\ Shifted(d, p, up) = g[Len(visits)]
  BY <1>6, ShiftedBySteps DEF visits
<1>8. OpenDb(g[0], max)
  BY <1>2, <1>7 DEF OpenDb, MaxRef, NumRecords
<1>9. Offers(g[0]["from"], f, 0)
  BY <1>5, <1>7, HoldsOffers DEF Opened, nf
<1> HIDE DEF max, mv
<1>10. /\ OpenDb(g[nf], max) /\ Opened(g[nf]["from"], Moved(f, mv)) /\ Others(g[0], "from", g[nf])
  <2>1. /\ OpenDb(g[0 + Len(f)], max)
        /\ Opened(g[0 + Len(f)]["from"], Moved(f, Mover(p, Delta(up), max)))
        /\ Others(g[0], "from", g[0 + Len(f)])
    <3>1. Len(f) > 0 /\ 0 \in Nat /\ VisitsTable(visits, 0, "from", Len(f))
      BY <1>5, <1>6 DEF nf
    <3> QED BY <1>1, <1>5, <1>6, <1>7, <1>8, <1>9, <3>1, TheTables, TableShifted
  <2> QED BY <1>5, <2>1 DEF nf, mv, delta
<1>11. Offers(g[nf]["to"], w, 0)
  BY <1>7, <1>10, TheTables DEF Others
<1>12. /\ OpenDb(g[nf + nt], max) /\ Opened(g[nf + nt]["to"], Moved(w, mv))
       /\ Others(g[nf], "to", g[nf + nt])
  <2>1. /\ OpenDb(g[nf + Len(w)], max)
        /\ Opened(g[nf + Len(w)]["to"], Moved(w, Mover(p, Delta(up), max)))
        /\ Others(g[nf], "to", g[nf + Len(w)])
    <3>1. Len(w) > 0 /\ VisitsTable(visits, nf, "to", Len(w)) /\ w \in Seq(Raws) /\ nf \in Nat
      BY <1>1, <1>2, <1>5, <1>6 DEF nt
    <3>2. Steps(g, visits, p, up) /\ Len(visits) \in Nat /\ max \in LastRefs /\ OpenDb(g[nf], max)
      BY <1>5, <1>6, <1>7, <1>10
    <3> QED BY <1>11, <3>1, <3>2, TheTables, TableShifted
  <2> QED BY <2>1 DEF nt, mv, delta
<1>13. Opened(g[nf + nt]["from"], Moved(f, mv))
  BY <1>10, <1>12, TheTables DEF Others
<1>14. ReadsAs(g[nf + nt], Moved(f, mv), Moved(w, mv))
  BY <1>12, <1>13 DEF ReadsAs, OpenDb
<1> QED BY <1>6, <1>7, <1>14 DEF mv, max, nt, delta

-----------------------------------------------------------------------------
(***************************************************************************)
(* isRecordReferenced(): it leaves what is read as it is, and the buffer   *)
(* of "to" empty of changes.                                               *)
(***************************************************************************)
LookOf(d, visit, p) ==
  LET t      == visit[1]
      filled == Filled(d, t, visit[2])
  IN [db    |-> filled,
      found |-> /\ ~IsHalted(filled)
                /\ ~IsPassedOver(filled, t, p)
                /\ BufferedRef(filled, t) = p]

LEMMA FillRefills ==
  ASSUME NEW table, NEW v, Holds(table, v), NEW k \in 0..(Len(v) - 1), table.buffer.recordId # k
  PROVE  Buffer!FillRecordBuffer(table, k) = Table(v, Clean(k, v[k + 1]), table.status)
<1>1. PICK s, r, m, raw : \E st \in Running :
        SoundParts(s, r, m, raw) /\ table = Table(s, Buf(r, m, raw), st)
  BY DEF Holds, Good, Sound
<1>2. PICK st \in Running : SoundParts(s, r, m, raw) /\ table = Table(s, Buf(r, m, raw), st)
  BY <1>1
<1>3. v = Overlaid(s, r, m, raw) /\ table.status = st /\ table.buffer.recordId = r
  BY <1>2, WrittenIs, FieldsOfTable, FieldsOfBuf DEF Holds
<1>4. Len(v) = Len(s)
  BY <1>2, <1>3, OverlaidIs
<1> QED BY <1>2, <1>3, <1>4, FillOther

LEMMA FilledReads ==
  ASSUME NEW d, NEW f, NEW w, ReadsAs(d, f, w), NEW t \in TableIds, NEW v, Opened(d[t], v),
         NEW k \in 0..(Len(v) - 1)
  PROVE  LET e == Filled(d, t, k) IN
         /\ ReadsAs(e, f, w) /\ e[t].buffer.recordId = k /\ e[t].buffer.columns = v[k + 1]
         /\ ~IsHalted(e) /\ Others(d, t, e)
<1> DEFINE e == Filled(d, t, k)
<1>1. Offers(d[t], v, k) /\ IsDb(d) /\ AllOpen(d)
  BY HoldsOffers, ReadsAsIs DEF Opened
<1>2. /\ IsDb(e) /\ Opened(e[t], v) /\ e[t].buffer.recordId = k /\ e[t].buffer.columns = v[k + 1]
      /\ Others(d, t, e) /\ ~IsHalted(e)
  BY <1>1, FilledIs
<1> HIDE DEF e
<1>3. Opened(e["from"], f)
  <2>1. CASE t = "from"
    BY <1>2, <2>1 DEF ReadsAs, Opened, Holds
  <2>2. CASE t # "from"
    BY <1>2, <2>2, TheTables DEF ReadsAs, Others
  <2> QED BY <2>1, <2>2
<1>4. Opened(e["to"], w)
  <2>1. CASE t = "to"
    BY <1>2, <2>1 DEF ReadsAs, Opened, Holds
  <2>2. CASE t # "to"
    BY <1>2, <2>2, TheTables DEF ReadsAs, Others
  <2> QED BY <2>1, <2>2
<1> QED BY <1>2, <1>3, <1>4 DEF ReadsAs, e

LEMMA LookFrom ==
  ASSUME NEW d, NEW f, NEW w, ReadsAs(d, f, w), NEW k \in 0..(Len(f) - 1), NEW p,
         NEW visit, visit = <<"from", k>>
  PROVE  LET look == LookOf(d, visit, p) IN
         /\ ReadsAs(look.db, f, w)
         /\ ~look.found => f[k + 1]["ref"] # p
<1> DEFINE filled == Filled(d, "from", k)
           look == LookOf(d, visit, p)
<1>1. /\ ReadsAs(filled, f, w) /\ filled["from"].buffer.columns = f[k + 1] /\ ~IsHalted(filled)
  <2>1. Opened(d["from"], f)
    BY DEF ReadsAs
  <2> QED BY <2>1, TheTables, FilledReads
<1>2. ~IsPassedOver(filled, "from", p)
  BY TheTables DEF IsPassedOver
<1>3. BufferedRef(filled, "from") = f[k + 1]["ref"]
  BY <1>1 DEF BufferedRef
<1>4. visit[1] = "from" /\ visit[2] = k
  OBVIOUS
<1> HIDE DEF filled
<1>5. look.db = filled
  BY <1>4 DEF LookOf, filled
<1>6. BufferedRef(filled, "from") = p => look.found
  BY <1>1, <1>2, <1>4, Zenon DEF LookOf, filled
<1> QED BY <1>1, <1>3, <1>5, <1>6

LEMMA LookTo ==
  ASSUME NEW d, NEW f, NEW w, ReadsAs(d, f, w), NEW k \in 0..(Len(w) - 1), NEW p,
         NEW visit, visit = <<"to", k>>
  PROVE  LET look == LookOf(d, visit, p) IN
         /\ ReadsAs(look.db, f, w)
         /\ look.db["to"].buffer.recordId = k
         /\ d["to"].buffer.recordId # k =>
              look.db["to"] = Table(w, Clean(k, w[k + 1]), "open")
<1> DEFINE filled == Filled(d, "to", k)
           look == LookOf(d, visit, p)
<1>1. /\ ReadsAs(filled, f, w) /\ filled["to"].buffer.recordId = k
  <2>1. Opened(d["to"], w)
    BY DEF ReadsAs
  <2> QED BY <2>1, TheTables, FilledReads
<1>2. visit[1] = "to" /\ visit[2] = k
  OBVIOUS
<1>3. look.db = filled
  BY <1>2 DEF LookOf
<1>4. ASSUME d["to"].buffer.recordId # k
      PROVE  filled["to"] = Table(w, Clean(k, w[k + 1]), "open")
  <2>1. Holds(d["to"], w) /\ d["to"].status = "open" /\ IsDb(d)
    BY DEF ReadsAs, Opened
  <2> DEFINE x == Buffer!FillRecordBuffer(d["to"], k)
  <2>2. x = Table(w, Clean(k, w[k + 1]), "open")
    BY <1>4, <2>1, FillRefills
  <2>3. filled = With(d, "to", x)
    BY DEF Filled, With
  <2> HIDE DEF x, filled
  <2>4. filled["to"] = x
    BY <2>1, <2>3, WithIs, TheTables
  <2> QED BY <2>2, <2>4
<1> QED BY <1>1, <1>3, <1>4

SearchSteps(g, visits, p) ==
  \A n \in 1..Len(visits) :
    g[n] = IF g[n - 1].found \/ IsHalted(g[n - 1].db) THEN g[n - 1]
           ELSE LookOf(g[n - 1].db, visits[n], p)

SearchedOnce(g, visits, p, base, t, k) ==
  /\ visits[base + k + 1] = <<t, k>>
  /\ g[base + k].found => g[base + (k + 1)] = g[base + k]
  /\ ~g[base + k].found =>
       g[base + (k + 1)] = LookOf(g[base + k].db, visits[base + k + 1], p)

LEMMA SearchStep ==
  ASSUME NEW g, NEW visits, NEW p, SearchSteps(g, visits, p), Len(visits) \in Nat,
         NEW base \in Nat, NEW t, NEW len \in Nat, VisitsTable(visits, base, t, len),
         NEW k \in 0..(len - 1), NEW f, NEW w, ReadsAs(g[base + k].db, f, w)
  PROVE  SearchedOnce(g, visits, p, base, t, k)
<1> DEFINE n == base + k + 1
           before == g[base + k]
           max == Len(visits)
<1>1. visits[n] = <<t, k>> /\ base + len <= max /\ max \in Nat
  BY DEF VisitsTable
<1> HIDE DEF max
<1>2. n \in 1..max /\ n - 1 = base + k /\ base + (k + 1) = n
  BY <1>1, SMT
<1> HIDE DEF n
<1>3. g[n] = IF g[n - 1].found \/ IsHalted(g[n - 1].db) THEN g[n - 1]
             ELSE LookOf(g[n - 1].db, visits[n], p)
  BY <1>2 DEF SearchSteps, max
<1>4. ~IsHalted(before.db)
  BY ReadsAsIs
<1> HIDE DEF before
<1>5. g[n - 1] = before
  BY <1>2 DEF before
<1>6. before.found => g[n] = before
  BY <1>3, <1>5, Zenon
<1>7. ~before.found => g[n] = LookOf(before.db, visits[n], p)
  BY <1>3, <1>4, <1>5, Zenon
<1> QED BY <1>1, <1>2, <1>6, <1>7 DEF before, n, SearchedOnce

Avoids(f, k, p) == \A i \in 1..k : f[i]["ref"] # p

LEMMA FromSearched ==
  ASSUME NEW g, NEW visits, NEW p, SearchSteps(g, visits, p), Len(visits) \in Nat,
         NEW f, NEW w, ReadsAs(g[0].db, f, w), VisitsTable(visits, 0, "from", Len(f))
  PROVE  /\ ReadsAs(g[Len(f)].db, f, w)
         /\ ~g[Len(f)].found => Avoids(f, Len(f), p)
<1> DEFINE len == Len(f)
           P(k) == ReadsAs(g[k].db, f, w) /\ (~g[k].found => Avoids(f, k, p))
           S == {k \in Nat : k <= len => P(k)}
<1>1. len \in Nat
  BY ReadsAsIs
<1> HIDE DEF len
<1>2. 0 \in S
  <2>1. Avoids(f, 0, p)
    BY SMT DEF Avoids
  <2> QED BY <2>1
<1>3. ASSUME NEW k \in S
      PROVE  k + 1 \in S
  <2> SUFFICES ASSUME k + 1 <= len PROVE P(k + 1)
    OBVIOUS
  <2> DEFINE n == k + 1
             before == g[k]
             look == LookOf(before.db, <<"from", k>>, p)
  <2>1. k \in Nat /\ k <= len /\ k \in 0..(len - 1) /\ 0 + k = k /\ 0 + (k + 1) = n /\ 0 + k + 1 = n
    BY <1>1, SMT
  <2>2. P(k)
    BY <2>1
  <2>3. SearchedOnce(g, visits, p, 0, "from", k)
    <3>1. VisitsTable(visits, 0, "from", len) /\ 0 \in Nat /\ ReadsAs(g[0 + k].db, f, w)
      BY <2>1, <2>2 DEF len
    <3> QED BY <1>1, <2>1, <3>1, SearchStep
  <2>4. (before.found => g[n] = before) /\ (~before.found => g[n] = look)
    BY <2>1, <2>3 DEF SearchedOnce
  <2>5. ReadsAs(look.db, f, w) /\ (~look.found => f[k + 1]["ref"] # p)
    <3>1. k \in 0..(Len(f) - 1)
      BY <2>1 DEF len
    <3> QED BY <2>2, <3>1, LookFrom
  <2> HIDE DEF before, look, n
  <2>6. CASE before.found
    BY <2>2, <2>4, <2>6 DEF before, n
  <2>7. CASE ~before.found
    <3>1. g[n] = look
      BY <2>4, <2>7
    <3>2. ASSUME ~look.found
          PROVE  Avoids(f, n, p)
      <4>1. Avoids(f, k, p) /\ f[k + 1]["ref"] # p
        BY <2>2, <2>5, <2>7, <3>2 DEF before
      <4>2. \A i \in 1..n : i \in 1..k \/ i = k + 1
        BY <2>1, SMT DEF n
      <4> QED BY <4>1, <4>2 DEF Avoids
    <3> QED BY <2>5, <3>1, <3>2 DEF n
  <2> QED BY <2>6, <2>7
<1>4. S = Nat
  <2> HIDE DEF S
  <2>1. S \subseteq Nat
    BY DEF S
  <2> QED BY <1>2, <1>3, <2>1, SetInduction
<1>5. P(len)
  <2>1. len \in S
    BY <1>1, <1>4
  <2>2. len <= len
    BY <1>1, SMT
  <2> QED BY <2>1, <2>2
<1> QED BY <1>5 DEF len

(* The buffer of "to" after the first k of its records.                    *)
LookedAt(table, w, k) ==
  /\ k > 0 => table.buffer.recordId = k - 1
  /\ k > 1 => table = Table(w, Clean(k - 1, w[k]), "open")

LEMMA ToSearched ==
  ASSUME NEW g, NEW visits, NEW p, SearchSteps(g, visits, p), Len(visits) \in Nat,
         NEW base \in Nat, NEW f, NEW w, ReadsAs(g[base].db, f, w),
         VisitsTable(visits, base, "to", Len(w))
  PROVE  /\ ReadsAs(g[base + Len(w)].db, f, w)
         /\ ~g[base + Len(w)].found =>
              ~g[base].found /\ LookedAt(g[base + Len(w)].db["to"], w, Len(w))
<1> DEFINE len == Len(w)
           P(k) == /\ ReadsAs(g[base + k].db, f, w)
                   /\ ~g[base + k].found =>
                        ~g[base].found /\ LookedAt(g[base + k].db["to"], w, k)
           S == {k \in Nat : k <= len => P(k)}
<1>1. len \in Nat
  BY ReadsAsIs
<1> HIDE DEF len
<1>2. 0 \in S
  <2>1. base + 0 = base /\ ~(0 > 0) /\ ~(0 > 1)
    BY SMT
  <2> QED BY <2>1 DEF LookedAt
<1>3. ASSUME NEW k \in S
      PROVE  k + 1 \in S
  <2> SUFFICES ASSUME k + 1 <= len PROVE P(k + 1)
    OBVIOUS
  <2> DEFINE n == base + (k + 1)
             before == g[base + k]
             look == LookOf(before.db, <<"to", k>>, p)
  <2>1. k \in Nat /\ k <= len /\ k \in 0..(len - 1) /\ base + k + 1 = n
    BY <1>1, SMT
  <2>2. P(k)
    BY <2>1
  <2>3. SearchedOnce(g, visits, p, base, "to", k)
    <3>1. VisitsTable(visits, base, "to", len) /\ ReadsAs(g[base + k].db, f, w)
      BY <2>2 DEF len
    <3> QED BY <1>1, <2>1, <3>1, SearchStep
  <2>4. (before.found => g[n] = before) /\ (~before.found => g[n] = look)
    BY <2>1, <2>3 DEF SearchedOnce
  <2>5. /\ ReadsAs(look.db, f, w) /\ look.db["to"].buffer.recordId = k
        /\ before.db["to"].buffer.recordId # k =>
             look.db["to"] = Table(w, Clean(k, w[k + 1]), "open")
    <3>1. k \in 0..(Len(w) - 1)
      BY <2>1 DEF len
    <3> QED BY <2>2, <3>1, LookTo
  <2> HIDE DEF before, look, n
  <2>6. CASE before.found
    BY <2>2, <2>4, <2>6 DEF before, n
  <2>7. CASE ~before.found
    <3>1. g[n] = look
      BY <2>4, <2>7
    <3>2. ~g[base].found /\ LookedAt(before.db["to"], w, k)
      BY <2>2, <2>7 DEF before
    <3>3. k + 1 - 1 = k /\ (k + 1 > 1 => k > 0) /\ (k > 0 => k - 1 # k)
      BY <2>1, SMT
    <3>4. LookedAt(look.db["to"], w, k + 1)
      <4>1. ASSUME k + 1 > 1
            PROVE  look.db["to"] = Table(w, Clean(k, w[k + 1]), "open")
        <5>1. before.db["to"].buffer.recordId # k
          BY <3>2, <3>3, <4>1 DEF LookedAt
        <5> QED BY <2>5, <5>1
      <4> DEFINE j == k + 1
      <4>2. j - 1 = k
        BY <3>3
      <4>3. look.db["to"].buffer.recordId = k
        BY <2>5
      <4> HIDE DEF j
      <4> QED BY <4>1, <4>2, <4>3 DEF LookedAt, j
    <3> QED BY <2>5, <3>1, <3>2, <3>4 DEF n
  <2> QED BY <2>6, <2>7
<1>4. S = Nat
  <2> HIDE DEF S
  <2>1. S \subseteq Nat
    BY DEF S
  <2> QED BY <1>2, <1>3, <2>1, SetInduction
<1>5. P(len)
  <2>1. len \in S
    BY <1>1, <1>4
  <2>2. len <= len
    BY <1>1, SMT
  <2> QED BY <2>1, <2>2
<1> QED BY <1>5 DEF len

SearchStart(d) == [db |-> d, found |-> FALSE]
SearchTurn(before, visit, p) ==
  IF before.found \/ IsHalted(before.db) THEN before ELSE LookOf(before.db, visit, p)

IsSearch(d, visits, p, len, g) ==
  g = [n \in 0..len |-> IF n = 0 THEN SearchStart(d)
                        ELSE SearchTurn(g[n - 1], visits[n], p)]

LEMMA SearchExists ==
  ASSUME NEW d, NEW visits, NEW p, NEW len \in Nat
  PROVE  \E g : IsSearch(d, visits, p, len, g)
<1> DEFINE S == {j \in Nat : \E g : IsSearch(d, visits, p, j, g)}
<1>1. 0 \in S
  <2> DEFINE g == [n \in 0..0 |-> SearchStart(d)]
  <2>1. IsSearch(d, visits, p, 0, g)
    BY SMT DEF IsSearch
  <2> QED BY <2>1
<1>2. ASSUME NEW j \in S
      PROVE  j + 1 \in S
  <2>1. PICK g : IsSearch(d, visits, p, j, g)
    OBVIOUS
  <2> DEFINE h == [n \in 0..(j + 1) |->
                     IF n = j + 1 THEN SearchTurn(g[j], visits[j + 1], p) ELSE g[n]]
  <2>2. IsSearch(d, visits, p, j + 1, h)
    BY <2>1, SMT DEF IsSearch
  <2> QED BY <2>2
<1>3. S = Nat
  BY <1>1, <1>2, SetInduction
<1> QED BY <1>3

LEMMA SearchBySteps ==
  ASSUME NEW d, NEW p, Len(Visits(d)) \in Nat
  PROVE  \E g : /\ g[0].db = d /\ SearchSteps(g, Visits(d), p)
                /\ Search(d, p) = g[Len(Visits(d))]
<1> DEFINE len == Len(Visits(d))
           visits == Visits(d)
           g == CHOOSE h : IsSearch(d, visits, p, len, h)
<1>1. IsSearch(d, visits, p, len, g)
  BY SearchExists
<1>2. Search(d, p) = g[len]
  BY DEF Search, IsSearch, LookOf, SearchStart, SearchTurn
<1> HIDE DEF g, visits, len
<1>3. \A n \in 0..len :
        g[n] = IF n = 0 THEN SearchStart(d) ELSE SearchTurn(g[n - 1], visits[n], p)
  BY <1>1 DEF IsSearch
<1>4. len \in Nat
  BY DEF len
<1>5. 0 \in 0..len /\ \A n \in 1..len : n \in 0..len /\ n # 0
  BY <1>4, SMT
<1>6. g[0].db = d
  BY <1>3, <1>5 DEF SearchStart
<1>7. SearchSteps(g, visits, p)
  <2> SUFFICES ASSUME NEW n \in 1..len
               PROVE  g[n] = IF g[n - 1].found \/ IsHalted(g[n - 1].db) THEN g[n - 1]
                             ELSE LookOf(g[n - 1].db, visits[n], p)
    BY DEF SearchSteps, len, visits
  <2> QED BY <1>3, <1>5 DEF SearchTurn
<1> QED BY <1>2, <1>6, <1>7 DEF visits, len

LEMMA SearchIs ==
  ASSUME NEW d, NEW f, NEW w, ReadsAs(d, f, w), Len(w) > 1, NEW p
  PROVE  LET search == Search(d, p) IN
         /\ ReadsAs(search.db, f, w)
         /\ ~search.found =>
              /\ Avoids(f, Len(f), p)
              /\ search.db["to"] = Table(w, Clean(Len(w) - 1, w[Len(w)]), "open")
<1> DEFINE nf == Len(f)
           nt == Len(w)
           visits == Visits(d)
           search == Search(d, p)
<1>1. /\ nf = NumRecords(d, "from") /\ nf \in Nat
      /\ nt = NumRecords(d, "to") /\ nt \in Nat
  BY ReadsAsIs
<1>2. visits = VisitsOf(nf, nt)
  BY <1>1 DEF Visits, VisitsOf
<1> HIDE DEF nf, nt, visits
<1>3. /\ Len(visits) = nf + nt /\ Len(visits) \in Nat
      /\ VisitsTable(visits, 0, "from", nf) /\ VisitsTable(visits, nf, "to", nt)
  BY <1>1, <1>2, VisitsAre
<1>4. PICK g : g[0].db = d /\ SearchSteps(g, visits, p) /\ search = g[Len(visits)]
  BY <1>3, SearchBySteps DEF visits
<1> HIDE DEF search
<1>5. ReadsAs(g[nf].db, f, w) /\ (~g[nf].found => Avoids(f, nf, p))
  <2>1. VisitsTable(visits, 0, "from", Len(f)) /\ ReadsAs(g[0].db, f, w)
    BY <1>3, <1>4 DEF nf
  <2>2. ReadsAs(g[Len(f)].db, f, w) /\ (~g[Len(f)].found => Avoids(f, Len(f), p))
    BY <1>3, <1>4, <2>1, FromSearched
  <2> QED BY <2>2 DEF nf
<1>6. /\ ReadsAs(g[nf + nt].db, f, w)
      /\ ~g[nf + nt].found => ~g[nf].found /\ LookedAt(g[nf + nt].db["to"], w, nt)
  <2>1. VisitsTable(visits, nf, "to", Len(w)) /\ ReadsAs(g[nf].db, f, w)
    BY <1>3, <1>5 DEF nt
  <2>2. /\ ReadsAs(g[nf + Len(w)].db, f, w)
        /\ ~g[nf + Len(w)].found =>
             ~g[nf].found /\ LookedAt(g[nf + Len(w)].db["to"], w, Len(w))
    BY <1>1, <1>3, <1>4, <2>1, ToSearched
  <2> QED BY <2>2 DEF nt
<1>7. search = g[nf + nt]
  BY <1>3, <1>4
<1>8. ASSUME ~search.found
      PROVE  /\ Avoids(f, Len(f), p)
             /\ search.db["to"] = Table(w, Clean(Len(w) - 1, w[Len(w)]), "open")
  <2>1. nt > 1
    BY DEF nt
  <2> QED BY <1>5, <1>6, <1>7, <1>8, <2>1 DEF LookedAt, nf, nt
<1> QED BY <1>6, <1>7, <1>8 DEF search

-----------------------------------------------------------------------------
(***************************************************************************)
(* Insertion and removal of a record.                                      *)
(***************************************************************************)
LEMMA InsertedIs ==
  ASSUME NEW v \in Seq(Raws), NEW p \in 0..(Len(v) - 1), NEW raw \in Raws
  PROVE  LET u == InsertAt(v, p + 2, raw) IN
         /\ u \in Seq(Raws) /\ Len(u) = Len(v) + 1 /\ Len(u) \in Nat
         /\ p + 2 \in 1..Len(u) /\ p + 1 \in 0..(Len(u) - 1) /\ p \in Nat
         /\ \A j \in 1..Len(u) : u[j] = WithInserted(v, p + 2, raw, j)
<1> DEFINE len == Len(v)
           u == InsertAt(v, p + 2, raw)
<1>1. len \in Nat /\ p \in 0..(len - 1)
  BY LenProperties
<1> HIDE DEF len
<1>2. p + 2 \in 1..(len + 1) /\ p + 1 \in 0..(len + 1 - 1) /\ p \in Nat /\ len + 1 \in Nat
  BY <1>1, SMT
<1> DEFINE i == p + 2
<1>3. i \in 1..(Len(v) + 1)
  BY <1>2 DEF len
<1> HIDE DEF i
<1>4. /\ InsertAt(v, i, raw) \in Seq(Raws) /\ Len(InsertAt(v, i, raw)) = Len(v) + 1
      /\ \A j \in 1..(Len(v) + 1) : InsertAt(v, i, raw)[j] = WithInserted(v, i, raw, j)
  BY <1>3, InsertAtEffect
<1>5. Len(u) = len + 1
  BY <1>4 DEF i, len
<1> QED BY <1>2, <1>4, <1>5 DEF i, len

(* The inserted record is replaced by another.                             *)
LEMMA InsertReplaced ==
  ASSUME NEW v \in Seq(Raws), NEW p \in 0..(Len(v) - 1), NEW a \in Raws, NEW b \in Raws
  PROVE  [InsertAt(v, p + 2, a) EXCEPT ![p + 2] = b] = InsertAt(v, p + 2, b)
<1> DEFINE i == p + 2
           u == InsertAt(v, p + 2, a)
           y == InsertAt(v, p + 2, b)
<1>1. /\ u \in Seq(Raws) /\ Len(u) = Len(v) + 1 /\ i \in 1..Len(u)
      /\ \A j \in 1..Len(u) : u[j] = WithInserted(v, i, a, j)
  BY InsertedIs
<1>2. /\ y \in Seq(Raws) /\ Len(y) = Len(v) + 1
      /\ \A j \in 1..Len(y) : y[j] = WithInserted(v, i, b, j)
  BY InsertedIs
<1>3. i \in Int
  BY SMT
<1> HIDE DEF i, u, y
<1>4. /\ [u EXCEPT ![i] = b] \in Seq(Raws) /\ Len([u EXCEPT ![i] = b]) = Len(u)
      /\ \A j \in 1..Len(u) : [u EXCEPT ![i] = b][j] = IF j = i THEN b ELSE u[j]
  BY <1>1, ExceptSeq
<1>5. ASSUME NEW j \in 1..Len(u)
      PROVE  [u EXCEPT ![i] = b][j] = y[j]
  <2>1. y[j] = WithInserted(v, i, b, j) /\ u[j] = WithInserted(v, i, a, j)
    BY <1>1, <1>2
  <2>2. CASE j = i
    <3>1. ~(i < i)
      BY <1>3, SMT
    <3> QED BY <1>4, <2>1, <2>2, <3>1 DEF WithInserted
  <2>3. CASE j # i
    <3>1. u[j] = y[j]
      BY <2>1, <2>3 DEF WithInserted
    <3> QED BY <1>4, <2>3, <3>1
  <2> QED BY <2>2, <2>3
<1>6. [u EXCEPT ![i] = b] = y
  BY <1>1, <1>2, <1>4, <1>5, SeqEqual
<1> QED BY <1>6 DEF i, u, y

(* The record in a buffer that is not behind the new record, in the first  *)
(* case the record that now has the place of the new one.                  *)
NotBehind(v, r, m, raw, p) == m => r < Len(v) /\ raw = v[r + 1] /\ r <= p + 1

LEMMA InsertOverlaid ==
  ASSUME NEW v \in Seq(Raws), NEW p \in 0..(Len(v) - 1), NEW a \in Raws,
         NEW r \in Nat, NEW m \in BOOLEAN, NEW raw \in Raws,
         NotBehind(v, r, m, raw, p)
  PROVE  \E b \in Raws : Overlaid(InsertAt(v, p + 2, a), r, m, raw) = InsertAt(v, p + 2, b)
<1> DEFINE u == InsertAt(v, p + 2, a)
<1>1. CASE ~m
  BY <1>1, Zenon DEF Overlaid
<1>2. CASE m /\ r = p + 1
  <2>1. r + 1 = p + 2
    BY <1>2, SMT
  <2>2. Overlaid(u, r, m, raw) = [u EXCEPT ![p + 2] = raw]
    BY <1>2, <2>1, Zenon DEF Overlaid
  <2> QED BY <2>2, InsertReplaced
<1>3. CASE m /\ r # p + 1
  <2> DEFINE i == r + 1
  <2>1. /\ u \in Seq(Raws) /\ Len(u) = Len(v) + 1 /\ Len(v) \in Nat
        /\ \A j \in 1..Len(u) : u[j] = WithInserted(v, p + 2, a, j)
    BY InsertedIs, LenProperties
  <2>2. r < Len(v) /\ raw = v[i] /\ r <= p + 1
    BY <1>3 DEF NotBehind
  <2>3. i < p + 2 /\ i \in 1..Len(u)
    BY <1>3, <2>1, <2>2, SMT
  <2> HIDE DEF i, u
  <2>4. u[i] = v[i]
    BY <2>1, <2>3 DEF WithInserted
  <2>5. [u EXCEPT ![i] = raw] = u
    BY <2>1, <2>2, <2>3, <2>4, LenProperties
  <2>6. Overlaid(u, r, m, raw) = u
    BY <1>3, <2>5, Zenon DEF Overlaid, i
  <2> QED BY <2>6 DEF u
<1> QED BY <1>1, <1>2, <1>3

LEMMA RecordInserted ==
  ASSUME NEW table, NEW v, Opened(table, v), NEW p \in 0..(Len(v) - 1), Len(v) < 250,
         NEW raw \in Raws, table.buffer.isModified => table.buffer.recordId <= p + 1
  PROVE  LET written == Buffer!WriteRecordBufferIfDirty(table)
             inserted == [written EXCEPT !.stored = InsertAt(@, p + 2, raw)]
         IN /\ inserted.status = "open"
            /\ \E b \in Raws : Offers(inserted, InsertAt(v, p + 2, b), 0)
<1>1. PICK s, r, m, rec : \E st \in Running :
           /\ SoundParts(s, r, m, rec) /\ table = Table(s, Buf(r, m, rec), st)
           /\ v = Overlaid(s, r, m, rec)
           /\ r < Len(s) => rec = v[r + 1]
  BY HeldParts DEF Opened
<1>2. PICK st \in Running :
           /\ SoundParts(s, r, m, rec) /\ table = Table(s, Buf(r, m, rec), st)
           /\ v = Overlaid(s, r, m, rec)
           /\ r < Len(s) => rec = v[r + 1]
  BY <1>1
<1> DEFINE b0 == Buf(r, m, rec)
           written == Buffer!WriteRecordBufferIfDirty(table)
           u == InsertAt(v, p + 2, raw)
           inserted == [written EXCEPT !.stored = InsertAt(@, p + 2, raw)]
<1>3. /\ table.status = st /\ table.buffer = b0 /\ b0.recordId = r /\ b0.isModified = m
      /\ b0.columns = rec
  BY <1>2, FieldsOfTable, FieldsOfBuf
<1>4. /\ v \in Seq(Raws) /\ Len(v) = Len(s) /\ Len(v) \in Nat /\ Len(v) \in 1..250
      /\ r \in Nat /\ m \in BOOLEAN /\ rec \in Raws /\ (m => r < Len(v))
  BY <1>2, OverlaidIs DEF SoundParts
<1>5. inserted = Table(u, b0, st)
  <2>1. written = Table(v, b0, st)
    BY <1>2, WrittenBack
  <2> HIDE DEF written, b0
  <2>2. written.stored = v
    BY <2>1, FieldsOfTable
  <2>3. inserted = [written EXCEPT !.stored = u]
    BY <2>2
  <2> HIDE DEF u
  <2> QED BY <2>1, <2>3, TableChanged
<1>6. /\ u \in Seq(Raws) /\ Len(u) = Len(v) + 1
      /\ \A j \in 1..Len(u) : u[j] = WithInserted(v, p + 2, raw, j)
  BY <1>4, InsertedIs
<1>7. PICK b \in Raws : Overlaid(u, r, m, rec) = InsertAt(v, p + 2, b)
  <2>1. NotBehind(v, r, m, rec, p)
    BY <1>2, <1>3, <1>4 DEF NotBehind
  <2> QED BY <1>4, <2>1, InsertOverlaid
<1> DEFINE x == InsertAt(v, p + 2, b)
<1>8. SoundParts(u, r, m, rec)
  <2> DEFINE n == Len(v)
             k == Len(u)
  <2>1. n \in Nat /\ n < 250 /\ k = n + 1 /\ (m => r < n)
    BY <1>4, <1>6
  <2> HIDE DEF n, k
  <2>2. k \in 1..250 /\ (m => r < k)
    BY <1>4, <2>1, SMT
  <2> QED BY <1>4, <1>6, <2>2 DEF SoundParts, k
<1> HIDE DEF inserted, u
<1>9. Sound(inserted)
  BY <1>5, <1>8 DEF Sound
<1>10. Written(inserted) = x
  BY <1>5, <1>7, WrittenIs
<1>11. inserted.status = st /\ inserted.buffer = b0
  BY <1>5, FieldsOfTable
<1>12. ASSUME r = 0
       PROVE  rec = x[0 + 1]
  <2>1. /\ Len(x) = Len(v) + 1
        /\ \A j \in 1..Len(x) : x[j] = WithInserted(v, p + 2, b, j)
    BY <1>4, InsertedIs
  <2> DEFINE n == Len(x)
             k == Len(v)
  <2>2. n = k + 1 /\ k \in Nat /\ k \in 1..250
    BY <1>4, <2>1
  <2> HIDE DEF n, k, x
  <2>3. 1 \in 1..n /\ 1 < p + 2 /\ 0 < k /\ 0 + 1 = 1
    BY <2>2, SMT
  <2>4. x[1] = v[1]
    BY <2>1, <2>3 DEF WithInserted, n
  <2>5. rec = v[1]
    BY <1>2, <1>4, <1>12, <2>3 DEF k
  <2> QED BY <2>3, <2>4, <2>5
<1>13. Offers(inserted, x, 0)
  BY <1>3, <1>9, <1>10, <1>11, <1>12 DEF Offers
<1>14. st = "open"
  BY <1>3 DEF Opened
<1> QED BY <1>11, <1>13, <1>14 DEF inserted

LEMMA RemovedIs ==
  ASSUME NEW v \in Seq(Raws), NEW p \in 0..(Len(v) - 1)
  PROVE  LET u == RemoveAt(v, p + 1) IN
         /\ u \in Seq(Raws) /\ Len(u) = Len(v) - 1 /\ Len(u) \in Nat
         /\ p + 1 \in 1..Len(v) /\ p \in Nat
         /\ \A j \in 1..Len(u) : u[j] = WithRemoved(v, p + 1, j)
<1> DEFINE i == p + 1
<1>1. i \in 1..Len(v) /\ p \in Nat
  BY IndexesOf
<1> HIDE DEF i
<1> DEFINE u == RemoveAt(v, i)
<1>2. u \in Seq(Raws) /\ Len(u) = Len(v) - 1 /\ \A j \in 1..(Len(v) - 1) : u[j] = WithRemoved(v, i, j)
  BY <1>1, RemoveAtEffect
<1>3. Len(u) \in Nat
  BY <1>2, LenProperties
<1> QED BY <1>1, <1>2, <1>3 DEF i

(* A record behind the one in the buffer is removed.                       *)
LEMMA RemoveOverlaid ==
  ASSUME NEW s, NEW r, NEW m, NEW raw, SoundParts(s, r, m, raw),
         NEW p \in 0..(Len(s) - 1), m => r < p
  PROVE  Overlaid(RemoveAt(s, p + 1), r, m, raw) = RemoveAt(Overlaid(s, r, m, raw), p + 1)
<1> DEFINE v == Overlaid(s, r, m, raw)
           u == RemoveAt(s, p + 1)
           y == RemoveAt(v, p + 1)
<1>1. s \in Seq(Raws) /\ r \in Nat /\ m \in BOOLEAN /\ raw \in Raws
  BY DEF SoundParts
<1>2. v \in Seq(Raws) /\ Len(v) = Len(s) /\ (m => v = [s EXCEPT ![r + 1] = raw]) /\ (~m => v = s)
  BY OverlaidIs
<1>3. CASE ~m
  BY <1>2, <1>3, Zenon DEF Overlaid
<1>4. CASE m
  <2> DEFINE i == p + 1
             j == r + 1
  <2>1. /\ u \in Seq(Raws) /\ Len(u) = Len(s) - 1 /\ Len(u) \in Nat /\ p \in Nat
        /\ i \in 1..Len(s) /\ \A n \in 1..Len(u) : u[n] = WithRemoved(s, i, n)
    BY <1>1, RemovedIs
  <2> HIDE DEF v
  <2>2. /\ y \in Seq(Raws) /\ Len(y) = Len(s) - 1
        /\ \A n \in 1..Len(y) : y[n] = WithRemoved(v, i, n)
    BY <1>2, RemovedIs
  <2> DEFINE len == Len(s)
             k == Len(u)
  <2>3. len \in Nat /\ k = len - 1 /\ k \in Nat /\ i \in 1..len /\ r < p
    BY <1>1, <1>4, <2>1, LenProperties
  <2> HIDE DEF u, y, len, k
  <2>4. j \in 1..k /\ j < i /\ j \in 1..len
    BY <1>1, <2>1, <2>3, SMT
  <2>5. i \in Int
    BY <2>1, SMT
  <2> HIDE DEF i, j
  <2>6. \A n \in 1..len : v[n] = IF n = j THEN raw ELSE s[n]
    BY <1>1, <1>2, <1>4, <2>4, ExceptSeq DEF len, j
  <2> DEFINE x == [u EXCEPT ![j] = raw]
  <2>7. x \in Seq(Raws) /\ Len(x) = k /\ \A n \in 1..k : x[n] = IF n = j THEN raw ELSE u[n]
    BY <1>1, <2>1, <2>4, ExceptSeq DEF k
  <2> HIDE DEF x
  <2>8. ASSUME NEW n \in 1..k
        PROVE  x[n] = y[n]
    <3>1. /\ n \in 1..len /\ n + 1 \in 1..len /\ n \in Int
          /\ ~(n < i) => n # j /\ n + 1 # j
      BY <2>3, <2>4, <2>5, SMT
    <3>2. u[n] = WithRemoved(s, i, n) /\ y[n] = WithRemoved(v, i, n)
      BY <2>1, <2>2, <2>3 DEF k, len
    <3>3. CASE n < i
      <4>1. u[n] = s[n] /\ y[n] = v[n]
        BY <3>2, <3>3 DEF WithRemoved
      <4> QED BY <2>6, <2>7, <3>1, <4>1
    <3>4. CASE ~(n < i)
      <4>1. u[n] = s[n + 1] /\ y[n] = v[n + 1]
        BY <3>2, <3>4 DEF WithRemoved
      <4> QED BY <2>6, <2>7, <3>1, <3>4, <4>1
    <3> QED BY <3>3, <3>4
  <2>9. x = y
    <3>1. Len(y) = k
      BY <2>2, <2>3 DEF k, len
    <3> QED BY <2>2, <2>7, <2>8, <3>1, SeqEqual
  <2>10. Overlaid(u, r, m, raw) = x
    BY <1>4, Zenon DEF Overlaid, x, j
  <2> QED BY <2>9, <2>10 DEF u, y, v
<1> QED BY <1>1, <1>3, <1>4

LEMMA RecordRemoved ==
  ASSUME NEW table, NEW v, Opened(table, v), NEW p \in 0..(Len(v) - 1), Len(v) > 1,
         table.buffer.recordId < p \/ table.buffer.recordId = Buffer!NO_RECORD_ID
  PROVE  Opened([table EXCEPT !.stored = RemoveAt(@, p + 1)], RemoveAt(v, p + 1))
<1>1. PICK s, r, m, rec : \E st \in Running :
           /\ SoundParts(s, r, m, rec) /\ table = Table(s, Buf(r, m, rec), st)
           /\ v = Overlaid(s, r, m, rec)
           /\ r < Len(s) => rec = v[r + 1]
  BY HeldParts DEF Opened
<1>2. PICK st \in Running :
           /\ SoundParts(s, r, m, rec) /\ table = Table(s, Buf(r, m, rec), st)
           /\ v = Overlaid(s, r, m, rec)
           /\ r < Len(s) => rec = v[r + 1]
  BY <1>1
<1> DEFINE b0 == Buf(r, m, rec)
           u == RemoveAt(s, p + 1)
           y == RemoveAt(v, p + 1)
           removed == [table EXCEPT !.stored = RemoveAt(@, p + 1)]
<1>3. /\ table.status = st /\ table.buffer = b0 /\ table.stored = s /\ b0.recordId = r
      /\ b0.isModified = m /\ b0.columns = rec
  BY <1>2, FieldsOfTable, FieldsOfBuf
<1>4. /\ v \in Seq(Raws) /\ Len(v) = Len(s) /\ Len(v) \in Nat /\ Len(v) \in 1..250
      /\ s \in Seq(Raws) /\ r \in Nat /\ m \in BOOLEAN /\ rec \in Raws /\ (m => r < Len(v))
  BY <1>2, OverlaidIs DEF SoundParts
<1>5. removed = Table(u, b0, st)
  <2> HIDE DEF b0
  <2>1. removed = [table EXCEPT !.stored = u]
    BY <1>3
  <2> HIDE DEF u
  <2> QED BY <1>2, <2>1, TableChanged DEF b0
<1>6. /\ u \in Seq(Raws) /\ Len(u) = Len(v) - 1 /\ p \in Nat
      /\ Len(y) = Len(v) - 1 /\ \A j \in 1..Len(y) : y[j] = WithRemoved(v, p + 1, j)
  BY <1>4, RemovedIs
<1> DEFINE len == Len(v)
<1>7. /\ len \in Nat /\ len \in 1..250 /\ len > 1 /\ p \in 0..(len - 1)
      /\ (r < p \/ r = 255) /\ (m => r < len)
  BY <1>3, <1>4, ConstantsType
<1> HIDE DEF len
<1>8. /\ len - 1 \in 1..250 /\ (m => r < p /\ r < len - 1)
      /\ r < len - 1 => r + 1 \in 1..(len - 1) /\ r + 1 < p + 1 /\ r < len
      /\ r < len - 1 \/ r = 255
  BY <1>4, <1>6, <1>7, SMT
<1>9. SoundParts(u, r, m, rec)
  BY <1>4, <1>6, <1>8 DEF SoundParts, len
<1>10. Overlaid(u, r, m, rec) = y
  BY <1>2, <1>4, <1>8, RemoveOverlaid
<1>11. r < Len(u) => rec = y[r + 1]
  <2> DEFINE j == r + 1
             i == p + 1
             n == Len(y)
  <2> SUFFICES ASSUME r < Len(u) PROVE rec = y[j]
    OBVIOUS
  <2>1. j \in 1..n /\ j < i /\ rec = v[j]
    BY <1>2, <1>4, <1>6, <1>8 DEF len
  <2>2. \A k \in 1..n : y[k] = WithRemoved(v, i, k)
    BY <1>6
  <2> HIDE DEF j, i, n, y
  <2> QED BY <2>1, <2>2 DEF WithRemoved
<1> HIDE DEF u, y
<1>12. Holds(Table(u, b0, st), y)
  BY <1>9, <1>10, <1>11, PartsHold
<1>13. Named(Table(u, b0, st))
  <2>1. Table(u, b0, st).buffer.recordId = r /\ Table(u, b0, st).stored = u
    BY <1>3, FieldsOfTable
  <2> QED BY <1>6, <1>8, <2>1 DEF Named, len
<1>14. Table(u, b0, st).status = "open"
  BY <1>3, FieldsOfTable DEF Opened
<1> QED BY <1>5, <1>12, <1>13, <1>14 DEF Opened, y

(* A record is removed when the buffer holds the last one, unmodified.     *)
LEMMA RecordRemovedClean ==
  ASSUME NEW w \in Seq(Raws), Len(w) \in 1..250, Len(w) > 1, NEW p \in 0..(Len(w) - 1)
  PROVE  LET table == Table(w, Clean(Len(w) - 1, w[Len(w)]), "open")
             removed == [table EXCEPT !.stored = RemoveAt(@, p + 1)]
         IN removed.status = "open" /\ Offers(removed, RemoveAt(w, p + 1), 0)
<1> DEFINE len == Len(w)
           r == len - 1
           e == w[len]
           m == FALSE
           b == Clean(r, e)
           st == "open"
           table == Table(w, b, st)
           u == RemoveAt(w, p + 1)
           removed == [table EXCEPT !.stored = RemoveAt(@, p + 1)]
<1>1. u \in Seq(Raws) /\ Len(u) = len - 1 /\ Len(u) \in Nat
  BY RemovedIs
<1>2. len \in Nat /\ len \in 1..250 /\ len > 1
  BY LenProperties
<1>3. removed = Table(u, b, st)
  <2> HIDE DEF b, st
  <2>1. table.stored = w
    BY FieldsOfTable
  <2>2. removed = [table EXCEPT !.stored = u]
    BY <2>1
  <2> HIDE DEF u
  <2> QED BY <2>2, TableChanged
<1>4. len \in 1..Len(w)
  BY <1>2 DEF len
<1>5. e \in Raws
  BY <1>4, ElementOfSeq
<1> HIDE DEF len, e, removed, u
<1>6. r \in Nat /\ len - 1 \in 1..250 /\ r # 0
  BY <1>2, SMT
<1> HIDE DEF r
<1>7. ~m /\ m \in BOOLEAN /\ b = Buf(r, m, e)
  BY DEF Clean
<1> HIDE DEF m
<1>8. SoundParts(u, r, m, e)
  BY <1>1, <1>5, <1>6, <1>7 DEF SoundParts
<1>9. Sound(removed) /\ Written(removed) = u
  <2>1. Overlaid(u, r, m, e) = u
    BY <1>7, Zenon DEF Overlaid
  <2>2. removed = Table(u, Buf(r, m, e), st) /\ st \in Running
    BY <1>3, <1>7, RunningIs
  <2> HIDE DEF st, b
  <2> QED BY <1>8, <2>1, <2>2, WrittenIs DEF Sound
<1>10. removed.status = st /\ removed.buffer.recordId = r
  BY <1>3, <1>7, FieldsOfTable, FieldsOfBuf
<1>11. Offers(removed, u, 0)
  BY <1>6, <1>9, <1>10 DEF Offers
<1> QED BY <1>10, <1>11 DEF removed, u, r, e, len

LEMMA MovedAll ==
  ASSUME NEW v \in Seq(Raws), NEW mv \in [Refs -> Refs]
  PROVE  /\ Moved(v, mv) \in Seq(Raws) /\ Len(Moved(v, mv)) = Len(v)
         /\ \A i \in 1..Len(v) : Moved(v, mv)[i] = Rec(mv[v[i]["ref"]])
<1> DEFINE len == Len(v)
           u == MovedTo(v, len, mv)
<1>1. len \in Nat
  BY LenProperties
<1>2. /\ u \in Seq(Raws) /\ Len(u) = len
      /\ \A i \in 1..len : u[i] = IF i <= len THEN Rec(mv[v[i]["ref"]]) ELSE v[i]
  BY <1>1, MovedIs
<1> HIDE DEF u, len
<1>3. \A i \in 1..len : i <= len
  BY <1>1, SMT
<1>4. \A i \in 1..len : u[i] = Rec(mv[v[i]["ref"]])
  BY <1>2, <1>3
<1> QED BY <1>2, <1>4 DEF Moved, u, len

LEMMA MovedInserted ==
  ASSUME NEW v \in Seq(Raws), NEW p \in 0..(Len(v) - 1), NEW b \in Raws, NEW mv \in [Refs -> Refs]
  PROVE  /\ Rec(mv[b["ref"]]) \in Raws
         /\ Moved(InsertAt(v, p + 2, b), mv) = InsertAt(Moved(v, mv), p + 2, Rec(mv[b["ref"]]))
<1> DEFINE i == p + 2
           c == Rec(mv[b["ref"]])
           u == InsertAt(v, p + 2, b)
           y == Moved(v, mv)
           x == InsertAt(y, p + 2, c)
           z == Moved(u, mv)
           len == Len(v)
<1>1. c \in Raws
  <2>1. b["ref"] \in Refs
    BY RefOf
  <2>2. mv[b["ref"]] \in Refs
    BY <2>1
  <2> QED BY <2>2, RecType
<1>2. /\ u \in Seq(Raws) /\ Len(u) = len + 1 /\ i \in 1..Len(u)
      /\ \A j \in 1..Len(u) : u[j] = WithInserted(v, i, b, j)
  BY InsertedIs
<1>3. y \in Seq(Raws) /\ Len(y) = len /\ \A j \in 1..len : y[j] = Rec(mv[v[j]["ref"]])
  BY MovedAll
<1> HIDE DEF c, y
<1>4. /\ x \in Seq(Raws) /\ Len(x) = len + 1
      /\ \A j \in 1..Len(x) : x[j] = WithInserted(y, i, c, j)
  BY <1>1, <1>3, InsertedIs
<1> HIDE DEF u
<1>5. z \in Seq(Raws) /\ Len(z) = Len(u) /\ \A j \in 1..Len(u) : z[j] = Rec(mv[u[j]["ref"]])
  BY <1>2, MovedAll
<1>6. len \in Nat /\ p \in 0..(len - 1)
  BY LenProperties
<1> HIDE DEF x, z, len
<1>7. i \in Int /\ i <= len + 1 /\ i >= 2
  BY <1>6, SMT
<1> HIDE DEF i
<1>8. ASSUME NEW j \in 1..Len(z)
      PROVE  z[j] = x[j]
  <2>1. j \in 1..(len + 1) /\ j \in 1..Len(u) /\ j \in 1..Len(x)
    BY <1>2, <1>4, <1>5
  <2>2. u[j] = WithInserted(v, i, b, j) /\ x[j] = WithInserted(y, i, c, j)
        /\ z[j] = Rec(mv[u[j]["ref"]])
    BY <1>2, <1>4, <1>5, <2>1
  <2>3. CASE j < i
    <3>1. j \in 1..len
      BY <1>6, <1>7, <2>1, <2>3, SMT
    <3>2. u[j] = v[j] /\ x[j] = y[j]
      BY <2>2, <2>3 DEF WithInserted
    <3> QED BY <1>3, <2>2, <3>1, <3>2
  <2>4. CASE j = i
    <3>1. ~(i < i)
      BY <1>7, SMT
    <3>2. u[j] = b /\ x[j] = c
      BY <2>2, <2>4, <3>1 DEF WithInserted
    <3> QED BY <2>2, <3>2 DEF c
  <2>5. CASE ~(j < i) /\ j # i
    <3>1. j - 1 \in 1..len
      BY <1>6, <1>7, <2>1, <2>5, SMT
    <3>2. u[j] = v[j - 1] /\ x[j] = y[j - 1]
      BY <2>2, <2>5 DEF WithInserted
    <3> QED BY <1>3, <2>2, <3>1, <3>2
  <2> QED BY <2>3, <2>4, <2>5
<1>9. z = x
  BY <1>2, <1>4, <1>5, <1>8, SeqEqual
<1> QED BY <1>1, <1>9 DEF z, x, y, u, c, i

LEMMA MovedRemoved ==
  ASSUME NEW v \in Seq(Raws), NEW p \in 0..(Len(v) - 1), NEW mv \in [Refs -> Refs]
  PROVE  Moved(RemoveAt(v, p + 1), mv) = RemoveAt(Moved(v, mv), p + 1)
<1> DEFINE i == p + 1
           u == RemoveAt(v, p + 1)
           y == Moved(v, mv)
           x == RemoveAt(y, p + 1)
           z == Moved(u, mv)
           len == Len(v)
<1>1. /\ u \in Seq(Raws) /\ Len(u) = len - 1 /\ i \in 1..len
      /\ \A j \in 1..Len(u) : u[j] = WithRemoved(v, i, j)
  BY RemovedIs
<1>2. y \in Seq(Raws) /\ Len(y) = len /\ \A j \in 1..len : y[j] = Rec(mv[v[j]["ref"]])
  BY MovedAll
<1> HIDE DEF y
<1>3. x \in Seq(Raws) /\ Len(x) = len - 1 /\ \A j \in 1..Len(x) : x[j] = WithRemoved(y, i, j)
  BY <1>2, RemovedIs
<1> HIDE DEF u
<1>4. z \in Seq(Raws) /\ Len(z) = Len(u) /\ \A j \in 1..Len(u) : z[j] = Rec(mv[u[j]["ref"]])
  BY <1>1, MovedAll
<1>5. len \in Nat
  BY LenProperties
<1> HIDE DEF x, z, len, i
<1>6. ASSUME NEW j \in 1..Len(z)
      PROVE  z[j] = x[j]
  <2>1. j \in 1..(len - 1) /\ j \in 1..Len(u) /\ j \in 1..Len(x)
    BY <1>1, <1>3, <1>4
  <2>2. u[j] = WithRemoved(v, i, j) /\ x[j] = WithRemoved(y, i, j) /\ z[j] = Rec(mv[u[j]["ref"]])
    BY <1>1, <1>3, <1>4, <2>1
  <2>3. j \in 1..len /\ j + 1 \in 1..len
    BY <1>5, <2>1, SMT
  <2>4. CASE j < i
    <3>1. u[j] = v[j] /\ x[j] = y[j]
      BY <2>2, <2>4 DEF WithRemoved
    <3> QED BY <1>2, <2>2, <2>3, <3>1
  <2>5. CASE ~(j < i)
    <3>1. u[j] = v[j + 1] /\ x[j] = y[j + 1]
      BY <2>2, <2>5 DEF WithRemoved
    <3> QED BY <1>2, <2>2, <2>3, <3>1
  <2> QED BY <2>4, <2>5
<1>7. z = x
  BY <1>1, <1>3, <1>4, <1>6, SeqEqual
<1> QED BY <1>7 DEF z, x, y, u

-----------------------------------------------------------------------------
(***************************************************************************)
(* The references that are read, and those that name a record which exists.*)
(***************************************************************************)
RefsOf(v)    == [n \in 1..Len(v) |-> v[n]["ref"]]
Within(v, n) == \A i \in 1..Len(v) : v[i]["ref"] < n

LEMMA RefsOfIs ==
  ASSUME NEW v \in Seq(Raws)
  PROVE  /\ RefsOf(v) \in Seq(Refs) /\ Len(RefsOf(v)) = Len(v) /\ DOMAIN RefsOf(v) = 1..Len(v)
         /\ \A i \in 1..Len(v) : RefsOf(v)[i] = v[i]["ref"] /\ v[i]["ref"] \in Refs
<1> DEFINE len == Len(v)
           y == RefsOf(v)
<1>1. len \in Nat /\ \A i \in 1..len : v[i] \in Raws
  BY LenProperties, ElementOfSeq
<1>2. \A i \in 1..len : v[i]["ref"] \in Refs
  BY <1>1, RefOf
<1>3. y = [n \in 1..len |-> v[n]["ref"]]
  BY DEF RefsOf
<1> HIDE DEF y, len
<1>4. y \in [1..len -> Refs]
  BY <1>2, <1>3
<1>5. y \in Seq(Refs) /\ Len(y) = len /\ DOMAIN y = 1..len
  BY <1>1, <1>4
<1> QED BY <1>2, <1>3, <1>5 DEF y, len

LEMMA SameRefs ==
  ASSUME NEW v \in Seq(Raws), NEW s \in Seq(Raws), RefsOf(v) = RefsOf(s)
  PROVE  v = s
<1>1. Len(v) = Len(s) /\ \A i \in 1..Len(v) : v[i]["ref"] = s[i]["ref"]
  BY RefsOfIs
<1>2. ASSUME NEW i \in 1..Len(v)
      PROVE  v[i] = s[i]
  <2>1. v[i] \in Raws /\ s[i] \in Raws
    BY <1>1, ElementOfSeq
  <2>2. Rec(v[i]["ref"]) = v[i] /\ Rec(s[i]["ref"]) = s[i]
    BY <2>1, RefOf
  <2> QED BY <1>1, <2>2
<1> QED BY <1>1, <1>2, SeqEqual

LEMMA ViewIs ==
  ASSUME NEW d, IsDb(d), AllOpen(d), NEW t \in TableIds, NEW v, Opened(d[t], v)
  PROVE  ViewOf(d, t) = RefsOf(v) /\ NumRecords(d, t) = Len(v)
<1> DEFINE len == Len(v)
<1>1. v \in Seq(Raws) /\ Len(v) = NumRecords(d, t) /\ len \in Nat
  BY HeldIsTyped DEF Opened, NumRecords
<1>2. ASSUME NEW n \in 1..len
      PROVE  BufferedRef(Filled(d, t, n - 1), t) = v[n]["ref"]
  <2> DEFINE k == n - 1
  <2>1. k \in 0..(len - 1) /\ k + 1 = n
    BY <1>1, SMT
  <2> HIDE DEF k
  <2>2. k \in 0..(Len(v) - 1)
    BY <2>1
  <2>3. Offers(d[t], v, k)
    BY <2>2, HoldsOffers DEF Opened
  <2>4. Filled(d, t, k)[t].buffer.columns = v[k + 1]
    BY <2>2, <2>3, FilledIs
  <2> QED BY <2>1, <2>4 DEF BufferedRef, k
<1> QED BY <1>1, <1>2 DEF ViewOf, RefsOf

LEMMA RefsInserted ==
  ASSUME NEW v \in Seq(Raws), NEW p \in 0..(Len(v) - 1)
  PROVE  RefsOf(InsertAt(v, p + 2, Zero)) = InsertAt(RefsOf(v), p + 2, 0)
<1> DEFINE i == p + 2
           u == InsertAt(v, p + 2, Zero)
           y == RefsOf(v)
           x == InsertAt(y, p + 2, 0)
           z == RefsOf(u)
           len == Len(v)
<1>1. Zero \in Raws /\ Zero["ref"] = 0 /\ 0 \in Refs
  BY ZeroType, RefOf
<1>2. /\ u \in Seq(Raws) /\ Len(u) = len + 1 /\ i \in 1..Len(u)
      /\ \A j \in 1..Len(u) : u[j] = WithInserted(v, i, Zero, j)
  BY <1>1, InsertedIs
<1>3. y \in Seq(Refs) /\ Len(y) = len /\ \A j \in 1..len : y[j] = v[j]["ref"]
  BY RefsOfIs
<1> HIDE DEF y
<1>4. i \in 1..(Len(y) + 1)
  BY <1>2, <1>3
<1> HIDE DEF u
<1>5. z \in Seq(Refs) /\ Len(z) = Len(u) /\ \A j \in 1..Len(u) : z[j] = u[j]["ref"]
  BY <1>2, RefsOfIs
<1>6. len \in Nat /\ p \in 0..(len - 1)
  BY LenProperties
<1> HIDE DEF z, len
<1>7. i \in Int /\ i <= len + 1 /\ i >= 2
  BY <1>6, SMT
<1>8. x = InsertAt(y, i, 0)
  OBVIOUS
<1> HIDE DEF i, x
<1>9. /\ x \in Seq(Refs) /\ Len(x) = Len(y) + 1
      /\ \A j \in 1..(Len(y) + 1) : x[j] = WithInserted(y, i, 0, j)
  BY <1>1, <1>3, <1>4, <1>8, InsertAtEffect
<1>10. ASSUME NEW j \in 1..Len(z)
       PROVE  z[j] = x[j]
  <2>1. j \in 1..(len + 1) /\ j \in 1..Len(u)
    BY <1>2, <1>5
  <2>2. u[j] = WithInserted(v, i, Zero, j) /\ x[j] = WithInserted(y, i, 0, j)
        /\ z[j] = u[j]["ref"]
    BY <1>2, <1>3, <1>5, <1>9, <2>1
  <2>3. CASE j < i
    <3>1. j \in 1..len
      BY <1>6, <1>7, <2>1, <2>3, SMT
    <3>2. u[j] = v[j] /\ x[j] = y[j]
      BY <2>2, <2>3 DEF WithInserted
    <3> QED BY <1>3, <2>2, <3>1, <3>2
  <2>4. CASE j = i
    <3>1. ~(i < i)
      BY <1>7, SMT
    <3>2. u[j] = Zero /\ x[j] = 0
      BY <2>2, <2>4, <3>1 DEF WithInserted
    <3> QED BY <1>1, <2>2, <3>2
  <2>5. CASE ~(j < i) /\ j # i
    <3>1. j - 1 \in 1..len
      BY <1>6, <1>7, <2>1, <2>5, SMT
    <3>2. u[j] = v[j - 1] /\ x[j] = y[j - 1]
      BY <2>2, <2>5 DEF WithInserted
    <3> QED BY <1>3, <2>2, <3>1, <3>2
  <2> QED BY <2>3, <2>4, <2>5
<1>11. z = x
  BY <1>2, <1>3, <1>5, <1>9, <1>10, SeqEqual
<1> QED BY <1>11 DEF z, x, y, u

LEMMA RefsRemoved ==
  ASSUME NEW v \in Seq(Raws), NEW p \in 0..(Len(v) - 1)
  PROVE  RefsOf(RemoveAt(v, p + 1)) = RemoveAt(RefsOf(v), p + 1)
<1> DEFINE i == p + 1
           u == RemoveAt(v, p + 1)
           y == RefsOf(v)
           x == RemoveAt(y, p + 1)
           z == RefsOf(u)
           len == Len(v)
<1>1. /\ u \in Seq(Raws) /\ Len(u) = len - 1 /\ i \in 1..len
      /\ \A j \in 1..Len(u) : u[j] = WithRemoved(v, i, j)
  BY RemovedIs
<1>2. y \in Seq(Refs) /\ Len(y) = len /\ \A j \in 1..len : y[j] = v[j]["ref"]
  BY RefsOfIs
<1> HIDE DEF y
<1>3. x = RemoveAt(y, i) /\ i \in 1..Len(y)
  BY <1>1, <1>2
<1> HIDE DEF u, x, i
<1>4. x \in Seq(Refs) /\ Len(x) = Len(y) - 1 /\ \A j \in 1..(Len(y) - 1) : x[j] = WithRemoved(y, i, j)
  BY <1>2, <1>3, RemoveAtEffect
<1>5. z \in Seq(Refs) /\ Len(z) = Len(u) /\ \A j \in 1..Len(u) : z[j] = u[j]["ref"]
  BY <1>1, RefsOfIs
<1>6. len \in Nat
  BY LenProperties
<1> HIDE DEF z, len
<1>7. ASSUME NEW j \in 1..Len(z)
      PROVE  z[j] = x[j]
  <2>1. j \in 1..(len - 1) /\ j \in 1..Len(u)
    BY <1>1, <1>5
  <2>2. u[j] = WithRemoved(v, i, j) /\ x[j] = WithRemoved(y, i, j) /\ z[j] = u[j]["ref"]
    BY <1>1, <1>2, <1>4, <1>5, <2>1
  <2>3. j \in 1..len /\ j + 1 \in 1..len
    BY <1>6, <2>1, SMT
  <2>4. CASE j < i
    <3>1. u[j] = v[j] /\ x[j] = y[j]
      BY <2>2, <2>4 DEF WithRemoved
    <3> QED BY <1>2, <2>2, <2>3, <3>1
  <2>5. CASE ~(j < i)
    <3>1. u[j] = v[j + 1] /\ x[j] = y[j + 1]
      BY <2>2, <2>5 DEF WithRemoved
    <3> QED BY <1>2, <2>2, <2>3, <3>1
  <2> QED BY <2>4, <2>5
<1>8. z = x
  BY <1>1, <1>2, <1>4, <1>5, <1>7, SeqEqual
<1> QED BY <1>8 DEF z, x, y, u, i

(* Shifting is limited by what a reference can be, but one to a record     *)
(* that exists is never at that limit.                                     *)
UpMover(p, n)   == Mover(p, 1, n)
DownMover(p, n) == Mover(p, -1, n - 2)

LEMMA UpOne ==
  ASSUME NEW n \in LastRefs, NEW p \in Nat
  PROVE  /\ UpMover(p, n) \in [Refs -> Refs]
         /\ \A x \in Refs : x < n => UpMover(p, n)[x] = MovedUp(x, p) /\ UpMover(p, n)[x] < n + 1
<1> DEFINE one == 1
           mv == Mover(p, one, n)
<1>1. one \in Directions
  BY DEF Directions
<1>2. mv = [x \in Refs |-> IF x > p THEN Limited(x + one, n) ELSE x]
  BY DEF Mover
<1> HIDE DEF one, mv
<1>3. \A x \in Refs : mv[x] = (IF x > p THEN Limited(x + one, n) ELSE x) /\ mv[x] \in Refs
  BY <1>1, MoverIs DEF mv
<1>4. mv \in [Refs -> Refs]
  BY <1>2, <1>3
<1>5. ASSUME NEW x \in Refs, x < n
      PROVE  mv[x] = MovedUp(x, p) /\ mv[x] < n + 1
  <2>1. x \in Nat /\ n \in Nat
    BY NType, ConstantsType, SMT DEF Refs, LastRefs
  <2>2. mv[x] = IF x > p THEN Limited(x + 1, n) ELSE x
    BY <1>3 DEF one
  <2>3. MovedUp(x, p) = IF x > p THEN x + 1 ELSE x
    BY DEF MovedUp
  <2>4. Limited(x + 1, n) = x + 1
    BY <1>5, <2>1, SMT DEF Limited
  <2>5. mv[x] = MovedUp(x, p)
    BY <2>2, <2>3, <2>4
  <2>6. MovedUp(x, p) < n + 1
    BY <1>5, <2>1, <2>3, SMT
  <2> QED BY <2>5, <2>6
<1> QED BY <1>4, <1>5 DEF UpMover, mv, one

LEMMA DownOne ==
  ASSUME NEW n \in 2..MaxTo, NEW p \in 0..(n - 1)
  PROVE  /\ DownMover(p, n) \in [Refs -> Refs]
         /\ \A x \in Refs : x < n => DownMover(p, n)[x] = MovedDown(x, p)
         /\ \A x \in Refs : x < n /\ x # p => DownMover(p, n)[x] < n - 1
<1> DEFINE one == -1
           max == n - 2
           mv == Mover(p, one, max)
<1>1. one \in Directions /\ max \in LastRefs /\ p \in Nat /\ n \in Nat
  BY ConstantsType, SMT DEF Directions, LastRefs
<1>2. mv = [x \in Refs |-> IF x > p THEN Limited(x + one, max) ELSE x]
  BY DEF Mover
<1> HIDE DEF one, mv, max
<1>3. \A x \in Refs : mv[x] = (IF x > p THEN Limited(x + one, max) ELSE x) /\ mv[x] \in Refs
  BY <1>1, MoverIs DEF mv
<1>4. mv \in [Refs -> Refs]
  BY <1>2, <1>3
<1>5. ASSUME NEW x \in Refs, x < n
      PROVE  mv[x] = MovedDown(x, p) /\ (x # p => mv[x] < n - 1)
  <2>1. x \in Nat
    BY NType, SMT DEF Refs
  <2>2. mv[x] = IF x > p THEN Limited(x + (-1), max) ELSE x
    BY <1>3 DEF one
  <2>3. MovedDown(x, p) = IF x > p THEN x - 1 ELSE x
    BY DEF MovedDown
  <2>4. x > p => Limited(x + (-1), max) = x - 1
    BY <1>1, <1>5, <2>1, SMT DEF Limited, max
  <2>5. mv[x] = MovedDown(x, p)
    BY <2>2, <2>3, <2>4
  <2>6. x # p => MovedDown(x, p) < n - 1
    BY <1>1, <1>5, <2>1, <2>3, SMT
  <2> QED BY <2>5, <2>6
<1> QED BY <1>4, <1>5 DEF DownMover, mv, one, max

Ups(y, p)   == [n \in DOMAIN y |-> MovedUp(y[n], p)]
Downs(y, p) == [n \in DOMAIN y |-> MovedDown(y[n], p)]

LEMMA MovedRefs ==
  ASSUME NEW v \in Seq(Raws), NEW mv \in [Refs -> Refs]
  PROVE  /\ RefsOf(Moved(v, mv)) = [i \in 1..Len(v) |-> mv[v[i]["ref"]]]
         /\ Len(Moved(v, mv)) = Len(v)
         /\ \A i \in 1..Len(v) : Moved(v, mv)[i]["ref"] = mv[v[i]["ref"]] /\ v[i]["ref"] \in Refs
<1> DEFINE u == Moved(v, mv)
           len == Len(v)
<1>1. Len(u) = len /\ \A i \in 1..len : u[i] = Rec(mv[v[i]["ref"]])
  BY MovedAll
<1>2. \A i \in 1..len : v[i]["ref"] \in Refs
  BY RefsOfIs
<1> HIDE DEF u, len
<1>3. \A i \in 1..len : mv[v[i]["ref"]] \in Refs
  BY <1>2
<1>4. \A i \in 1..len : u[i]["ref"] = mv[v[i]["ref"]]
  BY <1>1, <1>3, RecType
<1>5. RefsOf(u) = [i \in 1..len |-> mv[v[i]["ref"]]]
  BY <1>1, <1>4 DEF RefsOf
<1> QED BY <1>1, <1>2, <1>4, <1>5 DEF u, len

LEMMA MovedUpIs ==
  ASSUME NEW v \in Seq(Raws), NEW n \in LastRefs, Within(v, n), NEW p \in Nat
  PROVE  /\ RefsOf(Moved(v, UpMover(p, n))) = Ups(RefsOf(v), p)
         /\ Within(Moved(v, UpMover(p, n)), n + 1)
<1> DEFINE mv == UpMover(p, n)
           len == Len(v)
           u == Moved(v, mv)
<1>1. /\ mv \in [Refs -> Refs]
      /\ \A x \in Refs : x < n => mv[x] = MovedUp(x, p) /\ mv[x] < n + 1
  BY UpOne
<1> HIDE DEF mv
<1>2. /\ RefsOf(u) = [i \in 1..len |-> mv[v[i]["ref"]]] /\ Len(u) = len
      /\ \A i \in 1..len : u[i]["ref"] = mv[v[i]["ref"]] /\ v[i]["ref"] \in Refs
  BY <1>1, MovedRefs
<1>3. DOMAIN RefsOf(v) = 1..len /\ \A i \in 1..len : RefsOf(v)[i] = v[i]["ref"]
  BY RefsOfIs
<1>4. \A i \in 1..len : v[i]["ref"] < n
  BY DEF Within
<1> HIDE DEF u, len
<1>5. \A i \in 1..len : mv[v[i]["ref"]] = MovedUp(RefsOf(v)[i], p) /\ u[i]["ref"] < n + 1
  BY <1>1, <1>2, <1>3, <1>4
<1>6. RefsOf(u) = Ups(RefsOf(v), p)
  BY <1>2, <1>3, <1>5 DEF Ups
<1>7. Within(u, n + 1)
  BY <1>2, <1>5 DEF Within
<1> QED BY <1>6, <1>7 DEF u, mv

LEMMA MovedDownIs ==
  ASSUME NEW v \in Seq(Raws), NEW n \in 2..MaxTo, Within(v, n), NEW p \in 0..(n - 1)
  PROVE  /\ RefsOf(Moved(v, DownMover(p, n))) = Downs(RefsOf(v), p)
         /\ Avoids(v, Len(v), p) => Within(Moved(v, DownMover(p, n)), n - 1)
<1> DEFINE mv == DownMover(p, n)
           len == Len(v)
           u == Moved(v, mv)
<1>1. /\ mv \in [Refs -> Refs]
      /\ \A x \in Refs : x < n => mv[x] = MovedDown(x, p)
      /\ \A x \in Refs : x < n /\ x # p => mv[x] < n - 1
  BY DownOne
<1> HIDE DEF mv
<1>2. /\ RefsOf(u) = [i \in 1..len |-> mv[v[i]["ref"]]] /\ Len(u) = len
      /\ \A i \in 1..len : u[i]["ref"] = mv[v[i]["ref"]] /\ v[i]["ref"] \in Refs
  BY <1>1, MovedRefs
<1>3. DOMAIN RefsOf(v) = 1..len /\ \A i \in 1..len : RefsOf(v)[i] = v[i]["ref"]
  BY RefsOfIs
<1>4. \A i \in 1..len : v[i]["ref"] < n
  BY DEF Within
<1> HIDE DEF u
<1>5. \A i \in 1..len : mv[v[i]["ref"]] = MovedDown(RefsOf(v)[i], p)
  BY <1>1, <1>2, <1>3, <1>4
<1>6. RefsOf(u) = Downs(RefsOf(v), p)
  BY <1>2, <1>3, <1>5 DEF Downs
<1>7. ASSUME Avoids(v, len, p)
      PROVE  Within(u, n - 1)
  <2>1. \A i \in 1..len : v[i]["ref"] # p
    BY <1>7 DEF Avoids
  <2> QED BY <1>1, <1>2, <1>4, <2>1 DEF Within
<1> QED BY <1>6, <1>7 DEF u, mv, len

-----------------------------------------------------------------------------
(***************************************************************************)
(* The inductive invariant: the tables read as records whose references    *)
(* name records that exist, and a closed database has them all stored.     *)
(***************************************************************************)
Fit(f, w) ==
  /\ f \in Seq(Raws) /\ Len(f) \in 1..MaxFrom
  /\ w \in Seq(Raws) /\ Len(w) \in 1..MaxTo
  /\ Within(f, Len(w)) /\ Within(w, Len(w))

Shut(d, f, w) ==
  d = DB(Table(f, Buffer!NoBuffer, "closed"), Table(w, Buffer!NoBuffer, "closed"))

Remembers(d, f, w) == Fit(f, w) /\ (ReadsAs(d, f, w) \/ Shut(d, f, w))

RefInv == \E f, w : Remembers(db, f, w)

(* After a call that neither inserts nor deletes a record of "to".         *)
Keeps(d, n) == \E f, w : Remembers(d, f, w) /\ Len(w) = n

RecordsOf(t, f, w) == IF t = "from" THEN f ELSE w

LEMMA FitIs ==
  ASSUME NEW f, NEW w, Fit(f, w)
  PROVE  /\ f \in Seq(Raws) /\ Len(f) \in Nat /\ Len(f) \in 1..250 /\ Len(f) <= MaxFrom
         /\ w \in Seq(Raws) /\ Len(w) \in Nat /\ Len(w) \in 1..250 /\ Len(w) <= MaxTo
<1> DEFINE nf == Len(f)
           nt == Len(w)
<1>1. f \in Seq(Raws) /\ nf \in 1..MaxFrom /\ w \in Seq(Raws) /\ nt \in 1..MaxTo
  BY DEF Fit
<1> HIDE DEF nf, nt
<1>2. nf \in Nat /\ nf \in 1..250 /\ nf <= MaxFrom /\ nt \in Nat /\ nt \in 1..250 /\ nt <= MaxTo
  BY <1>1, ConstantsType, SMT
<1> QED BY <1>1, <1>2 DEF nf, nt

LEMMA TableReads ==
  ASSUME NEW d, NEW f, NEW w, ReadsAs(d, f, w), NEW t \in TableIds
  PROVE  /\ IsDb(d) /\ AllOpen(d) /\ Opened(d[t], RecordsOf(t, f, w))
         /\ NumRecords(d, t) = Len(RecordsOf(t, f, w))
<1>1. IsDb(d) /\ AllOpen(d)
  BY ReadsAsIs
<1>2. Opened(d[t], RecordsOf(t, f, w))
  BY TheTables DEF ReadsAs, RecordsOf
<1> QED BY <1>1, <1>2, HeldIsTyped DEF Opened, NumRecords

LEMMA ChangedReads ==
  ASSUME NEW d, NEW f, NEW w, ReadsAs(d, f, w), NEW t \in TableIds, NEW x, NEW v, Opened(x, v)
  PROVE  /\ t = "from" => ReadsAs(With(d, t, x), v, w)
         /\ t = "to"   => ReadsAs(With(d, t, x), f, v)
         /\ v = RecordsOf(t, f, w) => ReadsAs(With(d, t, x), f, w)
<1> DEFINE e == With(d, t, x)
<1>1. IsDb(e) /\ e[t] = x /\ \A u \in TableIds : u # t => e[u] = d[u]
  BY WithIs DEF ReadsAs
<1> HIDE DEF e
<1>2. CASE t = "from"
  <2>1. ReadsAs(e, v, w)
    BY <1>1, <1>2, TheTables DEF ReadsAs
  <2> QED BY <1>2, <2>1, TheTables DEF e, RecordsOf
<1>3. CASE t = "to"
  <2>1. ReadsAs(e, f, v)
    BY <1>1, <1>3, TheTables DEF ReadsAs
  <2> QED BY <1>3, <2>1, TheTables DEF e, RecordsOf
<1> QED BY <1>2, <1>3, TheTables

LEMMA FitPut ==
  ASSUME NEW f, NEW w, Fit(f, w), NEW t \in TableIds, NEW v, v = RecordsOf(t, f, w),
         NEW k \in 0..(Len(v) - 1), NEW x \in Refs, x < Len(w)
  PROVE  /\ t = "from" => Fit(Put(v, k, x), w)
         /\ t = "to"   => Fit(f, Put(v, k, x)) /\ Len(Put(v, k, x)) = Len(w)
<1> DEFINE u == Put(v, k, x)
           n == Len(w)
<1>1. v \in Seq(Raws) /\ Within(v, n)
  BY DEF Fit, RecordsOf
<1>2. /\ u \in Seq(Raws) /\ Len(u) = Len(v)
      /\ \A j \in 1..Len(v) : u[j] = IF j = k + 1 THEN Rec(x) ELSE v[j]
  BY <1>1, PutIs
<1>3. Rec(x)["ref"] = x
  BY RecType
<1> HIDE DEF u, n
<1>4. x < n
  BY DEF n
<1>5. Within(u, n)
  <2> SUFFICES ASSUME NEW j \in 1..Len(u) PROVE u[j]["ref"] < n
    BY DEF Within
  <2>1. u[j] = IF j = k + 1 THEN Rec(x) ELSE v[j]
    BY <1>2
  <2>2. v[j]["ref"] < n
    BY <1>1, <1>2 DEF Within
  <2> QED BY <1>3, <1>4, <2>1, <2>2
<1>6. ASSUME t = "from"
      PROVE  Fit(u, w)
  BY <1>2, <1>5, <1>6 DEF Fit, RecordsOf, n
<1>7. ASSUME t = "to"
      PROVE  Fit(f, u) /\ Len(u) = Len(w)
  <2>1. v = w
    BY <1>7, TheTables DEF RecordsOf
  <2> QED BY <1>2, <1>5, <2>1 DEF Fit, n
<1> QED BY <1>6, <1>7 DEF u

LEMMA GetValueKeeps ==
  ASSUME NEW d, NEW f, NEW w, ReadsAs(d, f, w), NEW t \in TableIds,
         NEW k \in 0..(NumRecords(d, t) - 1)
  PROVE  LET e == Filled(d, t, k) IN
         /\ ReadsAs(e, f, w) /\ ~IsHalted(e) /\ MaxRef(e) = Len(w) - 1
         /\ e[t].buffer.recordId = k
<1> DEFINE v == RecordsOf(t, f, w)
           e == Filled(d, t, k)
<1>1. Opened(d[t], v) /\ k \in 0..(Len(v) - 1)
  BY TableReads
<1> HIDE DEF v
<1>2. ReadsAs(e, f, w) /\ ~IsHalted(e) /\ e[t].buffer.recordId = k
  BY <1>1, FilledReads
<1> HIDE DEF e
<1>3. MaxRef(e) = Len(w) - 1
  BY <1>2, ReadsAsIs DEF MaxRef
<1> QED BY <1>2, <1>3 DEF e

LEMMA SetValueKeeps ==
  ASSUME NEW e, NEW f, NEW w, ReadsAs(e, f, w), Fit(f, w), NEW t \in TableIds,
         NEW k \in 0..(NumRecords(e, t) - 1), e[t].buffer.recordId = k,
         NEW x \in LastRefs, x <= Len(w) - 1
  PROVE  Keeps([e EXCEPT ![t] = Buffer!Modified(@, "ref", x)], Len(w))
<1> DEFINE v == RecordsOf(t, f, w)
           modified == Buffer!Modified(e[t], "ref", x)
           u == Put(v, k, x)
           n == Len(w)
<1>1. Opened(e[t], v) /\ k \in 0..(Len(v) - 1)
  BY TableReads
<1>2. x \in Refs /\ x < Len(w)
  <2>1. n \in Nat /\ x <= n - 1
    BY FitIs
  <2> HIDE DEF n
  <2>2. x \in Refs /\ x < n
    BY <2>1, NType, ConstantsType, SMT DEF Refs, LastRefs
  <2> QED BY <2>2 DEF n
<1>3. v = RecordsOf(t, f, w) /\ v \in Seq(Raws)
  BY <1>1, HeldIsTyped DEF Opened
<1> HIDE DEF v
<1>4. Len(u) = Len(v)
  BY <1>1, <1>2, <1>3, PutIs
<1>5. Opened(modified, u)
  <2>1. Holds(modified, u) /\ modified.status = e[t].status /\ modified.buffer.recordId = k
    BY <1>1, <1>2, ModifiedHolds DEF Opened
  <2>2. modified.status = "open"
    BY <1>1, <2>1 DEF Opened
  <2>3. k \in 0..(Len(u) - 1)
    BY <1>1, <1>4
  <2> HIDE DEF modified, u
  <2> QED BY <2>1, <2>2, <2>3, OpenedIs
<1>6. /\ t = "from" => Fit(u, w)
      /\ t = "to" => Fit(f, u) /\ Len(u) = n
  BY <1>1, <1>2, <1>3, FitPut
<1> HIDE DEF modified, u
<1>7. /\ t = "from" => ReadsAs(With(e, t, modified), u, w)
      /\ t = "to" => ReadsAs(With(e, t, modified), f, u)
  BY <1>5, ChangedReads
<1>8. Keeps(With(e, t, modified), n)
  <2>1. CASE t = "from"
    BY <1>6, <1>7, <2>1 DEF Keeps, Remembers
  <2>2. CASE t = "to"
    BY <1>6, <1>7, <2>2 DEF Keeps, Remembers
  <2> QED BY <2>1, <2>2, TheTables
<1> QED BY <1>8 DEF With, modified, n

LEMMA SyncKeeps ==
  ASSUME NEW d, NEW f, NEW w, ReadsAs(d, f, w), NEW t \in TableIds,
         d[t].buffer.recordId # Buffer!NO_RECORD_ID
  PROVE  ReadsAs([d EXCEPT ![t] = Buffer!StoreRecordBuffer(@)], f, w)
<1> DEFINE v == RecordsOf(t, f, w)
           k == d[t].buffer.recordId
           stored == Buffer!StoreRecordBuffer(d[t])
<1>1. Opened(d[t], v)
  BY TableReads
<1>2. v \in Seq(Raws) /\ Len(v) = Len(d[t].stored) /\ Len(v) \in Nat
  BY <1>1, HeldIsTyped DEF Opened
<1>3. k \in Nat
  <2>1. PICK s, r, m, raw : \E st \in Running :
          SoundParts(s, r, m, raw) /\ d[t] = Table(s, Buf(r, m, raw), st)
    BY <1>1 DEF Opened, Holds, Good, Sound
  <2> QED BY <2>1, FieldsOfTable, FieldsOfBuf DEF SoundParts
<1>4. k < Len(v)
  BY <1>1, <1>2, ConstantsType DEF Opened, Named
<1> DEFINE n == Len(v)
<1>5. k \in 0..(Len(v) - 1)
  <2>1. n \in Nat /\ k < n
    BY <1>2, <1>4
  <2> HIDE DEF n, k
  <2>2. k \in 0..(n - 1)
    BY <1>3, <2>1, SMT
  <2> QED BY <2>2 DEF n
<1>6. Opened(stored, v)
  <2>1. Holds(stored, v) /\ stored.status = d[t].status /\ stored.buffer.recordId = k
    BY <1>1, <1>5, SyncedHolds DEF Opened
  <2>2. stored.status = "open"
    BY <1>1, <2>1 DEF Opened
  <2> HIDE DEF stored, k, v
  <2> QED BY <1>5, <2>1, <2>2, OpenedIs
<1> HIDE DEF stored
<1>7. ReadsAs(With(d, t, stored), f, w)
  BY <1>6, ChangedReads
<1> QED BY <1>7 DEF With, stored

-----------------------------------------------------------------------------
(***************************************************************************)
(* BDB_createDataBase(), BDB_openDataBase() and BDB_closeDataBase().       *)
(***************************************************************************)
LEMMA NoBufferIs == Buffer!NoBuffer = Clean(255, Zero)
BY Zenon DEF Buffer!NoBuffer, Buffer!NO_RECORD_ID, Clean, Buf, Zero, Rec

LEMMA InitReads ==
  ASSUME Init
  PROVE  RefInv
<1> DEFINE v == <<Zero>>
           k == 0
           st == "open"
           x == Table(v, Clean(k, Zero), st)
<1>1. Zero \in Raws /\ Zero["ref"] = 0 /\ Buffer!Defaults = Zero /\ Buffer!Encoded(Zero) = Zero
  BY ZeroType, CodecIsIdentity
<1>2. v \in Seq(Raws) /\ Len(v) = 1 /\ v[1] = Zero
  BY <1>1
<1>3. [recordId |-> 0, isModified |-> FALSE, columns |-> Zero] = Clean(k, Zero)
  BY DEF Clean, Buf
<1>4. db = DB(x, x)
  BY <1>1, <1>3, Zenon DEF Init, DB, Table
<1>5. k \in 0..(Len(v) - 1) /\ Len(v) \in 1..250 /\ k + 1 = 1 /\ k < Len(v)
  <2>1. 0 \in 0..(1 - 1) /\ 1 \in 1..250 /\ 0 + 1 = 1 /\ 0 < 1
    BY SMT
  <2> QED BY <1>2, <2>1
<1>6. Opened(x, v)
  <2>1. st \in Running /\ Zero = v[k + 1]
    BY <1>2, <1>5, RunningIs
  <2> HIDE DEF k, v, st
  <2>2. Holds(x, v) /\ x.status = st /\ x.buffer.recordId = k
    <3>1. LET y == Table(v, Clean(k, v[k + 1]), st) IN
          Holds(y, v) /\ y.status = st /\ y.buffer.recordId = k
      BY <1>2, <1>5, <2>1, CleanHolds
    <3> QED BY <2>1, <3>1
  <2>3. x.status = "open"
    BY <2>2 DEF st
  <2> HIDE DEF x
  <2> QED BY <1>5, <2>2, <2>3, OpenedIs
<1> HIDE DEF x, v, k
<1>7. db["from"] = x /\ db["to"] = x /\ IsDb(db)
  BY <1>4, TheTables DEF DB, IsDb
<1>8. ReadsAs(db, v, v)
  BY <1>6, <1>7 DEF ReadsAs
<1>9. Within(v, Len(v))
  <2>1. \A i \in 1..1 : i = 1
    BY SMT
  <2>2. 0 < 1
    BY SMT
  <2> QED BY <1>1, <1>2, <2>1, <2>2 DEF Within
<1>10. Fit(v, v)
  <2>1. 1 \in 1..MaxFrom /\ 1 \in 1..MaxTo
    BY ConstantsType, SMT
  <2> QED BY <1>2, <1>9, <2>1 DEF Fit
<1> QED BY <1>8, <1>10 DEF RefInv, Remembers

LEMMA OpenedAnew ==
  ASSUME NEW v \in Seq(Raws), Len(v) \in 1..250
  PROVE  Opened([Table(v, Buffer!NoBuffer, "closed") EXCEPT !.status = "open"], v)
<1> DEFINE r == 255
           m == FALSE
           st == "open"
           b == Buffer!NoBuffer
           x == Table(v, b, st)
           len == Len(v)
<1>1. [Table(v, b, "closed") EXCEPT !.status = st] = x
  <2> DEFINE c == "closed"
  <2> HIDE DEF st, b, c
  <2>1. [Table(v, b, c) EXCEPT !.status = st] = Table(v, b, st)
    BY SMT DEF Table
  <2> QED BY <2>1 DEF c
<1>2. b = Buf(r, m, Zero) /\ Zero \in Raws /\ ~m /\ m \in BOOLEAN
  BY NoBufferIs, ZeroType DEF Clean
<1>3. len \in Nat /\ len \in 1..250
  BY LenProperties
<1> HIDE DEF len, b, m
<1>4. r \in Nat /\ ~(r < len)
  BY <1>3, SMT
<1>5. SoundParts(v, r, m, Zero) /\ st \in Running
  BY <1>2, <1>3, <1>4, RunningIs DEF SoundParts, len
<1>6. Overlaid(v, r, m, Zero) = v
  BY <1>2, Zenon DEF Overlaid
<1> HIDE DEF r, st
<1>7. Holds(x, v)
  <2>1. r < Len(v) => Zero = Overlaid(v, r, m, Zero)[r + 1]
    BY <1>4 DEF len
  <2>2. Holds(Table(v, Buf(r, m, Zero), st), Overlaid(v, r, m, Zero))
    BY <1>5, <2>1, PartsHold
  <2> QED BY <1>2, <1>6, <2>2
<1>8. x.status = st /\ x.buffer.recordId = r
  BY <1>2, FieldsOfTable, FieldsOfBuf
<1>9. Opened(x, v)
  BY <1>7, <1>8 DEF Opened, Named, r, st
<1> QED BY <1>1, <1>9 DEF st, b

LEMMA OpenKeeps ==
  ASSUME NEW f, NEW w, Fit(f, w), Shut(db, f, w), OpenDataBase
  PROVE  ReadsAs(db', f, w)
<1> DEFINE a == Table(f, Buffer!NoBuffer, "closed")
           b == Table(w, Buffer!NoBuffer, "closed")
           x == [a EXCEPT !.status = "open"]
           y == [b EXCEPT !.status = "open"]
<1>1. Opened(x, f) /\ Opened(y, w)
  BY FitIs, OpenedAnew
<1>2. db = DB(a, b)
  BY DEF Shut
<1> HIDE DEF a, b
<1>3. db["from"] = a /\ db["to"] = b
  BY <1>2, TheTables DEF DB
<1>4. db' = [t \in TableIds |-> [db[t] EXCEPT !.status = "open"]]
  BY DEF OpenDataBase
<1>5. \A t \in TableIds : [db[t] EXCEPT !.status = "open"] = IF t = "from" THEN x ELSE y
  BY <1>3, TheTables
<1> HIDE DEF x, y
<1>6. db' = DB(x, y)
  BY <1>4, <1>5 DEF DB
<1>7. db'["from"] = x /\ db'["to"] = y /\ IsDb(db')
  BY <1>6, TheTables DEF DB, IsDb
<1> QED BY <1>1, <1>7 DEF ReadsAs

LEMMA ClosedAway ==
  ASSUME NEW table, NEW v, Opened(table, v), table.stored = v
  PROVE  [table EXCEPT !.status = "closed", !.buffer = Buffer!NoBuffer]
           = Table(v, Buffer!NoBuffer, "closed")
<1>1. PICK s, r, m, raw : \E st \in Running :
        SoundParts(s, r, m, raw) /\ table = Table(s, Buf(r, m, raw), st)
  BY DEF Opened, Holds, Good, Sound
<1>2. PICK st \in Running : table = Table(s, Buf(r, m, raw), st)
  BY <1>1
<1> DEFINE b == Buf(r, m, raw)
           n == Buffer!NoBuffer
           c == "closed"
<1> HIDE DEF b, n, c
<1>3. s = v /\ table = Table(v, b, st)
  BY <1>2, FieldsOfTable DEF b
<1>4. [Table(v, b, st) EXCEPT !.status = c] = Table(v, b, c)
  BY SMT DEF Table
<1>5. [Table(v, b, c) EXCEPT !.buffer = n] = Table(v, n, c)
  BY SMT DEF Table
<1>6. [table EXCEPT !.status = c, !.buffer = n] = Table(v, n, c)
  <2>1. [table EXCEPT !.status = c, !.buffer = n] = [[table EXCEPT !.status = c] EXCEPT !.buffer = n]
    OBVIOUS
  <2> QED BY <1>3, <1>4, <1>5, <2>1
<1> QED BY <1>6 DEF n, c

LEMMA SyncedIsStored ==
  ASSUME NEW f, NEW w, ReadsAs(db, f, w), IsSynced, NEW t \in TableIds
  PROVE  db[t].stored = RecordsOf(t, f, w)
<1> DEFINE v == RecordsOf(t, f, w)
           s == db[t].stored
<1>1. Opened(db[t], v) /\ IsDb(db) /\ AllOpen(db)
  BY TableReads
<1> HIDE DEF v
<1>2. v \in Seq(Raws)
  BY <1>1, HeldIsTyped DEF Opened
<1>3. s \in Seq(Raws)
  <2>1. PICK q, r, m, raw : \E st \in Running :
          SoundParts(q, r, m, raw) /\ db[t] = Table(q, Buf(r, m, raw), st)
    BY <1>1 DEF Opened, Holds, Good, Sound
  <2> QED BY <2>1, FieldsOfTable DEF SoundParts
<1>4. ViewOf(db, t) = RefsOf(s)
  BY DEF IsSynced, RefsOf, NumRecords
<1>5. ViewOf(db, t) = RefsOf(v)
  BY <1>1, ViewIs
<1> QED BY <1>2, <1>3, <1>4, <1>5, SameRefs DEF v

LEMMA CloseKeeps ==
  ASSUME NEW f, NEW w, ReadsAs(db, f, w), IsSynced, CloseDataBase
  PROVE  Shut(db', f, w)
<1> DEFINE x == Table(f, Buffer!NoBuffer, "closed")
           y == Table(w, Buffer!NoBuffer, "closed")
           Away(t) == [db[t] EXCEPT !.status = "closed", !.buffer = Buffer!NoBuffer]
<1>1. db["from"].stored = f /\ db["to"].stored = w
  BY TheTables, SyncedIsStored DEF RecordsOf
<1>2. Opened(db["from"], f) /\ Opened(db["to"], w)
  BY DEF ReadsAs
<1>3. Away("from") = x /\ Away("to") = y
  BY <1>1, <1>2, ClosedAway
<1>4. db' = [t \in TableIds |-> Away(t)]
  BY DEF CloseDataBase
<1> HIDE DEF x, y, Away
<1>5. \A t \in TableIds : Away(t) = IF t = "from" THEN x ELSE y
  BY <1>3, TheTables
<1>6. db' = DB(x, y)
  BY <1>4, <1>5 DEF DB
<1> QED BY <1>6 DEF Shut, x, y

LEMMA WrittenReads ==
  ASSUME NEW d, NEW f, NEW w, ReadsAs(d, f, w), NEW t \in TableIds
  PROVE  ReadsAs([d EXCEPT ![t] = Buffer!WriteRecordBufferIfDirty(@)], f, w)
<1> DEFINE v == RecordsOf(t, f, w)
           table == d[t]
           written == Buffer!WriteRecordBufferIfDirty(table)
<1>1. Opened(table, v)
  BY TableReads
<1> HIDE DEF v, table
<1>2. PICK s, r, m, raw : \E st \in Running :
           /\ SoundParts(s, r, m, raw) /\ table = Table(s, Buf(r, m, raw), st)
           /\ v = Overlaid(s, r, m, raw)
           /\ r < Len(s) => raw = v[r + 1]
  BY <1>1, HeldParts DEF Opened
<1>3. PICK st \in Running :
           /\ SoundParts(s, r, m, raw) /\ table = Table(s, Buf(r, m, raw), st)
           /\ v = Overlaid(s, r, m, raw)
           /\ r < Len(s) => raw = v[r + 1]
  BY <1>2
<1> DEFINE b == Buf(r, m, raw)
<1>4. written = Table(v, b, st)
  BY <1>3, WrittenBack
<1>5. /\ v \in Seq(Raws) /\ Len(v) = Len(s) /\ Len(v) \in 1..250
      /\ (m => v = [s EXCEPT ![r + 1] = raw])
      /\ r \in Nat /\ m \in BOOLEAN /\ raw \in Raws /\ (m => r < Len(v))
  BY <1>3, OverlaidIs DEF SoundParts
<1>6. SoundParts(v, r, m, raw)
  BY <1>5 DEF SoundParts
<1>7. Overlaid(v, r, m, raw) = v
  <2>1. CASE ~m
    BY <2>1, Zenon DEF Overlaid
  <2>2. CASE m
    <3>1. [v EXCEPT ![r + 1] = raw] = v
      BY <1>3, <1>5, <2>2
    <3> QED BY <2>2, <3>1, Zenon DEF Overlaid
  <2> QED BY <1>5, <2>1, <2>2
<1>8. Holds(written, v)
  <2>1. r < Len(v) => raw = Overlaid(v, r, m, raw)[r + 1]
    BY <1>3, <1>5, <1>7
  <2>2. Holds(Table(v, Buf(r, m, raw), st), Overlaid(v, r, m, raw))
    BY <1>6, <2>1, PartsHold
  <2> QED BY <1>4, <1>7, <2>2
<1>9. written.status = "open" /\ Named(written)
  <2>1. /\ table.status = st /\ table.stored = s /\ table.buffer = b
        /\ written.status = st /\ written.stored = v /\ written.buffer = b
    BY <1>3, <1>4, FieldsOfTable
  <2> HIDE DEF written
  <2> QED BY <1>1, <1>5, <2>1 DEF Opened, Named
<1> HIDE DEF written
<1>10. Opened(written, v)
  BY <1>8, <1>9 DEF Opened
<1>11. ReadsAs(With(d, t, written), f, w)
  BY <1>10, ChangedReads DEF v
<1> QED BY <1>11 DEF With, written, table

-----------------------------------------------------------------------------
(***************************************************************************)
(* BDB_insertRecordAfter().                                                *)
(***************************************************************************)
WrittenIn(d, t)          == [d EXCEPT ![t] = Buffer!WriteRecordBufferIfDirty(@)]
InsertedIn(d, t, p, raw) == [WrittenIn(d, t) EXCEPT ![t].stored = InsertAt(@, p + 2, raw)]
DefaultedIn(d, t, q)     == [d EXCEPT ![t] = Buffer!SetToDefault(@, q)]

LEMMA WithTwice ==
  ASSUME NEW d, IsDb(d), NEW t \in TableIds, NEW x, NEW y
  PROVE  With(With(d, t, x), t, y) = With(d, t, y)
<1>1. PICK a, b : d = DB(a, b)
  BY DEF IsDb
<1>2. With(d, t, x) = [d EXCEPT ![t] = x] /\ With(d, t, y) = [d EXCEPT ![t] = y]
  BY DEF With
<1>3. With(With(d, t, x), t, y) = [[d EXCEPT ![t] = x] EXCEPT ![t] = y]
  BY DEF With
<1>4. [[d EXCEPT ![t] = x] EXCEPT ![t] = y] = [d EXCEPT ![t] = y]
  BY <1>1 DEF DB
<1> QED BY <1>2, <1>3, <1>4

LEMMA InsertedOffers ==
  ASSUME NEW d, NEW f, NEW w, ReadsAs(d, f, w), NEW t \in TableIds, NEW v, v = RecordsOf(t, f, w),
         NEW p \in 0..(Len(v) - 1), Len(v) < 250, NEW raw \in Raws,
         d[t].buffer.isModified => d[t].buffer.recordId <= p + 1
  PROVE  LET e == InsertedIn(d, t, p, raw) IN
         /\ IsDb(e) /\ AllOpen(e) /\ Others(d, t, e)
         /\ \E b \in Raws : Offers(e[t], InsertAt(v, p + 2, b), 0)
<1> DEFINE e == InsertedIn(d, t, p, raw)
           table == d[t]
           written == Buffer!WriteRecordBufferIfDirty(table)
           inserted == [written EXCEPT !.stored = InsertAt(@, p + 2, raw)]
<1>1. IsDb(d) /\ AllOpen(d) /\ Opened(table, v)
  BY TableReads
<1>2. inserted.status = "open" /\ \E b \in Raws : Offers(inserted, InsertAt(v, p + 2, b), 0)
  <2>1. table.buffer.isModified => table.buffer.recordId <= p + 1
    OBVIOUS
  <2> HIDE DEF table
  <2> QED BY <1>1, <2>1, RecordInserted
<1>3. e = With(d, t, inserted)
  <2> DEFINE d1 == With(d, t, written)
  <2>1. d1[t] = written /\ IsDb(d1)
    BY <1>1, WithIs
  <2>2. WrittenIn(d, t) = d1
    BY DEF WrittenIn, With
  <2> HIDE DEF d1
  <2>3. e = [d1 EXCEPT ![t].stored = InsertAt(@, p + 2, raw)]
    BY <2>2 DEF InsertedIn
  <2> HIDE DEF e, written
  <2>4. e = With(d1, t, inserted)
    BY <2>1, <2>3 DEF With
  <2> HIDE DEF inserted
  <2> QED BY <1>1, <2>4, WithTwice DEF d1
<1> HIDE DEF e, inserted
<1>4. IsDb(e) /\ e[t] = inserted /\ \A u \in TableIds : u # t => e[u] = d[u]
  BY <1>1, <1>3, WithIs
<1>5. AllOpen(e)
  BY <1>1, <1>2, <1>4 DEF AllOpen
<1> QED BY <1>2, <1>4, <1>5 DEF Others, e

LEMMA DefaultedReads ==
  ASSUME NEW d, IsDb(d), AllOpen(d), NEW t \in TableIds, Sound(d[t]),
         NEW u, Written(d[t]) = u, NEW q \in 0..(Len(u) - 1)
  PROVE  LET e == DefaultedIn(d, t, q) IN
         IsDb(e) /\ Opened(e[t], Put(u, q, 0)) /\ Others(d, t, e)
<1> DEFINE e == DefaultedIn(d, t, q)
           table == d[t]
           set == Buffer!SetToDefault(table, q)
           v == Put(u, q, 0)
<1>1. Holds(set, v) /\ set.status = table.status /\ set.buffer.recordId = q
  BY DefaultHolds
<1>2. set.status = "open"
  BY <1>1 DEF AllOpen
<1>3. e = With(d, t, set)
  BY DEF DefaultedIn, With
<1> HIDE DEF e, set
<1>4. IsDb(e) /\ e[t] = set /\ Others(d, t, e)
  BY <1>3, WithIs DEF Others
<1>5. q \in 0..(Len(v) - 1)
  <2>1. PICK s, r, m, raw : \E st \in Running :
          SoundParts(s, r, m, raw) /\ d[t] = Table(s, Buf(r, m, raw), st)
    BY DEF Sound
  <2>2. u = Overlaid(s, r, m, raw)
    BY <2>1, WrittenIs
  <2>3. u \in Seq(Raws)
    BY <2>1, <2>2, OverlaidIs
  <2>4. 0 \in Refs
    BY NType, SMT DEF Refs
  <2> QED BY <2>3, <2>4, PutIs
<1> HIDE DEF v
<1>6. Opened(set, v)
  BY <1>1, <1>2, <1>5, OpenedIs
<1> QED BY <1>4, <1>6 DEF e, v

LEMMA PutInserted ==
  ASSUME NEW v \in Seq(Raws), NEW p \in 0..(Len(v) - 1), NEW b \in Raws
  PROVE  Put(InsertAt(v, p + 2, b), p + 1, 0) = InsertAt(v, p + 2, Zero)
<1> DEFINE u == InsertAt(v, p + 2, b)
<1>1. p + 1 + 1 = p + 2
  BY SMT
<1>2. Zero \in Raws
  BY ZeroType
<1>3. [u EXCEPT ![p + 2] = Zero] = InsertAt(v, p + 2, Zero)
  BY <1>2, InsertReplaced
<1> HIDE DEF u
<1>4. Put(u, p + 1, 0) = [u EXCEPT ![p + 2] = Zero]
  BY <1>1 DEF Put, Zero
<1> QED BY <1>3, <1>4 DEF u

LEMMA WithinInserted ==
  ASSUME NEW v \in Seq(Raws), NEW n \in Nat, n > 0, Within(v, n), NEW p \in 0..(Len(v) - 1)
  PROVE  Within(InsertAt(v, p + 2, Zero), n)
<1> DEFINE u == InsertAt(v, p + 2, Zero)
           i == p + 2
           len == Len(v)
<1>1. Zero \in Raws /\ Zero["ref"] = 0
  BY ZeroType
<1>2. /\ Len(u) = len + 1 /\ i \in 1..Len(u) /\ \A j \in 1..Len(u) : u[j] = WithInserted(v, i, Zero, j)
  BY <1>1, InsertedIs
<1>3. len \in Nat /\ p \in 0..(len - 1)
  BY LenProperties
<1>4. \A j \in 1..len : v[j]["ref"] < n
  BY DEF Within
<1> HIDE DEF u, len
<1>5. i \in Int /\ i <= len + 1 /\ 2 <= i /\ 0 < n
  BY <1>3, SMT
<1> HIDE DEF i
<1>6. ASSUME NEW j \in 1..Len(u)
      PROVE  u[j]["ref"] < n
  <2>1. j \in 1..(len + 1) /\ u[j] = WithInserted(v, i, Zero, j)
    BY <1>2
  <2>2. CASE j < i
    <3>1. j \in 1..len
      BY <1>3, <1>5, <2>1, <2>2, SMT
    <3>2. u[j] = v[j]
      BY <2>1, <2>2 DEF WithInserted
    <3> QED BY <1>4, <3>1, <3>2
  <2>3. CASE j = i
    <3>1. ~(i < i)
      BY <1>5, SMT
    <3>2. u[j] = Zero
      BY <2>1, <2>3, <3>1 DEF WithInserted
    <3> QED BY <1>1, <1>5, <3>2
  <2>4. CASE ~(j < i) /\ j # i
    <3>1. j - 1 \in 1..len
      BY <1>3, <1>5, <2>1, <2>4, SMT
    <3>2. u[j] = v[j - 1]
      BY <2>1, <2>4 DEF WithInserted
    <3> QED BY <1>4, <3>1, <3>2
  <2> QED BY <2>2, <2>3, <2>4
<1> QED BY <1>6 DEF Within, u

LEMMA InsertFromReads ==
  ASSUME NEW d, NEW f, NEW w, ReadsAs(d, f, w), Fit(f, w), Len(f) < MaxFrom,
         NEW p \in 0..(Len(f) - 1), NEW raw \in Raws,
         d["from"].buffer.isModified => d["from"].buffer.recordId <= p + 1
  PROVE  LET e == InsertedIn(d, "from", p, raw)
             y == InsertAt(f, p + 2, Zero)
         IN ~IsHalted(e) /\ ReadsAs(DefaultedIn(e, "from", p + 1), y, w) /\ Fit(y, w)
<1> DEFINE t == "from"
           e == InsertedIn(d, t, p, raw)
           y == InsertAt(f, p + 2, Zero)
           x == DefaultedIn(e, t, p + 1)
           nf == Len(f)
<1>1. /\ f \in Seq(Raws) /\ w \in Seq(Raws) /\ Len(w) \in Nat /\ Len(w) \in 1..250
      /\ nf \in Nat /\ nf < MaxFrom
  BY FitIs
<1>2. f = RecordsOf(t, f, w) /\ t \in TableIds
  BY TheTables DEF RecordsOf
<1>3. Len(f) < 250 /\ nf + 1 \in 1..MaxFrom
  <2> HIDE DEF nf
  <2>1. nf < 250 /\ nf + 1 \in 1..MaxFrom
    BY <1>1, ConstantsType, SMT
  <2> QED BY <2>1 DEF nf
<1>4. /\ IsDb(e) /\ AllOpen(e) /\ Others(d, t, e)
      /\ \E b \in Raws : Offers(e[t], InsertAt(f, p + 2, b), 0)
  <2>1. d[t].buffer.isModified => d[t].buffer.recordId <= p + 1
    OBVIOUS
  <2> HIDE DEF t
  <2> QED BY <1>2, <1>3, <2>1, InsertedOffers
<1>5. PICK b \in Raws : Offers(e[t], InsertAt(f, p + 2, b), 0)
  BY <1>4
<1> HIDE DEF e
<1> DEFINE u == InsertAt(f, p + 2, b)
<1>6. Sound(e[t]) /\ Written(e[t]) = u
  BY <1>5 DEF Offers
<1>7. p + 1 \in 0..(Len(u) - 1) /\ Put(u, p + 1, 0) = y
  BY <1>1, InsertedIs, PutInserted
<1> HIDE DEF u, y
<1>8. IsDb(x) /\ Opened(x[t], y) /\ Others(e, t, x)
  <2> DEFINE q == p + 1
  <2>1. q \in 0..(Len(u) - 1) /\ Put(u, q, 0) = y
    BY <1>7
  <2> HIDE DEF q, t
  <2>2. LET z == DefaultedIn(e, t, q) IN
        IsDb(z) /\ Opened(z[t], Put(u, q, 0)) /\ Others(e, t, z)
    BY <1>2, <1>4, <1>6, <2>1, DefaultedReads
  <2> QED BY <2>1, <2>2 DEF q
<1> HIDE DEF x
<1>9. ReadsAs(x, y, w)
  <2>1. x["to"] = d["to"]
    BY <1>4, <1>8, TheTables DEF Others
  <2> QED BY <1>8, <2>1 DEF ReadsAs
<1>10. Fit(y, w)
  <2>1. Zero \in Raws /\ Len(w) > 0
    <3> DEFINE nt == Len(w)
    <3>1. nt \in 1..250
      BY <1>1
    <3> HIDE DEF nt
    <3>2. nt > 0
      BY <3>1, SMT
    <3> QED BY <3>2, ZeroType DEF nt
  <2>2. y \in Seq(Raws) /\ Len(y) = nf + 1
    BY <1>1, <2>1, InsertedIs DEF y
  <2>3. Within(y, Len(w))
    BY <1>1, <2>1, WithinInserted DEF Fit, y
  <2> QED BY <1>1, <1>3, <2>2, <2>3 DEF Fit
<1>11. ~IsHalted(e)
  BY <1>4, NotHalted
<1> QED BY <1>9, <1>10, <1>11 DEF e, y, x

LEMMA InsertToReads ==
  ASSUME NEW d, NEW f, NEW w, ReadsAs(d, f, w), Fit(f, w), Len(w) < MaxTo,
         NEW p \in 0..(Len(w) - 1), NEW raw \in Raws,
         d["to"].buffer.isModified => d["to"].buffer.recordId <= p + 1
  PROVE  LET e == Shifted(InsertedIn(d, "to", p, raw), p, TRUE)
             mv == UpMover(p, Len(w))
             y == InsertAt(Moved(w, mv), p + 2, Zero)
         IN ~IsHalted(e) /\ ReadsAs(DefaultedIn(e, "to", p + 1), Moved(f, mv), y)
<1> DEFINE t == "to"
           up == TRUE
           i == InsertedIn(d, t, p, raw)
           e == Shifted(i, p, up)
           nt == Len(w)
           mv == UpMover(p, nt)
           y == InsertAt(Moved(w, mv), p + 2, Zero)
           x == DefaultedIn(e, t, p + 1)
<1>1. f \in Seq(Raws) /\ w \in Seq(Raws) /\ nt \in Nat /\ nt < MaxTo
  BY FitIs
<1>2. w = RecordsOf(t, f, w) /\ t \in TableIds
  BY TheTables DEF RecordsOf
<1>3. Len(w) < 250 /\ nt + 1 <= MaxTo /\ nt + 1 - 1 = nt /\ nt \in LastRefs
  <2> HIDE DEF nt
  <2>1. nt < 250 /\ nt + 1 <= MaxTo /\ nt + 1 - 1 = nt /\ nt \in LastRefs
    BY <1>1, ConstantsType, SMT DEF LastRefs
  <2> QED BY <2>1 DEF nt
<1>4. /\ IsDb(i) /\ AllOpen(i) /\ Others(d, t, i)
      /\ \E b \in Raws : Offers(i[t], InsertAt(w, p + 2, b), 0)
  <2>1. d[t].buffer.isModified => d[t].buffer.recordId <= p + 1
    OBVIOUS
  <2> HIDE DEF t
  <2> QED BY <1>2, <1>3, <2>1, InsertedOffers
<1>5. PICK b \in Raws : Offers(i[t], InsertAt(w, p + 2, b), 0)
  BY <1>4
<1> HIDE DEF i
<1> DEFINE u == InsertAt(w, p + 2, b)
<1>6. Len(u) = nt + 1 /\ p \in Nat
  BY <1>1, InsertedIs
<1>7. up \in BOOLEAN /\ Delta(up) = 1
  BY DEF Delta
<1> HIDE DEF up
<1>8. mv = Mover(p, Delta(up), Len(u) - 1)
  <2>1. Len(u) - 1 = nt
    BY <1>3, <1>6
  <2> HIDE DEF u, nt
  <2> QED BY <1>7, <2>1 DEF UpMover
<1>9. mv \in [Refs -> Refs]
  <2> HIDE DEF nt
  <2> QED BY <1>3, <1>6, UpOne
<1> HIDE DEF mv
<1>10. ReadsAs(e, Moved(f, mv), Moved(u, mv))
  <2>1. Opened(i["from"], f)
    BY <1>4, TheTables DEF Others, ReadsAs
  <2>2. Offers(i["to"], u, 0) /\ Len(u) <= MaxTo
    BY <1>3, <1>5, <1>6
  <2> HIDE DEF u
  <2> QED BY <1>4, <1>6, <1>7, <1>8, <2>1, <2>2, ShiftedIs
<1> DEFINE z == Moved(w, mv)
<1>11. PICK c \in Raws : Moved(u, mv) = InsertAt(z, p + 2, c)
  BY <1>1, <1>9, MovedInserted
<1>12. z \in Seq(Raws) /\ Len(z) = nt
  BY <1>1, <1>9, MovedAll
<1> HIDE DEF u, z, e
<1> DEFINE a == InsertAt(z, p + 2, c)
<1>13. p \in 0..(Len(z) - 1)
  BY <1>12
<1>14. p + 1 \in 0..(Len(a) - 1) /\ Put(a, p + 1, 0) = y
  BY <1>12, <1>13, InsertedIs, PutInserted DEF z
<1>15. IsDb(e) /\ AllOpen(e) /\ ~IsHalted(e)
  BY <1>10, ReadsAsIs
<1>16. Sound(e[t]) /\ Written(e[t]) = a
  <2>1. Opened(e[t], a)
    BY <1>10, <1>11 DEF ReadsAs
  <2> QED BY <2>1 DEF Opened, Holds, Good
<1> HIDE DEF a, y
<1>17. IsDb(x) /\ Opened(x[t], y) /\ Others(e, t, x)
  <2> DEFINE q == p + 1
  <2>1. q \in 0..(Len(a) - 1) /\ Put(a, q, 0) = y
    BY <1>14
  <2> HIDE DEF q, t
  <2>2. LET g == DefaultedIn(e, t, q) IN
        IsDb(g) /\ Opened(g[t], Put(a, q, 0)) /\ Others(e, t, g)
    BY <1>2, <1>15, <1>16, <2>1, DefaultedReads
  <2> QED BY <2>1, <2>2 DEF q
<1> HIDE DEF x
<1>18. ReadsAs(x, Moved(f, mv), y)
  <2>1. x["from"] = e["from"]
    BY <1>17, TheTables DEF Others
  <2> QED BY <1>10, <1>17, <2>1 DEF ReadsAs
<1> QED BY <1>15, <1>18 DEF e, i, y, x, mv, up, z

LEMMA FitInserted ==
  ASSUME NEW f, NEW w, Fit(f, w), Len(w) < MaxTo, NEW p \in 0..(Len(w) - 1)
  PROVE  LET mv == UpMover(p, Len(w)) IN
         /\ Fit(Moved(f, mv), InsertAt(Moved(w, mv), p + 2, Zero))
         /\ Len(InsertAt(Moved(w, mv), p + 2, Zero)) = Len(w) + 1
         /\ RefsOf(Moved(f, mv)) = Ups(RefsOf(f), p)
         /\ RefsOf(InsertAt(Moved(w, mv), p + 2, Zero)) = InsertAt(Ups(RefsOf(w), p), p + 2, 0)
<1> DEFINE nt == Len(w)
           mv == UpMover(p, nt)
           z == Moved(w, mv)
           y == InsertAt(z, p + 2, Zero)
           g == Moved(f, mv)
<1>1. /\ f \in Seq(Raws) /\ w \in Seq(Raws) /\ nt \in Nat /\ nt < MaxTo /\ nt \in 1..250
      /\ Within(f, nt) /\ Within(w, nt) /\ Len(f) \in 1..MaxFrom
  BY FitIs DEF Fit
<1>2. p \in 0..(nt - 1)
  OBVIOUS
<1> HIDE DEF nt
<1>3. /\ nt \in LastRefs /\ p \in Nat /\ nt + 1 \in Nat /\ nt + 1 > 0 /\ nt + 1 \in 1..MaxTo
  BY <1>1, <1>2, ConstantsType, SMT DEF LastRefs
<1>4. mv \in [Refs -> Refs]
  BY <1>3, UpOne
<1>5. RefsOf(g) = Ups(RefsOf(f), p) /\ Within(g, nt + 1) /\ RefsOf(z) = Ups(RefsOf(w), p)
      /\ Within(z, nt + 1)
  BY <1>1, <1>3, MovedUpIs
<1> HIDE DEF mv
<1>6. g \in Seq(Raws) /\ Len(g) = Len(f) /\ z \in Seq(Raws) /\ Len(z) = nt
  BY <1>1, <1>4, MovedAll DEF nt
<1> HIDE DEF g, z
<1>7. p \in 0..(Len(z) - 1) /\ Zero \in Raws
  BY <1>2, <1>6, ZeroType
<1>8. y \in Seq(Raws) /\ Len(y) = nt + 1
  BY <1>6, <1>7, InsertedIs
<1>9. RefsOf(y) = InsertAt(RefsOf(z), p + 2, 0)
  BY <1>6, <1>7, RefsInserted
<1> DEFINE n == nt + 1
<1>10. Within(y, n)
  <2>1. n \in Nat /\ n > 0 /\ Within(z, n)
    BY <1>3, <1>5
  <2> HIDE DEF n
  <2> QED BY <1>6, <1>7, <2>1, WithinInserted
<1> HIDE DEF y
<1>11. Fit(g, y)
  BY <1>1, <1>3, <1>5, <1>6, <1>8, <1>10 DEF Fit
<1> QED BY <1>5, <1>8, <1>9, <1>11 DEF y, g, z, mv, nt

-----------------------------------------------------------------------------
(***************************************************************************)
(* BDB_deleteRecord().                                                     *)
(***************************************************************************)
RemovedIn(d, t, p) == [d EXCEPT ![t].stored = RemoveAt(@, p + 1)]

(* No other record of the table names record p.                            *)
Unnamed(w, p) == \A i \in 1..Len(w) : i # p + 1 => w[i]["ref"] # p

LEMMA RemovedKeeps ==
  ASSUME NEW v \in Seq(Raws), NEW p \in 0..(Len(v) - 1)
  PROVE  LET u == RemoveAt(v, p + 1) IN
         /\ \A n : Within(v, n) => Within(u, n)
         /\ Unnamed(v, p) => Avoids(u, Len(u), p)
<1> DEFINE u == RemoveAt(v, p + 1)
           i == p + 1
           len == Len(v)
<1>1. /\ Len(u) = len - 1 /\ i \in 1..len /\ \A j \in 1..Len(u) : u[j] = WithRemoved(v, i, j)
  BY RemovedIs
<1>2. len \in Nat
  BY LenProperties
<1> HIDE DEF u, i
<1>3. \A j \in 1..Len(u) : \E k \in 1..len : k # i /\ u[j] = v[k]
  <2> SUFFICES ASSUME NEW j \in 1..Len(u) PROVE \E k \in 1..len : k # i /\ u[j] = v[k]
    OBVIOUS
  <2>1. j \in 1..(len - 1) /\ u[j] = WithRemoved(v, i, j)
    BY <1>1
  <2> HIDE DEF len
  <2>2. CASE j < i
    <3>1. j \in 1..len /\ j # i
      BY <1>1, <1>2, <2>1, <2>2, SMT
    <3>2. u[j] = v[j]
      BY <2>1, <2>2 DEF WithRemoved
    <3> QED BY <3>1, <3>2
  <2>3. CASE ~(j < i)
    <3>1. j + 1 \in 1..len /\ j + 1 # i
      BY <1>1, <1>2, <2>1, <2>3, SMT
    <3>2. u[j] = v[j + 1]
      BY <2>1, <2>3 DEF WithRemoved
    <3> QED BY <3>1, <3>2
  <2> QED BY <2>2, <2>3
<1>4. ASSUME NEW n, Within(v, n)
      PROVE  Within(u, n)
  BY <1>3, <1>4 DEF Within
<1>5. ASSUME Unnamed(v, p)
      PROVE  Avoids(u, Len(u), p)
  BY <1>3, <1>5 DEF Unnamed, Avoids, i
<1> QED BY <1>4, <1>5 DEF u

LEMMA DeleteFromReads ==
  ASSUME NEW d, NEW f, NEW w, ReadsAs(d, f, w), Fit(f, w), Len(f) > 1,
         NEW p \in 0..(Len(f) - 1),
         d["from"].buffer.recordId < p \/ d["from"].buffer.recordId = Buffer!NO_RECORD_ID
  PROVE  ReadsAs(RemovedIn(d, "from", p), RemoveAt(f, p + 1), w) /\ Fit(RemoveAt(f, p + 1), w)
<1> DEFINE t == "from"
           table == d[t]
           x == [table EXCEPT !.stored = RemoveAt(@, p + 1)]
           u == RemoveAt(f, p + 1)
           nf == Len(f)
<1>1. /\ f \in Seq(Raws) /\ w \in Seq(Raws) /\ nf \in Nat /\ nf \in 1..MaxFrom /\ nf > 1
      /\ Within(f, Len(w))
  BY FitIs DEF Fit
<1>2. u \in Seq(Raws) /\ Len(u) = nf - 1
  BY <1>1, RemovedIs
<1>3. Within(u, Len(w))
  BY <1>1, RemovedKeeps
<1>4. Opened(x, u)
  <2>1. Opened(table, f)
    BY DEF ReadsAs
  <2>2. table.buffer.recordId < p \/ table.buffer.recordId = Buffer!NO_RECORD_ID
    OBVIOUS
  <2> HIDE DEF table
  <2> QED BY <2>1, <2>2, RecordRemoved
<1>5. RemovedIn(d, t, p) = With(d, t, x)
  <2> HIDE DEF t
  <2> QED BY DEF RemovedIn, With
<1> HIDE DEF x, u
<1>6. ReadsAs(With(d, t, x), u, w)
  BY <1>4, TheTables, ChangedReads
<1>7. nf - 1 \in 1..MaxFrom
  <2> HIDE DEF nf
  <2> QED BY <1>1, ConstantsType, SMT
<1>8. Fit(u, w)
  BY <1>2, <1>3, <1>7 DEF Fit
<1> QED BY <1>5, <1>6, <1>8 DEF u

LEMMA DeleteToReads ==
  ASSUME NEW d, NEW f, NEW w, ReadsAs(d, f, w), Fit(f, w), Len(w) > 1,
         NEW p \in 0..(Len(w) - 1),
         d["to"] = Table(w, Clean(Len(w) - 1, w[Len(w)]), "open")
  PROVE  LET mv == DownMover(p, Len(w)) IN
         ReadsAs(Shifted(RemovedIn(d, "to", p), p, FALSE),
                 Moved(f, mv), RemoveAt(Moved(w, mv), p + 1))
<1> DEFINE t == "to"
           up == FALSE
           i == RemovedIn(d, t, p)
           nt == Len(w)
           mv == DownMover(p, nt)
           u == RemoveAt(w, p + 1)
           table == Table(w, Clean(nt - 1, w[nt]), "open")
           x == [table EXCEPT !.stored = RemoveAt(@, p + 1)]
<1>1. /\ f \in Seq(Raws) /\ w \in Seq(Raws) /\ nt \in Nat /\ nt \in 1..250 /\ nt <= MaxTo /\ nt > 1
  BY FitIs
<1>2. Len(u) = nt - 1 /\ p \in Nat
  BY <1>1, RemovedIs
<1>3. x.status = "open" /\ Offers(x, u, 0)
  BY <1>1, RecordRemovedClean
<1>4. i = With(d, t, x)
  <2>1. d[t] = table
    OBVIOUS
  <2> HIDE DEF t, table
  <2> QED BY <2>1 DEF RemovedIn, With
<1> HIDE DEF i, x, u, table
<1>5. IsDb(d) /\ AllOpen(d)
  BY ReadsAsIs
<1>6. IsDb(i) /\ i[t] = x /\ \A q \in TableIds : q # t => i[q] = d[q]
  BY <1>4, <1>5, TheTables, WithIs
<1>7. AllOpen(i)
  BY <1>3, <1>5, <1>6 DEF AllOpen
<1>8. up \in BOOLEAN /\ Delta(up) = -1
  BY DEF Delta
<1> HIDE DEF up
<1>9. p \in 0..(nt - 1)
  OBVIOUS
<1> HIDE DEF nt
<1>10. nt \in 2..MaxTo /\ Len(u) <= MaxTo /\ nt - 1 - 1 = nt - 2
  BY <1>1, <1>2, ConstantsType, SMT
<1>11. mv = Mover(p, Delta(up), Len(u) - 1)
  BY <1>2, <1>8, <1>10 DEF DownMover
<1>12. mv \in [Refs -> Refs]
  BY <1>9, <1>10, DownOne
<1> HIDE DEF mv
<1>13. ReadsAs(Shifted(i, p, up), Moved(f, mv), Moved(u, mv))
  <2>1. Opened(i["from"], f)
    BY <1>6, TheTables DEF ReadsAs
  <2>2. Offers(i["to"], u, 0)
    BY <1>3, <1>6
  <2> QED BY <1>2, <1>6, <1>7, <1>8, <1>10, <1>11, <2>1, <2>2, ShiftedIs
<1>14. Moved(u, mv) = RemoveAt(Moved(w, mv), p + 1)
  BY <1>1, <1>12, MovedRemoved DEF u
<1> QED BY <1>13, <1>14 DEF i, up, mv, nt

LEMMA FitDeleted ==
  ASSUME NEW f, NEW w, Fit(f, w), Len(w) > 1, NEW p \in 0..(Len(w) - 1),
         Avoids(f, Len(f), p), Unnamed(w, p)
  PROVE  LET mv == DownMover(p, Len(w)) IN
         /\ Fit(Moved(f, mv), RemoveAt(Moved(w, mv), p + 1))
         /\ Len(RemoveAt(Moved(w, mv), p + 1)) = Len(w) - 1
         /\ RefsOf(Moved(f, mv)) = Downs(RefsOf(f), p)
         /\ RefsOf(RemoveAt(Moved(w, mv), p + 1)) = RemoveAt(Downs(RefsOf(w), p), p + 1)
<1> DEFINE nt == Len(w)
           mv == DownMover(p, nt)
           u == RemoveAt(w, p + 1)
           z == Moved(w, mv)
           y == RemoveAt(z, p + 1)
           g == Moved(f, mv)
<1>1. /\ f \in Seq(Raws) /\ w \in Seq(Raws) /\ nt \in Nat /\ nt > 1 /\ nt \in 1..MaxTo
      /\ Within(f, nt) /\ Within(w, nt) /\ Len(f) \in 1..MaxFrom
  BY FitIs DEF Fit
<1>2. p \in 0..(nt - 1)
  OBVIOUS
<1>3. u \in Seq(Raws) /\ Len(u) = nt - 1 /\ Within(u, nt) /\ Avoids(u, Len(u), p)
  BY <1>1, RemovedIs, RemovedKeeps
<1> HIDE DEF nt, u
<1>4. nt \in 2..MaxTo /\ nt - 1 \in 1..MaxTo
  BY <1>1, ConstantsType, SMT
<1>5. mv \in [Refs -> Refs]
  BY <1>2, <1>4, DownOne
<1>6. RefsOf(g) = Downs(RefsOf(f), p) /\ Within(g, nt - 1) /\ RefsOf(z) = Downs(RefsOf(w), p)
      /\ Within(Moved(u, mv), nt - 1)
  BY <1>1, <1>2, <1>3, <1>4, MovedDownIs
<1> HIDE DEF mv
<1>7. y = Moved(u, mv)
  BY <1>1, <1>5, MovedRemoved DEF u
<1>8. g \in Seq(Raws) /\ Len(g) = Len(f) /\ z \in Seq(Raws) /\ Len(z) = nt
  BY <1>1, <1>5, MovedAll DEF nt
<1>9. y \in Seq(Raws) /\ Len(y) = nt - 1
  BY <1>3, <1>5, <1>7, MovedAll
<1> HIDE DEF z
<1>10. RefsOf(y) = RemoveAt(RefsOf(z), p + 1)
  BY <1>2, <1>8, RefsRemoved
<1> HIDE DEF g, y
<1>11. Fit(g, y)
  BY <1>1, <1>4, <1>6, <1>7, <1>8, <1>9 DEF Fit
<1> QED BY <1>6, <1>9, <1>10, <1>11 DEF y, g, z, mv, nt

-----------------------------------------------------------------------------
(***************************************************************************)
(* The steps, from an open database that reads as f and w.                 *)
(***************************************************************************)
Grew(d, f, w, p) ==
  \E g, y : /\ Remembers(d, g, y) /\ ReadsAs(d, g, y) /\ Len(y) = Len(w) + 1
            /\ RefsOf(g) = Ups(RefsOf(f), p)
            /\ RefsOf(y) = InsertAt(Ups(RefsOf(w), p), p + 2, 0)

Shrank(d, f, w, p) ==
  \E g, y : /\ Remembers(d, g, y) /\ ReadsAs(d, g, y) /\ Len(y) = Len(w) - 1
            /\ RefsOf(g) = Downs(RefsOf(f), p)
            /\ RefsOf(y) = RemoveAt(Downs(RefsOf(w), p), p + 1)

LEMMA ReadsKeeps ==
  ASSUME NEW d, NEW f, NEW w, ReadsAs(d, f, w), Fit(f, w)
  PROVE  Keeps(d, Len(w))
BY DEF Keeps, Remembers

LEMMA StepGetValue ==
  ASSUME NEW f, NEW w, ReadsAs(db, f, w), Fit(f, w), NEW t \in TableIds, NEW k \in RecordIds(t),
         GetValue(t, k)
  PROVE  Keeps(db', Len(w))
<1>1. k \in 0..(NumRecords(db, t) - 1) /\ db' = Filled(db, t, k)
  BY DEF RecordIds, GetValue
<1>2. ReadsAs(db', f, w)
  BY <1>1, GetValueKeeps
<1> QED BY <1>2, ReadsKeeps

LEMMA StepSetValue ==
  ASSUME NEW f, NEW w, ReadsAs(db, f, w), Fit(f, w), NEW t \in TableIds, NEW k \in RecordIds(t),
         NEW x \in 0..(MaxTo - 1), SetValue(t, k, x)
  PROVE  Keeps(db', Len(w))
<1> DEFINE e == Filled(db, t, k)
           set == [e EXCEPT ![t] = Buffer!Modified(@, "ref", x)]
           n == Len(w)
<1>1. k \in 0..(NumRecords(db, t) - 1)
  BY DEF RecordIds
<1>2. db' = IF IsHalted(e) \/ x > MaxRef(e) THEN e ELSE set
  BY DEF SetValue
<1>3. ReadsAs(e, f, w) /\ ~IsHalted(e) /\ MaxRef(e) = n - 1 /\ e[t].buffer.recordId = k
  BY <1>1, GetValueKeeps
<1> HIDE DEF e
<1>4. CASE x > MaxRef(e)
  BY <1>2, <1>3, <1>4, ReadsKeeps
<1>5. CASE ~(x > MaxRef(e))
  <2>1. db' = set
    BY <1>2, <1>3, <1>5
  <2>2. x \in LastRefs /\ x \in Nat
    BY ConstantsType, SMT DEF LastRefs
  <2>3. n \in Nat /\ ~(x > n - 1)
    BY <1>3, <1>5, FitIs
  <2> HIDE DEF n
  <2>4. x <= n - 1
    BY <2>2, <2>3, SMT
  <2>5. k \in 0..(NumRecords(e, t) - 1)
    <3>1. NumRecords(e, t) = NumRecords(db, t)
      BY <1>3, TableReads
    <3> QED BY <1>1, <3>1
  <2>6. x <= Len(w) - 1
    BY <2>4 DEF n
  <2>7. Keeps(set, Len(w))
    BY <1>3, <2>2, <2>5, <2>6, SetValueKeeps
  <2> QED BY <2>1, <2>7
<1> QED BY <1>4, <1>5

LEMMA StepSync ==
  ASSUME NEW f, NEW w, ReadsAs(db, f, w), Fit(f, w), NEW t \in TableIds,
         db[t].buffer.recordId # Buffer!NO_RECORD_ID, SyncTable(t)
  PROVE  Keeps(db', Len(w))
<1>1. db' = [db EXCEPT ![t] = Buffer!StoreRecordBuffer(@)]
  BY DEF SyncTable
<1>2. ReadsAs(db', f, w)
  BY <1>1, SyncKeeps
<1> QED BY <1>2, ReadsKeeps

(* What InsertRecordAfter says, in the terms used here.                    *)
LEMMA InsertIs ==
  ASSUME NEW t \in TableIds, NEW p, InsertRecordAfter(t, p)
  PROVE  \/ db' = WrittenIn(db, t)
         \/ /\ ~(NumRecords(db, t) >= Capacity(t))
            /\ \E raw \in Raws :
                 LET i == InsertedIn(db, t, p, raw)
                     e == IF t = "to" THEN Shifted(i, p, TRUE) ELSE i
                 IN db' = IF IsHalted(e) THEN e ELSE DefaultedIn(e, t, p + 1)
BY Zenon DEF InsertRecordAfter, WrittenIn, InsertedIn, DefaultedIn, Raws

LEMMA StepInsertFrom ==
  ASSUME NEW f, NEW w, ReadsAs(db, f, w), Fit(f, w), NEW p \in RecordIds("from"),
         db["from"].buffer.isModified => db["from"].buffer.recordId <= p + 1,
         InsertRecordAfter("from", p)
  PROVE  Keeps(db', Len(w))
<1> DEFINE nf == Len(f)
<1>1. p \in 0..(Len(f) - 1) /\ NumRecords(db, "from") = nf /\ nf \in Nat
  BY ReadsAsIs DEF RecordIds
<1>2. CASE db' = WrittenIn(db, "from")
  <2>1. ReadsAs(db', f, w)
    BY <1>2, TheTables, WrittenReads DEF WrittenIn
  <2> QED BY <2>1, ReadsKeeps
<1>3. CASE db' # WrittenIn(db, "from")
  <2>1. /\ ~(nf >= MaxFrom)
        /\ \E raw \in Raws :
             LET e == InsertedIn(db, "from", p, raw)
             IN db' = IF IsHalted(e) THEN e ELSE DefaultedIn(e, "from", p + 1)
    BY <1>1, <1>3, TheTables, InsertIs DEF Capacity
  <2>2. PICK raw \in Raws :
             LET e == InsertedIn(db, "from", p, raw)
             IN db' = IF IsHalted(e) THEN e ELSE DefaultedIn(e, "from", p + 1)
    BY <2>1
  <2>3. Len(f) < MaxFrom
    <3> HIDE DEF nf
    <3>1. nf < MaxFrom
      BY <1>1, <2>1, ConstantsType, SMT
    <3> QED BY <3>1 DEF nf
  <2> DEFINE e == InsertedIn(db, "from", p, raw)
             y == InsertAt(f, p + 2, Zero)
  <2>4. ~IsHalted(e) /\ ReadsAs(DefaultedIn(e, "from", p + 1), y, w) /\ Fit(y, w)
    BY <1>1, <2>3, InsertFromReads
  <2>5. db' = DefaultedIn(e, "from", p + 1)
    BY <2>2, <2>4
  <2> QED BY <2>4, <2>5, ReadsKeeps
<1> QED BY <1>2, <1>3

LEMMA StepInsertTo ==
  ASSUME NEW f, NEW w, ReadsAs(db, f, w), Fit(f, w), NEW p \in RecordIds("to"),
         db["to"].buffer.isModified => db["to"].buffer.recordId <= p + 1,
         InsertRecordAfter("to", p)
  PROVE  Keeps(db', Len(w)) \/ Grew(db', f, w, p)
<1> DEFINE nt == Len(w)
<1>1. p \in 0..(Len(w) - 1) /\ NumRecords(db, "to") = nt /\ nt \in Nat
  BY ReadsAsIs DEF RecordIds
<1>2. CASE db' = WrittenIn(db, "to")
  <2>1. ReadsAs(db', f, w)
    BY <1>2, TheTables, WrittenReads DEF WrittenIn
  <2> QED BY <2>1, ReadsKeeps
<1>3. CASE db' # WrittenIn(db, "to")
  <2>1. /\ ~(nt >= MaxTo)
        /\ \E raw \in Raws :
             LET e == Shifted(InsertedIn(db, "to", p, raw), p, TRUE)
             IN db' = IF IsHalted(e) THEN e ELSE DefaultedIn(e, "to", p + 1)
    BY <1>1, <1>3, TheTables, InsertIs DEF Capacity
  <2>2. PICK raw \in Raws :
             LET e == Shifted(InsertedIn(db, "to", p, raw), p, TRUE)
             IN db' = IF IsHalted(e) THEN e ELSE DefaultedIn(e, "to", p + 1)
    BY <2>1
  <2>3. Len(w) < MaxTo
    <3> HIDE DEF nt
    <3>1. nt < MaxTo
      BY <1>1, <2>1, ConstantsType, SMT
    <3> QED BY <3>1 DEF nt
  <2> DEFINE e == Shifted(InsertedIn(db, "to", p, raw), p, TRUE)
             mv == UpMover(p, Len(w))
             g == Moved(f, mv)
             y == InsertAt(Moved(w, mv), p + 2, Zero)
  <2>4. ~IsHalted(e) /\ ReadsAs(DefaultedIn(e, "to", p + 1), g, y)
    BY <1>1, <2>3, InsertToReads
  <2>5. /\ Fit(g, y) /\ Len(y) = Len(w) + 1 /\ RefsOf(g) = Ups(RefsOf(f), p)
        /\ RefsOf(y) = InsertAt(Ups(RefsOf(w), p), p + 2, 0)
    BY <1>1, <2>3, FitInserted
  <2>6. db' = DefaultedIn(e, "to", p + 1)
    BY <2>2, <2>4
  <2> HIDE DEF e, g, y
  <2>7. ReadsAs(db', g, y) /\ Remembers(db', g, y)
    BY <2>4, <2>5, <2>6 DEF Remembers
  <2> QED BY <2>5, <2>7 DEF Grew
<1> QED BY <1>2, <1>3

LEMMA StepDeleteFrom ==
  ASSUME NEW f, NEW w, ReadsAs(db, f, w), Fit(f, w), NEW p \in RecordIds("from"),
         db["from"].buffer.recordId < p \/ db["from"].buffer.recordId = Buffer!NO_RECORD_ID,
         DeleteRecord("from", p)
  PROVE  Keeps(db', Len(w))
<1> DEFINE nf == Len(f)
<1>1. p \in 0..(Len(f) - 1) /\ NumRecords(db, "from") = nf /\ nf \in Nat /\ ~IsHalted(db)
  BY ReadsAsIs DEF RecordIds
<1>2. CASE nf <= 1
  <2>1. db' = db
    BY <1>1, <1>2 DEF DeleteRecord
  <2> QED BY <2>1, ReadsKeeps
<1>3. CASE ~(nf <= 1)
  <2>1. Len(f) > 1
    <3> HIDE DEF nf
    <3>1. nf > 1
      BY <1>1, <1>3, SMT
    <3> QED BY <3>1 DEF nf
  <2>2. db' = RemovedIn(db, "from", p)
    BY <1>1, <1>3, TheTables, Zenon DEF DeleteRecord, RemovedIn
  <2>3. ReadsAs(db', RemoveAt(f, p + 1), w) /\ Fit(RemoveAt(f, p + 1), w)
    BY <1>1, <2>1, <2>2, DeleteFromReads
  <2> QED BY <2>3, ReadsKeeps
<1> QED BY <1>2, <1>3

LEMMA NobodyElse ==
  ASSUME NEW f, NEW w, ReadsAs(db, f, w), NEW p \in RecordIds("to"), ~IsReferencedByOther(p)
  PROVE  Unnamed(w, p)
<1> DEFINE nt == Len(w)
<1>1. ViewOf(db, "to") = RefsOf(w) /\ NumRecords(db, "to") = nt /\ nt \in Nat
  BY ReadsAsIs, TheTables, ViewIs DEF ReadsAs
<1>2. \A i \in 1..nt : RefsOf(w)[i] = w[i]["ref"]
  BY ReadsAsIs, RefsOfIs
<1>3. p \in 0..(nt - 1)
  BY <1>1 DEF RecordIds
<1>4. ASSUME NEW i \in 1..nt, i # p + 1
      PROVE  w[i]["ref"] # p
  <2> DEFINE r == i - 1
  <2> HIDE DEF nt
  <2>1. r \in 0..(nt - 1) /\ r # p /\ r + 1 = i
    BY <1>1, <1>3, <1>4, SMT
  <2>2. r \in RecordIds("to")
    BY <1>1, <2>1 DEF RecordIds
  <2> HIDE DEF r
  <2>3. ViewOf(db, "to")[r + 1] # p
    BY <2>1, <2>2 DEF IsReferencedByOther
  <2> QED BY <1>1, <1>2, <2>1, <2>3
<1> QED BY <1>4 DEF Unnamed

LEMMA StepDeleteTo ==
  ASSUME NEW f, NEW w, ReadsAs(db, f, w), Fit(f, w), NEW p \in RecordIds("to"),
         ~IsReferencedByOther(p), DeleteRecord("to", p)
  PROVE  Keeps(db', Len(w)) \/ Shrank(db', f, w, p)
<1> DEFINE nt == Len(w)
           search == Search(db, p)
<1>1. p \in 0..(Len(w) - 1) /\ NumRecords(db, "to") = nt /\ nt \in Nat
  BY ReadsAsIs DEF RecordIds
<1>2. CASE nt <= 1
  <2>1. db' = db
    BY <1>1, <1>2 DEF DeleteRecord
  <2> QED BY <2>1, ReadsKeeps
<1>3. CASE ~(nt <= 1)
  <2>1. Len(w) > 1
    <3> HIDE DEF nt
    <3>1. nt > 1
      BY <1>1, <1>3, SMT
    <3> QED BY <3>1 DEF nt
  <2> DEFINE e == Shifted(RemovedIn(search.db, "to", p), p, FALSE)
  <2>2. db' = IF search.found \/ IsHalted(search.db) THEN search.db ELSE e
    BY <1>1, <1>3, Zenon DEF DeleteRecord, RemovedIn
  <2>3. /\ ReadsAs(search.db, f, w)
        /\ ~search.found =>
             /\ Avoids(f, Len(f), p)
             /\ search.db["to"] = Table(w, Clean(Len(w) - 1, w[Len(w)]), "open")
    BY <2>1, SearchIs
  <2>4. ~IsHalted(search.db)
    BY <2>3, ReadsAsIs
  <2> HIDE DEF search
  <2>5. CASE search.found
    <3>1. db' = search.db
      BY <2>2, <2>5
    <3> QED BY <2>3, <3>1, ReadsKeeps
  <2>6. CASE ~search.found
    <3> DEFINE mv == DownMover(p, Len(w))
               g == Moved(f, mv)
               y == RemoveAt(Moved(w, mv), p + 1)
    <3>1. db' = e
      BY <2>2, <2>4, <2>6
    <3>2. ReadsAs(e, g, y)
      BY <1>1, <2>1, <2>3, <2>6, DeleteToReads
    <3>3. Unnamed(w, p)
      BY NobodyElse
    <3>4. /\ Fit(g, y) /\ Len(y) = Len(w) - 1 /\ RefsOf(g) = Downs(RefsOf(f), p)
          /\ RefsOf(y) = RemoveAt(Downs(RefsOf(w), p), p + 1)
      BY <1>1, <2>1, <2>3, <2>6, <3>3, FitDeleted
    <3> HIDE DEF e, g, y
    <3>5. ReadsAs(db', g, y) /\ Remembers(db', g, y)
      BY <3>1, <3>2, <3>4 DEF Remembers
    <3> QED BY <3>4, <3>5 DEF Shrank
  <2> QED BY <2>5, <2>6
<1> QED BY <1>2, <1>3

LEMMA ShutIs ==
  ASSUME NEW d, NEW f, NEW w, Shut(d, f, w)
  PROVE  /\ \A t \in TableIds : d[t] = Table(RecordsOf(t, f, w), Buffer!NoBuffer, "closed")
         /\ \A t \in TableIds : d[t].status = "closed" /\ d[t].stored = RecordsOf(t, f, w)
         /\ NumRecords(d, "to") = Len(w) /\ ~IsHalted(d)
<1>1. \A t \in TableIds : d[t] = Table(RecordsOf(t, f, w), Buffer!NoBuffer, "closed")
  BY TheTables DEF Shut, DB, RecordsOf
<1>2. \A t \in TableIds : d[t].status = "closed" /\ d[t].stored = RecordsOf(t, f, w)
  BY <1>1, FieldsOfTable
<1>3. NumRecords(d, "to") = Len(w)
  BY <1>2, TheTables DEF NumRecords, RecordsOf
<1>4. ~IsHalted(d)
  BY <1>2 DEF IsHalted
<1> QED BY <1>1, <1>2, <1>3, <1>4

LEMMA CountIs ==
  ASSUME NEW d, NEW f, NEW w, Remembers(d, f, w)
  PROVE  NumRecords(d, "to") = Len(w) /\ Len(w) \in Nat /\ ~IsHalted(d)
BY ShutIs, ReadsAsIs, FitIs DEF Remembers

Insertion(f, w) == \E p \in RecordIds("to") : InsertRecordAfter("to", p) /\ Grew(db', f, w, p)
Deletion(f, w)  == \E p \in RecordIds("to") : DeleteRecord("to", p) /\ Shrank(db', f, w, p)

LEMMA StepShut ==
  ASSUME NEW f, NEW w, Shut(db, f, w), Fit(f, w), NextCareful
  PROVE  Keeps(db', Len(w))
<1>1. ~IsOpen /\ ~CloseDataBase
  BY ShutIs, TheTables DEF IsOpen, CloseDataBase
<1>2. OpenDataBase
  BY <1>1, Zenon DEF NextCareful, SyncTable, GetValue, SetValue, InsertRecordAfter, DeleteRecord
<1>3. ReadsAs(db', f, w)
  BY <1>2, OpenKeeps
<1> QED BY <1>3, ReadsKeeps

(* The steps of NextCareful, one after the other.                          *)
GuardedInsert(t, p) ==
  /\ db[t].buffer.isModified => db[t].buffer.recordId <= p + 1
  /\ InsertRecordAfter(t, p)

GuardedDelete(p) ==
  /\ \/ db["from"].buffer.recordId < p
     \/ db["from"].buffer.recordId = Buffer!NO_RECORD_ID
  /\ DeleteRecord("from", p)

LEMMA StepsAre ==
  ASSUME NextCareful
  PROVE  \/ IsSynced /\ CloseDataBase
         \/ OpenDataBase
         \/ \E t \in TableIds : db[t].buffer.recordId # Buffer!NO_RECORD_ID /\ SyncTable(t)
         \/ \E t \in TableIds : \E p \in RecordIds(t) : GetValue(t, p)
         \/ \E t \in TableIds : \E p \in RecordIds(t) : \E x \in 0..(MaxTo - 1) : SetValue(t, p, x)
         \/ \E t \in TableIds : \E p \in RecordIds(t) : GuardedInsert(t, p)
         \/ \E p \in RecordIds("from") : GuardedDelete(p)
         \/ \E p \in RecordIds("to") : ~IsReferencedByOther(p) /\ DeleteRecord("to", p)
BY Zenon DEF NextCareful, GuardedInsert, GuardedDelete

LEMMA StepOpen ==
  ASSUME NEW f, NEW w, ReadsAs(db, f, w), Fit(f, w), NextCareful
  PROVE  Keeps(db', Len(w)) \/ Insertion(f, w) \/ Deletion(f, w)
<1>1. CASE IsSynced /\ CloseDataBase
  <2>1. Shut(db', f, w)
    BY <1>1, CloseKeeps
  <2> QED BY <2>1 DEF Keeps, Remembers
<1>2. ~OpenDataBase
  BY ReadsAsIs, TheTables DEF AllOpen, OpenDataBase
<1>3. CASE \E t \in TableIds : db[t].buffer.recordId # Buffer!NO_RECORD_ID /\ SyncTable(t)
  BY <1>3, StepSync
<1>4. CASE \E t \in TableIds : \E p \in RecordIds(t) : GetValue(t, p)
  BY <1>4, StepGetValue
<1>5. CASE \E t \in TableIds : \E p \in RecordIds(t) : \E x \in 0..(MaxTo - 1) : SetValue(t, p, x)
  BY <1>5, StepSetValue
<1>6. CASE \E t \in TableIds : \E p \in RecordIds(t) : GuardedInsert(t, p)
  <2>1. PICK t \in TableIds : \E p \in RecordIds(t) : GuardedInsert(t, p)
    BY <1>6
  <2>2. CASE t = "from"
    <3>1. PICK p \in RecordIds("from") : GuardedInsert("from", p)
      BY <2>1, <2>2
    <3> QED BY <3>1, StepInsertFrom DEF GuardedInsert
  <2>3. CASE t = "to"
    <3>1. PICK p \in RecordIds("to") : GuardedInsert("to", p)
      BY <2>1, <2>3
    <3>2. Keeps(db', Len(w)) \/ Grew(db', f, w, p)
      BY <3>1, StepInsertTo DEF GuardedInsert
    <3> QED BY <3>1, <3>2 DEF GuardedInsert, Insertion
  <2> QED BY <2>2, <2>3, TheTables
<1>7. CASE \E p \in RecordIds("from") : GuardedDelete(p)
  BY <1>7, StepDeleteFrom DEF GuardedDelete
<1>8. CASE \E p \in RecordIds("to") : ~IsReferencedByOther(p) /\ DeleteRecord("to", p)
  BY <1>8, StepDeleteTo DEF Deletion
<1> QED BY <1>1, <1>2, <1>3, <1>4, <1>5, <1>6, <1>7, <1>8, StepsAre

LEMMA StepIs ==
  ASSUME NEW f, NEW w, Remembers(db, f, w), [NextCareful]_db
  PROVE  Keeps(db', Len(w)) \/ Insertion(f, w) \/ Deletion(f, w)
<1>1. CASE NextCareful
  BY <1>1, StepShut, StepOpen DEF Remembers
<1>2. CASE db' = db
  BY <1>2 DEF Keeps
<1> QED BY <1>1, <1>2

LEMMA RefInvHolds == SpecCareful => []RefInv
<1>1. ASSUME RefInv, [NextCareful]_db
      PROVE  RefInv'
  <2>1. PICK f, w : Remembers(db, f, w)
    BY <1>1 DEF RefInv
  <2>2. Keeps(db', Len(w)) \/ Insertion(f, w) \/ Deletion(f, w)
    BY <1>1, <2>1, StepIs
  <2>3. \E g, y : Remembers(db', g, y)
    BY <2>2 DEF Keeps, Insertion, Deletion, Grew, Shrank
  <2> QED BY <2>3 DEF RefInv
<1> QED BY InitReads, <1>1, PTL DEF SpecCareful

-----------------------------------------------------------------------------
(***************************************************************************)
(* What follows for the caller of SpecCareful.                             *)
(***************************************************************************)

(* Whatever such a caller does, no assert fails: while references are      *)
(* searched or shifted the record store is asked only for records that are *)
(* there, although the number of records has just changed.                 *)
THEOREM SpecNeverHalted == SpecCareful => []NeverHalted
<1>1. RefInv => NeverHalted
  BY CountIs DEF RefInv, NeverHalted
<1> QED BY RefInvHolds, <1>1, PTL

TypedTable(table, n) ==
  /\ table.stored \in Seq(Raws) /\ Len(table.stored) \in 1..n
  /\ table.buffer.recordId \in 0..(n - 1) \union {255}
  /\ table.buffer.isModified \in BOOLEAN /\ table.buffer.columns \in Raws
  /\ table.status \in {"open", "closed", "halted"}

LEMMA OpenedIsTyped ==
  ASSUME NEW table, NEW v, Opened(table, v), NEW n \in 1..250, Len(v) <= n
  PROVE  TypedTable(table, n)
<1>1. PICK s, r, m, raw : \E st \in Running :
        SoundParts(s, r, m, raw) /\ table = Table(s, Buf(r, m, raw), st)
  BY DEF Opened, Holds, Good, Sound
<1>2. /\ table.stored = s /\ table.buffer.recordId = r /\ table.buffer.isModified = m
      /\ table.buffer.columns = raw
  BY <1>1, FieldsOfTable, FieldsOfBuf
<1>3. s \in Seq(Raws) /\ Len(s) \in 1..250 /\ r \in Nat /\ m \in BOOLEAN /\ raw \in Raws
  BY <1>1 DEF SoundParts
<1>4. Len(s) = Len(v) /\ Len(v) \in Nat
  BY <1>2, HeldIsTyped DEF Opened
<1>5. r < Len(s) \/ r = 255
  BY <1>2 DEF Opened, Named
<1> DEFINE len == Len(s)
<1>6. len \in 1..250 /\ len <= n /\ r \in Nat /\ (r < len \/ r = 255)
  BY <1>3, <1>4, <1>5
<1> HIDE DEF len
<1>7. len \in 1..n /\ r \in 0..(n - 1) \union {255}
  BY <1>6, SMT
<1>8. table.status = "open"
  BY DEF Opened
<1> QED BY <1>2, <1>3, <1>7, <1>8 DEF TypedTable, len

(* The tables never outgrow their capacities, nor does a buffer name a     *)
(* record beyond them, whatever is inserted, deleted and shifted.          *)
THEOREM SpecTypeOK == SpecCareful => []TypeOK
<1>1. RefInv => TypeOK
  <2> SUFFICES ASSUME RefInv, NEW t \in TableIds
               PROVE  TypedTable(db[t], Capacity(t))
    BY ConstantsType DEF TypeOK, TypedTable, Raws
  <2>1. PICK f, w : Remembers(db, f, w)
    BY DEF RefInv
  <2> DEFINE v == RecordsOf(t, f, w)
             n == Capacity(t)
  <2>2. n \in 1..250
    BY ConstantsType, ReferencesAssumption, SMT DEF Capacity
  <2>3. v \in Seq(Raws) /\ Len(v) \in 1..n /\ Len(v) <= n
    BY <2>1, FitIs DEF Remembers, Fit, RecordsOf, Capacity
  <2> HIDE DEF v, n
  <2>4. CASE ReadsAs(db, f, w)
    <3>1. Opened(db[t], v)
      BY <2>4, TableReads DEF v
    <3>2. TypedTable(db[t], n)
      BY <2>2, <2>3, <3>1, OpenedIsTyped
    <3> QED BY <3>2 DEF n
  <2>5. CASE Shut(db, f, w)
    <3> DEFINE r == 255
               m == FALSE
    <3>1. db[t] = Table(v, Buffer!NoBuffer, "closed")
      BY <2>5, ShutIs DEF v
    <3>2. Buffer!NoBuffer = Buf(r, m, Zero) /\ m \in BOOLEAN /\ Zero \in Raws
      BY NoBufferIs, ZeroType DEF Clean
    <3> HIDE DEF m, r
    <3>3. /\ db[t].stored = v /\ db[t].buffer.recordId = r /\ db[t].buffer.isModified = m
          /\ db[t].buffer.columns = Zero /\ db[t].status = "closed"
      BY <3>1, <3>2, FieldsOfTable, FieldsOfBuf
    <3>4. TypedTable(db[t], n)
      BY <2>3, <3>2, <3>3 DEF TypedTable, r
    <3> QED BY <3>4 DEF n
  <2> QED BY <2>1, <2>4, <2>5 DEF Remembers, n
<1> QED BY RefInvHolds, <1>1, PTL

(* Every reference that a caller can read names a record that exists, for  *)
(* every capacity of the two tables: inserting and deleting records of the *)
(* referenced table never leaves one behind.                               *)
THEOREM SpecReferencesExist == SpecCareful => []ReferencesExist
<1>1. RefInv => ReferencesExist
  <2> SUFFICES ASSUME RefInv, IsOpen, NEW t \in TableIds, NEW n \in 1..NumRecords(db, t)
               PROVE  ViewOf(db, t)[n] < NumRecords(db, "to")
    BY DEF ReferencesExist
  <2>1. PICK f, w : Remembers(db, f, w)
    BY DEF RefInv
  <2>2. ReadsAs(db, f, w)
    BY <2>1, ShutIs, TheTables DEF Remembers, IsOpen
  <2> DEFINE v == RecordsOf(t, f, w)
  <2>3. Opened(db[t], v) /\ IsDb(db) /\ AllOpen(db)
    BY <2>2, TableReads
  <2>4. v \in Seq(Raws) /\ Within(v, Len(w))
    BY <2>1 DEF Remembers, Fit, RecordsOf
  <2> HIDE DEF v
  <2>5. ViewOf(db, t) = RefsOf(v) /\ NumRecords(db, t) = Len(v)
    BY <2>3, ViewIs
  <2>6. RefsOf(v)[n] = v[n]["ref"]
    BY <2>4, <2>5, RefsOfIs
  <2>7. v[n]["ref"] < Len(w)
    BY <2>4, <2>5 DEF Within
  <2> QED BY <2>1, <2>5, <2>6, <2>7, CountIs
<1> QED BY RefInvHolds, <1>1, PTL

(* What ReferencesFollow says of a step.                                   *)
Follow ==
  LET from == ViewOf(db, "from")
      to   == ViewOf(db, "to")
  IN /\ NumRecords(db', "to") = Len(to) + 1 =>
          \E recordId \in RecordIds("to") :
            /\ ViewOf(db', "from") = [n \in DOMAIN from |-> MovedUp(from[n], recordId)]
            /\ ViewOf(db', "to") =
                 InsertAt([n \in DOMAIN to |-> MovedUp(to[n], recordId)], recordId + 2, 0)
            /\ InsertRecordAfter("to", recordId)
     /\ NumRecords(db', "to") = Len(to) - 1 =>
          \E recordId \in RecordIds("to") :
            /\ ViewOf(db', "from") = [n \in DOMAIN from |-> MovedDown(from[n], recordId)]
            /\ ViewOf(db', "to") =
                 RemoveAt([n \in DOMAIN to |-> MovedDown(to[n], recordId)], recordId + 1)
            /\ DeleteRecord("to", recordId)

LEMMA ViewsAre ==
  ASSUME NEW d, NEW f, NEW w, ReadsAs(d, f, w)
  PROVE  ViewOf(d, "from") = RefsOf(f) /\ ViewOf(d, "to") = RefsOf(w)
<1>1. IsDb(d) /\ AllOpen(d) /\ Opened(d["from"], f) /\ Opened(d["to"], w)
  BY ReadsAsIs DEF ReadsAs
<1> QED BY <1>1, TheTables, ViewIs

LEMMA StepFollows ==
  ASSUME RefInv, NextCareful
  PROVE  Follow
<1>1. PICK f, w : Remembers(db, f, w)
  BY DEF RefInv
<1> DEFINE n == Len(w)
           n1 == NumRecords(db', "to")
           to == ViewOf(db, "to")
<1>2. Keeps(db', n) \/ Insertion(f, w) \/ Deletion(f, w)
  BY <1>1, StepIs
<1>3. n \in Nat /\ NumRecords(db, "to") = n
  BY <1>1, CountIs
<1>4. Len(to) = n
  <2> DEFINE F(i) == BufferedRef(Filled(db, "to", i - 1), "to")
  <2>1. to = [i \in 1..n |-> F(i)]
    BY <1>3 DEF ViewOf
  <2> HIDE DEF F, n, to
  <2> QED BY <1>3, <2>1
<1> HIDE DEF n, n1
<1>5. CASE Keeps(db', n)
  <2>1. n1 = n
    BY <1>5, CountIs DEF Keeps, n1
  <2>2. n1 # n + 1 /\ n1 # n - 1
    BY <1>3, <2>1, SMT
  <2> HIDE DEF to
  <2> QED BY <1>4, <2>2 DEF Follow, n1, to
<1>6. CASE Insertion(f, w)
  <2>1. PICK p \in RecordIds("to") : InsertRecordAfter("to", p) /\ Grew(db', f, w, p)
    BY <1>6 DEF Insertion
  <2>2. PICK g, y : /\ Remembers(db', g, y) /\ ReadsAs(db', g, y) /\ Len(y) = n + 1
                    /\ RefsOf(g) = Ups(RefsOf(f), p)
                    /\ RefsOf(y) = InsertAt(Ups(RefsOf(w), p), p + 2, 0)
    BY <2>1 DEF Grew, n
  <2>3. ViewOf(db', "from") = RefsOf(g) /\ ViewOf(db', "to") = RefsOf(y) /\ n1 = n + 1
    BY <2>2, ViewsAre, CountIs DEF n1
  <2>4. n1 # n - 1
    BY <1>3, <2>3, SMT
  <2>5. ViewOf(db, "from") = RefsOf(f) /\ to = RefsOf(w)
    <3>1. ReadsAs(db, f, w)
      BY <1>1, <2>1, ShutIs, TheTables DEF Remembers, InsertRecordAfter, IsOpen
    <3> QED BY <3>1, ViewsAre
  <2>6. /\ ViewOf(db', "from") = Ups(ViewOf(db, "from"), p)
        /\ ViewOf(db', "to") = InsertAt(Ups(to, p), p + 2, 0)
    BY <2>2, <2>3, <2>5
  <2> HIDE DEF to
  <2> QED BY <1>4, <2>1, <2>4, <2>6 DEF Follow, Ups, n1, to
<1>7. CASE Deletion(f, w)
  <2>1. PICK p \in RecordIds("to") : DeleteRecord("to", p) /\ Shrank(db', f, w, p)
    BY <1>7 DEF Deletion
  <2>2. PICK g, y : /\ Remembers(db', g, y) /\ ReadsAs(db', g, y) /\ Len(y) = n - 1
                    /\ RefsOf(g) = Downs(RefsOf(f), p)
                    /\ RefsOf(y) = RemoveAt(Downs(RefsOf(w), p), p + 1)
    BY <2>1 DEF Shrank, n
  <2>3. ViewOf(db', "from") = RefsOf(g) /\ ViewOf(db', "to") = RefsOf(y) /\ n1 = n - 1
    BY <2>2, ViewsAre, CountIs DEF n1
  <2>4. n1 # n + 1
    BY <1>3, <2>3, SMT
  <2>5. ViewOf(db, "from") = RefsOf(f) /\ to = RefsOf(w)
    <3>1. ReadsAs(db, f, w)
      BY <1>1, <2>1, ShutIs, TheTables DEF Remembers, DeleteRecord, IsOpen
    <3> QED BY <3>1, ViewsAre
  <2>6. /\ ViewOf(db', "from") = Downs(ViewOf(db, "from"), p)
        /\ ViewOf(db', "to") = RemoveAt(Downs(to, p), p + 1)
    BY <2>2, <2>3, <2>5
  <2> HIDE DEF to
  <2> QED BY <1>4, <2>1, <2>4, <2>6 DEF Follow, Downs, n1, to
<1> QED BY <1>2, <1>5, <1>6, <1>7

(* When a record of the referenced table is inserted or deleted, every     *)
(* reference names the record that it named before, wherever it was, and   *)
(* the records are the same but for the one: forEachReference() visits     *)
(* each reference once, whatever the buffers held, and no reference to a   *)
(* record that exists is cut off at the limits of BDB_changeValue().       *)
THEOREM SpecReferencesFollow == SpecCareful => ReferencesFollow
<1>1. RefInv /\ [NextCareful]_db => [Follow]_db
  BY StepFollows
<1>2. SpecCareful => [][Follow]_db
  BY <1>1, RefInvHolds, PTL DEF SpecCareful
<1> QED BY <1>2, PTL DEF ReferencesFollow, Follow
=============================================================================
