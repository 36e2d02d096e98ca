----------------------------- MODULE RecordCodec ------------------------------
(***************************************************************************)
(* src/RecordCodec.c: the columns of a record, 16-bit values, packed into  *)
(* the fewest bits their ranges need, and unpacked again.                  *)
(*                                                                         *)
(* Bit buffers are sequences of bits, the most significant first; the C    *)
(* code's 32-bit buffer keeps the last 32 bits pushed into it.  A table    *)
(* with several record types starts every record with the type.            *)
(***************************************************************************)
EXTENDS Integers, Sequences, SequencesExt, FiniteSetsExt

(* A table definition is a sequence of record definitions, which are       *)
(* sequences of columns [min, max, step, default, virtual].                *)
W == 65536          \* columns are uint16_t

-----------------------------------------------------------------------------
(***************************************************************************)
(* Bits.                                                                   *)
(***************************************************************************)

ToBits(value, n) == [i \in 1..n |-> (value \div 2 ^ (n - i)) % 2]

ToNumber(bits) ==
  LET upTo[i \in 0..Len(bits)] == IF i = 0 THEN 0 ELSE 2 * upTo[i - 1] + bits[i]
  IN upTo[Len(bits)]

(* The last n bits, or all of them if there are fewer.                     *)
LowBits(bits, n) == SubSeq(bits, IF Len(bits) > n THEN Len(bits) - n + 1 ELSE 1, Len(bits))

(* bu_getNumBits()                                                         *)
GetNumBits(value) ==
  CHOOSE n \in 0..16 : value < 2 ^ n /\ (n = 0 \/ value >= 2 ^ (n - 1))

(* bu_getNumBytes()                                                        *)
GetNumBytes(numBits) == (numBits + 7) \div 8

NumBitsOfColumn(column) == GetNumBits((column.max - column.min) \div column.step)

(* rc_getRecordSize()                                                      *)
RecordSize(record) ==
  LET numBits[i \in 0..Len(record)] ==
        IF i = 0 THEN 0 ELSE numBits[i - 1] + NumBitsOfColumn(record[i])
  IN GetNumBytes(numBits[Len(record)])

MaxRecordSize(table) == Max({RecordSize(table[d]) : d \in DOMAIN table})

-----------------------------------------------------------------------------
(***************************************************************************)
(* rc_encodeRecord() and rc_decodeRecord().                                *)
(***************************************************************************)

TypeOf(table, data) == IF Len(table) > 1 THEN data[1] + 1 ELSE 1

(* What a column contributes: its steps from min, cut to its bits.         *)
ColumnBits(column, value) ==
  LET n == NumBitsOfColumn(column) IN
  ToBits(((value - column.min) \div column.step) % 2 ^ n, n)

EncodeColumnNarrow(column, value, before) ==    \* mutant: a 16-bit buffer
  LET bits  == ColumnBits(column, value)
      full  == LowBits(before.bitBuffer \o bits, 16)
      n     == before.bitsInBuffer + Len(bits)
      at(i) == IF i \in DOMAIN full THEN full[i] ELSE 0
      bytes == [k \in 1..(n \div 8) |->
                  ToNumber([j \in 1..8 |-> at(Len(full) - n + 8 * (k - 1) + j)])]
  IN [bitBuffer |-> full, bitsInBuffer |-> n % 8, out |-> before.out \o bytes]

(* One turn of the loop: push the column's bits, write the full bytes.     *)
EncodeColumn(column, value, before) ==
  LET bits  == ColumnBits(column, value)
      full  == LowBits(before.bitBuffer \o bits, 32)
      n     == before.bitsInBuffer + Len(bits)
      bytes == [k \in 1..(n \div 8) |->
                  ToNumber(SubSeq(full, Len(full) - n + 8 * k - 7,
                                        Len(full) - n + 8 * k))]
  IN [bitBuffer |-> full, bitsInBuffer |-> n % 8, out |-> before.out \o bytes]

NoBits == [bitBuffer |-> <<>>, bitsInBuffer |-> 0, out |-> <<>>]

(* The bytes that are written for a record; those left in the bit buffer   *)
(* are padded with zeros.                                                  *)
Encoded(table, data) ==
  LET record == table[TypeOf(table, data)]
      upTo[i \in 0..Len(record)] ==
        IF i = 0 THEN NoBits ELSE EncodeColumn(record[i], data[i], upTo[i - 1])
      last == upTo[Len(record)]
      rest == LowBits(last.bitBuffer, last.bitsInBuffer)
  IN IF last.bitsInBuffer = 0 THEN last.out
     ELSE Append(last.out, ToNumber(rest) * 2 ^ (8 - last.bitsInBuffer))

(* Bytes behind them keep their value.                                     *)
EncodedOver(table, data, raw) ==
  LET bytes == Encoded(table, data) IN
  [i \in 1..Len(raw) |-> IF i <= Len(bytes) THEN bytes[i] ELSE raw[i]]

(* The record type, from the first bits of the record.                     *)
DecodedType(table, raw) ==
  IF Len(table) > 1
  THEN 1 + raw[1] \div 2 ^ (8 - NumBitsOfColumn(table[1][1]))
  ELSE 1

(* One turn of the loop: pull bytes until the column's bits are there.     *)
DecodeColumn(column, raw, before) ==
  LET n     == NumBitsOfColumn(column)
      more  == IF n > before.bitsInBuffer THEN GetNumBytes(n - before.bitsInBuffer) ELSE 0
      bytes == [k \in 1..more |-> ToBits(raw[before.inIndex + k], 8)]
      full  == LowBits(before.bitBuffer, before.bitsInBuffer) \o FlattenSeq(bytes)
      extra == Len(full) - n
      value == ToNumber(SubSeq(full, 1, n))
  IN [bitBuffer |-> LowBits(full, extra), bitsInBuffer |-> extra,
      inIndex |-> before.inIndex + more,
      data |-> Append(before.data,
                 IF column.virtual THEN 65535
                 ELSE (value * column.step + column.min) % W)]

Decoded(table, raw) ==
  LET record == table[DecodedType(table, raw)]
      upTo[i \in 0..Len(record)] ==
        IF i = 0 THEN [bitBuffer |-> <<>>, bitsInBuffer |-> 0, inIndex |-> 0, data |-> <<>>]
        ELSE DecodeColumn(record[i], raw, upTo[i - 1])
  IN upTo[Len(record)].data

(***************************************************************************)
(* The packed record by its definition: all bits in a row, then zeros.     *)
(***************************************************************************)
Packed(table, data) ==
  LET record == table[TypeOf(table, data)]
      bits   == FlattenSeq([i \in DOMAIN record |-> ColumnBits(record[i], data[i])])
      at(i)  == IF i \in DOMAIN bits THEN bits[i] ELSE 0
  IN [k \in 1..RecordSize(record) |-> ToNumber([j \in 1..8 |-> at(8 * (k - 1) + j)])]
=============================================================================
