--------------------------- MODULE PowerLossProofs ----------------------------
(***************************************************************************)
(* Proofs about PowerLoss for every capacity of the table, every size of a *)
(* record and every number of power cuts.                                  *)
(***************************************************************************)
EXTENDS PowerLoss, Integers, Sequences, SequencesExt, WellFoundedInduction,
        SequenceTheorems, TLAPS

-----------------------------------------------------------------------------
(***************************************************************************)
(* Induction over numbers, as facts about sets of them: a theorem with an  *)
(* operator as its parameter cannot be applied by the provers, one with a  *)
(* set can.                                                                *)
(***************************************************************************)

(* A set of natural numbers has a least element.                           *)
LEMMA LeastElement ==
  ASSUME NEW T, T \subseteq Nat, T # {}
  PROVE  \E x \in T : \A y \in T : x <= y
<1> DEFINE R == OpToRel(<, Nat)
<1>1. IsWellFoundedOn(R, Nat)
  BY NatLessThanWellFounded
<1>2. \A x, y \in Nat : x < y => <<x, y>> \in R
  BY SMT DEF OpToRel
<1> HIDE DEF R
<1>3. PICK x \in T : \A y \in T : ~(<<y, x>> \in R)
  BY <1>1, WFMin
<1>4. ASSUME NEW y \in T
      PROVE  x <= y
  <2>1. x \in Nat /\ y \in Nat
    OBVIOUS
  <2>2. ~(y < x)
    BY <1>2, <1>3, <2>1
  <2> QED BY <2>1, <2>2, SMT
<1> QED BY <1>4

-----------------------------------------------------------------------------
(***************************************************************************)
(* The inductive invariant.  It says how far the loop of the call has      *)
(* come: what the turns taken so far have made of the state before it.     *)
(***************************************************************************)
Indices == [0..MaxNumRecords -> Slots \union {NO_RECORD_INDEX}]
Areas   == [Slots -> RawRecords]
States  == [index : Indices, data : Areas, inUse : SUBSET Slots]

InsertCalls ==
  [op : {"insert"}, position : Slots, slot : Slots, rec : -1..249, before : States]
DeleteCalls ==
  [op : {"delete"}, recordId : Slots, rec : 0..250, before : States]
DeleteAllCalls ==
  [op : {"deleteAll"}, rec : 0..250, before : States]
SetCalls ==
  [op : {"set"}, recordId : Slots, slot : Slots, rawRecord : RawRecords, rec : 0..250,
   before : States]

Calls == {Idle} \union InsertCalls \union DeleteCalls \union DeleteAllCalls \union SetCalls

(* The first n entries of an index are slots.                              *)
Listed(index, n) == \A r \in 0..(n - 1) : index[r] # NO_RECORD_INDEX

(* The entries above rec have moved up by one.                             *)
InsertInv ==
  call.op = "insert" =>
    LET before == call.before IN
    /\ numRecords < MaxNumRecords
    /\ call.position \in 0..numRecords
    /\ call.position = 0 => numRecords = 0
    /\ call.rec \in (call.position - 1)..(numRecords - 1)
    /\ Store!IsNextFreeRecord(before.inUse, call.slot)
    /\ recordIndex = Store!ShiftedUp(before.index, call.rec + 1, numRecords)
    /\ recordData = before.data
    /\ recordInUse = before.inUse

(* The entries from recordId to below rec have moved down by one.          *)
DeleteInv ==
  call.op = "delete" =>
    LET before == call.before IN
    /\ call.recordId \in 0..(numRecords - 1)
    /\ call.rec \in call.recordId..numRecords
    /\ recordIndex = Store!ShiftedDown(before.index, call.recordId, call.rec)
    /\ recordData = before.data
    /\ recordInUse = before.inUse \ {call.recordId}

(* The entries below rec have been erased.                                 *)
ErasedBelow(index, n) ==
  [r \in 0..MaxNumRecords |-> IF r < n THEN NO_RECORD_INDEX ELSE index[r]]

DeleteAllInv ==
  call.op = "deleteAll" =>
    LET before == call.before IN
    /\ call.rec \in 0..MaxNumRecords
    /\ recordIndex = ErasedBelow(before.index, call.rec)
    /\ recordData = before.data
    /\ recordInUse = before.inUse \ (0..(call.rec - 1))

(* The bytes below rec have been written.                                  *)
WrittenBelow(raw, new, n) == [o \in Offsets |-> IF o < n THEN new[o] ELSE raw[o]]

SetInv ==
  call.op = "set" =>
    LET before == call.before IN
    /\ call.recordId \in 0..(numRecords - 1)
    /\ call.slot = before.index[call.recordId]
    /\ call.rec \in 0..RecordSize
    /\ recordIndex = before.index
    /\ recordInUse = before.inUse
    /\ recordData = [before.data EXCEPT ![call.slot] =
                       WrittenBelow(@, call.rawRecord, call.rec)]

(* Between the calls, and in the state before a call, no record is missing *)
(* in the index.  There may be more: a cut deletion of all records leaves  *)
(* entries behind the first erased one.                                    *)
CutInv ==
  /\ recordIndex \in Indices
  /\ recordData \in Areas
  /\ numRecords \in 0..MaxNumRecords
  /\ recordInUse \subseteq Slots
  /\ returned \in 0..255
  /\ status \in {"open", "closed", "halted"}
  /\ call \in Calls
  /\ call # Idle => status = "open"
  /\ Listed(Before.index, numRecords)
  /\ InsertInv
  /\ DeleteInv
  /\ DeleteAllInv
  /\ SetInv

-----------------------------------------------------------------------------
LEMMA MaxNumRecordsType ==
  /\ MaxNumRecords \in Nat /\ 1 <= MaxNumRecords /\ MaxNumRecords <= 250
  /\ Slots = 0..(MaxNumRecords - 1)
  /\ NO_RECORD_INDEX = 255
BY PowerLossAssumption, SMT DEF Slots, NO_RECORD_INDEX, Store!Slots, Store!NO_RECORD_INDEX

LEMMA RecordSizeType == RecordSize \in Nat /\ 1 <= RecordSize /\ RecordSize <= 250
BY PowerLossAssumption, SMT

LEMMA NumRecordsType == CutInv => numRecords \in Nat /\ numRecords <= MaxNumRecords
<1> SUFFICES ASSUME CutInv PROVE numRecords \in Nat /\ numRecords <= MaxNumRecords
  OBVIOUS
<1>1. numRecords \in 0..MaxNumRecords
  BY DEF CutInv
<1> QED BY <1>1, MaxNumRecordsType, SMT

(* A call under way is none of those that are not.                         *)
LEMMA CallBegun ==
  ASSUME NEW c \in InsertCalls \union DeleteCalls \union DeleteAllCalls \union SetCalls
  PROVE  c \in Calls /\ c # Idle
<1>1. c.op # "none"
  BY SMT DEF InsertCalls, DeleteCalls, DeleteAllCalls, SetCalls
<1>2. Idle.op = "none"
  BY DEF Idle
<1> QED BY <1>1, <1>2, Zenon DEF Calls

(* The operation of a call says which fields it has.                       *)
LEMMA KindOfCall ==
  ASSUME NEW c \in Calls
  PROVE  /\ c.op = "none" => c = Idle
         /\ c.op = "insert" => c \in InsertCalls
         /\ c.op = "delete" => c \in DeleteCalls
         /\ c.op = "deleteAll" => c \in DeleteAllCalls
         /\ c.op = "set" => c \in SetCalls
         /\ c.op \in {"none", "insert", "delete", "deleteAll", "set"}
         /\ c # Idle => c.op # "none" /\ c.before \in States
BY SMT DEF Calls, Idle, InsertCalls, DeleteCalls, DeleteAllCalls, SetCalls

LEMMA InsertTurn ==
  ASSUME NEW c \in InsertCalls, NEW rec \in -1..249
  PROVE  LET next == [c EXCEPT !.rec = rec] IN
         /\ next \in InsertCalls /\ next.op = "insert" /\ next.rec = rec
         /\ next.position = c.position /\ next.slot = c.slot /\ next.before = c.before
BY SMT DEF InsertCalls

LEMMA DeleteTurn ==
  ASSUME NEW c \in DeleteCalls, NEW rec \in 0..250
  PROVE  LET next == [c EXCEPT !.rec = rec] IN
         /\ next \in DeleteCalls /\ next.op = "delete" /\ next.rec = rec
         /\ next.recordId = c.recordId /\ next.before = c.before
BY SMT DEF DeleteCalls

LEMMA DeleteAllTurn ==
  ASSUME NEW c \in DeleteAllCalls, NEW rec \in 0..250
  PROVE  LET next == [c EXCEPT !.rec = rec] IN
         /\ next \in DeleteAllCalls /\ next.op = "deleteAll" /\ next.rec = rec
         /\ next.before = c.before
BY SMT DEF DeleteAllCalls

LEMMA SetTurn ==
  ASSUME NEW c \in SetCalls, NEW rec \in 0..250
  PROVE  LET next == [c EXCEPT !.rec = rec] IN
         /\ next \in SetCalls /\ next.op = "set" /\ next.rec = rec
         /\ next.recordId = c.recordId /\ next.slot = c.slot
         /\ next.rawRecord = c.rawRecord /\ next.before = c.before
BY SMT DEF SetCalls

(* A table that has just been created lists nothing.                       *)
LEMMA InitCutInv == Init => CutInv
<1> SUFFICES ASSUME Init PROVE CutInv
  OBVIOUS
<1>1. call = Idle /\ call.op = "none" /\ numRecords = 0
  BY DEF Init, Idle
<1>2. recordIndex \in Indices
  BY MaxNumRecordsType, SMT DEF Init, Indices
<1>3. recordData \in Areas
  BY PowerLossAssumption, SMT DEF Init, Areas, RawRecords
<1>4. numRecords \in 0..MaxNumRecords /\ Listed(Before.index, numRecords)
  BY <1>1, MaxNumRecordsType, SMT DEF Listed
<1>5. InsertInv /\ DeleteInv /\ DeleteAllInv /\ SetInv
  BY <1>1 DEF InsertInv, DeleteInv, DeleteAllInv, SetInv
<1> QED BY <1>1, <1>2, <1>3, <1>4, <1>5, SMT DEF CutInv, Init, Calls

-----------------------------------------------------------------------------
(* Between calls, a caller sees what is stored.                            *)
LEMMA BeforeOfIdle ==
  ASSUME call = Idle
  PROVE  /\ Before.index = recordIndex
         /\ Before.data = recordData
         /\ Before.inUse = recordInUse
         /\ call.op = "none"
BY DEF Before, Idle

LEMMA BeforeOfCall ==
  ASSUME call # Idle
  PROVE  Before = call.before
BY DEF Before

LEMMA BeforeType == CutInv => Before \in States
<1> SUFFICES ASSUME CutInv PROVE Before \in States
  OBVIOUS
<1>1. CASE call = Idle
  <2>1. Before = [index |-> recordIndex, data |-> recordData, inUse |-> recordInUse]
    BY <1>1 DEF Before
  <2> QED BY <2>1, SMT DEF CutInv, States
<1>2. CASE call # Idle
  BY <1>2, BeforeOfCall, KindOfCall DEF CutInv
<1> QED BY <1>1, <1>2

(* A step between two calls that leaves a listed index behind.             *)
LEMMA IdleCutInv ==
  ASSUME recordIndex' \in Indices, recordData' \in Areas, numRecords' \in 0..MaxNumRecords,
         recordInUse' \subseteq Slots, returned' \in 0..255,
         status' \in {"open", "closed", "halted"}, call' = Idle,
         Listed(recordIndex', numRecords')
  PROVE  CutInv'
<1>1. call'.op = "none" /\ Before.index' = recordIndex'
  BY DEF Before, Idle
<1>2. InsertInv' /\ DeleteInv' /\ DeleteAllInv' /\ SetInv'
  BY <1>1 DEF InsertInv, DeleteInv, DeleteAllInv, SetInv
<1>3. call' \in Calls
  BY DEF Calls
<1>4. Listed(Before.index, numRecords)'
  BY <1>1 DEF Listed
<1> QED BY <1>2, <1>3, <1>4 DEF CutInv

(* A step inside a call, or the one that begins it.                        *)
LEMMA CallCutInv ==
  ASSUME recordIndex' \in Indices, recordData' \in Areas, numRecords' \in 0..MaxNumRecords,
         recordInUse' \subseteq Slots, returned' \in 0..255,
         status' = "open", call' \in Calls, call' # Idle,
         Listed(call'.before.index, numRecords'),
         InsertInv', DeleteInv', DeleteAllInv', SetInv'
  PROVE  CutInv'
<1>1. Before' = call'.before
  BY DEF Before
<1>2. Listed(Before.index, numRecords)'
  BY <1>1 DEF Listed
<1> QED BY <1>2 DEF CutInv

LEMMA StutterCutInv == CutInv /\ UNCHANGED vars => CutInv'
BY DEF CutInv, vars, InsertInv, DeleteInv, DeleteAllInv, SetInv, Before

-----------------------------------------------------------------------------
(* Insertion.                                                              *)
LEMMA ExceptAt ==
  ASSUME NEW D, NEW f, f = [x \in D |-> f[x]], NEW e \in D, NEW v
  PROVE  [f EXCEPT ![e] = v] = [x \in D |-> IF x = e THEN v ELSE f[x]]
OBVIOUS

LEMMA ShiftedUpNothing ==
  ASSUME NEW index \in Indices, NEW n \in Nat
  PROVE  Store!ShiftedUp(index, n, n) = index
<1>1. \A r \in 0..MaxNumRecords : ~(r \in (n + 1)..n)
  BY MaxNumRecordsType, SMT
<1>2. \A r \in 0..MaxNumRecords : Store!ShiftedUp(index, n, n)[r] = index[r]
  BY <1>1, Zenon DEF Store!ShiftedUp
<1> QED BY <1>2, SMT DEF Store!ShiftedUp, Indices

LEMMA ShiftedUpType ==
  ASSUME NEW index \in Indices, NEW n \in 0..(MaxNumRecords - 1), NEW k \in 0..n
  PROVE  Store!ShiftedUp(index, k, n) \in Indices
BY MaxNumRecordsType, SMT DEF Store!ShiftedUp, Indices

(* One entry more moves up.                                                *)
LEMMA ShiftedUpTurn ==
  ASSUME NEW index \in Indices, NEW n \in 0..(MaxNumRecords - 1), NEW rec \in 0..(n - 1)
  PROVE  [Store!ShiftedUp(index, rec + 1, n) EXCEPT ![rec + 1] =
            Store!ShiftedUp(index, rec + 1, n)[rec]]
           = Store!ShiftedUp(index, rec, n)
<1> DEFINE old == Store!ShiftedUp(index, rec + 1, n)
           new == Store!ShiftedUp(index, rec, n)
<1>1. old[rec] = index[rec] /\ rec + 1 \in 0..MaxNumRecords
  BY MaxNumRecordsType, SMT DEF Store!ShiftedUp
<1>2. \A r \in 0..MaxNumRecords :
        new[r] = IF r = rec + 1 THEN index[rec] ELSE old[r]
  BY MaxNumRecordsType, SMT DEF Store!ShiftedUp
<1>3. old = [r \in 0..MaxNumRecords |-> old[r]] /\ new = [r \in 0..MaxNumRecords |-> new[r]]
  BY Zenon DEF Store!ShiftedUp
<1>4. [old EXCEPT ![rec + 1] = old[rec]] = new
  <2> HIDE DEF old, new
  <2>1. [old EXCEPT ![rec + 1] = old[rec]]
          = [r \in 0..MaxNumRecords |-> IF r = rec + 1 THEN old[rec] ELSE old[r]]
    BY <1>1, <1>3, ExceptAt, Zenon
  <2> QED BY <1>1, <1>2, <1>3, <2>1, Zenon
<1> QED BY <1>4 DEF old, new

LEMMA BeginInsertCutInv ==
  ASSUME CutInv, Ready, NEW STATE position, position \in 0..numRecords, BeginInsert(position),
         position = 0 => numRecords = 0
  PROVE  CutInv'
<1>1. call = Idle /\ call.op = "none" /\ Before \in States /\ Before.index = recordIndex
      /\ Before.data = recordData /\ Before.inUse = recordInUse
  BY BeforeOfIdle, BeforeType DEF Ready
<1>2. CASE numRecords >= MaxNumRecords /\ returned' = Store!MAX_NUM_RECORDS_REACHED
           /\ UNCHANGED <<recordIndex, recordData, numRecords, recordInUse, status, call>>
  <2>1. returned' \in 0..255
    BY <1>2, SMT DEF Store!MAX_NUM_RECORDS_REACHED
  <2>2. Listed(recordIndex', numRecords')
    BY <1>1, <1>2 DEF CutInv
  <2> QED BY <1>1, <1>2, <2>1, <2>2, IdleCutInv DEF CutInv
<1>3. CASE status' = "halted"
           /\ UNCHANGED <<recordIndex, recordData, numRecords, recordInUse, returned, call>>
  <2>2. Listed(recordIndex', numRecords')
    BY <1>1, <1>3 DEF CutInv
  <2> QED BY <1>1, <1>3, <2>2, IdleCutInv DEF CutInv
<1>4. CASE /\ numRecords < MaxNumRecords
           /\ \E freeRecord \in Slots :
                /\ Store!IsNextFreeRecord(recordInUse, freeRecord)
                /\ call' = [op |-> "insert", position |-> position, slot |-> freeRecord,
                            rec |-> numRecords - 1, before |-> Before]
           /\ UNCHANGED <<recordIndex, recordData, numRecords, recordInUse, returned, status>>
  <2>1. PICK freeRecord \in Slots :
          /\ Store!IsNextFreeRecord(recordInUse, freeRecord)
          /\ call' = [op |-> "insert", position |-> position, slot |-> freeRecord,
                      rec |-> numRecords - 1, before |-> Before]
    BY <1>4
  <2>2. numRecords - 1 \in -1..249 /\ position \in Slots
    <3>1. numRecords < MaxNumRecords
      BY <1>4
    <3>2. numRecords \in Nat
      BY NumRecordsType
    <3> QED BY <3>1, <3>2, MaxNumRecordsType, SMT
  <2>3. /\ call' \in InsertCalls /\ call'.op = "insert" /\ call'.position = position
        /\ call'.slot = freeRecord /\ call'.rec = numRecords - 1 /\ call'.before = Before
    BY <1>1, <2>1, <2>2, SMT DEF InsertCalls
  <2>4. call' \in Calls /\ call' # Idle
    BY <2>3, CallBegun
  <2>5. recordIndex = Store!ShiftedUp(recordIndex, numRecords, numRecords)
    <3>1. recordIndex \in Indices /\ numRecords \in Nat
      BY NumRecordsType DEF CutInv
    <3> QED BY <3>1, ShiftedUpNothing
  <2>6. numRecords - 1 + 1 = numRecords /\ numRecords - 1 \in (position - 1)..(numRecords - 1)
    BY MaxNumRecordsType, NumRecordsType, SMT
  <2>7. InsertInv'
    BY <1>1, <1>4, <2>1, <2>3, <2>5, <2>6, Zenon DEF InsertInv
  <2>8. DeleteInv' /\ DeleteAllInv' /\ SetInv'
    BY <2>3 DEF DeleteInv, DeleteAllInv, SetInv
  <2>9. Listed(call'.before.index, numRecords')
    BY <1>1, <1>4, <2>3 DEF CutInv
  <2> QED BY <1>1, <1>4, <2>4, <2>7, <2>8, <2>9, CallCutInv DEF CutInv, Ready
<1> QED BY <1>2, <1>3, <1>4 DEF BeginInsert

LEMMA ShiftUpCutInv == CutInv /\ ShiftUp => CutInv'
<1> SUFFICES ASSUME CutInv, ShiftUp PROVE CutInv'
  OBVIOUS
<1>1. call.op = "insert" /\ call.rec >= call.position
      /\ recordIndex' = [recordIndex EXCEPT ![call.rec + 1] = recordIndex[call.rec]]
      /\ call' = [call EXCEPT !.rec = @ - 1]
      /\ UNCHANGED <<recordData, numRecords, recordInUse, returned, status>>
  BY DEF ShiftUp
<1>2. call \in InsertCalls /\ call # Idle /\ status = "open"
  BY <1>1, KindOfCall DEF CutInv, Idle
<1> DEFINE before == call.before
           rec == call.rec
           turned == [call EXCEPT !.rec = rec - 1]
<1>3. /\ numRecords < MaxNumRecords
      /\ call.position \in 0..numRecords
      /\ call.position = 0 => numRecords = 0
      /\ call.rec \in (call.position - 1)..(numRecords - 1)
      /\ Store!IsNextFreeRecord(before.inUse, call.slot)
      /\ recordIndex = Store!ShiftedUp(before.index, call.rec + 1, numRecords)
      /\ recordData = before.data
      /\ recordInUse = before.inUse
  BY <1>1, Zenon DEF CutInv, InsertInv
<1>4. before \in States /\ before.index \in Indices
  BY <1>2, KindOfCall, SMT DEF CutInv, States
<1>5. numRecords \in 0..(MaxNumRecords - 1) /\ rec \in 0..(numRecords - 1) /\ rec - 1 \in -1..249
      /\ rec - 1 \in (call.position - 1)..(numRecords - 1) /\ rec - 1 + 1 = rec
      /\ rec \in 0..numRecords
  <2> DEFINE n == numRecords
             p == call.position
  <2>1. n \in Nat /\ n < MaxNumRecords /\ p \in 0..n /\ rec \in (p - 1)..(n - 1) /\ rec >= p
    BY <1>1, <1>3, NumRecordsType
  <2> HIDE DEF n, p, rec
  <2>2. /\ n \in 0..(MaxNumRecords - 1) /\ rec \in 0..(n - 1) /\ rec - 1 \in -1..249
        /\ rec - 1 \in (p - 1)..(n - 1) /\ rec - 1 + 1 = rec /\ rec \in 0..n
    BY <2>1, MaxNumRecordsType, SMT
  <2> QED BY <2>2 DEF n, p
<1>6. call' = turned
  BY <1>1, Zenon
<1>7. /\ turned \in InsertCalls /\ turned.op = "insert" /\ turned.rec = rec - 1
      /\ turned.position = call.position /\ turned.slot = call.slot /\ turned.before = before
  BY <1>2, <1>5, InsertTurn
<1>8. recordIndex' = Store!ShiftedUp(before.index, rec, numRecords)
  <2> DEFINE index == before.index
             n == numRecords
  <2> HIDE DEF index, n, rec
  <2>1. index \in Indices /\ n \in 0..(MaxNumRecords - 1) /\ rec \in 0..(n - 1)
    BY <1>4, <1>5 DEF index, n
  <2>2. [Store!ShiftedUp(index, rec + 1, n) EXCEPT ![rec + 1] =
            Store!ShiftedUp(index, rec + 1, n)[rec]]
           = Store!ShiftedUp(index, rec, n)
    BY <2>1, ShiftedUpTurn
  <2> QED BY <1>1, <1>3, <2>2, Zenon DEF index, n, rec
<1>9. recordIndex' \in Indices
  BY <1>4, <1>5, <1>8, ShiftedUpType
<1>10. InsertInv'
  <2> HIDE DEF turned
  <2>1. call'.position = call.position /\ call'.rec = rec - 1 /\ call'.slot = call.slot
        /\ call'.before = before
    BY <1>6, <1>7
  <2> QED BY <1>1, <1>3, <1>5, <1>8, <2>1, Zenon DEF InsertInv
<1>11. call' \in Calls /\ call' # Idle /\ call'.op = "insert" /\ call'.before = before
  BY <1>6, <1>7, CallBegun
<1>12. DeleteInv' /\ DeleteAllInv' /\ SetInv'
  BY <1>11 DEF DeleteInv, DeleteAllInv, SetInv
<1>13. Listed(call'.before.index, numRecords')
  BY <1>1, <1>2, <1>11, BeforeOfCall DEF CutInv
<1> QED BY <1>1, <1>2, <1>9, <1>10, <1>11, <1>12, <1>13, CallCutInv DEF CutInv

LEMMA InsertedType ==
  ASSUME NEW index \in Indices, NEW n \in 0..(MaxNumRecords - 1), NEW p \in 0..n,
         NEW slot \in Slots, Listed(index, n)
  PROVE  /\ Store!Inserted(index, p, slot, n) \in Indices
         /\ Listed(Store!Inserted(index, p, slot, n), n + 1)
<1> DEFINE up == Store!ShiftedUp(index, p, n)
<1>1. up \in Indices
  BY ShiftedUpType
<1>2. \A r \in 0..n : r # p => up[r] # NO_RECORD_INDEX
  <2>1. \A r \in 0..n : up[r] = IF r \in (p + 1)..n THEN index[r - 1] ELSE index[r]
    BY MaxNumRecordsType, SMT DEF Store!ShiftedUp
  <2>2. \A r \in 0..n : r # p => IF r \in (p + 1)..n THEN r - 1 \in 0..(n - 1) ELSE r \in 0..(n - 1)
    BY MaxNumRecordsType, SMT
  <2> HIDE DEF up
  <2> QED BY <2>1, <2>2, Zenon DEF Listed
<1>3. slot # NO_RECORD_INDEX /\ p \in 0..MaxNumRecords /\ n + 1 - 1 = n
      /\ \A r \in 0..n : r \in 0..MaxNumRecords
  BY MaxNumRecordsType, SMT
<1> HIDE DEF up
<1>4. [up EXCEPT ![p] = slot] \in Indices
  BY <1>1, <1>3, SMT DEF Indices
<1>5. \A r \in 0..n : [up EXCEPT ![p] = slot][r] # NO_RECORD_INDEX
  BY <1>1, <1>2, <1>3, SMT DEF Indices
<1>6. Store!Inserted(index, p, slot, n) = [up EXCEPT ![p] = slot]
  BY DEF Store!Inserted, up
<1>7. Listed([up EXCEPT ![p] = slot], n + 1)
  BY <1>3, <1>5 DEF Listed
<1> QED BY <1>4, <1>6, <1>7

LEMMA EndInsertCutInv == CutInv /\ EndInsert => CutInv'
<1> SUFFICES ASSUME CutInv, EndInsert PROVE CutInv'
  OBVIOUS
<1>1. /\ call.op = "insert" /\ call.rec < call.position
      /\ recordIndex' = [recordIndex EXCEPT ![call.position] = call.slot]
      /\ recordInUse' = recordInUse \union {call.slot}
      /\ numRecords' = numRecords + 1
      /\ returned' = call.position
      /\ call' = Idle
      /\ UNCHANGED <<recordData, status>>
  BY DEF EndInsert
<1>2. call \in InsertCalls /\ call # Idle
  BY <1>1, KindOfCall DEF CutInv, Idle
<1>3. /\ numRecords < MaxNumRecords
      /\ call.position \in 0..numRecords
      /\ call.rec \in (call.position - 1)..(numRecords - 1)
      /\ recordIndex = Store!ShiftedUp(call.before.index, call.rec + 1, numRecords)
  BY <1>1, Zenon DEF CutInv, InsertInv
<1>4. call.before \in States /\ call.before.index \in Indices /\ call.slot \in Slots
  BY <1>2, KindOfCall, SMT DEF CutInv, States, InsertCalls
<1>5. /\ numRecords \in 0..(MaxNumRecords - 1) /\ call.rec + 1 = call.position
      /\ numRecords + 1 \in 0..MaxNumRecords /\ call.position \in 0..255
  <2> DEFINE n == numRecords
             p == call.position
             rec == call.rec
  <2>1. n \in Nat /\ n < MaxNumRecords /\ p \in 0..n /\ rec \in (p - 1)..(n - 1) /\ rec < p
    BY <1>1, <1>3, NumRecordsType
  <2> HIDE DEF n, p, rec
  <2>2. /\ n \in 0..(MaxNumRecords - 1) /\ rec + 1 = p
        /\ n + 1 \in 0..MaxNumRecords /\ p \in 0..255
    BY <2>1, MaxNumRecordsType, SMT
  <2> QED BY <2>2 DEF n, p, rec
<1>6. recordIndex' = Store!Inserted(call.before.index, call.position, call.slot, numRecords)
  BY <1>1, <1>3, <1>5, Zenon DEF Store!Inserted
<1>7. Listed(call.before.index, numRecords)
  BY <1>2, BeforeOfCall DEF CutInv
<1>8. recordIndex' \in Indices /\ Listed(recordIndex', numRecords')
  <2> DEFINE index == call.before.index
             p == call.position
             slot == call.slot
             n == numRecords
  <2>1. index \in Indices /\ n \in 0..(MaxNumRecords - 1) /\ p \in 0..n /\ slot \in Slots
        /\ Listed(index, n)
    BY <1>3, <1>4, <1>5, <1>7
  <2> HIDE DEF index, p, slot, n
  <2>2. Store!Inserted(index, p, slot, n) \in Indices
        /\ Listed(Store!Inserted(index, p, slot, n), n + 1)
    BY <2>1, InsertedType
  <2> QED BY <1>1, <1>6, <2>2, Zenon DEF index, p, slot, n
<1>9. recordInUse' \subseteq Slots
  BY <1>1, <1>4 DEF CutInv
<1> QED BY <1>1, <1>5, <1>8, <1>9, IdleCutInv, Zenon DEF CutInv

-----------------------------------------------------------------------------
(* Deletion.                                                               *)
LEMMA ShiftedDownNothing ==
  ASSUME NEW index \in Indices, NEW d \in Nat
  PROVE  Store!ShiftedDown(index, d, d) = index
<1>1. \A r \in 0..MaxNumRecords : ~(r \in d..(d - 1))
  BY MaxNumRecordsType, SMT
<1>2. \A r \in 0..MaxNumRecords : Store!ShiftedDown(index, d, d)[r] = index[r]
  BY <1>1, Zenon DEF Store!ShiftedDown
<1> QED BY <1>2, SMT DEF Store!ShiftedDown, Indices

LEMMA ShiftedDownAt ==
  ASSUME NEW index, NEW d, NEW n, NEW r \in 0..MaxNumRecords
  PROVE  Store!ShiftedDown(index, d, n)[r] =
           IF r \notin d..(n - 1) THEN index[r]
           ELSE IF r >= MaxNumRecords - 1 THEN NO_RECORD_INDEX
           ELSE index[r + 1]
BY Zenon DEF Store!ShiftedDown, NO_RECORD_INDEX

LEMMA ShiftedDownType ==
  ASSUME NEW index \in Indices, NEW n \in 0..MaxNumRecords, NEW d \in 0..n
  PROVE  Store!ShiftedDown(index, d, n) \in Indices
BY MaxNumRecordsType, SMT DEF Store!ShiftedDown, Store!NO_RECORD_INDEX, Indices

(* One entry more moves down.                                              *)
LEMMA ShiftedDownTurn ==
  ASSUME NEW index \in Indices, NEW d \in Slots, NEW rec \in d..(MaxNumRecords - 1)
  PROVE  [Store!ShiftedDown(index, d, rec) EXCEPT ![rec] =
            IF rec >= MaxNumRecords - 1 THEN NO_RECORD_INDEX
            ELSE Store!ShiftedDown(index, d, rec)[rec + 1]]
           = Store!ShiftedDown(index, d, rec + 1)
<1> DEFINE old == Store!ShiftedDown(index, d, rec)
           new == Store!ShiftedDown(index, d, rec + 1)
           entry == IF rec >= MaxNumRecords - 1 THEN NO_RECORD_INDEX ELSE old[rec + 1]
<1>1. rec \in 0..MaxNumRecords /\ rec \in Nat /\ rec + 1 - 1 = rec
  BY MaxNumRecordsType, SMT
<1>2. rec < MaxNumRecords - 1 => old[rec + 1] = index[rec + 1]
  <2>1. rec < MaxNumRecords - 1 => rec + 1 \in 0..MaxNumRecords /\ rec + 1 \notin d..(rec - 1)
    BY <1>1, MaxNumRecordsType, SMT
  <2> QED BY <2>1, Zenon DEF Store!ShiftedDown
<1>3. \A r \in 0..MaxNumRecords : new[r] = IF r = rec THEN entry ELSE old[r]
  <2>1. \A r \in 0..MaxNumRecords :
          old[r] = IF r \notin d..(rec - 1) THEN index[r]
                   ELSE IF r >= MaxNumRecords - 1 THEN NO_RECORD_INDEX
                   ELSE index[r + 1]
    BY ShiftedDownAt, Zenon
  <2>2. \A r \in 0..MaxNumRecords :
          new[r] = IF r \notin d..(rec + 1 - 1) THEN index[r]
                   ELSE IF r >= MaxNumRecords - 1 THEN NO_RECORD_INDEX
                   ELSE index[r + 1]
    <3> DEFINE n == rec + 1
    <3> SUFFICES \A r \in 0..MaxNumRecords :
          Store!ShiftedDown(index, d, n)[r] =
            IF r \notin d..(n - 1) THEN index[r]
            ELSE IF r >= MaxNumRecords - 1 THEN NO_RECORD_INDEX
            ELSE index[r + 1]
      OBVIOUS
    <3> HIDE DEF n
    <3> QED BY ShiftedDownAt, Zenon
  <2> HIDE DEF old, new
  <2>3. new[rec] = entry
    BY <1>1, <1>2, <2>2, MaxNumRecordsType, SMT
  <2>4. \A r \in 0..MaxNumRecords : r # rec => new[r] = old[r]
    BY <1>1, <2>1, <2>2, MaxNumRecordsType, SMT
  <2> QED BY <2>3, <2>4
<1>4. old = [r \in 0..MaxNumRecords |-> old[r]] /\ new = [r \in 0..MaxNumRecords |-> new[r]]
  BY Zenon DEF Store!ShiftedDown
<1>5. [old EXCEPT ![rec] = entry] = new
  <2> HIDE DEF old, new, entry
  <2>1. [old EXCEPT ![rec] = entry]
          = [r \in 0..MaxNumRecords |-> IF r = rec THEN entry ELSE old[r]]
    BY <1>1, <1>4, ExceptAt, Zenon
  <2> QED BY <1>3, <1>4, <2>1, Zenon
<1> QED BY <1>5 DEF old, new, entry

LEMMA DeleteRecordCutInv ==
  ASSUME CutInv, NEW d \in Slots, DeleteRecord(d)
  PROVE  CutInv'
<1> DEFINE begun == [op |-> "delete", recordId |-> d, rec |-> d, before |-> Before]
<1>1. /\ status = "open" /\ call = Idle /\ d < numRecords
      /\ recordInUse' = recordInUse \ {d}
      /\ call' = begun
      /\ UNCHANGED <<recordIndex, recordData, numRecords, returned, status>>
  BY DEF DeleteRecord, Ready
<1>2. call.op = "none" /\ Before \in States /\ Before.index = recordIndex
      /\ Before.data = recordData /\ Before.inUse = recordInUse
  BY <1>1, BeforeOfIdle, BeforeType
<1>3. d \in 0..250 /\ d \in Nat /\ d \in 0..(numRecords - 1) /\ d \in d..numRecords
  <2>1. numRecords \in Nat
    BY NumRecordsType
  <2> QED BY <1>1, <2>1, MaxNumRecordsType, SMT
<1>4. /\ begun \in DeleteCalls /\ begun.op = "delete" /\ begun.recordId = d
      /\ begun.rec = d /\ begun.before = Before
  BY <1>2, <1>3, SMT DEF DeleteCalls
<1> HIDE DEF begun
<1>5. call' \in Calls /\ call' # Idle
  BY <1>1, <1>4, CallBegun
<1>6. recordIndex = Store!ShiftedDown(recordIndex, d, d)
  BY <1>3, ShiftedDownNothing DEF CutInv
<1>7. DeleteInv'
  BY <1>1, <1>2, <1>3, <1>4, <1>6, Zenon DEF DeleteInv
<1>8. InsertInv' /\ DeleteAllInv' /\ SetInv'
  BY <1>1, <1>4 DEF InsertInv, DeleteAllInv, SetInv
<1>9. Listed(call'.before.index, numRecords')
  BY <1>1, <1>2, <1>4 DEF CutInv
<1>10. recordInUse' \subseteq Slots
  BY <1>1 DEF CutInv
<1> QED BY <1>1, <1>5, <1>7, <1>8, <1>9, <1>10, CallCutInv DEF CutInv

LEMMA ShiftDownCutInv == CutInv /\ ShiftDown => CutInv'
<1> SUFFICES ASSUME CutInv, ShiftDown PROVE CutInv'
  OBVIOUS
<1>1. call.op = "delete" /\ call.rec < numRecords
      /\ recordIndex' = [recordIndex EXCEPT ![call.rec] =
                           IF call.rec >= MaxNumRecords - 1 THEN NO_RECORD_INDEX
                           ELSE recordIndex[call.rec + 1]]
      /\ call' = [call EXCEPT !.rec = @ + 1]
      /\ UNCHANGED <<recordData, numRecords, recordInUse, returned, status>>
  BY DEF ShiftDown
<1>2. call \in DeleteCalls /\ call # Idle /\ status = "open"
  BY <1>1, KindOfCall DEF CutInv, Idle
<1> DEFINE before == call.before
           d == call.recordId
           rec == call.rec
           turned == [call EXCEPT !.rec = rec + 1]
<1>3. /\ d \in 0..(numRecords - 1)
      /\ rec \in d..numRecords
      /\ recordIndex = Store!ShiftedDown(before.index, d, rec)
      /\ recordData = before.data
      /\ recordInUse = before.inUse \ {d}
  BY <1>1, Zenon DEF CutInv, DeleteInv
<1>4. before \in States /\ before.index \in Indices
  BY <1>2, KindOfCall, SMT DEF CutInv, States
<1>5. /\ d \in Slots /\ rec \in d..(MaxNumRecords - 1) /\ rec + 1 \in 0..250
      /\ rec + 1 \in d..numRecords /\ rec + 1 \in 0..MaxNumRecords /\ d \in 0..(rec + 1)
  <2> DEFINE n == numRecords
  <2>1. n \in Nat /\ n <= MaxNumRecords /\ d \in 0..(n - 1) /\ rec \in d..n /\ rec < n
    BY <1>1, <1>3, NumRecordsType
  <2> HIDE DEF n, d, rec
  <2>2. /\ d \in Slots /\ rec \in d..(MaxNumRecords - 1) /\ rec + 1 \in 0..250
        /\ rec + 1 \in d..n /\ rec + 1 \in 0..MaxNumRecords /\ d \in 0..(rec + 1)
    BY <2>1, MaxNumRecordsType, SMT
  <2> QED BY <2>2 DEF n
<1>6. call' = turned
  BY <1>1, Zenon
<1>7. /\ turned \in DeleteCalls /\ turned.op = "delete" /\ turned.rec = rec + 1
      /\ turned.recordId = d /\ turned.before = before
  BY <1>2, <1>5, DeleteTurn
<1>8. recordIndex' = Store!ShiftedDown(before.index, d, rec + 1)
  <2> DEFINE index == before.index
  <2> HIDE DEF index, d, rec
  <2>1. index \in Indices /\ d \in Slots /\ rec \in d..(MaxNumRecords - 1)
    BY <1>4, <1>5 DEF index
  <2>2. [Store!ShiftedDown(index, d, rec) EXCEPT ![rec] =
            IF rec >= MaxNumRecords - 1 THEN NO_RECORD_INDEX
            ELSE Store!ShiftedDown(index, d, rec)[rec + 1]]
           = Store!ShiftedDown(index, d, rec + 1)
    BY <2>1, ShiftedDownTurn
  <2> QED BY <1>1, <1>3, <2>2, Zenon DEF index, d, rec
<1>9. recordIndex' \in Indices
  BY <1>4, <1>5, <1>8, ShiftedDownType
<1>10. DeleteInv'
  <2> HIDE DEF turned
  <2>1. call'.recordId = d /\ call'.rec = rec + 1 /\ call'.before = before
    BY <1>6, <1>7
  <2> QED BY <1>1, <1>3, <1>5, <1>8, <2>1, Zenon DEF DeleteInv
<1>11. call' \in Calls /\ call' # Idle /\ call'.op = "delete" /\ call'.before = before
  BY <1>6, <1>7, CallBegun
<1>12. InsertInv' /\ DeleteAllInv' /\ SetInv'
  BY <1>11 DEF InsertInv, DeleteAllInv, SetInv
<1>13. Listed(call'.before.index, numRecords')
  BY <1>1, <1>2, <1>11, BeforeOfCall DEF CutInv
<1> QED BY <1>1, <1>2, <1>9, <1>10, <1>11, <1>12, <1>13, CallCutInv DEF CutInv

LEMMA ShiftedDownListed ==
  ASSUME NEW index \in Indices, NEW n \in 1..MaxNumRecords, NEW d \in 0..(n - 1),
         Listed(index, n)
  PROVE  Listed(Store!ShiftedDown(index, d, n), n - 1)
<1> SUFFICES ASSUME NEW r \in 0..(n - 1 - 1)
             PROVE  Store!ShiftedDown(index, d, n)[r] # NO_RECORD_INDEX
  BY DEF Listed
<1>1. /\ r \in 0..MaxNumRecords /\ r \in 0..(n - 1) /\ r + 1 \in 0..(n - 1)
      /\ ~(r >= MaxNumRecords - 1)
  BY MaxNumRecordsType, SMT
<1>2. Store!ShiftedDown(index, d, n)[r] \in {index[r], index[r + 1]}
  BY <1>1, Zenon DEF Store!ShiftedDown
<1> QED BY <1>1, <1>2 DEF Listed

LEMMA EndDeleteCutInv == CutInv /\ EndDelete => CutInv'
<1> SUFFICES ASSUME CutInv, EndDelete PROVE CutInv'
  OBVIOUS
<1>1. /\ call.op = "delete" /\ call.rec >= numRecords
      /\ numRecords' = numRecords - 1
      /\ call' = Idle
      /\ UNCHANGED <<recordIndex, recordData, recordInUse, returned, status>>
  BY DEF EndDelete
<1>2. call \in DeleteCalls /\ call # Idle
  BY <1>1, KindOfCall DEF CutInv, Idle
<1> DEFINE index == call.before.index
           d == call.recordId
           rec == call.rec
           n == numRecords
<1>3. d \in 0..(n - 1) /\ rec \in d..n /\ recordIndex = Store!ShiftedDown(index, d, rec)
  BY <1>1, Zenon DEF CutInv, DeleteInv
<1>4. call.before \in States /\ index \in Indices
  BY <1>2, KindOfCall, SMT DEF CutInv, States
<1>5. rec >= n /\ n \in Nat /\ n <= MaxNumRecords
  BY <1>1, NumRecordsType
<1>6. Listed(index, n)
  BY <1>2, BeforeOfCall DEF CutInv
<1>7. rec = n /\ n \in 1..MaxNumRecords /\ n - 1 \in 0..MaxNumRecords
      /\ Listed(Store!ShiftedDown(index, d, n), n - 1)
  <2> HIDE DEF index, d, rec, n
  <2>1. rec = n /\ n \in 1..MaxNumRecords /\ n - 1 \in 0..MaxNumRecords
    BY <1>3, <1>5, MaxNumRecordsType, SMT
  <2> QED BY <1>3, <1>4, <1>6, <2>1, ShiftedDownListed
<1>8. Listed(recordIndex', numRecords')
  BY <1>1, <1>3, <1>7
<1> QED BY <1>1, <1>7, <1>8, IdleCutInv DEF CutInv

-----------------------------------------------------------------------------
(* Deletion of all records.                                                *)
LEMMA ErasedNothing ==
  ASSUME NEW index \in Indices
  PROVE  ErasedBelow(index, 0) = index
<1>1. \A r \in 0..MaxNumRecords : ~(r < 0)
  BY MaxNumRecordsType, SMT
<1>2. \A r \in 0..MaxNumRecords : ErasedBelow(index, 0)[r] = index[r]
  BY <1>1, Zenon DEF ErasedBelow
<1> QED BY <1>2, SMT DEF ErasedBelow, Indices

LEMMA ErasedBelowType ==
  ASSUME NEW index \in Indices, NEW n \in 0..MaxNumRecords
  PROVE  ErasedBelow(index, n) \in Indices
BY MaxNumRecordsType, SMT DEF ErasedBelow, Indices

LEMMA EraseTurn ==
  ASSUME NEW index \in Indices, NEW rec \in Slots
  PROVE  [ErasedBelow(index, rec) EXCEPT ![rec] = NO_RECORD_INDEX] = ErasedBelow(index, rec + 1)
<1> DEFINE old == ErasedBelow(index, rec)
           new == ErasedBelow(index, rec + 1)
<1>1. rec \in 0..MaxNumRecords /\ rec \in Nat
  BY MaxNumRecordsType, SMT
<1>2. \A r \in 0..MaxNumRecords : new[r] = IF r = rec THEN NO_RECORD_INDEX ELSE old[r]
  BY <1>1, MaxNumRecordsType, SMT DEF ErasedBelow
<1>3. old = [r \in 0..MaxNumRecords |-> old[r]] /\ new = [r \in 0..MaxNumRecords |-> new[r]]
  BY Zenon DEF ErasedBelow
<1>4. [old EXCEPT ![rec] = NO_RECORD_INDEX] = new
  <2> HIDE DEF old, new
  <2>1. [old EXCEPT ![rec] = NO_RECORD_INDEX]
          = [r \in 0..MaxNumRecords |-> IF r = rec THEN NO_RECORD_INDEX ELSE old[r]]
    BY <1>1, <1>3, ExceptAt, Zenon
  <2> QED BY <1>2, <1>3, <2>1, Zenon
<1> QED BY <1>4 DEF old, new

LEMMA DeleteAllRecordsCutInv ==
  ASSUME CutInv, DeleteAllRecords
  PROVE  CutInv'
<1> DEFINE begun == [op |-> "deleteAll", rec |-> 0, before |-> Before]
<1>1. /\ status = "open" /\ call = Idle
      /\ call' = begun
      /\ UNCHANGED <<recordIndex, recordData, numRecords, recordInUse, returned, status>>
  BY DEF DeleteAllRecords, Ready
<1>2. call.op = "none" /\ Before \in States /\ Before.index = recordIndex
      /\ Before.data = recordData /\ Before.inUse = recordInUse
  BY <1>1, BeforeOfIdle, BeforeType
<1>3. 0 \in 0..250 /\ 0 \in 0..MaxNumRecords /\ 0..(0 - 1) = {}
  BY MaxNumRecordsType, SMT
<1>4. /\ begun \in DeleteAllCalls /\ begun.op = "deleteAll"
      /\ begun.rec = 0 /\ begun.before = Before
  BY <1>2, <1>3, SMT DEF DeleteAllCalls
<1> HIDE DEF begun
<1>5. call' \in Calls /\ call' # Idle
  BY <1>1, <1>4, CallBegun
<1>6. recordIndex = ErasedBelow(recordIndex, 0)
  BY ErasedNothing DEF CutInv
<1>7. recordInUse = recordInUse \ (0..(0 - 1))
  BY <1>3
<1>8. DeleteAllInv'
  BY <1>1, <1>2, <1>3, <1>4, <1>6, <1>7, Zenon DEF DeleteAllInv
<1>9. InsertInv' /\ DeleteInv' /\ SetInv'
  BY <1>1, <1>4 DEF InsertInv, DeleteInv, SetInv
<1>10. Listed(call'.before.index, numRecords')
  BY <1>1, <1>2, <1>4 DEF CutInv
<1> QED BY <1>1, <1>5, <1>8, <1>9, <1>10, CallCutInv DEF CutInv

LEMMA EraseEntryCutInv == CutInv /\ EraseEntry => CutInv'
<1> SUFFICES ASSUME CutInv, EraseEntry PROVE CutInv'
  OBVIOUS
<1>1. /\ call.op = "deleteAll" /\ call.rec < MaxNumRecords
      /\ recordIndex' = [recordIndex EXCEPT ![call.rec] = NO_RECORD_INDEX]
      /\ recordInUse' = recordInUse \ {call.rec}
      /\ call' = [call EXCEPT !.rec = @ + 1]
      /\ UNCHANGED <<recordData, numRecords, returned, status>>
  BY DEF EraseEntry
<1>2. call \in DeleteAllCalls /\ call # Idle /\ status = "open"
  BY <1>1, KindOfCall DEF CutInv, Idle
<1> DEFINE before == call.before
           rec == call.rec
           turned == [call EXCEPT !.rec = rec + 1]
<1>3. /\ rec \in 0..MaxNumRecords
      /\ recordIndex = ErasedBelow(before.index, rec)
      /\ recordData = before.data
      /\ recordInUse = before.inUse \ (0..(rec - 1))
  BY <1>1, Zenon DEF CutInv, DeleteAllInv
<1>4. before \in States /\ before.index \in Indices
  BY <1>2, KindOfCall, SMT DEF CutInv, States
<1>5. /\ rec \in Slots /\ rec + 1 \in 0..250 /\ rec + 1 \in 0..MaxNumRecords
      /\ 0..(rec + 1 - 1) = (0..(rec - 1)) \union {rec}
  <2> HIDE DEF rec
  <2>1. rec < MaxNumRecords
    BY <1>1 DEF rec
  <2>2. rec \in Slots /\ rec + 1 \in 0..250 /\ rec + 1 \in 0..MaxNumRecords
    BY <1>3, <2>1, MaxNumRecordsType, SMT
  <2>3. 0..(rec + 1 - 1) = (0..(rec - 1)) \union {rec}
    BY <1>3, MaxNumRecordsType, SMT
  <2> QED BY <2>2, <2>3
<1>6. call' = turned
  BY <1>1, Zenon
<1>7. /\ turned \in DeleteAllCalls /\ turned.op = "deleteAll" /\ turned.rec = rec + 1
      /\ turned.before = before
  BY <1>2, <1>5, DeleteAllTurn
<1>8. recordIndex' = ErasedBelow(before.index, rec + 1)
  <2> DEFINE index == before.index
  <2> HIDE DEF index, rec
  <2>1. index \in Indices /\ rec \in Slots
    BY <1>4, <1>5 DEF index
  <2>2. [ErasedBelow(index, rec) EXCEPT ![rec] = NO_RECORD_INDEX] = ErasedBelow(index, rec + 1)
    BY <2>1, EraseTurn
  <2> QED BY <1>1, <1>3, <2>2, Zenon DEF index, rec
<1>9. recordIndex' \in Indices
  BY <1>4, <1>5, <1>8, ErasedBelowType
<1>10. recordInUse' = before.inUse \ (0..(rec + 1 - 1)) /\ recordInUse' \subseteq Slots
  BY <1>1, <1>3, <1>5, Zenon DEF CutInv
<1>11. DeleteAllInv'
  <2> HIDE DEF turned
  <2>1. call'.rec = rec + 1 /\ call'.before = before
    BY <1>6, <1>7
  <2>2. /\ call'.rec \in 0..MaxNumRecords
        /\ recordIndex' = ErasedBelow(call'.before.index, call'.rec)
        /\ recordData' = call'.before.data
        /\ recordInUse' = call'.before.inUse \ (0..(call'.rec - 1))
    BY <1>1, <1>3, <1>5, <1>8, <1>10, <2>1
  <2> QED BY <2>2 DEF DeleteAllInv
<1>12. call' \in Calls /\ call' # Idle /\ call'.op = "deleteAll" /\ call'.before = before
  BY <1>6, <1>7, CallBegun
<1>13. InsertInv' /\ DeleteInv' /\ SetInv'
  BY <1>12 DEF InsertInv, DeleteInv, SetInv
<1>14. Listed(call'.before.index, numRecords')
  BY <1>1, <1>2, <1>12, BeforeOfCall DEF CutInv
<1> QED BY <1>1, <1>2, <1>9, <1>10, <1>11, <1>12, <1>13, <1>14, CallCutInv DEF CutInv

LEMMA NothingListed ==
  ASSUME NEW index
  PROVE  Listed(index, 0)
<1>1. \A r \in 0..(0 - 1) : FALSE
  BY SMT
<1> QED BY <1>1 DEF Listed

LEMMA EndDeleteAllCutInv == CutInv /\ EndDeleteAll => CutInv'
<1> SUFFICES ASSUME CutInv, EndDeleteAll PROVE CutInv'
  OBVIOUS
<1>1. /\ returned' = numRecords /\ numRecords' = 0 /\ call' = Idle
      /\ UNCHANGED <<recordIndex, recordData, recordInUse, status>>
  BY DEF EndDeleteAll
<1>2. returned' \in 0..255 /\ numRecords' \in 0..MaxNumRecords
  <2>1. numRecords \in Nat /\ numRecords <= MaxNumRecords
    BY NumRecordsType
  <2> QED BY <1>1, <2>1, MaxNumRecordsType, SMT
<1>3. Listed(recordIndex', numRecords')
  <2>1. \A index : Listed(index, 0)
    BY NothingListed
  <2> QED BY <1>1, <2>1
<1> QED BY <1>1, <1>2, <1>3, IdleCutInv DEF CutInv

-----------------------------------------------------------------------------
(* Writing a record.                                                       *)
LEMMA WrittenNothing ==
  ASSUME NEW raw \in RawRecords, NEW new
  PROVE  WrittenBelow(raw, new, 0) = raw
<1>1. \A o \in Offsets : ~(o < 0)
  BY RecordSizeType, SMT DEF Offsets
<1>2. \A o \in Offsets : WrittenBelow(raw, new, 0)[o] = raw[o]
  BY <1>1, Zenon DEF WrittenBelow
<1> QED BY <1>2, SMT DEF WrittenBelow, RawRecords

LEMMA WrittenBelowType ==
  ASSUME NEW raw \in RawRecords, NEW new \in RawRecords, NEW n
  PROVE  WrittenBelow(raw, new, n) \in RawRecords
BY SMT DEF WrittenBelow, RawRecords

LEMMA WriteTurn ==
  ASSUME NEW raw \in RawRecords, NEW new \in RawRecords, NEW rec \in Offsets
  PROVE  [WrittenBelow(raw, new, rec) EXCEPT ![rec] = new[rec]] = WrittenBelow(raw, new, rec + 1)
<1> DEFINE before == WrittenBelow(raw, new, rec)
           after == WrittenBelow(raw, new, rec + 1)
<1>1. \A o \in Offsets : /\ o < rec + 1 <=> o < rec \/ o = rec
                         /\ ~(rec < rec)
  BY RecordSizeType, SMT DEF Offsets
<1>2. \A o \in Offsets : after[o] = IF o = rec THEN new[rec] ELSE before[o]
  BY <1>1, Zenon DEF WrittenBelow
<1>3. before = [o \in Offsets |-> before[o]] /\ after = [o \in Offsets |-> after[o]]
  BY Zenon DEF WrittenBelow
<1>4. [before EXCEPT ![rec] = new[rec]] = after
  <2> HIDE DEF before, after
  <2>1. [before EXCEPT ![rec] = new[rec]]
          = [o \in Offsets |-> IF o = rec THEN new[rec] ELSE before[o]]
    BY <1>3, ExceptAt, Zenon
  <2> QED BY <1>2, <1>3, <2>1, Zenon
<1> QED BY <1>4 DEF before, after

LEMMA SetRawRecordCutInv ==
  ASSUME CutInv, NEW d \in Slots, NEW new \in NewRecords, SetRawRecord(d, new)
  PROVE  CutInv'
<1> DEFINE slot == recordIndex[d]
           begun == [op |-> "set", recordId |-> d, slot |-> slot, rawRecord |-> new,
                     rec |-> 0, before |-> Before]
<1>1. /\ status = "open" /\ call = Idle /\ d < numRecords
      /\ call' = begun
      /\ UNCHANGED <<recordIndex, recordData, numRecords, recordInUse, returned, status>>
  BY DEF SetRawRecord, Ready
<1>2. call.op = "none" /\ Before \in States /\ Before.index = recordIndex
      /\ Before.data = recordData /\ Before.inUse = recordInUse
  BY <1>1, BeforeOfIdle, BeforeType
<1>3. 0 \in 0..250 /\ 0 \in 0..RecordSize /\ d \in 0..(numRecords - 1)
  <2>1. numRecords \in Nat
    BY NumRecordsType
  <2> QED BY <1>1, <2>1, MaxNumRecordsType, RecordSizeType, SMT
<1>4. slot \in Slots /\ new \in RawRecords
  <2>1. recordIndex[d] # NO_RECORD_INDEX
    BY <1>2, <1>3 DEF CutInv, Listed
  <2>2. d \in 0..MaxNumRecords
    BY MaxNumRecordsType, SMT
  <2>3. recordIndex[d] \in Slots \union {NO_RECORD_INDEX}
    BY <2>2 DEF CutInv, Indices
  <2> QED BY <2>1, <2>3, PowerLossAssumption
<1>5. /\ begun \in SetCalls /\ begun.op = "set" /\ begun.recordId = d /\ begun.slot = slot
      /\ begun.rawRecord = new /\ begun.rec = 0 /\ begun.before = Before
  BY <1>2, <1>3, <1>4, SMT DEF SetCalls
<1> HIDE DEF begun
<1>6. call' \in Calls /\ call' # Idle
  BY <1>1, <1>5, CallBegun
<1>7. recordData = [recordData EXCEPT ![slot] = WrittenBelow(@, new, 0)]
  <2>1. recordData \in [Slots -> RawRecords]
    BY DEF CutInv, Areas
  <2>2. WrittenBelow(recordData[slot], new, 0) = recordData[slot]
    <3> DEFINE raw == recordData[slot]
    <3>1. raw \in RawRecords
      BY <1>4, <2>1
    <3> HIDE DEF raw
    <3>2. WrittenBelow(raw, new, 0) = raw
      BY <3>1, WrittenNothing
    <3> QED BY <3>2 DEF raw
  <2> HIDE DEF slot
  <2>3. [recordData EXCEPT ![slot] = recordData[slot]] = recordData
    BY <1>4, <2>1, SMT
  <2> QED BY <2>2, <2>3
<1>8. SetInv'
  <2>1. /\ call'.recordId \in 0..(numRecords' - 1)
        /\ call'.slot = call'.before.index[call'.recordId]
        /\ call'.rec \in 0..RecordSize
        /\ recordIndex' = call'.before.index
        /\ recordInUse' = call'.before.inUse
    BY <1>1, <1>2, <1>3, <1>5
  <2>2. recordData' = [call'.before.data EXCEPT ![call'.slot] =
                         WrittenBelow(@, call'.rawRecord, call'.rec)]
    BY <1>1, <1>2, <1>5, <1>7
  <2> QED BY <2>1, <2>2 DEF SetInv
<1>9. InsertInv' /\ DeleteInv' /\ DeleteAllInv'
  BY <1>1, <1>5 DEF InsertInv, DeleteInv, DeleteAllInv
<1>10. Listed(call'.before.index, numRecords')
  BY <1>1, <1>2, <1>5 DEF CutInv
<1> QED BY <1>1, <1>6, <1>8, <1>9, <1>10, CallCutInv DEF CutInv

(* What one byte more makes of the data area.                              *)
AreaWritten(data, slot, new, n) == [data EXCEPT ![slot] = WrittenBelow(@, new, n)]
ByteWritten(data, slot, o, byte) == [data EXCEPT ![slot][o] = byte]

LEMMA WriteByteInArea ==
  ASSUME NEW data \in Areas, NEW slot \in Slots, NEW new \in RawRecords, NEW rec \in Offsets
  PROVE  ByteWritten(AreaWritten(data, slot, new, rec), slot, rec, new[rec])
           = AreaWritten(data, slot, new, rec + 1)
<1> DEFINE raw == data[slot]
           old == WrittenBelow(raw, new, rec)
           now == WrittenBelow(raw, new, rec + 1)
           area == [data EXCEPT ![slot] = old]
<1>1. data \in [Slots -> RawRecords] /\ raw \in RawRecords
  BY DEF Areas
<1>2. old \in RawRecords /\ now \in RawRecords
  <2> HIDE DEF raw
  <2> QED BY <1>1, WrittenBelowType
<1>3. [old EXCEPT ![rec] = new[rec]] = now
  <2> HIDE DEF raw
  <2> QED BY <1>1, WriteTurn
<1> HIDE DEF old, now
<1>4. area \in [Slots -> RawRecords] /\ area[slot] = old
      /\ \A s \in Slots : s # slot => area[s] = data[s]
  BY <1>1, <1>2, SMT
<1> HIDE DEF area
<1>5. [area EXCEPT ![slot][rec] = new[rec]] = [area EXCEPT ![slot] = now]
  BY <1>3, <1>4, Zenon
<1>6. [area EXCEPT ![slot] = now] = [data EXCEPT ![slot] = now]
  <2>1. /\ [area EXCEPT ![slot] = now] = [s \in Slots |-> IF s = slot THEN now ELSE area[s]]
        /\ [data EXCEPT ![slot] = now] = [s \in Slots |-> IF s = slot THEN now ELSE data[s]]
    <3>1. area = [s \in Slots |-> area[s]] /\ data = [s \in Slots |-> data[s]]
      BY <1>1, <1>4, SMT
    <3> QED BY <3>1, ExceptAt
  <2> QED BY <1>4, <2>1, Zenon
<1> QED BY <1>5, <1>6 DEF now, old, area, raw, AreaWritten, ByteWritten

LEMMA AreaWrittenType ==
  ASSUME NEW data \in Areas, NEW slot \in Slots, NEW new \in RawRecords, NEW n
  PROVE  AreaWritten(data, slot, new, n) \in Areas
<1> DEFINE raw == data[slot]
<1>1. raw \in RawRecords
  BY DEF Areas
<1> HIDE DEF raw
<1>2. WrittenBelow(raw, new, n) \in RawRecords
  BY <1>1, WrittenBelowType
<1> QED BY <1>2 DEF Areas, AreaWritten, raw

LEMMA WriteByteCutInv == CutInv /\ WriteByte => CutInv'
<1> SUFFICES ASSUME CutInv, WriteByte PROVE CutInv'
  OBVIOUS
<1>1. /\ call.op = "set" /\ call.rec < RecordSize
      /\ recordData' = [recordData EXCEPT ![call.slot][call.rec] = call.rawRecord[call.rec]]
      /\ call' = [call EXCEPT !.rec = @ + 1]
      /\ UNCHANGED <<recordIndex, numRecords, recordInUse, returned, status>>
  BY DEF WriteByte
<1>2. call \in SetCalls /\ call # Idle /\ status = "open"
  BY <1>1, KindOfCall DEF CutInv, Idle
<1> DEFINE before == call.before
           rec == call.rec
           slot == call.slot
           new == call.rawRecord
           turned == [call EXCEPT !.rec = rec + 1]
<1>3. /\ call.recordId \in 0..(numRecords - 1)
      /\ slot = before.index[call.recordId]
      /\ rec \in 0..RecordSize
      /\ recordIndex = before.index
      /\ recordInUse = before.inUse
      /\ recordData = [before.data EXCEPT ![slot] = WrittenBelow(@, new, rec)]
  BY <1>1, Zenon DEF CutInv, SetInv
<1>4. before \in States /\ before.data \in Areas /\ slot \in Slots /\ new \in RawRecords
  BY <1>2, KindOfCall, SMT DEF CutInv, States, SetCalls
<1>5. rec \in Offsets /\ rec + 1 \in 0..250 /\ rec + 1 \in 0..RecordSize
  <2> HIDE DEF rec
  <2>1. rec < RecordSize
    BY <1>1 DEF rec
  <2> QED BY <1>3, <2>1, RecordSizeType, SMT DEF Offsets
<1>6. call' = turned
  BY <1>1, Zenon
<1>7. /\ turned \in SetCalls /\ turned.op = "set" /\ turned.rec = rec + 1
      /\ turned.recordId = call.recordId /\ turned.slot = slot
      /\ turned.rawRecord = new /\ turned.before = before
  BY <1>2, <1>5, SetTurn
<1>8. /\ recordData' = [before.data EXCEPT ![slot] = WrittenBelow(@, new, rec + 1)]
      /\ recordData' \in Areas
  <2> DEFINE data == before.data
  <2> HIDE DEF data, slot, new, rec
  <2>1. data \in Areas
    BY <1>4 DEF data
  <2>2. ByteWritten(AreaWritten(data, slot, new, rec), slot, rec, new[rec])
           = AreaWritten(data, slot, new, rec + 1)
    BY <1>4, <1>5, <2>1, WriteByteInArea
  <2>3. AreaWritten(data, slot, new, rec + 1) \in Areas
    BY <1>4, <2>1, AreaWrittenType
  <2>4. /\ recordData = AreaWritten(data, slot, new, rec)
        /\ recordData' = ByteWritten(recordData, slot, rec, new[rec])
    BY <1>1, <1>3 DEF data, slot, new, rec, AreaWritten, ByteWritten
  <2>5. recordData' = AreaWritten(data, slot, new, rec + 1)
    BY <2>2, <2>4
  <2> QED BY <2>3, <2>5 DEF data, AreaWritten
<1>9. SetInv'
  <2> HIDE DEF turned
  <2>1. call'.recordId = call.recordId /\ call'.rec = rec + 1 /\ call'.before = before
        /\ call'.slot = slot /\ call'.rawRecord = new
    BY <1>6, <1>7
  <2>2. /\ call'.recordId \in 0..(numRecords' - 1)
        /\ call'.slot = call'.before.index[call'.recordId]
        /\ call'.rec \in 0..RecordSize
        /\ recordIndex' = call'.before.index
        /\ recordInUse' = call'.before.inUse
    BY <1>1, <1>3, <1>5, <2>1
  <2>3. recordData' = [call'.before.data EXCEPT ![call'.slot] =
                         WrittenBelow(@, call'.rawRecord, call'.rec)]
    BY <1>8, <2>1
  <2> QED BY <2>2, <2>3 DEF SetInv
<1>10. call' \in Calls /\ call' # Idle /\ call'.op = "set" /\ call'.before = before
  BY <1>6, <1>7, CallBegun
<1>11. InsertInv' /\ DeleteInv' /\ DeleteAllInv'
  BY <1>10 DEF InsertInv, DeleteInv, DeleteAllInv
<1>12. Listed(call'.before.index, numRecords')
  BY <1>1, <1>2, <1>10, BeforeOfCall DEF CutInv
<1> QED BY <1>1, <1>2, <1>8, <1>9, <1>10, <1>11, <1>12, CallCutInv DEF CutInv

LEMMA EndSetCutInv == CutInv /\ EndSet => CutInv'
<1> SUFFICES ASSUME CutInv, EndSet PROVE CutInv'
  OBVIOUS
<1>1. /\ call.op = "set" /\ call' = Idle
      /\ UNCHANGED <<recordIndex, recordData, numRecords, recordInUse, returned, status>>
  BY DEF EndSet
<1>2. call # Idle
  BY <1>1 DEF Idle
<1>3. recordIndex = call.before.index
  BY <1>1, Zenon DEF CutInv, SetInv
<1>4. Listed(recordIndex', numRecords')
  BY <1>1, <1>2, <1>3, BeforeOfCall DEF CutInv
<1> QED BY <1>1, <1>4, IdleCutInv DEF CutInv

-----------------------------------------------------------------------------
(* Power.                                                                  *)
LEMMA PowerCutCutInv == CutInv /\ PowerCut => CutInv'
<1> SUFFICES ASSUME CutInv, PowerCut PROVE CutInv'
  OBVIOUS
<1>1. /\ status' = "closed" /\ numRecords' = 0 /\ recordInUse' = {} /\ returned' = 0
      /\ call' = Idle
      /\ UNCHANGED <<recordIndex, recordData>>
  BY DEF PowerCut
<1>2. 0 \in 0..255 /\ 0 \in 0..MaxNumRecords
  BY MaxNumRecordsType, SMT
<1>3. Listed(recordIndex', numRecords')
  <2>1. \A index : Listed(index, 0)
    BY NothingListed
  <2> QED BY <1>1, <2>1
<1> QED BY <1>1, <1>2, <1>3, IdleCutInv DEF CutInv

LEMMA OpenCutInv == CutInv /\ Open => CutInv'
<1> SUFFICES ASSUME CutInv, Open PROVE CutInv'
  OBVIOUS
<1>1. PICK n \in 0..MaxNumRecords :
        /\ Store!IsNumRecords(recordIndex, n)
        /\ numRecords' = n
        /\ recordInUse' = Store!SlotsOf(recordIndex, n)
  BY Zenon DEF Open
<1>2. status = "closed" /\ status' = "open" /\ UNCHANGED <<recordIndex, recordData, returned, call>>
  BY DEF Open
<1>3. call = Idle
  BY <1>2 DEF CutInv
<1>4. Listed(recordIndex, n)
  BY <1>1, Zenon DEF Store!IsNumRecords, Listed, NO_RECORD_INDEX
<1>5. Store!SlotsOf(recordIndex, n) \subseteq Slots
  <2>1. \A r \in 0..(n - 1) : r \in 0..MaxNumRecords
    BY MaxNumRecordsType, SMT
  <2>2. \A r \in 0..(n - 1) : recordIndex[r] \in Slots
    BY <1>4, <2>1 DEF CutInv, Indices, Listed
  <2> QED BY <2>2, Zenon DEF Store!SlotsOf
<1> QED BY <1>1, <1>2, <1>3, <1>4, <1>5, IdleCutInv DEF CutInv

-----------------------------------------------------------------------------
LEMMA AppendRecordCutInv == CutInv /\ AppendRecord => CutInv'
<1> SUFFICES ASSUME CutInv, AppendRecord PROVE CutInv'
  OBVIOUS
<1>1. Ready /\ BeginInsert(numRecords)
  BY DEF AppendRecord
<1>2. numRecords \in 0..numRecords
  <2>1. numRecords \in Nat
    BY NumRecordsType
  <2> QED BY <2>1, SMT
<1> QED BY <1>1, <1>2, BeginInsertCutInv

LEMMA InsertRecordAfterCutInv ==
  ASSUME CutInv, NEW r \in Slots, InsertRecordAfter(r)
  PROVE  CutInv'
<1>1. Ready /\ r < numRecords /\ BeginInsert(r + 1)
  BY DEF InsertRecordAfter
<1>2. r + 1 \in 0..numRecords /\ r + 1 # 0
  <2>1. numRecords \in Nat
    BY NumRecordsType
  <2> QED BY <1>1, <2>1, MaxNumRecordsType, SMT
<1> QED BY <1>1, <1>2, BeginInsertCutInv

LEMMA NextCutInv == CutInv /\ [Next]_vars => CutInv'
<1> SUFFICES ASSUME CutInv, [Next]_vars PROVE CutInv'
  OBVIOUS
<1>1. CASE Begin
  <2>1. ASSUME NEW r \in Slots, NEW new \in NewRecords, SetRawRecord(r, new)
        PROVE  CutInv'
    BY <2>1, SetRawRecordCutInv
  <2>2. ASSUME NEW r \in Slots, InsertRecordAfter(r) \/ DeleteRecord(r)
        PROVE  CutInv'
    BY <2>2, InsertRecordAfterCutInv, DeleteRecordCutInv
  <2> QED BY <1>1, <2>1, <2>2, AppendRecordCutInv, DeleteAllRecordsCutInv DEF Begin
<1>2. CASE Continue
  BY <1>2, ShiftUpCutInv, EndInsertCutInv, ShiftDownCutInv, EndDeleteCutInv, EraseEntryCutInv,
     EndDeleteAllCutInv, WriteByteCutInv, EndSetCutInv DEF Continue
<1>3. CASE PowerCut \/ Open
  BY <1>3, PowerCutCutInv, OpenCutInv
<1>4. CASE UNCHANGED vars
  BY <1>4, StutterCutInv
<1> QED BY <1>1, <1>2, <1>3, <1>4 DEF Next

LEMMA SpecCutInv == Spec => []CutInv
<1>1. Init => CutInv
  BY InitCutInv
<1>2. CutInv /\ [Next]_vars => CutInv'
  BY NextCutInv
<1> QED BY <1>1, <1>2, PTL DEF Spec

-----------------------------------------------------------------------------
(***************************************************************************)
(* What an opening counts.  getNumRecordsFromIndex() searches upwards, so  *)
(* its result is a least element.                                          *)
(***************************************************************************)
LEMMA IsNumRecordsSizeOf ==
  ASSUME NEW index
  PROVE  Store!IsNumRecords(index, Store!SizeOf(index))
<1> DEFINE T == {n \in 0..MaxNumRecords : n < MaxNumRecords => index[n] = NO_RECORD_INDEX}
<1>1. T \subseteq Nat /\ MaxNumRecords \in T
  <2>1. 0..MaxNumRecords \subseteq Nat /\ MaxNumRecords \in 0..MaxNumRecords
        /\ ~(MaxNumRecords < MaxNumRecords)
    BY MaxNumRecordsType, SMT
  <2> QED BY <2>1, Zenon
<1>2. PICK n \in T : \A k \in T : n <= k
  <2> HIDE DEF T
  <2> QED BY <1>1, LeastElement
<1>3. n \in 0..MaxNumRecords /\ (n < MaxNumRecords => index[n] = NO_RECORD_INDEX)
  OBVIOUS
<1>4. \A r \in 0..(n - 1) : index[r] # NO_RECORD_INDEX
  <2> SUFFICES ASSUME NEW r \in 0..(n - 1), index[r] = NO_RECORD_INDEX PROVE FALSE
    OBVIOUS
  <2>1. r \in 0..MaxNumRecords /\ ~(n <= r)
    BY <1>3, MaxNumRecordsType, SMT
  <2>2. r \in T
    BY <2>1, Zenon
  <2> QED BY <1>2, <2>1, <2>2, Zenon
<1>5. Store!IsNumRecords(index, n)
  BY <1>3, <1>4, Zenon DEF Store!IsNumRecords, NO_RECORD_INDEX
<1> QED BY <1>3, <1>5, Zenon DEF Store!SizeOf

LEMMA SizeOfIndex ==
  ASSUME NEW index
  PROVE  LET size == Store!SizeOf(index) IN
         /\ size \in 0..MaxNumRecords
         /\ Listed(index, size)
         /\ size < MaxNumRecords => index[size] = NO_RECORD_INDEX
BY IsNumRecordsSizeOf, Zenon DEF Store!IsNumRecords, Listed, NO_RECORD_INDEX

(* An opening lists at least what is there without a gap.                  *)
LEMMA ListedIsCounted ==
  ASSUME NEW index, NEW n \in 0..MaxNumRecords, Listed(index, n)
  PROVE  \A r \in 0..(n - 1) : r \in 0..(Store!SizeOf(index) - 1)
<1> DEFINE size == Store!SizeOf(index)
<1>1. size \in 0..MaxNumRecords /\ (size < MaxNumRecords => index[size] = NO_RECORD_INDEX)
  BY SizeOfIndex
<1> HIDE DEF size
<1>2. size < n => size \in 0..(n - 1) /\ size < MaxNumRecords
  BY <1>1, MaxNumRecordsType, SMT
<1>3. ~(size < n)
  BY <1>1, <1>2, Zenon DEF Listed
<1>4. \A r \in 0..(n - 1) : r \in 0..(size - 1)
  BY <1>1, <1>3, MaxNumRecordsType, SMT
<1> QED BY <1>4 DEF size

(* The count is unique: it is the position of the first erased entry.      *)
LEMMA IsNumRecordsUnique ==
  ASSUME NEW index, NEW n, Store!IsNumRecords(index, n)
  PROVE  n = Store!SizeOf(index)
<1> DEFINE size == Store!SizeOf(index)
<1>1. /\ size \in 0..MaxNumRecords /\ Listed(index, size)
      /\ size < MaxNumRecords => index[size] = NO_RECORD_INDEX
  BY SizeOfIndex
<1>2. /\ n \in 0..MaxNumRecords /\ Listed(index, n)
      /\ n < MaxNumRecords => index[n] = NO_RECORD_INDEX
  BY Zenon DEF Store!IsNumRecords, Listed, NO_RECORD_INDEX
<1> HIDE DEF size
<1>3. /\ n < size => n \in 0..(size - 1) /\ n < MaxNumRecords
      /\ size < n => size \in 0..(n - 1) /\ size < MaxNumRecords
  BY <1>1, <1>2, MaxNumRecordsType, SMT
<1>4. ~(n < size) /\ ~(size < n)
  BY <1>1, <1>2, <1>3, Zenon DEF Listed
<1>5. n = size
  BY <1>1, <1>2, <1>4, MaxNumRecordsType, SMT
<1> QED BY <1>5 DEF size

-----------------------------------------------------------------------------
(***************************************************************************)
(* Where each record of the list before the call is found.                 *)
(***************************************************************************)
(* The records K of the old index are listed in this one, in their order.  *)
KeepsInOrder(index, old, K) ==
  \A r, s \in K : r <= s =>
    \E i, j \in 0..(Store!SizeOf(index) - 1) :
      i <= j /\ index[i] = old[r] /\ index[j] = old[s]

(* In the turns of an insertion, an entry may stand twice.                 *)
LEMMA InsertKeeps ==
  ASSUME NEW old \in Indices, NEW n \in 0..(MaxNumRecords - 1), Listed(old, n),
         NEW rec \in -1..(n - 1)
  PROVE  KeepsInOrder(Store!ShiftedUp(old, rec + 1, n), old, 0..(n - 1))
<1> DEFINE index == Store!ShiftedUp(old, rec + 1, n)
           w == [r \in 0..(n - 1) |-> IF r <= rec THEN r ELSE r + 1]
           last == IF rec = n - 1 THEN n ELSE n + 1
<1>1. \A r \in 0..MaxNumRecords :
        index[r] = IF r \in (rec + 2)..n THEN old[r - 1] ELSE old[r]
  BY MaxNumRecordsType, SMT DEF Store!ShiftedUp
<1>2. last \in 0..MaxNumRecords /\ \A r \in 0..(last - 1) : r \in 0..MaxNumRecords
  BY MaxNumRecordsType, SMT
<1>3. \A r \in 0..(last - 1) :
        IF r \in (rec + 2)..n THEN r - 1 \in 0..(n - 1) ELSE r \in 0..(n - 1)
  BY MaxNumRecordsType, SMT
<1>4. \A r \in 0..(n - 1) : w[r] = IF r <= rec THEN r ELSE r + 1
  OBVIOUS
<1>5. \A r \in 0..(n - 1) :
        /\ w[r] \in 0..(last - 1) /\ w[r] \in 0..MaxNumRecords
        /\ IF w[r] \in (rec + 2)..n THEN w[r] - 1 = r ELSE w[r] = r
  <2> HIDE DEF w
  <2> QED BY <1>4, MaxNumRecordsType, SMT
<1>6. \A r, s \in 0..(n - 1) : r <= s => w[r] <= w[s]
  <2> HIDE DEF w
  <2> QED BY <1>4, MaxNumRecordsType, SMT
<1> HIDE DEF index, w, last
<1>7. Listed(index, last)
  BY <1>1, <1>2, <1>3, Zenon DEF Listed
<1>8. \A r \in 0..(n - 1) : w[r] \in 0..(Store!SizeOf(index) - 1)
  BY <1>2, <1>5, <1>7, ListedIsCounted, Zenon
<1>9. \A r \in 0..(n - 1) : index[w[r]] = old[r]
  BY <1>1, <1>5, Zenon
<1>10. KeepsInOrder(index, old, 0..(n - 1))
  BY <1>6, <1>8, <1>9, Zenon DEF KeepsInOrder
<1> QED BY <1>10 DEF index

(* In the turns of a deletion, the entry of the record goes first.         *)
LEMMA DeleteKeeps ==
  ASSUME NEW old \in Indices, NEW n \in 1..MaxNumRecords, Listed(old, n),
         NEW d \in 0..(n - 1), NEW rec \in d..n
  PROVE  KeepsInOrder(Store!ShiftedDown(old, d, rec), old, (0..(n - 1)) \ {d})
<1> DEFINE index == Store!ShiftedDown(old, d, rec)
           K == (0..(n - 1)) \ {d}
           w == [r \in K |-> IF r > d /\ r <= rec THEN r - 1 ELSE r]
           last == IF rec = n THEN n - 1 ELSE n
<1>1. \A r \in 0..MaxNumRecords :
        index[r] = IF r \notin d..(rec - 1) THEN old[r]
                   ELSE IF r >= MaxNumRecords - 1 THEN NO_RECORD_INDEX ELSE old[r + 1]
  BY ShiftedDownAt, Zenon
<1>2. last \in 0..MaxNumRecords /\ \A r \in 0..(last - 1) : r \in 0..MaxNumRecords
  BY MaxNumRecordsType, SMT
<1>3. \A r \in 0..(last - 1) :
        IF r \notin d..(rec - 1) THEN r \in 0..(n - 1)
        ELSE ~(r >= MaxNumRecords - 1) /\ r + 1 \in 0..(n - 1)
  BY MaxNumRecordsType, SMT
<1>4. \A r \in K : w[r] = IF r > d /\ r <= rec THEN r - 1 ELSE r
  OBVIOUS
<1>5. \A r \in K :
        /\ w[r] \in 0..(last - 1) /\ w[r] \in 0..MaxNumRecords
        /\ IF w[r] \notin d..(rec - 1) THEN w[r] = r
           ELSE ~(w[r] >= MaxNumRecords - 1) /\ w[r] + 1 = r
  <2> HIDE DEF w
  <2> QED BY <1>4, MaxNumRecordsType, SMT
<1>6. \A r, s \in K : r <= s => w[r] <= w[s]
  <2> HIDE DEF w
  <2> QED BY <1>4, MaxNumRecordsType, SMT
<1> HIDE DEF index, w, last, K
<1>7. Listed(index, last)
  BY <1>1, <1>2, <1>3, Zenon DEF Listed
<1>8. \A r \in K : w[r] \in 0..(Store!SizeOf(index) - 1)
  BY <1>2, <1>5, <1>7, ListedIsCounted, Zenon
<1>9. \A r \in K : index[w[r]] = old[r]
  BY <1>1, <1>5, Zenon
<1>10. KeepsInOrder(index, old, K)
  BY <1>6, <1>8, <1>9, Zenon DEF KeepsInOrder
<1> QED BY <1>10 DEF index, K

LEMMA CutKeeps == CutInv => CutKeepsOtherRecords
<1> SUFFICES ASSUME CutInv, call # Idle
             PROVE  KeepsInOrder(recordIndex, call.before.index, KeptBy(call))
  BY DEF CutKeepsOtherRecords, KeepsInOrder, StoredSize
<1> DEFINE old == call.before.index
           n == numRecords
           rec == call.rec
           d == call.recordId
<1>1. n \in Nat /\ n <= MaxNumRecords
  BY NumRecordsType
<1>2. call.before \in States /\ old \in Indices /\ Listed(old, n)
  <2>1. call.before \in States
    BY KindOfCall DEF CutInv
  <2>2. old \in Indices
    BY <2>1, SMT DEF States
  <2>3. Listed(old, n)
    BY BeforeOfCall DEF CutInv
  <2> QED BY <2>1, <2>2, <2>3
<1>3. call.op \in {"insert", "delete", "deleteAll", "set"}
  BY KindOfCall, Zenon DEF CutInv
<1>4. CASE call.op = "insert"
  <2>1. /\ n < MaxNumRecords /\ call.position \in 0..n
        /\ rec \in (call.position - 1)..(n - 1)
        /\ recordIndex = Store!ShiftedUp(old, rec + 1, n)
    BY <1>4, Zenon DEF CutInv, InsertInv
  <2>2. KeptBy(call) = 0..(n - 1)
    BY <1>4, Zenon DEF KeptBy
  <2>3. n \in 0..(MaxNumRecords - 1) /\ rec \in -1..(n - 1)
    <3> DEFINE p == call.position
    <3> HIDE DEF n, rec, p
    <3>1. p \in 0..n /\ rec \in (p - 1)..(n - 1)
      BY <2>1 DEF p
    <3> QED BY <1>1, <2>1, <3>1, MaxNumRecordsType, SMT
  <2> HIDE DEF old, n, rec
  <2>4. KeepsInOrder(Store!ShiftedUp(old, rec + 1, n), old, 0..(n - 1))
    BY <1>2, <2>3, InsertKeeps
  <2> QED BY <2>1, <2>2, <2>4 DEF old
<1>5. CASE call.op = "delete"
  <2>1. d \in 0..(n - 1) /\ rec \in d..n /\ recordIndex = Store!ShiftedDown(old, d, rec)
    BY <1>5, Zenon DEF CutInv, DeleteInv
  <2>2. KeptBy(call) = (0..(n - 1)) \ {d}
    BY <1>5, Zenon DEF KeptBy
  <2> HIDE DEF old, n, rec, d
  <2>3. n \in 1..MaxNumRecords
    BY <1>1, <2>1, MaxNumRecordsType, SMT
  <2>4. KeepsInOrder(Store!ShiftedDown(old, d, rec), old, (0..(n - 1)) \ {d})
    BY <1>2, <2>1, <2>3, DeleteKeeps
  <2> QED BY <2>1, <2>2, <2>4 DEF old
<1>6. CASE call.op = "deleteAll"
  <2>1. KeptBy(call) = {}
    BY <1>6, Zenon DEF KeptBy
  <2> QED BY <2>1 DEF KeepsInOrder
<1>7. CASE call.op = "set"
  <2>1. recordIndex = old
    BY <1>7, Zenon DEF CutInv, SetInv
  <2>2. KeptBy(call) = 0..(n - 1)
    BY <1>7, Zenon DEF KeptBy
  <2> HIDE DEF old, n
  <2>3. n \in 0..MaxNumRecords
    BY <1>1, MaxNumRecordsType, SMT
  <2>4. \A r \in 0..(n - 1) : r \in 0..(Store!SizeOf(old) - 1)
    BY <1>2, <2>3, ListedIsCounted
  <2>5. KeepsInOrder(old, old, 0..(n - 1))
    BY <2>4, Zenon DEF KeepsInOrder
  <2> QED BY <2>1, <2>2, <2>5 DEF old
<1> QED BY <1>3, <1>4, <1>5, <1>6, <1>7

LEMMA CutTears == CutInv => CutTearsOneRecord
<1> SUFFICES ASSUME CutInv, call # Idle, NEW s \in Slots,
                    recordData[s] # call.before.data[s]
             PROVE  call.op = "set" /\ s = recordIndex[call.recordId]
  BY DEF CutTearsOneRecord
<1>1. recordData # call.before.data
  OBVIOUS
<1>2. call.op \in {"insert", "delete", "deleteAll", "set"}
  BY KindOfCall, Zenon DEF CutInv
<1>3. call.op = "set"
  BY <1>1, <1>2, Zenon DEF CutInv, InsertInv, DeleteInv, DeleteAllInv
<1>4. /\ call.slot = call.before.index[call.recordId]
      /\ recordIndex = call.before.index
      /\ recordData = [call.before.data EXCEPT ![call.slot] =
                         WrittenBelow(@, call.rawRecord, call.rec)]
  BY <1>3, Zenon DEF CutInv, SetInv
<1>5. call.before.data \in Areas
  <2>1. call.before \in States
    BY KindOfCall DEF CutInv
  <2> QED BY <2>1, SMT DEF States
<1>6. s = call.slot
  <2> DEFINE data == call.before.data
             slot == call.slot
             torn == WrittenBelow(data[slot], call.rawRecord, call.rec)
  <2>1. data \in [Slots -> RawRecords] /\ recordData = [data EXCEPT ![slot] = torn]
        /\ recordData[s] # data[s]
    BY <1>4, <1>5 DEF Areas
  <2> HIDE DEF data, slot, torn
  <2>2. s = slot
    BY <2>1
  <2> QED BY <2>2 DEF slot
<1> QED BY <1>3, <1>4, <1>6

LEMMA AllAtOnce == CutInv => DeleteAllAtOnce
<1> SUFFICES ASSUME CutInv, call.op = "deleteAll"
             PROVE  StoredSize \in {Store!SizeOf(call.before.index), 0}
  BY DEF DeleteAllAtOnce
<1> DEFINE old == call.before.index
           rec == call.rec
<1>1. rec \in 0..MaxNumRecords /\ recordIndex = ErasedBelow(old, rec)
  BY Zenon DEF CutInv, DeleteAllInv
<1>2. old \in Indices
  <2>1. call # Idle
    BY DEF Idle
  <2>2. call.before \in States
    BY <2>1, KindOfCall DEF CutInv
  <2> QED BY <2>2, SMT DEF States
<1> HIDE DEF old, rec
<1>3. CASE rec = 0
  BY <1>1, <1>2, <1>3, ErasedNothing DEF StoredSize, old
<1>4. CASE rec # 0
  <2>1. 0 < rec /\ 0 \in 0..MaxNumRecords
    BY <1>1, <1>4, MaxNumRecordsType, SMT
  <2>2. recordIndex[0] = NO_RECORD_INDEX
    BY <1>1, <2>1, Zenon DEF ErasedBelow
  <2>3. StoredSize \in 0..MaxNumRecords /\ Listed(recordIndex, StoredSize)
    <3>1. \A index : Store!SizeOf(index) \in 0..MaxNumRecords
                     /\ Listed(index, Store!SizeOf(index))
      BY SizeOfIndex
    <3> QED BY <3>1 DEF StoredSize
  <2>4. ~(0 \in 0..(StoredSize - 1))
    BY <2>2, <2>3 DEF Listed
  <2>5. StoredSize = 0
    BY <2>3, <2>4, MaxNumRecordsType, SMT
  <2> QED BY <2>5
<1> QED BY <1>3, <1>4

LEMMA CutTypeOK == CutInv => TypeOK
<1> SUFFICES ASSUME CutInv PROVE TypeOK
  OBVIOUS
<1>1. call \in Calls
  BY DEF CutInv
<1>2. call.op \in {"none", "insert", "delete", "deleteAll", "set"}
  BY <1>1, KindOfCall
<1>3. ASSUME call # Idle
      PROVE  call.rec \in -1..250
  <2>1. call \in InsertCalls \union DeleteCalls \union DeleteAllCalls \union SetCalls
    BY <1>1, <1>3 DEF Calls
  <2>2. call.rec \in -1..249 \/ call.rec \in 0..250
    BY <2>1, SMT DEF InsertCalls, DeleteCalls, DeleteAllCalls, SetCalls
  <2> DEFINE rec == call.rec
  <2> HIDE DEF rec
  <2>3. rec \in -1..249 \/ rec \in 0..250
    BY <2>2 DEF rec
  <2>4. rec \in -1..250
    BY <2>3, SMT
  <2> QED BY <2>4 DEF rec
<1> QED BY <1>2, <1>3 DEF CutInv, TypeOK, Indices, Areas
-----------------------------------------------------------------------------
(***************************************************************************)
(* The properties of MCPowerLoss, for every capacity and record size.      *)
(***************************************************************************)

(* The variables keep their types, and a loop variable of RecordStore.c    *)
(* stays in the range that its loop gives it.                              *)
THEOREM SpecTypeOK == Spec => []TypeOK
BY SpecCutInv, CutTypeOK, PTL

(* Wherever in a call the power fails, the next opening lists the records  *)
(* that the call is not about, in their order.                             *)
THEOREM SpecCutKeepsOtherRecords == Spec => []CutKeepsOtherRecords
BY SpecCutInv, CutKeeps, PTL

(* Wherever a call is interrupted, no slot differs from what it was before *)
(* the call but that of the record rs_setRawRecord() is writing.           *)
THEOREM SpecCutTearsOneRecord == Spec => []CutTearsOneRecord
BY SpecCutInv, CutTears, PTL

(* For the opening that follows, an interrupted rs_deleteAllRecords() has  *)
(* deleted nothing or everything.                                          *)
THEOREM SpecDeleteAllAtOnce == Spec => []DeleteAllAtOnce
BY SpecCutInv, AllAtOnce, PTL

-----------------------------------------------------------------------------
(***************************************************************************)
(* The byte-wise calls implement the calls of RecordStore.                 *)
(***************************************************************************)
LEMMA TurnKeeps ==
  ASSUME NEW c \in InsertCalls \union DeleteCalls \union DeleteAllCalls \union SetCalls, NEW rec
  PROVE  LET next == [c EXCEPT !.rec = rec] IN
         next.before = c.before /\ next.op = c.op
BY SMT DEF InsertCalls, DeleteCalls, DeleteAllCalls, SetCalls

LEMMA BeforeOfIdleNext ==
  ASSUME call' = Idle
  PROVE  /\ Before.index' = recordIndex'
         /\ Before.data' = recordData'
         /\ Before.inUse' = recordInUse'
BY DEF Before

(* While a call is under way, a caller sees nothing of it.                 *)
LEMMA CallStutters ==
  ASSUME call' # Idle, call'.before = Before, UNCHANGED <<numRecords, returned, status>>
  PROVE  UNCHANGED Store!vars
<1>1. Before' = Before
  BY DEF Before
<1> QED BY <1>1 DEF Store!vars

LEMMA TurnStutters ==
  ASSUME CutInv, call # Idle, NEW rec, call' = [call EXCEPT !.rec = rec],
         UNCHANGED <<numRecords, returned, status>>
  PROVE  UNCHANGED Store!vars
<1>1. call \in InsertCalls \union DeleteCalls \union DeleteAllCalls \union SetCalls
  BY DEF CutInv, Calls
<1>2. call'.before = call.before /\ call'.op = call.op
  BY <1>1, TurnKeeps
<1>3. call' # Idle
  <2>1. call.op # "none"
    BY KindOfCall DEF CutInv
  <2> QED BY <1>2, <2>1 DEF Idle
<1> QED BY <1>2, <1>3, BeforeOfCall, CallStutters

LEMMA BeginInsertImplements ==
  ASSUME CutInv, Ready, NEW STATE position, BeginInsert(position)
  PROVE  Store!InsertRecordAt(position) \/ UNCHANGED Store!vars
<1>1. call = Idle
  BY DEF Ready
<1>2. CASE /\ numRecords >= MaxNumRecords
           /\ returned' = Store!MAX_NUM_RECORDS_REACHED
           /\ UNCHANGED <<recordIndex, recordData, numRecords, recordInUse, status, call>>
  <2>1. Before' = Before
    BY <1>2 DEF Before
  <2>2. Store!InsertRejected
    BY <1>2, <2>1 DEF Store!InsertRejected, Store!eeVars, Store!ramVars
  <2> QED BY <2>2 DEF Store!InsertRecordAt
<1>3. CASE /\ numRecords < MaxNumRecords
           /\ Slots \subseteq recordInUse
           /\ status' = "halted"
           /\ UNCHANGED <<recordIndex, recordData, numRecords, recordInUse, returned, call>>
  <2>1. Before' = Before /\ Before.inUse = recordInUse
    BY <1>1, <1>3 DEF Before
  <2>2. Store!InsertHalts
    BY <1>3, <2>1 DEF Store!InsertHalts, Store!eeVars, Store!ramVars, Slots
  <2> QED BY <2>2 DEF Store!InsertRecordAt
<1>4. CASE /\ \E freeRecord \in Slots :
                /\ Store!IsNextFreeRecord(recordInUse, freeRecord)
                /\ call' = [op |-> "insert", position |-> position, slot |-> freeRecord,
                            rec |-> numRecords - 1, before |-> Before]
           /\ UNCHANGED <<recordIndex, recordData, numRecords, recordInUse, returned, status>>
  <2>1. PICK freeRecord \in Slots :
          call' = [op |-> "insert", position |-> position, slot |-> freeRecord,
                   rec |-> numRecords - 1, before |-> Before]
    BY <1>4
  <2>2. call'.op = "insert" /\ call'.before = Before
    BY <2>1
  <2>3. call' # Idle
    BY <2>2 DEF Idle
  <2> QED BY <1>4, <2>2, <2>3, CallStutters
<1> QED BY <1>2, <1>3, <1>4 DEF BeginInsert

LEMMA BeginImplements ==
  CutInv /\ Begin => Store!Next \/ UNCHANGED Store!vars
<1> SUFFICES ASSUME CutInv, Begin PROVE Store!Next \/ UNCHANGED Store!vars
  OBVIOUS
<1>1. CASE AppendRecord
  <2>1. Ready /\ BeginInsert(numRecords)
    BY <1>1 DEF AppendRecord
  <2>2. Store!InsertRecordAt(numRecords) \/ UNCHANGED Store!vars
    BY <2>1, BeginInsertImplements
  <2> QED BY <2>1, <2>2 DEF Ready, Store!AppendRecord, Store!NextNoDelete, Store!Next
<1>2. CASE DeleteAllRecords
  <2>1. /\ call'.op = "deleteAll" /\ call'.before = Before
        /\ UNCHANGED <<numRecords, returned, status>>
    BY <1>2 DEF DeleteAllRecords
  <2>2. call' # Idle
    BY <2>1 DEF Idle
  <2> QED BY <2>1, <2>2, CallStutters
<1>3. ASSUME NEW r \in Slots, InsertRecordAfter(r)
      PROVE  Store!Next \/ UNCHANGED Store!vars
  <2>1. Ready /\ r < numRecords /\ BeginInsert(r + 1)
    BY <1>3 DEF InsertRecordAfter
  <2>2. Store!InsertRecordAt(r + 1) \/ UNCHANGED Store!vars
    BY <2>1, BeginInsertImplements
  <2>3. Store!InsertRecordAfter(r) \/ UNCHANGED Store!vars
    BY <2>1, <2>2 DEF Ready, Store!InsertRecordAfter
  <2> QED BY <2>3 DEF Slots, Store!NextNoDelete, Store!Next
<1>4. ASSUME NEW r \in Slots, DeleteRecord(r)
      PROVE  UNCHANGED Store!vars
  <2>1. /\ call'.op = "delete" /\ call'.before = Before
        /\ UNCHANGED <<numRecords, returned, status>>
    BY <1>4 DEF DeleteRecord
  <2>2. call' # Idle
    BY <2>1 DEF Idle
  <2> QED BY <2>1, <2>2, CallStutters
<1>5. ASSUME NEW r \in Slots, NEW new \in NewRecords, SetRawRecord(r, new)
      PROVE  UNCHANGED Store!vars
  <2>1. /\ call'.op = "set" /\ call'.before = Before
        /\ UNCHANGED <<numRecords, returned, status>>
    BY <1>5 DEF SetRawRecord
  <2>2. call' # Idle
    BY <2>1 DEF Idle
  <2> QED BY <2>1, <2>2, CallStutters
<1> QED BY <1>1, <1>2, <1>3, <1>4, <1>5, Zenon DEF Begin

LEMMA EndInsertImplements == CutInv /\ EndInsert => Store!Next
<1> SUFFICES ASSUME CutInv, EndInsert PROVE Store!Next
  OBVIOUS
<1> DEFINE p == call.position
           n == numRecords
           rec == call.rec
           slot == call.slot
<1>1. /\ call.op = "insert" /\ rec < p
      /\ recordIndex' = [recordIndex EXCEPT ![p] = slot]
      /\ recordInUse' = recordInUse \union {slot}
      /\ n' = n + 1
      /\ returned' = p
      /\ call' = Idle
      /\ UNCHANGED <<recordData, status>>
  BY DEF EndInsert
<1>2. call # Idle /\ status = "open" /\ slot \in Slots
  <2>1. call \in InsertCalls /\ call # Idle
    BY <1>1, KindOfCall DEF CutInv, Idle
  <2> QED BY <2>1, SMT DEF CutInv, InsertCalls
<1>3. /\ n < MaxNumRecords /\ p \in 0..n
      /\ p = 0 => n = 0
      /\ rec \in (p - 1)..(n - 1)
      /\ Store!IsNextFreeRecord(call.before.inUse, slot)
      /\ recordIndex = Store!ShiftedUp(call.before.index, rec + 1, n)
      /\ recordData = call.before.data
      /\ recordInUse = call.before.inUse
  BY <1>1, Zenon DEF CutInv, InsertInv
<1>4. rec + 1 = p /\ (p = n \/ (p - 1 \in Slots /\ p - 1 < n)) /\ p - 1 + 1 = p
  <2>1. n \in Nat /\ rec < p
    BY <1>1, NumRecordsType
  <2> HIDE DEF p, n, rec, slot
  <2> QED BY <1>3, <2>1, MaxNumRecordsType, SMT
<1>5. Before = call.before /\ Before.index' = recordIndex' /\ Before.data' = recordData'
      /\ Before.inUse' = recordInUse'
  BY <1>1, <1>2, BeforeOfCall, BeforeOfIdleNext
<1>6. Before.index' = Store!Inserted(Before.index, p, slot, n)
  BY <1>1, <1>3, <1>4, <1>5, Zenon DEF Store!Inserted
<1>7. Store!InsertInSlot(p, slot)
  BY <1>1, <1>3, <1>5, <1>6 DEF Store!InsertInSlot
<1>8. Store!InsertRecordAt(p)
  BY <1>2, <1>7 DEF Store!InsertRecordAt, Slots
<1>9. CASE p = n
  <2>1. Store!InsertRecordAt(n)
    BY <1>8, <1>9
  <2>2. Store!AppendRecord
    BY <1>2, <2>1 DEF Store!AppendRecord
  <2> QED BY <2>2 DEF Store!NextNoDelete, Store!Next
<1>10. CASE p - 1 \in Slots /\ p - 1 < n
  <2>1. Store!InsertRecordAt(p - 1 + 1)
    BY <1>4, <1>8
  <2>2. Store!InsertRecordAfter(p - 1)
    BY <1>2, <1>10, <2>1 DEF Store!InsertRecordAfter
  <2> QED BY <1>10, <2>2 DEF Slots, Store!NextNoDelete, Store!Next
<1> QED BY <1>4, <1>9, <1>10

LEMMA EndDeleteImplements == CutInv /\ EndDelete => Store!Next
<1> SUFFICES ASSUME CutInv, EndDelete PROVE Store!Next
  OBVIOUS
<1> DEFINE d == call.recordId
           n == numRecords
           rec == call.rec
<1>1. /\ call.op = "delete" /\ rec >= n
      /\ n' = n - 1
      /\ call' = Idle
      /\ UNCHANGED <<recordIndex, recordData, recordInUse, returned, status>>
  BY DEF EndDelete
<1>2. call # Idle /\ status = "open" /\ d \in Slots
  <2>1. call \in DeleteCalls /\ call # Idle
    BY <1>1, KindOfCall DEF CutInv, Idle
  <2> QED BY <2>1, SMT DEF CutInv, DeleteCalls
<1>3. /\ d \in 0..(n - 1) /\ rec \in d..n
      /\ recordIndex = Store!ShiftedDown(call.before.index, d, rec)
      /\ recordData = call.before.data
      /\ recordInUse = call.before.inUse \ {d}
  BY <1>1, Zenon DEF CutInv, DeleteInv
<1>4. rec = n /\ d < n
  <2>1. n \in Nat /\ rec >= n
    BY <1>1, NumRecordsType
  <2> HIDE DEF d, n, rec
  <2> QED BY <1>3, <2>1, SMT
<1>5. Before = call.before /\ Before.index' = recordIndex' /\ Before.data' = recordData'
      /\ Before.inUse' = recordInUse'
  BY <1>1, <1>2, BeforeOfCall, BeforeOfIdleNext
<1>6. Store!DeleteRecord(d)
  BY <1>1, <1>2, <1>3, <1>4, <1>5 DEF Store!DeleteRecord
<1> QED BY <1>2, <1>6 DEF Slots, Store!Next

LEMMA EndDeleteAllImplements == CutInv /\ EndDeleteAll => Store!Next
<1> SUFFICES ASSUME CutInv, EndDeleteAll PROVE Store!Next
  OBVIOUS
<1> DEFINE rec == call.rec
           old == call.before.index
           all == [r \in 0..MaxNumRecords |->
                     IF r = MaxNumRecords THEN old[r] ELSE NO_RECORD_INDEX]
<1>1. /\ call.op = "deleteAll" /\ rec >= MaxNumRecords
      /\ returned' = numRecords /\ numRecords' = 0 /\ call' = Idle
      /\ UNCHANGED <<recordIndex, recordData, recordInUse, status>>
  BY DEF EndDeleteAll
<1>2. call # Idle /\ status = "open"
  BY <1>1 DEF CutInv, Idle
<1>3. /\ rec \in 0..MaxNumRecords
      /\ recordIndex = ErasedBelow(old, rec)
      /\ recordData = call.before.data
      /\ recordInUse = call.before.inUse \ (0..(rec - 1))
  BY <1>1, Zenon DEF CutInv, DeleteAllInv
<1>4. rec = MaxNumRecords /\ 0..(rec - 1) = Slots
  <2>1. rec >= MaxNumRecords
    BY <1>1
  <2> HIDE DEF rec
  <2>2. rec = MaxNumRecords
    BY <1>3, <2>1, MaxNumRecordsType, SMT
  <2> QED BY <2>2, MaxNumRecordsType
<1>5. ErasedBelow(old, rec) = all
  <2> HIDE DEF rec, old
  <2>1. \A r \in 0..MaxNumRecords : r < rec <=> r # MaxNumRecords
    BY <1>4, MaxNumRecordsType, SMT
  <2> QED BY <2>1, Zenon DEF ErasedBelow
<1>6. Before = call.before /\ Before.index' = recordIndex' /\ Before.data' = recordData'
      /\ Before.inUse' = recordInUse'
  BY <1>1, <1>2, BeforeOfCall, BeforeOfIdleNext
<1>7. Before.inUse' = Before.inUse \ Store!Slots
  BY <1>1, <1>3, <1>4, <1>6 DEF Slots
<1>8. Before.index' = [r \in 0..MaxNumRecords |->
                         IF r = MaxNumRecords THEN Before.index[r] ELSE Store!NO_RECORD_INDEX]
  BY <1>1, <1>3, <1>5, <1>6 DEF NO_RECORD_INDEX
<1>9. Store!DeleteAllRecords
  BY <1>1, <1>2, <1>3, <1>6, <1>7, <1>8 DEF Store!DeleteAllRecords, Store!Separator
<1> QED BY <1>9 DEF Store!NextNoDelete, Store!Next

LEMMA WrittenAll ==
  ASSUME NEW raw \in RawRecords, NEW new \in RawRecords
  PROVE  WrittenBelow(raw, new, RecordSize) = new
<1>1. \A o \in Offsets : o < RecordSize
  BY RecordSizeType, SMT DEF Offsets
<1>2. \A o \in Offsets : WrittenBelow(raw, new, RecordSize)[o] = new[o]
  BY <1>1, Zenon DEF WrittenBelow
<1> QED BY <1>2, SMT DEF WrittenBelow, RawRecords

LEMMA EndSetImplements == CutInv /\ EndSet => Store!Next
<1> SUFFICES ASSUME CutInv, EndSet PROVE Store!Next
  OBVIOUS
<1> DEFINE d == call.recordId
           n == numRecords
           rec == call.rec
           slot == call.slot
           data == call.before.data
           new == call.rawRecord
<1>1. /\ call.op = "set" /\ rec >= RecordSize /\ call' = Idle
      /\ UNCHANGED <<recordIndex, recordData, numRecords, recordInUse, returned, status>>
  BY DEF EndSet
<1>2. /\ call # Idle /\ status = "open" /\ d \in Slots /\ slot \in Slots /\ new \in RawRecords
      /\ call.before \in States
  <2>1. call \in SetCalls /\ call # Idle
    BY <1>1, KindOfCall DEF CutInv, Idle
  <2> QED BY <2>1, SMT DEF CutInv, SetCalls
<1>3. /\ d \in 0..(n - 1)
      /\ slot = call.before.index[d]
      /\ rec \in 0..RecordSize
      /\ recordIndex = call.before.index
      /\ recordInUse = call.before.inUse
      /\ recordData = [data EXCEPT ![slot] = WrittenBelow(@, new, rec)]
  BY <1>1, Zenon DEF CutInv, SetInv
<1>4. rec = RecordSize /\ d < n
  <2>1. n \in Nat /\ rec >= RecordSize
    BY <1>1, NumRecordsType
  <2> HIDE DEF d, n, rec
  <2> QED BY <1>3, <2>1, RecordSizeType, SMT
<1>5. Before = call.before /\ Before.index' = recordIndex' /\ Before.data' = recordData'
      /\ Before.inUse' = recordInUse'
  BY <1>1, <1>2, BeforeOfCall, BeforeOfIdleNext
<1>6. recordData = [data EXCEPT ![slot] = new]
  <2> DEFINE raw == data[slot]
  <2>1. raw \in RawRecords
    BY <1>2, SMT DEF States, Areas
  <2> HIDE DEF raw, new
  <2>2. WrittenBelow(raw, new, RecordSize) = new
    BY <1>2, <2>1, WrittenAll
  <2> QED BY <1>3, <1>4, <2>2 DEF raw
<1>7. Store!SetRawRecord(d, new)
  BY <1>1, <1>2, <1>3, <1>4, <1>5, <1>6 DEF Store!SetRawRecord, Store!ramVars
<1> QED BY <1>2, <1>7 DEF Slots, Store!NextNoDelete, Store!Next

LEMMA PowerCutImplements == CutInv /\ PowerCut => Store!Next \/ CutDuringCall
<1> SUFFICES ASSUME CutInv, PowerCut, call = Idle PROVE Store!Next
  BY DEF CutDuringCall
<1>1. Before.index' = Before.index /\ Before.data' = Before.data /\ Before.inUse' = {}
  BY BeforeOfIdle, BeforeOfIdleNext DEF PowerCut
<1>2. Store!Close
  BY <1>1 DEF PowerCut, Store!Close, Store!eeVars
<1> QED BY <1>2 DEF Store!NextNoDelete, Store!Next

LEMMA OpenImplements == CutInv /\ Open => Store!Next
<1> SUFFICES ASSUME CutInv, Open PROVE Store!Next
  OBVIOUS
<1>1. call = Idle /\ call' = Idle
  BY DEF CutInv, Open
<1>2. /\ Before.index = recordIndex /\ Before.data = recordData
      /\ Before.index' = recordIndex' /\ Before.data' = recordData' /\ Before.inUse' = recordInUse'
  BY <1>1, BeforeOfIdle, BeforeOfIdleNext
<1>3. Store!Open
  BY <1>2 DEF Open, Store!Open, Store!eeVars, Store!Separator
<1> QED BY <1>3 DEF Store!NextNoDelete, Store!Next

LEMMA TurnImplements ==
  CutInv /\ (ShiftUp \/ ShiftDown \/ EraseEntry \/ WriteByte) => UNCHANGED Store!vars
<1> SUFFICES ASSUME CutInv, ShiftUp \/ ShiftDown \/ EraseEntry \/ WriteByte
             PROVE  UNCHANGED Store!vars
  OBVIOUS
<1>1. /\ call.op # "none" /\ UNCHANGED <<numRecords, returned, status>>
      /\ \E rec : call' = [call EXCEPT !.rec = rec]
  BY DEF ShiftUp, ShiftDown, EraseEntry, WriteByte
<1>2. call # Idle
  BY <1>1 DEF Idle
<1> QED BY <1>1, <1>2, TurnStutters

LEMMA NextImplements ==
  CutInv /\ [Next]_vars => [Store!Next \/ CutDuringCall]_(Store!vars)
<1> SUFFICES ASSUME CutInv, [Next]_vars
             PROVE  Store!Next \/ CutDuringCall \/ UNCHANGED Store!vars
  OBVIOUS
<1>1. CASE Begin
  BY <1>1, BeginImplements
<1>2. CASE Continue
  BY <1>2, TurnImplements, EndInsertImplements, EndDeleteImplements, EndDeleteAllImplements,
     EndSetImplements DEF Continue
<1>3. CASE PowerCut \/ Open
  BY <1>3, PowerCutImplements, OpenImplements
<1>4. CASE UNCHANGED vars
  <2>1. Before' = Before
    BY <1>4 DEF vars, Before
  <2> QED BY <1>4, <2>1 DEF vars, Store!vars
<1> QED BY <1>1, <1>2, <1>3, <1>4 DEF Next

LEMMA InitImplements == Init => Store!Init
<1> SUFFICES ASSUME Init PROVE Store!Init
  OBVIOUS
<1>1. Before.index = recordIndex /\ Before.data = recordData /\ Before.inUse = recordInUse
  BY BeforeOfIdle DEF Init
<1> QED BY <1>1 DEF Init, Store!Init, Store!Separator, Slots, NO_RECORD_INDEX

(* Cut or not, what a caller sees is RecordStore: a call shows its whole   *)
(* result at its end, and only a power cut inside it shows anything else.  *)
THEOREM SpecImplementsRecordStore == Spec => ImplementsRecordStore
<1>1. CutInv /\ [Next]_vars => [Store!Next \/ CutDuringCall]_(Store!vars)
  BY NextImplements
<1>2. Init => Store!Init
  BY InitImplements
<1> QED BY <1>1, <1>2, SpecCutInv, PTL DEF Spec, ImplementsRecordStore
=============================================================================
