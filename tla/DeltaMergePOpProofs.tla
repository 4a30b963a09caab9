------------------------ MODULE DeltaMergePOpProofs ------------------------
(***************************************************************************)
(* Proofs about DeltaMergePOp, for any stable rows, deltas, bitmap and     *)
(* size of the chunks: the batches are merged once and in an order that    *)
(* starts with the first, and the chunks handed on are full but for one.   *)
(* For an input that fits together (MergeableInput) the rows handed on are *)
(* the rows of the table, and what is sent to the cache stands for them.   *)
(***************************************************************************)
EXTENDS DeltaMergePOp, SequencePositionsProofs, SequenceTheorems, TLAPS

-----------------------------------------------------------------------------
(* The order of the batches.                                               *)

(* The batches the scan has sent so far.                                   *)
Received == IF fromScan > NumBatches THEN NumBatches ELSE fromScan

(* What of the input the control depends on.                               *)
InputInv == stable \in Seq(Nat \X Nat) /\ (flag => stable # <<>>)

(* How far the operator is with the messages of its two producers.         *)
ControlInv ==
    /\ fromScan \in 0 .. NumBatches + 1 /\ fromHandler \in 0 .. 2
    /\ pc \in {"run", "drain", "done", "crash"}
    /\ pc = "drain" => fromScan = NumBatches + 1 /\ fromHandler = 2
    /\ pc = "done" /\ flag =>
         fromScan = NumBatches + 1 /\ fromHandler = 2 /\ earlyIdx = Len(stables)

(* The batches kept back are the first ones, in order.  The first of them  *)
(* is merged as soon as the deltas are here.                               *)
EarlyInv ==
    /\ stables \in Seq(Nat) /\ \A i \in DOMAIN stables : stables[i] = i
    /\ earlyIdx \in 0 .. Len(stables)
    /\ Len(stables) <= Received
    /\ ~flag \/ fromHandler = 0 => Len(stables) = Received /\ earlyIdx = 0 /\ order = <<>>
    /\ flag /\ fromHandler > 0 /\ earlyIdx = 0 => Len(stables) = 0

(* The batches merged are those up to earlyIdx and those that came after   *)
(* the ones kept back, each of them once and batch 1 first.                *)
OnceFrom1(s) ==
    /\ \A i, j \in DOMAIN s : s[i] = s[j] => i = j
    /\ s # <<>> => s[1] = 1

OrderInv ==
    /\ order \in Seq(Nat)
    /\ flag /\ pc # "crash" /\ fromHandler > 0 =>
         /\ Len(order) = earlyIdx + (Received - Len(stables))
         /\ \A b \in Nat : b \in Elems(order) <=> b \in 1 .. Received /\ (b <= earlyIdx \/ b > Len(stables))
         /\ OnceFrom1(order)

MergeInv == InputInv /\ ControlInv /\ EarlyInv /\ OrderInv

(* Whole chunks: how many hold n rows.                                     *)
LEMMA CeilBounds ==
    ASSUME NEW n \in Nat
    PROVE  /\ ChunkSize \in Nat /\ ChunkSize >= 1
           /\ Ceil(n) \in Nat
           /\ n <= ChunkSize * Ceil(n)
           /\ n > 0 => Ceil(n) >= 1 /\ ChunkSize * (Ceil(n) - 1) < n
           /\ n = 0 => Ceil(n) = 0
<1>1. ChunkSize \in Nat /\ ChunkSize >= 1
  BY MergeAssumption
<1>2. PICK c \in Nat : c = ChunkSize
  BY <1>1
<1>3. PICK q \in Int : q = (n + c - 1) \div c
  BY <1>1, <1>2
<1>4. c * q <= n + c - 1 /\ n + c - 1 < c * q + c
  BY <1>1, <1>2, <1>3
<1>5. q >= 0
  <2>1. SUFFICES ASSUME q <= -1 PROVE FALSE
    BY <1>3
  <2>2. c * q <= c * (-1)
    BY <2>1, <1>3
  <2> QED
    BY <1>1, <1>2, <1>4, <2>2
<1>6. n <= c * q
  BY <1>4
<1>7. ASSUME n > 0 PROVE q >= 1 /\ c * (q - 1) < n
  <2>1. q # 0
    BY <1>6, <1>7
  <2>2. c * (q - 1) = c * q - c
    OBVIOUS
  <2> QED
    BY <1>4, <1>5, <2>1, <2>2
<1>8. ASSUME n = 0 PROVE q = 0
  <2>1. SUFFICES ASSUME q >= 1 PROVE FALSE
    BY <1>5
  <2>2. c * q >= c * 1
    BY <2>1, <1>3
  <2> QED
    BY <1>4, <1>8, <2>2
<1>9. Ceil(n) = q
  BY <1>2, <1>3 DEF Ceil
<1> QED
  BY <1>1, <1>2, <1>5, <1>6, <1>7, <1>8, <1>9

(* The scan sends at least one batch.                                      *)
LEMMA BatchNumber == ASSUME InputInv PROVE NumBatches \in Nat /\ NumBatches >= 1
<1>1. Len(stable) \in Nat /\ (flag => Len(stable) > 0)
  BY DEF InputInv
<1> QED
  BY <1>1, CeilBounds DEF NumBatches

(* One more batch: it was not merged before, and the first is batch 1.     *)
LEMMA AppendBatch ==
    ASSUME NEW s \in Seq(Nat), NEW n \in Nat, n \notin Elems(s), OnceFrom1(s), s = <<>> => n = 1
    PROVE  /\ Append(s, n) \in Seq(Nat) /\ Len(s) \in Nat /\ Len(Append(s, n)) = Len(s) + 1
           /\ \A b : b \in Elems(Append(s, n)) <=> b \in Elems(s) \/ b = n
           /\ OnceFrom1(Append(s, n))
<1> DEFINE a == Append(s, n)
<1>1. /\ a \in Seq(Nat) /\ Len(a) = Len(s) + 1 /\ Len(s) \in Nat
      /\ DOMAIN s = 1 .. Len(s) /\ DOMAIN a = 1 .. Len(s) + 1
      /\ \A i \in DOMAIN s : a[i] = s[i]
      /\ a[Len(s) + 1] = n
  OBVIOUS
<1> HIDE DEF a
<1>2. \A i \in DOMAIN a : i \in DOMAIN s \/ i = Len(s) + 1
  BY <1>1
<1>3. \A i \in DOMAIN s : i \in DOMAIN a /\ i # Len(s) + 1
  BY <1>1
<1>4. Len(s) + 1 \in DOMAIN a
  BY <1>1
<1>5. \A b : b \in Elems(a) <=> b \in Elems(s) \/ b = n
  BY ONLY <1>1, <1>2, <1>3, <1>4, Zenon DEF Elems
<1>6. \A i, j \in DOMAIN a : a[i] = a[j] => i = j
  <2>1. (\A i \in DOMAIN s : s[i] # n) /\ \A i, j \in DOMAIN s : s[i] = s[j] => i = j
    BY DEF Elems, OnceFrom1
  <2> QED
    BY ONLY <1>1, <1>2, <2>1, Zenon
<1>7. a[1] = 1
  <2>1. CASE s = <<>>
    BY <1>1, <2>1
  <2>2. CASE s # <<>>
    <3>1. 1 \in DOMAIN s
      BY <2>2
    <3> QED
      BY <1>1, <2>2, <3>1 DEF OnceFrom1
  <2> QED
    BY <2>1, <2>2
<1>8. OnceFrom1(a)
  BY <1>6, <1>7 DEF OnceFrom1
<1> QED
  BY <1>1, <1>5, <1>8 DEF a

(* A merge of a batch appends it to the order, or ends in a crash.         *)
LEMMA MergeBatchOrder ==
    ASSUME NEW n, MergeBatch(n)
    PROVE  (order' = Append(order, n) /\ pc' = pc) \/ (order' = order /\ pc' = "crash")
BY DEF MergeBatch

(* What the input determines does not change.                              *)
LEMMA InputKept ==
    ASSUME UNCHANGED inputVars, InputInv
    PROVE  InputInv' /\ NumBatches' = NumBatches /\ flag' = flag /\ stable' = stable /\ deltas' = deltas
BY DEF inputVars, InputInv, NumBatches, Ceil

(* Every step keeps the order.                                             *)
LEMMA MergeStep == MergeInv /\ [Next]_vars => MergeInv'
<1> SUFFICES ASSUME MergeInv, [Next]_vars PROVE MergeInv'
  OBVIOUS
<1> USE DEF MergeInv
<1>0. NumBatches \in Nat /\ NumBatches >= 1
  BY BatchNumber
<1>1. CASE RecvTuple
  <2>1. /\ pc = "run" /\ fromScan < NumBatches /\ fromScan' = fromScan + 1
        /\ UNCHANGED <<inputVars, fromHandler, earlyIdx>>
    BY <1>1 DEF RecvTuple
  <2>2. InputInv' /\ NumBatches' = NumBatches /\ flag' = flag
    BY <2>1, InputKept
  <2>3. fromScan \in Nat /\ Received = fromScan /\ Received' = fromScan + 1
    BY <1>0, <2>1, <2>2 DEF Received, ControlInv
  <2>4. CASE flag /\ DeltasReceived
    <3>1. MergeBatch(fromScan + 1) /\ stables' = stables
      BY <1>1, <2>4 DEF RecvTuple
    <3>2. fromHandler \in 0 .. 2 /\ fromHandler > 0
      BY <2>4 DEF DeltasReceived, ControlInv
    <3>3. EarlyInv'
      BY <2>1, <2>2, <2>3, <2>4, <3>1, <3>2 DEF EarlyInv
    <3>4. CASE order' = order /\ pc' = "crash"
      BY <1>0, <2>1, <2>2, <3>2, <3>3, <3>4 DEF ControlInv, OrderInv
    <3>5. CASE order' = Append(order, fromScan + 1) /\ pc' = pc
      <4>1. ControlInv'
        BY <1>0, <2>1, <2>2, <3>2, <3>5 DEF ControlInv
      <4>2. /\ order \in Seq(Nat) /\ fromScan + 1 \in Nat
            /\ Len(order) = earlyIdx + (Received - Len(stables))
            /\ \A b \in Nat : b \in Elems(order) <=> b \in 1 .. Received /\ (b <= earlyIdx \/ b > Len(stables))
            /\ OnceFrom1(order)
        BY <2>1, <2>3, <2>4, <3>2 DEF OrderInv
      <4>3. /\ stables \in Seq(Nat) /\ Len(stables) \in Nat /\ Len(stables) <= fromScan
            /\ earlyIdx \in Nat /\ earlyIdx <= Len(stables) /\ (earlyIdx = 0 => Len(stables) = 0)
        BY <2>3, <2>4, <3>2 DEF EarlyInv
      <4>4. fromScan + 1 \notin Elems(order)
        <5>1. fromScan + 1 \notin 1 .. Received
          BY <2>3
        <5> QED
          BY <4>2, <5>1, Zenon
      <4>5. order = <<>> => fromScan + 1 = 1
        <5>1. ASSUME Len(order) = 0 PROVE fromScan = 0
          BY <2>3, <4>2, <4>3, <5>1
        <5> QED
          BY <5>1
      <4>6. /\ order' \in Seq(Nat) /\ Len(order) \in Nat /\ Len(order') = Len(order) + 1
            /\ \A b : b \in Elems(order') <=> b \in Elems(order) \/ b = fromScan + 1
            /\ OnceFrom1(order')
        BY <3>5, <4>2, <4>4, <4>5, AppendBatch
      <4>7. Len(order') = earlyIdx + (fromScan + 1 - Len(stables))
        <5>1. PICK o \in Nat, l \in Nat : o = Len(order) /\ l = Len(stables)
          BY <4>3, <4>6
        <5>2. o = earlyIdx + (fromScan - l) /\ Len(order') = o + 1
          BY <2>3, <4>2, <4>6, <5>1
        <5>3. o + 1 = earlyIdx + (fromScan + 1 - l)
          BY <2>3, <4>3, <5>2
        <5> QED
          BY <5>1, <5>2, <5>3
      <4>8. \A b \in Nat : b \in Elems(order') <=>
                b \in 1 .. fromScan + 1 /\ (b <= earlyIdx \/ b > Len(stables))
        <5> TAKE b \in Nat
        <5>1. b \in Elems(order) <=> b \in 1 .. fromScan /\ (b <= earlyIdx \/ b > Len(stables))
          BY <2>3, <4>2
        <5>2. PICK l \in Nat : l = Len(stables)
          BY <4>3
        <5>3. (b \in 1 .. fromScan /\ (b <= earlyIdx \/ b > l)) \/ b = fromScan + 1
                <=> b \in 1 .. fromScan + 1 /\ (b <= earlyIdx \/ b > l)
          BY <2>3, <4>3, <5>2
        <5> QED
          BY <4>6, <5>1, <5>2, <5>3, Zenon
      <4>9. OrderInv'
        BY <2>1, <2>3, <3>1, <4>6, <4>7, <4>8 DEF OrderInv
      <4> QED
        BY <2>2, <3>3, <4>1, <4>9
    <3> QED
      BY <2>2, <3>1, <3>3, <3>4, <3>5, MergeBatchOrder
  <2>5. CASE ~(flag /\ DeltasReceived)
    <3>1. stables' = Append(stables, fromScan + 1) /\ UNCHANGED <<order, pc>>
      BY <1>1, <2>5 DEF RecvTuple
    <3>2. ~flag \/ fromHandler = 0
      BY <2>5 DEF DeltasReceived, ControlInv
    <3>3. ControlInv'
      BY <1>0, <2>1, <2>2, <3>1 DEF ControlInv
    <3>4. OrderInv'
      BY <2>1, <2>2, <3>1, <3>2 DEF OrderInv
    <3>5. /\ Len(stables) = fromScan /\ earlyIdx = 0 /\ order = <<>> /\ stables \in Seq(Nat)
          /\ \A i \in DOMAIN stables : stables[i] = i
      BY <2>3, <3>2 DEF EarlyInv
    <3>6. /\ stables' \in Seq(Nat) /\ Len(stables') = fromScan + 1
          /\ DOMAIN stables' = 1 .. fromScan + 1 /\ DOMAIN stables = 1 .. fromScan
          /\ \A i \in DOMAIN stables : stables'[i] = stables[i]
          /\ stables'[fromScan + 1] = fromScan + 1
      BY <2>3, <3>1, <3>5
    <3>7. \A i \in DOMAIN stables' : stables'[i] = i
      BY <2>3, <3>5, <3>6
    <3>8. EarlyInv'
      BY <2>1, <2>2, <2>3, <3>1, <3>2, <3>5, <3>6, <3>7 DEF EarlyInv
    <3> QED
      BY <2>2, <3>3, <3>4, <3>8
  <2> QED
    BY <2>4, <2>5
<1>2. CASE RecvResponse
  <2>1. /\ pc = "run" /\ fromHandler = 0 /\ fromHandler' = 1
        /\ UNCHANGED <<inputVars, fromScan, stables>>
    BY <1>2 DEF RecvResponse
  <2>2. InputInv' /\ NumBatches' = NumBatches /\ flag' = flag
    BY <2>1, InputKept
  <2>3. Received' = Received
    BY <2>1, <2>2 DEF Received
  <2>4. /\ Len(stables) = Received /\ earlyIdx = 0 /\ order = <<>> /\ stables \in Seq(Nat)
        /\ \A i \in DOMAIN stables : stables[i] = i
    BY <2>1 DEF EarlyInv
  <2>5. /\ Received \in Nat /\ (fromScan > 0 <=> Received > 0)
    BY <1>0 DEF Received, ControlInv
  <2>6. CASE flag /\ fromScan > 0
    <3>1. earlyIdx' = 1 /\ MergeBatch(stables[1])
      BY <1>2, <2>4, <2>6 DEF RecvResponse
    <3>2. 1 \in DOMAIN stables /\ stables[1] = 1
      BY <2>4, <2>5, <2>6
    <3>3. EarlyInv'
      BY <2>1, <2>2, <2>3, <2>4, <2>5, <2>6, <3>1 DEF EarlyInv
    <3>4. CASE order' = order /\ pc' = "crash"
      BY <1>0, <2>1, <2>2, <3>3, <3>4 DEF ControlInv, OrderInv
    <3>5. CASE order' = Append(order, 1) /\ pc' = pc
      <4>1. ControlInv'
        BY <1>0, <2>1, <2>2, <3>5 DEF ControlInv
      <4>2. order' = <<1>>
        BY <2>4, <3>5
      <4>3. Len(order') = 1 /\ Elems(order') = {1} /\ OnceFrom1(order') /\ order' \in Seq(Nat)
        BY <4>2 DEF Elems, OnceFrom1
      <4>4. PICK r \in Nat : r = Received /\ r > 0
        BY <2>5, <2>6
      <4>5. Len(order') = earlyIdx' + (Received' - Len(stables'))
        BY <2>1, <2>3, <2>4, <3>1, <4>3, <4>4
      <4>6. \A b \in Nat : b \in Elems(order') <=>
                b \in 1 .. Received' /\ (b <= earlyIdx' \/ b > Len(stables'))
        <5> TAKE b \in Nat
        <5>1. b = 1 <=> b \in 1 .. r /\ (b <= 1 \/ b > r)
          BY <4>4
        <5> QED
          BY <2>1, <2>3, <2>4, <3>1, <4>3, <4>4, <5>1
      <4>7. OrderInv'
        BY <4>3, <4>5, <4>6 DEF OrderInv
      <4> QED
        BY <2>2, <3>3, <4>1, <4>7
    <3> QED
      BY <2>2, <3>1, <3>2, <3>4, <3>5, MergeBatchOrder
  <2>7. CASE ~(flag /\ fromScan > 0)
    <3>1. UNCHANGED <<earlyIdx, order, pc>>
      BY <1>2, <2>7 DEF RecvResponse
    <3>2. ControlInv'
      BY <1>0, <2>1, <2>2, <3>1 DEF ControlInv
    <3>3. flag => Received = 0
      BY <2>5, <2>7
    <3>4. EarlyInv'
      BY <2>1, <2>2, <2>3, <2>4, <2>5, <3>1, <3>3 DEF EarlyInv
    <3>5. Len(order) = 0 /\ Elems(order) = {} /\ OnceFrom1(order)
      BY <2>4 DEF Elems, OnceFrom1
    <3>6. OrderInv'
      <4>1. SUFFICES ASSUME flag
                     PROVE  /\ Len(order) = earlyIdx + (Received - Len(stables))
                            /\ \A b \in Nat : b \in Elems(order) <=>
                                 b \in 1 .. Received /\ (b <= earlyIdx \/ b > Len(stables))
        BY <2>1, <2>2, <2>3, <3>1, <3>5 DEF OrderInv
      <4>2. Received = 0 /\ Len(stables) = 0 /\ earlyIdx = 0
        BY <2>4, <3>3, <4>1
      <4> QED
        BY <3>5, <4>2
    <3> QED
      BY <2>2, <3>2, <3>4, <3>6
  <2> QED
    BY <2>6, <2>7
<1>3. CASE RecvComplete
  <2>1. UNCHANGED <<inputVars, stables, earlyIdx, order>> /\ pc = "run"
    BY <1>3 DEF RecvComplete
  <2>2. InputInv' /\ NumBatches' = NumBatches /\ flag' = flag
    BY <2>1, InputKept
  <2>3. /\ Received' = Received /\ fromScan' \in 0 .. NumBatches + 1 /\ fromHandler' \in 0 .. 2
        /\ fromHandler' = 0 <=> fromHandler = 0
    <3>1. \/ fromScan = NumBatches /\ fromScan' = fromScan + 1 /\ fromHandler' = fromHandler
          \/ fromHandler = 1 /\ fromHandler' = 2 /\ fromScan' = fromScan
      BY <1>3 DEF RecvComplete
    <3>2. fromScan \in 0 .. NumBatches + 1 /\ fromHandler \in 0 .. 2
      BY DEF ControlInv
    <3>3. fromScan' \in 0 .. NumBatches + 1 /\ fromHandler' \in 0 .. 2 /\ (fromHandler' = 0 <=> fromHandler = 0)
      BY <1>0, <3>1, <3>2
    <3>4. Received' = Received
      <4>1. Received' = IF fromScan' > NumBatches THEN NumBatches ELSE fromScan'
        BY <2>2 DEF Received
      <4>2. CASE fromScan = NumBatches /\ fromScan' = fromScan + 1
        <5>1. Received' = NumBatches
          BY <1>0, <4>1, <4>2
        <5>2. Received = NumBatches
          BY <1>0, <4>2 DEF Received
        <5> QED
          BY <5>1, <5>2
      <4>3. CASE fromScan' = fromScan
        BY <4>1, <4>3 DEF Received
      <4> QED
        BY <3>1, <4>2, <4>3
    <3> QED
      BY <3>3, <3>4
  <2>4. ControlInv'
    <3>1. /\ pc' \in {"run", "drain"}
          /\ pc' = "drain" => fromScan' = NumBatches + 1 /\ fromHandler' = 2
      BY <1>3 DEF RecvComplete
    <3> QED
      BY <2>2, <2>3, <3>1 DEF ControlInv
  <2>5. EarlyInv'
    BY <2>1, <2>2, <2>3 DEF EarlyInv, ControlInv
  <2>6. OrderInv'
    BY <2>1, <2>2, <2>3 DEF OrderInv, ControlInv
  <2> QED
    BY <2>2, <2>4, <2>5, <2>6
<1>4. CASE DrainEarly
  <2>1. /\ pc = "drain" /\ flag /\ earlyIdx < Len(stables) /\ earlyIdx' = earlyIdx + 1
        /\ MergeBatch(stables[earlyIdx + 1])
        /\ UNCHANGED <<inputVars, fromScan, fromHandler, stables>>
    BY <1>4 DEF DrainEarly
  <2>2. InputInv' /\ NumBatches' = NumBatches /\ flag' = flag
    BY <2>1, InputKept
  <2>3. Received' = Received /\ Received \in Nat /\ fromHandler = 2
    BY <1>0, <2>1, <2>2 DEF Received, ControlInv
  <2>4. /\ stables \in Seq(Nat) /\ earlyIdx \in Nat /\ Len(stables) \in Nat /\ Len(stables) <= Received
        /\ earlyIdx # 0 /\ earlyIdx + 1 \in DOMAIN stables /\ stables[earlyIdx + 1] = earlyIdx + 1
    BY <2>1, <2>3 DEF EarlyInv
  <2>5. EarlyInv'
    BY <2>1, <2>2, <2>3, <2>4 DEF EarlyInv
  <2>6. CASE order' = order /\ pc' = "crash"
    BY <1>0, <2>1, <2>2, <2>3, <2>5, <2>6 DEF ControlInv, OrderInv
  <2>7. CASE order' = Append(order, earlyIdx + 1) /\ pc' = pc
    <3>1. ControlInv'
      BY <1>0, <2>1, <2>2, <2>3, <2>7 DEF ControlInv
    <3>2. /\ order \in Seq(Nat) /\ earlyIdx + 1 \in Nat
          /\ Len(order) = earlyIdx + (Received - Len(stables))
          /\ \A b \in Nat : b \in Elems(order) <=> b \in 1 .. Received /\ (b <= earlyIdx \/ b > Len(stables))
          /\ OnceFrom1(order)
      BY <2>1, <2>3, <2>4 DEF OrderInv
    <3>3. PICK l \in Nat, r \in Nat, e \in Nat :
            l = Len(stables) /\ r = Received /\ e = earlyIdx /\ l <= r /\ e < l /\ e # 0
      BY <2>1, <2>3, <2>4
    <3>4. earlyIdx + 1 \notin Elems(order)
      <4>1. ~(e + 1 <= e \/ e + 1 > l)
        BY <3>3
      <4> QED
        BY <3>2, <3>3, <4>1
    <3>5. order # <<>>
      <4>1. Len(order) # 0
        BY <3>2, <3>3
      <4> QED
        BY <4>1
    <3>6. /\ order' \in Seq(Nat) /\ Len(order) \in Nat /\ Len(order') = Len(order) + 1
          /\ \A b : b \in Elems(order') <=> b \in Elems(order) \/ b = earlyIdx + 1
          /\ OnceFrom1(order')
      BY <2>7, <3>2, <3>4, <3>5, AppendBatch
    <3>7. Len(order') = earlyIdx' + (Received' - Len(stables'))
      <4>1. Len(order) = e + (r - l) /\ Len(order') = Len(order) + 1
        BY <3>2, <3>3, <3>6
      <4>2. Len(order') = (e + 1) + (r - l)
        BY <3>3, <4>1
      <4> QED
        BY <2>1, <2>3, <3>3, <4>2
    <3>8. \A b \in Nat : b \in Elems(order') <=>
              b \in 1 .. Received' /\ (b <= earlyIdx' \/ b > Len(stables'))
      <4> TAKE b \in Nat
      <4>1. b \in Elems(order) <=> b \in 1 .. r /\ (b <= e \/ b > l)
        BY <3>2, <3>3
      <4>2. (b \in 1 .. r /\ (b <= e \/ b > l)) \/ b = e + 1 <=> b \in 1 .. r /\ (b <= e + 1 \/ b > l)
        BY <3>3
      <4>3. Received' = r /\ earlyIdx' = e + 1 /\ Len(stables') = l
        BY <2>1, <2>3, <3>3
      <4> QED
        BY <3>3, <3>6, <4>1, <4>2, <4>3
    <3>9. OrderInv'
      BY <3>6, <3>7, <3>8 DEF OrderInv
    <3> QED
      BY <2>2, <2>5, <3>1, <3>9
  <2> QED
    BY <2>1, <2>4, <2>6, <2>7, MergeBatchOrder
<1>5. CASE Finish
  <2>1. /\ pc = "drain" /\ UNCHANGED <<inputVars, fromScan, fromHandler, stables, earlyIdx, order>>
        /\ pc' \in {"done", "crash"} /\ (flag => earlyIdx = Len(stables))
    BY <1>5 DEF Finish, MergeDeltas, KWayMerge
  <2>2. InputInv' /\ NumBatches' = NumBatches /\ flag' = flag
    BY <2>1, InputKept
  <2>3. Received' = Received
    BY <2>1, <2>2 DEF Received
  <2>4. ControlInv'
    BY <2>1, <2>2 DEF ControlInv
  <2>5. EarlyInv'
    BY <2>1, <2>2, <2>3 DEF EarlyInv
  <2>6. OrderInv'
    BY <2>1, <2>2, <2>3 DEF OrderInv
  <2> QED
    BY <2>2, <2>4, <2>5, <2>6
<1>6. CASE UNCHANGED vars
  <2>1. UNCHANGED <<inputVars, fromScan, fromHandler, stables, earlyIdx, order, pc>>
    BY <1>6 DEF vars
  <2>2. InputInv' /\ NumBatches' = NumBatches /\ flag' = flag
    BY <2>1, InputKept
  <2>3. Received' = Received
    BY <2>1, <2>2 DEF Received
  <2> QED
    BY <2>1, <2>2, <2>3 DEF ControlInv, EarlyInv, OrderInv
<1> QED
  BY <1>1, <1>2, <1>3, <1>4, <1>5, <1>6 DEF Next, Stopped

(* The invariant holds from the start.                                     *)
LEMMA MergeInit == Init => MergeInv
<1> SUFFICES ASSUME Init PROVE MergeInv
  OBVIOUS
<1>1. InputInv
  <2>1. PICK f \in Families : \E in \in Input(f) : flag = in.flag /\ stable = in.stable
    BY DEF Init
  <2>2. PICK in \in Input(f) : flag = in.flag /\ stable = in.stable
    BY <2>1
  <2>3. in.stable \in Seq(Nat \X Nat) /\ (in.flag => in.stable # <<>>)
    BY MergeAssumption
  <2> QED
    BY <2>2, <2>3 DEF InputInv
<1>2. NumBatches \in Nat /\ NumBatches >= 1
  BY <1>1, BatchNumber
<1>3. /\ fromScan = 0 /\ fromHandler = 0 /\ stables = <<>> /\ earlyIdx = 0 /\ order = <<>> /\ pc = "run"
  BY DEF Init
<1>4. Received = 0
  BY <1>2, <1>3 DEF Received
<1>5. ControlInv
  BY <1>2, <1>3 DEF ControlInv
<1>6. EarlyInv
  BY <1>3, <1>4 DEF EarlyInv
<1>7. OrderInv
  BY <1>3 DEF OrderInv
<1> QED
  BY <1>1, <1>5, <1>6, <1>7 DEF MergeInv

(* Every batch is merged exactly once before the deltas are, and batch 1   *)
(* first, whichever of the batches and the deltas arrive first.            *)
THEOREM OncePerBatch == Spec => []BatchesMergedOnce
<1>1. MergeInv => BatchesMergedOnce
  <2> SUFFICES ASSUME MergeInv, pc = "done", flag
               PROVE  Len(order) = NumBatches /\ Elems(order) = 1 .. NumBatches /\ order[1] = 1
    BY DEF BatchesMergedOnce
  <2>1. NumBatches \in Nat /\ NumBatches >= 1
    BY BatchNumber DEF MergeInv
  <2>2. fromScan = NumBatches + 1 /\ fromHandler = 2 /\ earlyIdx = Len(stables)
    BY DEF MergeInv, ControlInv
  <2>3. Received = NumBatches
    BY <2>1, <2>2 DEF Received
  <2>4. /\ order \in Seq(Nat) /\ Len(order) = earlyIdx + (Received - Len(stables))
        /\ \A b \in Nat : b \in Elems(order) <=> b \in 1 .. Received /\ (b <= earlyIdx \/ b > Len(stables))
        /\ OnceFrom1(order)
    BY <2>2 DEF MergeInv, OrderInv
  <2>5. PICK l \in Nat : l = Len(stables) /\ l = earlyIdx
    BY <2>2 DEF MergeInv, EarlyInv
  <2>6. Len(order) = NumBatches
    BY <2>1, <2>3, <2>4, <2>5
  <2>7. Elems(order) \subseteq Nat
    BY <2>4 DEF Elems
  <2>8. \A b \in Nat : b \in Elems(order) <=> b \in 1 .. NumBatches
    BY <2>1, <2>3, <2>4, <2>5
  <2>9. Elems(order) = 1 .. NumBatches
    <3>1. 1 .. NumBatches \subseteq Nat
      BY <2>1
    <3> QED
      BY <2>7, <2>8, <3>1, Zenon
  <2>10. order # <<>>
    BY <2>1, <2>6
  <2> QED
    BY <2>4, <2>6, <2>9, <2>10 DEF OnceFrom1
<1> QED
  BY <1>1, MergeInit, MergeStep, PTL DEF Spec

-----------------------------------------------------------------------------
(* The chunks.                                                             *)

(* Sequences of whatever.                                                  *)
IsSeq(s) == \E S : s \in Seq(S)

(* Chunks that are all full, and chunks of which at most one is short.     *)
Full(q) == IsSeq(q) /\ \A i \in DOMAIN q : Len(q[i]) = ChunkSize
FullButOne(q) ==
    /\ IsSeq(q)
    /\ \A i \in DOMAIN q : Len(q[i]) \in 1 .. ChunkSize
    /\ \A i, j \in DOMAIN q : Len(q[i]) # ChunkSize /\ Len(q[j]) # ChunkSize => i = j

DeltaList == Seq([ts : Nat, rows : Seq([key : Nat \X Nat, ver : Nat, type : Type])])

(* Without deltas a chunk is a batch; with deltas the chunks in the queue  *)
(* are full and hold rows that were merged.                                *)
ChunkInv ==
    /\ deltas \in DeltaList /\ IsSeq(evaluated) /\ FullButOne(queue)
    /\ ~flag /\ pc \in {"run", "drain"} => queue = <<>>
    /\ flag /\ deltas = <<>> =>
         /\ pc # "crash" /\ Len(queue) = Len(order)
         /\ \A i \in DOMAIN queue : Len(queue[i]) = BatchEnd(order[i]) - BatchBegin(order[i])
    /\ flag /\ deltas # <<>> /\ pc \in {"run", "drain"} =>
         Full(queue) /\ Len(queue) * ChunkSize <= Len(evaluated)

(* A sequence and its places.                                              *)
LEMMA SeqPlaces ==
    ASSUME NEW s, IsSeq(s)
    PROVE  Len(s) \in Nat /\ DOMAIN s = 1 .. Len(s) /\ (s = <<>> <=> Len(s) = 0)
BY DEF IsSeq

(* A function on a beginning of the numbers is a sequence.                 *)
LEMMA FunctionIsSeq ==
    ASSUME NEW n \in Nat, NEW s, DOMAIN s = 1 .. n, s = [i \in DOMAIN s |-> s[i]]
    PROVE  IsSeq(s) /\ Len(s) = n
<1> DEFINE S == {s[i] : i \in 1 .. n}
<1>1. s \in [1 .. n -> S]
  OBVIOUS
<1>2. s \in Seq(S)
  BY <1>1
<1>3. Len(s) = n
  BY <1>1
<1> QED
  BY <1>2, <1>3 DEF IsSeq

(* The places of a concatenation.                                          *)
LEMMA Concat ==
    ASSUME NEW s, NEW t, IsSeq(s), IsSeq(t)
    PROVE  /\ IsSeq(s \o t) /\ Len(s \o t) = Len(s) + Len(t)
           /\ \A i \in DOMAIN s : (s \o t)[i] = s[i]
           /\ \A i \in DOMAIN (s \o t) : i \in DOMAIN s \/ (i - Len(s) \in DOMAIN t /\ (s \o t)[i] = t[i - Len(s)])
<1>1. PICK S : s \in Seq(S)
  BY DEF IsSeq
<1>2. PICK T : t \in Seq(T)
  BY DEF IsSeq
<1>3. s \in Seq(S \cup T) /\ t \in Seq(S \cup T)
  BY <1>1, <1>2
<1>4. s \o t \in Seq(S \cup T) /\ Len(s \o t) = Len(s) + Len(t)
  BY <1>3
<1>5. /\ Len(s) \in Nat /\ Len(t) \in Nat /\ DOMAIN s = 1 .. Len(s) /\ DOMAIN t = 1 .. Len(t)
      /\ DOMAIN (s \o t) = 1 .. Len(s) + Len(t)
  BY <1>3, <1>4
<1>6. \A i \in 1 .. Len(s) + Len(t) : (s \o t)[i] = IF i <= Len(s) THEN s[i] ELSE t[i - Len(s)]
  BY <1>3
<1>7. \A i \in DOMAIN s : (s \o t)[i] = s[i]
  BY <1>5, <1>6
<1>8. ASSUME NEW i \in DOMAIN (s \o t)
      PROVE  i \in DOMAIN s \/ (i - Len(s) \in DOMAIN t /\ (s \o t)[i] = t[i - Len(s)])
  BY <1>5, <1>6
<1>9. IsSeq(s \o t)
  BY <1>4 DEF IsSeq
<1> QED
  BY <1>4, <1>7, <1>8, <1>9

(* A part of a sequence.                                                   *)
LEMMA Part ==
    ASSUME NEW s, IsSeq(s), NEW a \in Nat, NEW b \in Nat, a >= 1, b <= Len(s), b - a + 1 >= 0
    PROVE  IsSeq(SubSeq(s, a, b)) /\ Len(SubSeq(s, a, b)) = b - a + 1
<1>1. PICK S : s \in Seq(S)
  BY DEF IsSeq
<1>2. a \in 1 .. Len(s) + 1 /\ b \in a - 1 .. Len(s)
  BY <1>1
<1>3. SubSeq(s, a, b) \in Seq(S) /\ Len(SubSeq(s, a, b)) = b - a + 1
  BY <1>1, <1>2, SubSeqProperties
<1> QED
  BY <1>3 DEF IsSeq

(* Cutting rows into chunks leaves at most the last one short.             *)
LEMMA CutInChunks ==
    ASSUME NEW rows, IsSeq(rows)
    PROVE  FullButOne(Chunks(rows))
<1>1. PICK n \in Nat : n = Len(rows)
  BY SeqPlaces
<1>2. PICK c \in Nat : c = ChunkSize /\ c >= 1
  BY MergeAssumption
<1>3. PICK k \in Nat : k = Ceil(n)
  BY CeilBounds
<1>4. /\ n <= c * k /\ (n > 0 => k >= 1 /\ c * (k - 1) < n) /\ (n = 0 => k = 0)
  BY <1>2, <1>3, CeilBounds
<1> DEFINE q == Chunks(rows)
<1> DEFINE E(i) == IF n < c * i THEN n ELSE c * i
<1>5. q = [i \in 1 .. k |-> SubSeq(rows, c * (i - 1) + 1, E(i))]
  BY <1>1, <1>2, <1>3 DEF Chunks
<1> HIDE DEF q
<1>6. IsSeq(q) /\ Len(q) = k /\ DOMAIN q = 1 .. k
  BY <1>5, FunctionIsSeq
<1>7. ASSUME NEW i \in 1 .. k
      PROVE  Len(q[i]) \in 1 .. c /\ (i # k => Len(q[i]) = c)
  <2>1. q[i] = SubSeq(rows, c * (i - 1) + 1, E(i))
    BY <1>5, <1>7
  <2>2. c * (i - 1) \in Nat /\ c * i \in Nat /\ c * i = c * (i - 1) + c
    OBVIOUS
  <2>3. c * (i - 1) <= c * (k - 1)
    OBVIOUS
  <2>4. n > 0 /\ c * (i - 1) < n
    BY <1>4, <2>2, <2>3
  <2>5. E(i) \in Nat /\ E(i) <= n /\ E(i) - c * (i - 1) \in 1 .. c
    BY <1>2, <2>2, <2>4
  <2>6. Len(q[i]) = E(i) - (c * (i - 1) + 1) + 1
    <3>1. PICK a \in Nat, b \in Nat : a = c * (i - 1) + 1 /\ b = E(i)
      BY <2>2, <2>5
    <3>2. a >= 1 /\ b <= Len(rows) /\ b - a + 1 >= 0
      BY <1>1, <2>2, <2>5, <3>1
    <3>3. Len(SubSeq(rows, a, b)) = b - a + 1
      BY <3>2, Part
    <3> QED
      BY <2>1, <3>1, <3>3
  <2>7. Len(q[i]) = E(i) - c * (i - 1)
    BY <2>2, <2>5, <2>6
  <2>8. ASSUME i # k PROVE E(i) = c * i
    <3>1. i <= k - 1
      BY <2>8
    <3>2. c * i <= c * (k - 1)
      BY <3>1
    <3> QED
      BY <1>4, <2>2, <2>4, <3>2
  <2> QED
    BY <2>2, <2>5, <2>7, <2>8
<1> QED
  BY <1>2, <1>6, <1>7 DEF FullButOne, q

(* Full chunks, and then others.                                           *)
LEMMA FullThen ==
    ASSUME NEW q, NEW r, Full(q), FullButOne(r)
    PROVE  FullButOne(q \o r)
<1>1. IsSeq(q) /\ IsSeq(r) /\ ChunkSize \in Nat /\ ChunkSize >= 1
  BY MergeAssumption DEF Full, FullButOne
<1>2. Len(q) \in Nat
  BY <1>1, SeqPlaces
<1> DEFINE a == q \o r
<1>3. /\ IsSeq(a)
      /\ \A i \in DOMAIN q : a[i] = q[i]
      /\ \A i \in DOMAIN a : i \in DOMAIN q \/ (i - Len(q) \in DOMAIN r /\ a[i] = r[i - Len(q)])
  BY <1>1, Concat, Zenon
<1>4. DOMAIN a \subseteq Nat
  BY <1>3, SeqPlaces
<1> HIDE DEF a
<1>5. \A i \in DOMAIN a : Len(a[i]) \in 1 .. ChunkSize
  BY <1>1, <1>3 DEF Full, FullButOne
<1>6. ASSUME NEW i \in DOMAIN a, NEW j \in DOMAIN a, Len(a[i]) # ChunkSize, Len(a[j]) # ChunkSize
      PROVE  i = j
  <2>1. /\ i - Len(q) \in DOMAIN r /\ a[i] = r[i - Len(q)]
        /\ j - Len(q) \in DOMAIN r /\ a[j] = r[j - Len(q)]
    BY <1>3, <1>6 DEF Full
  <2>2. i - Len(q) = j - Len(q)
    BY <1>6, <2>1 DEF FullButOne
  <2> QED
    BY <1>2, <1>4, <2>2
<1> QED
  BY <1>3, <1>5, <1>6 DEF FullButOne, a

(* Full chunks have no short one among them.                               *)
LEMMA FullIsFine == ASSUME NEW q, Full(q) PROVE FullButOne(q)
BY MergeAssumption DEF Full, FullButOne

(* The chunk a batch fills.                                                *)
LEMMA NextIsFull ==
    ASSUME NEW rows, IsSeq(rows), Full(queue), Len(queue) * ChunkSize <= Len(rows)
    PROVE  /\ Full(queue \o NextChunk(rows))
           /\ Len(queue \o NextChunk(rows)) * ChunkSize <= Len(rows)
<1>1. PICK c \in Nat : c = ChunkSize /\ c >= 1
  BY MergeAssumption
<1>2. PICK l \in Nat : l = Len(queue)
  BY SeqPlaces DEF Full
<1>3. PICK n \in Nat : n = Len(rows)
  BY SeqPlaces
<1>4. l * c \in Nat /\ l * c <= n
  BY <1>1, <1>2, <1>3
<1>5. CASE n >= l * c + c
  <2>1. PICK a \in Nat, b \in Nat : a = l * c + 1 /\ b = l * c + c
    BY <1>1, <1>4
  <2>2. a >= 1 /\ b <= Len(rows) /\ b - a + 1 >= 0 /\ b - a + 1 = c
    BY <1>1, <1>3, <1>4, <1>5, <2>1
  <2>3. IsSeq(SubSeq(rows, a, b)) /\ Len(SubSeq(rows, a, b)) = c
    BY <2>2, Part
  <2>4. PICK x : x = SubSeq(rows, a, b)
    OBVIOUS
  <2>5. NextChunk(rows) = <<x>>
    BY <1>1, <1>2, <1>3, <1>5, <2>1, <2>4 DEF NextChunk
  <2>6. Len(x) = c
    BY <2>3, <2>4
  <2>7. IsSeq(<<x>>) /\ Len(<<x>>) = 1 /\ DOMAIN <<x>> = {1} /\ <<x>>[1] = x
    <3>1. <<x>> \in Seq({x}) /\ Len(<<x>>) = 1 /\ <<x>>[1] = x
      OBVIOUS
    <3>2. DOMAIN <<x>> = {1}
      BY <3>1
    <3>3. IsSeq(<<x>>)
      BY <3>1, Zenon DEF IsSeq
    <3> QED
      BY <3>1, <3>2, <3>3
  <2>8. IsSeq(queue)
    BY DEF Full
  <2>9. PICK y : y = <<x>>
    OBVIOUS
  <2>10. /\ IsSeq(queue \o y) /\ Len(queue \o y) = Len(queue) + Len(y)
         /\ \A i \in DOMAIN queue : (queue \o y)[i] = queue[i]
         /\ \A i \in DOMAIN (queue \o y) :
              i \in DOMAIN queue \/ (i - Len(queue) \in DOMAIN y /\ (queue \o y)[i] = y[i - Len(queue)])
    BY <2>7, <2>8, <2>9, Concat
  <2>11. \A i \in DOMAIN (queue \o y) : Len((queue \o y)[i]) = ChunkSize
    BY <1>1, <2>6, <2>7, <2>9, <2>10 DEF Full
  <2>12. Len(queue \o y) = l + 1 /\ (l + 1) * c = l * c + c
    BY <1>2, <2>7, <2>9, <2>10
  <2> QED
    BY <1>1, <1>3, <1>5, <2>5, <2>9, <2>10, <2>11, <2>12 DEF Full
<1>6. CASE ~(n >= l * c + c)
  <2>1. NextChunk(rows) = <<>>
    BY <1>1, <1>2, <1>3, <1>6 DEF NextChunk
  <2>2. queue \o <<>> = queue
    BY DEF Full, IsSeq
  <2> QED
    BY <2>1, <2>2
<1> QED
  BY <1>5, <1>6

(* The rows of a part of the object, and the rows a bitmap keeps of them.  *)
LEMMA StableIsSeq ==
    ASSUME NEW b \in Int, NEW e \in Int, b <= e
    PROVE  IsSeq(StableRows(b, e)) /\ Len(StableRows(b, e)) = e - b
BY FunctionIsSeq DEF StableRows

(* evaluate returns a sequence of rows.                                    *)
LEMMA EvaluateIsSeq == ASSUME NEW s, NEW P, IsFiniteSet(P) PROVE IsSeq(Evaluate(s, P))
<1>1. PICK n \in Nat : n = Cardinality(P)
  BY FS_CardinalityType
<1>2. DOMAIN Evaluate(s, P) = 1 .. n /\ Evaluate(s, P) = [i \in DOMAIN Evaluate(s, P) |-> Evaluate(s, P)[i]]
  BY <1>1 DEF Evaluate, At
<1> QED
  BY <1>2, FunctionIsSeq

(* The rows of a batch are finitely many.                                  *)
LEMMA KeptIsFinite == ASSUME NEW bm, NEW b \in Int, NEW e \in Int PROVE IsFiniteSet(Kept(bm, b, e))
<1>1. Kept(bm, b, e) \in SUBSET (1 .. e - b)
  BY DEF Kept
<1>2. IsFiniteSet(1 .. e - b)
  <2>1. PICK d \in Int : d = e - b
    OBVIOUS
  <2>2. IsFiniteSet(1 .. d)
    BY FS_Interval
  <2> QED
    BY <2>1, <2>2
<1> QED
  BY <1>1, <1>2, FS_Subset

(* Leaving out the type column keeps the sequence.                         *)
LEMMA PlainIsSeq == ASSUME NEW rows, IsSeq(rows) PROVE IsSeq(Plain(rows))
<1>1. PICK n \in Nat : DOMAIN rows = 1 .. n
  BY SeqPlaces
<1>2. DOMAIN Plain(rows) = 1 .. n /\ Plain(rows) = [i \in DOMAIN Plain(rows) |-> Plain(rows)[i]]
  BY <1>1 DEF Plain
<1> QED
  BY <1>2, FunctionIsSeq

(* The size of a batch: only the last one is short.                        *)
LEMMA BatchRows ==
    ASSUME InputInv, flag, NEW n \in 1 .. NumBatches
    PROVE  /\ BatchBegin(n) \in Int /\ BatchEnd(n) \in Int
           /\ BatchEnd(n) - BatchBegin(n) \in 1 .. ChunkSize
           /\ n # NumBatches => BatchEnd(n) - BatchBegin(n) = ChunkSize
<1>1. PICK c \in Nat : c = ChunkSize /\ c >= 1
  BY MergeAssumption
<1>2. PICK l \in Nat : l = Len(stable) /\ l > 0
  BY DEF InputInv
<1>3. PICK k \in Nat : k = NumBatches /\ k = Ceil(l)
  BY <1>2, CeilBounds DEF NumBatches
<1>4. l <= c * k /\ c * (k - 1) < l
  BY <1>1, <1>2, <1>3, CeilBounds
<1>5. BatchBegin(n) = c * (n - 1) /\ BatchEnd(n) = IF l < c * n THEN l ELSE c * n
  BY <1>1, <1>2 DEF BatchBegin, BatchEnd, BatchSize
<1>6. n \in 1 .. k
  BY <1>3
<1>7. c * (n - 1) \in Nat /\ c * n \in Nat /\ c * n = c * (n - 1) + c
  BY <1>6
<1>8. c * (n - 1) <= c * (k - 1)
  BY <1>6
<1>9. n # k => c * n <= c * (k - 1)
  BY <1>6
<1> QED
  BY <1>1, <1>2, <1>3, <1>4, <1>5, <1>7, <1>8, <1>9

(* The rows of a delta are a sequence.                                     *)
LEMMA RowsAreSeq ==
    ASSUME deltas \in DeltaList, NEW i \in DOMAIN deltas
    PROVE  IsSeq(deltas[i].rows)
<1> DEFINE R == Seq([key : Nat \X Nat, ver : Nat, type : Type])
<1> DEFINE D == [ts : Nat, rows : R]
<1>1. deltas \in Seq(D)
  BY DEF DeltaList
<1>2. deltas[i] \in D
  <2> HIDE DEF D
  <2> QED
    BY <1>1
<1>3. deltas[i].rows \in R
  <2> HIDE DEF R
  <2> QED
    BY <1>2
<1> QED
  BY <1>3 DEF IsSeq

(* There are finitely many keys.                                           *)
LEMMA KeysAreFinite == ASSUME InputInv, deltas \in DeltaList PROVE IsFiniteSet(AllKeys)
<1>1. Len(stable) \in Nat /\ Len(deltas) \in Nat /\ DOMAIN stable = 1 .. Len(stable) /\ DOMAIN deltas = 1 .. Len(deltas)
  BY DEF InputInv, DeltaList
<1>2. IsFiniteSet(DOMAIN stable) /\ IsFiniteSet(DOMAIN deltas)
  BY <1>1, FS_Interval
<1>3. IsFiniteSet({stable[i] : i \in DOMAIN stable})
  <2> DEFINE T == {stable[i] : i \in DOMAIN stable}
  <2>1. stable \in Surjection(DOMAIN stable, T)
    BY DEF Surjection, InputInv
  <2> QED
    BY <1>2, <2>1, FS_Surjection
<1>4. ASSUME NEW i \in DOMAIN deltas PROVE IsFiniteSet(DeltaKeys(i))
  <2>1. PICK n \in Nat : DOMAIN deltas[i].rows = 1 .. n
    BY RowsAreSeq, SeqPlaces
  <2> DEFINE g == [j \in 1 .. n |-> deltas[i].rows[j].key]
  <2>2. g \in Surjection(1 .. n, DeltaKeys(i))
    BY <2>1 DEF Surjection, DeltaKeys
  <2> QED
    BY <2>2, FS_Interval, FS_Surjection
<1>5. IsFiniteSet({DeltaKeys(i) : i \in DOMAIN deltas})
  <2> DEFINE T == {DeltaKeys(i) : i \in DOMAIN deltas}
  <2> DEFINE g == [i \in DOMAIN deltas |-> DeltaKeys(i)]
  <2>1. g \in Surjection(DOMAIN deltas, T)
    BY DEF Surjection
  <2> QED
    BY <1>2, <2>1, FS_Surjection
<1>6. IsFiniteSet(UNION {DeltaKeys(i) : i \in DOMAIN deltas})
  <2> DEFINE T == {DeltaKeys(i) : i \in DOMAIN deltas}
  <2>1. IsFiniteSet(T)
    BY <1>5
  <2>2. \A x \in T : IsFiniteSet(x)
    BY <1>4
  <2> HIDE DEF T
  <2>3. IsFiniteSet(UNION T)
    BY ONLY <2>1, <2>2, FS_UNION, Zenon
  <2> QED
    BY <2>3 DEF T
<1> QED
  BY <1>3, <1>6, FS_Union DEF AllKeys

(* The rows of the plain merge are a sequence.                             *)
LEMMA PositionsAreSeq ==
    ASSUME InputInv, deltas \in DeltaList PROVE \E n \in Nat : DOMAIN DeltasPositions = 1 .. n
<1> DEFINE keep == {k \in AllKeys : Decider(k) # 0 /\ TypeAt(Decider(k), k) # "DELETE"}
<1>1. IsFiniteSet(keep)
  BY KeysAreFinite, FS_Subset
<1>2. Cardinality(keep) \in Nat
  BY <1>1, FS_CardinalityType
<1>3. DOMAIN DeltasPositions = 1 .. Cardinality(keep)
  BY DEF DeltasPositions
<1> QED
  BY <1>2, <1>3

(* A batch of the batched merge keeps the chunks, whichever batch it is.   *)
LEMMA MergeBatchChunks ==
    ASSUME MergeInv, MergeInv', ChunkInv, flag, pc \in {"run", "drain"}, UNCHANGED inputVars,
           fromHandler' > 0, NEW n \in 1 .. NumBatches, MergeBatch(n)
    PROVE  ChunkInv'
<1>0. flag' = flag /\ stable' = stable /\ deltas' = deltas /\ NumBatches' = NumBatches
  BY InputKept DEF MergeInv
<1>1. BatchBegin(n) \in Int /\ BatchEnd(n) \in Int /\ BatchEnd(n) - BatchBegin(n) \in 1 .. ChunkSize
  BY BatchRows DEF MergeInv
<1>2. /\ \A m : BatchEnd(m)' = BatchEnd(m)
      /\ \A m : BatchBegin(m)' = BatchBegin(m)
  BY <1>0 DEF BatchBegin, BatchEnd, BatchSize
<1>3. IsSeq(queue) /\ IsSeq(evaluated) /\ ChunkSize \in Nat
  BY MergeAssumption DEF ChunkInv, FullButOne
<1>4. CASE deltas = <<>>
  <2>1. /\ queue' = Append(queue, StableRows(BatchBegin(n), BatchEnd(n))) /\ evaluated' = evaluated
        /\ order' = Append(order, n) /\ pc' = pc
    BY <1>4 DEF MergeBatch
  <2>2. PICK x : x = StableRows(BatchBegin(n), BatchEnd(n))
    OBVIOUS
  <2>3. Len(x) = BatchEnd(n) - BatchBegin(n)
    <3>1. PICK b \in Int, e \in Int : b = BatchBegin(n) /\ e = BatchEnd(n)
      BY <1>1
    <3>2. b <= e
      BY <1>1, <1>3, <3>1
    <3>3. Len(StableRows(b, e)) = e - b
      BY <3>2, StableIsSeq
    <3> QED
      BY <2>2, <3>1, <3>3
  <2>4. PICK l \in Nat : l = Len(queue) /\ l = Len(order) /\ DOMAIN queue = 1 .. l
    BY <1>3, <1>4, SeqPlaces DEF ChunkInv
  <2>5. order \in Seq(Nat) /\ DOMAIN order = 1 .. l
    BY <2>4 DEF MergeInv, OrderInv
  <2>6. /\ Len(order') = l + 1 /\ DOMAIN order' = 1 .. l + 1
        /\ \A i \in 1 .. l : order'[i] = order[i]
        /\ order'[l + 1] = n
    BY <2>1, <2>4, <2>5
  <2>7. /\ IsSeq(queue') /\ Len(queue') = l + 1 /\ DOMAIN queue' = 1 .. l + 1
        /\ \A i \in 1 .. l : queue'[i] = queue[i]
        /\ queue'[l + 1] = x
    <3>1. PICK S : queue \in Seq(S)
      BY <1>3 DEF IsSeq
    <3>2. queue \in Seq(S \cup {x}) /\ x \in S \cup {x}
      BY <3>1
    <3>3. queue' \in Seq(S \cup {x})
      BY <2>1, <2>2, <3>2
    <3> QED
      BY <2>1, <2>2, <2>4, <3>2, <3>3 DEF IsSeq
  <2>8. \A i \in DOMAIN queue' : Len(queue'[i]) = BatchEnd(order'[i]) - BatchBegin(order'[i])
    <3> TAKE i \in DOMAIN queue'
    <3>1. CASE i \in 1 .. l
      BY <1>4, <2>4, <2>6, <2>7, <3>1 DEF ChunkInv
    <3>2. CASE i = l + 1
      BY <2>3, <2>6, <2>7, <3>2
    <3> QED
      BY <2>4, <2>7, <3>1, <3>2
  <2>9. /\ OnceFrom1(order')
        /\ \A b \in Nat : b \in Elems(order') => b \in 1 .. Received'
    BY <1>0, <2>1 DEF MergeInv, OrderInv
  <2>10. \A i \in DOMAIN order' : order'[i] \in 1 .. NumBatches
    <3>1. NumBatches \in Nat
      BY BatchNumber DEF MergeInv
    <3>2. Received' \in Nat /\ Received' <= NumBatches
      BY <1>0, <3>1 DEF Received, MergeInv, ControlInv
    <3>3. \A i \in DOMAIN order' : order'[i] \in Nat /\ order'[i] \in Elems(order')
      BY DEF MergeInv, OrderInv, Elems
    <3> QED
      BY <2>9, <3>1, <3>2, <3>3
  <2>11. \A i \in DOMAIN queue' : Len(queue'[i]) \in 1 .. ChunkSize
    BY <2>6, <2>7, <2>8, <2>10, BatchRows DEF MergeInv
  <2>12. \A i, j \in DOMAIN queue' : Len(queue'[i]) # ChunkSize /\ Len(queue'[j]) # ChunkSize => i = j
    <3>1. \A i \in DOMAIN queue' : Len(queue'[i]) # ChunkSize => order'[i] = NumBatches
      BY <2>6, <2>7, <2>8, <2>10, BatchRows DEF MergeInv
    <3> QED
      BY <2>6, <2>7, <2>9, <3>1 DEF OnceFrom1
  <2>13. FullButOne(queue')
    BY <2>7, <2>11, <2>12 DEF FullButOne
  <2> QED
    BY <1>0, <1>2, <1>3, <1>4, <2>1, <2>6, <2>7, <2>8, <2>13 DEF ChunkInv
<1>5. CASE deltas # <<>> /\ stableBm = None
  BY <1>0, <1>5 DEF MergeBatch, ChunkInv
<1>6. CASE deltas # <<>> /\ stableBm # None
  <2>1. PICK bm : /\ evaluated' = evaluated \o Evaluate(StableRows(BatchBegin(n), BatchEnd(n)),
                                                 Kept(bm, BatchBegin(n), BatchEnd(n)))
                  /\ queue' = queue \o NextChunk(evaluated')
    BY <1>6 DEF MergeBatch
  <2>2. pc' = pc
    BY <1>6 DEF MergeBatch
  <2>3. IsSeq(Evaluate(StableRows(BatchBegin(n), BatchEnd(n)), Kept(bm, BatchBegin(n), BatchEnd(n))))
    BY <1>1, KeptIsFinite, EvaluateIsSeq
  <2>4. PICK x : x = Evaluate(StableRows(BatchBegin(n), BatchEnd(n)), Kept(bm, BatchBegin(n), BatchEnd(n)))
    OBVIOUS
  <2>5. IsSeq(evaluated') /\ Len(evaluated') = Len(evaluated) + Len(x) /\ Len(x) \in Nat /\ Len(evaluated) \in Nat
    BY <1>3, <2>1, <2>3, <2>4, Concat, SeqPlaces
  <2>6. Full(queue) /\ Len(queue) * ChunkSize <= Len(evaluated) /\ Len(queue) \in Nat
    BY <1>3, <1>6, SeqPlaces DEF ChunkInv
  <2>7. Len(queue) * ChunkSize <= Len(evaluated')
    <3>1. PICK m \in Nat : m = Len(queue) * ChunkSize
      BY <1>3, <2>6
    <3>2. m <= Len(evaluated) + Len(x)
      BY <2>5, <2>6, <3>1
    <3> QED
      BY <2>5, <3>1, <3>2
  <2>8. Full(queue') /\ Len(queue') * ChunkSize <= Len(evaluated')
    BY <2>1, <2>5, <2>6, <2>7, NextIsFull
  <2>9. FullButOne(queue')
    BY <2>8, FullIsFine
  <2> QED
    BY <1>0, <1>6, <2>2, <2>5, <2>8, <2>9 DEF ChunkInv
<1> QED
  BY <1>4, <1>5, <1>6

(* A step that merges nothing keeps the chunks.                            *)
LEMMA ChunksKept ==
    ASSUME ChunkInv, UNCHANGED <<inputVars, evaluated, queue, order>>,
           pc' = pc \/ (pc \in {"run", "drain"} /\ pc' \in {"run", "drain"})
    PROVE  ChunkInv'
<1>1. flag' = flag /\ stable' = stable /\ deltas' = deltas /\ evaluated' = evaluated /\ queue' = queue /\ order' = order
  BY DEF inputVars
<1>2. /\ \A m : BatchEnd(m)' = BatchEnd(m)
      /\ \A m : BatchBegin(m)' = BatchBegin(m)
  BY <1>1 DEF BatchBegin, BatchEnd, BatchSize
<1>3. pc' \in {"run", "drain"} => pc \in {"run", "drain"}
  OBVIOUS
<1>4. pc' = "crash" => pc = "crash"
  OBVIOUS
<1> QED
  BY <1>1, <1>2, <1>3, <1>4 DEF ChunkInv

(* The rows left over when the last batch is merged, and those of the      *)
(* deltas, are cut into chunks.                                            *)
LEMMA MergeDeltasChunks ==
    ASSUME MergeInv, ChunkInv, flag, pc = "drain", UNCHANGED <<inputVars, order>>, MergeDeltas
    PROVE  ChunkInv'
<1>0. flag' = flag /\ stable' = stable /\ deltas' = deltas
  BY DEF inputVars
<1>1. /\ \A m : BatchEnd(m)' = BatchEnd(m)
      /\ \A m : BatchBegin(m)' = BatchBegin(m)
  BY <1>0 DEF BatchBegin, BatchEnd, BatchSize
<1>2. IsSeq(queue) /\ IsSeq(evaluated) /\ deltas \in DeltaList
  BY DEF ChunkInv, FullButOne
<1>3. CASE deltas = <<>>
  <2>1. pc' = "done" /\ UNCHANGED <<evaluated, queue>>
    BY <1>3 DEF MergeDeltas
  <2> QED
    BY <1>0, <1>1, <1>3, <2>1 DEF ChunkInv
<1>4. CASE deltas # <<>>
  <2> DEFINE kept == IF NumBatches = 1 THEN DOMAIN MemRows ELSE memKept
  <2> DEFINE old == IF Size > 1 THEN Evaluate(deltas[Size].rows, kept) ELSE <<>>
  <2> DEFINE all == evaluated \o Plain(old \o deltas[1].rows)
  <2>1. Size \in Nat /\ 1 \in DOMAIN deltas /\ (Size > 1 => Size \in DOMAIN deltas)
    BY <1>2, <1>4 DEF Size, DeltaList
  <2>2. CASE pc' = "crash"
    <3>1. UNCHANGED <<evaluated, queue>>
      BY <1>4, <2>2 DEF MergeDeltas
    <3> QED
      BY <1>0, <1>4, <2>2, <3>1 DEF ChunkInv
  <2>3. CASE pc' # "crash"
    <3>1. /\ pc' = "done" /\ evaluated' = all /\ (Size > 1 => kept \subseteq DOMAIN deltas[Size].rows)
          /\ queue' = queue \o Chunks(SubSeq(all, Len(queue) * ChunkSize + 1, Len(all)))
      BY <1>4, <2>3 DEF MergeDeltas
    <3>2. IsSeq(old)
      <4>1. CASE Size > 1
        <5>1. PICK n \in Nat : DOMAIN deltas[Size].rows = 1 .. n
          BY <1>2, <2>1, <4>1, RowsAreSeq, SeqPlaces
        <5>2. IsFiniteSet(1 .. n)
          BY FS_Interval
        <5>3. kept \in SUBSET (1 .. n)
          BY <3>1, <4>1, <5>1
        <5> HIDE DEF kept
        <5>4. IsFiniteSet(kept)
          BY <5>2, <5>3, FS_Subset
        <5>5. IsSeq(Evaluate(deltas[Size].rows, kept))
          BY <5>4, EvaluateIsSeq
        <5> QED
          BY <4>1, <5>5
      <4>2. CASE ~(Size > 1)
        <5>1. <<>> \in Seq({})
          OBVIOUS
        <5> QED
          BY <4>2, <5>1 DEF IsSeq
      <4> QED
        BY <4>1, <4>2
    <3> HIDE DEF old
    <3>3. IsSeq(deltas[1].rows)
      BY <1>2, <2>1, RowsAreSeq
    <3>4. PICK x : x = Plain(old \o deltas[1].rows)
      OBVIOUS
    <3>5. IsSeq(x)
      BY <3>2, <3>3, <3>4, Concat, PlainIsSeq
    <3>6. IsSeq(all) /\ Len(all) = Len(evaluated) + Len(x)
      BY <1>2, <3>4, <3>5, Concat
    <3> HIDE DEF all
    <3>7. Full(queue) /\ Len(queue) * ChunkSize <= Len(evaluated)
      BY <1>4 DEF ChunkInv
    <3>8. PICK a \in Nat, b \in Nat : a = Len(queue) * ChunkSize /\ b = Len(all) /\ a <= b
      <4>1. Len(queue) \in Nat /\ Len(evaluated) \in Nat /\ Len(x) \in Nat /\ ChunkSize \in Nat
        BY <1>2, <3>5, SeqPlaces, MergeAssumption
      <4>2. PICK l \in Nat, c \in Nat, e \in Nat, y \in Nat :
              l = Len(queue) /\ c = ChunkSize /\ e = Len(evaluated) /\ y = Len(x)
        BY <4>1
      <4>3. l * c \in Nat /\ l * c <= e
        BY <3>7, <4>2
      <4> QED
        BY <3>6, <4>2, <4>3
    <3>9. IsSeq(SubSeq(all, a + 1, b))
      BY <3>6, <3>8, Part
    <3>10. FullButOne(Chunks(SubSeq(all, a + 1, b)))
      BY <3>9, CutInChunks
    <3>11. queue' = queue \o Chunks(SubSeq(all, a + 1, b))
      BY <3>1, <3>8
    <3>12. FullButOne(queue')
      BY <3>7, <3>10, <3>11, FullThen
    <3>13. IsSeq(evaluated')
      BY <3>1, <3>6
    <3> QED
      BY <1>0, <1>2, <1>4, <3>1, <3>12, <3>13 DEF ChunkInv
  <2> QED
    BY <2>2, <2>3
<1> QED
  BY <1>3, <1>4

(* So does the plain merge.                                                *)
LEMMA KWayMergeChunks ==
    ASSUME MergeInv, ChunkInv, ~flag, pc = "drain", UNCHANGED inputVars, deltas # <<>>, KWayMerge
    PROVE  ChunkInv'
<1>0. flag' = flag /\ deltas' = deltas
  BY DEF inputVars
<1>1. deltas \in DeltaList /\ queue = <<>> /\ FullButOne(queue) /\ IsSeq(evaluated)
  BY DEF ChunkInv
<1>2. CASE pc' = "crash"
  <2>1. UNCHANGED <<evaluated, queue>>
    BY <1>2 DEF KWayMerge
  <2> QED
    BY <1>0, <1>1, <1>2, <2>1 DEF ChunkInv
<1>3. CASE pc' # "crash"
  <2> DEFINE bm == [s \in DOMAIN stable |-> Bit(s)]
  <2> DEFINE combined == IF Size > 1 THEN deltas[1].rows \o deltas[Size].rows ELSE deltas[1].rows
  <2>2. pc' = "done"
    BY <1>3 DEF KWayMerge
  <2> DEFINE rows == [n \in DOMAIN DeltasPositions |-> combined[DeltasPositions[n]]]
  <2> DEFINE kept == Evaluate(StableRows(0, Len(stable)), Kept(bm, 0, Len(stable)))
  <2>3. evaluated' = kept \o Plain(rows) /\ queue' = Chunks(evaluated')
    BY <1>3 DEF KWayMerge
  <2> HIDE DEF bm, combined
  <2>4. IsSeq(rows)
    <3>1. PICK m \in Nat : DOMAIN DeltasPositions = 1 .. m
      BY <1>1, PositionsAreSeq DEF MergeInv
    <3>2. DOMAIN rows = 1 .. m /\ rows = [i \in DOMAIN rows |-> rows[i]]
      BY <3>1
    <3> HIDE DEF rows
    <3> QED
      BY <3>2, FunctionIsSeq
  <2>5. IsSeq(kept)
    <3>1. PICK l \in Int : l = Len(stable)
      BY DEF MergeInv, InputInv
    <3>2. IsFiniteSet(Kept(bm, 0, l))
      BY KeptIsFinite
    <3>3. IsSeq(Evaluate(StableRows(0, l), Kept(bm, 0, l)))
      BY <3>2, EvaluateIsSeq
    <3> QED
      BY <3>1, <3>3
  <2> HIDE DEF rows, kept
  <2>6. IsSeq(evaluated')
    BY <2>3, <2>4, <2>5, PlainIsSeq, Concat
  <2>7. FullButOne(queue')
    BY <2>3, <2>6, CutInChunks
  <2> QED
    BY <1>0, <1>1, <2>2, <2>6, <2>7 DEF ChunkInv
<1> QED
  BY <1>2, <1>3

(* Every step keeps the chunks.                                            *)
LEMMA ChunkStep == MergeInv /\ MergeInv' /\ ChunkInv /\ [Next]_vars => ChunkInv'
<1> SUFFICES ASSUME MergeInv, MergeInv', ChunkInv, [Next]_vars PROVE ChunkInv'
  OBVIOUS
<1>0. NumBatches \in Nat /\ NumBatches >= 1
  BY BatchNumber DEF MergeInv
<1>1. CASE RecvTuple
  <2>1. UNCHANGED inputVars /\ pc = "run" /\ fromHandler' = fromHandler /\ fromScan < NumBatches
    BY <1>1 DEF RecvTuple
  <2>2. CASE flag /\ DeltasReceived
    <3>1. MergeBatch(fromScan + 1)
      BY <1>1, <2>2 DEF RecvTuple
    <3>2. fromScan + 1 \in 1 .. NumBatches /\ fromHandler' > 0
      BY <1>0, <2>1, <2>2 DEF MergeInv, ControlInv, DeltasReceived
    <3> QED
      BY <2>1, <2>2, <3>1, <3>2, MergeBatchChunks
  <2>3. CASE ~(flag /\ DeltasReceived)
    <3>1. UNCHANGED <<evaluated, queue, order, pc>>
      BY <1>1, <2>3 DEF RecvTuple
    <3> QED
      BY <2>1, <3>1, ChunksKept
  <2> QED
    BY <2>2, <2>3
<1>2. CASE RecvResponse
  <2>1. UNCHANGED inputVars /\ pc = "run" /\ fromHandler = 0 /\ fromHandler' = 1
    BY <1>2 DEF RecvResponse
  <2>2. CASE flag /\ fromScan > 0
    <3>1. Len(stables) = Received /\ earlyIdx = 0 /\ stables \in Seq(Nat) /\ \A i \in DOMAIN stables : stables[i] = i
      BY <2>1 DEF MergeInv, EarlyInv
    <3>2. Received \in Nat /\ Received > 0
      BY <1>0, <2>2 DEF Received, MergeInv, ControlInv
    <3>3. stables[earlyIdx + 1] = 1
      BY <3>1, <3>2
    <3>4. MergeBatch(1)
      BY <1>2, <2>2, <3>3 DEF RecvResponse
    <3>5. 1 \in 1 .. NumBatches /\ fromHandler' > 0
      BY <1>0, <2>1
    <3> QED
      BY <2>1, <2>2, <3>4, <3>5, MergeBatchChunks
  <2>3. CASE ~(flag /\ fromScan > 0)
    <3>1. UNCHANGED <<evaluated, queue, order, pc>>
      BY <1>2, <2>3 DEF RecvResponse
    <3> QED
      BY <2>1, <3>1, ChunksKept
  <2> QED
    BY <2>2, <2>3
<1>3. CASE RecvComplete
  <2>1. UNCHANGED <<inputVars, evaluated, queue, order>> /\ pc = "run" /\ pc' \in {"run", "drain"}
    BY <1>3 DEF RecvComplete
  <2> QED
    BY <2>1, ChunksKept
<1>4. CASE DrainEarly
  <2>1. /\ UNCHANGED <<inputVars, fromHandler>> /\ pc = "drain" /\ flag /\ earlyIdx < Len(stables)
        /\ MergeBatch(stables[earlyIdx + 1])
    BY <1>4 DEF DrainEarly
  <2>2. /\ stables \in Seq(Nat) /\ (\A i \in DOMAIN stables : stables[i] = i) /\ Len(stables) <= Received
        /\ earlyIdx \in 0 .. Len(stables)
    BY DEF MergeInv, EarlyInv
  <2>3. Received \in Nat /\ Received <= NumBatches /\ fromHandler = 2
    BY <1>0, <2>1 DEF Received, MergeInv, ControlInv
  <2>4. stables[earlyIdx + 1] = earlyIdx + 1 /\ earlyIdx + 1 \in 1 .. NumBatches /\ fromHandler' > 0
    BY <1>0, <2>1, <2>2, <2>3
  <2>5. MergeBatch(earlyIdx + 1)
    BY <2>1, <2>4
  <2> QED
    BY <2>1, <2>4, <2>5, MergeBatchChunks
<1>5. CASE Finish
  <2>1. pc = "drain" /\ UNCHANGED <<inputVars, order>>
    BY <1>5 DEF Finish
  <2>2. CASE flag
    <3>1. MergeDeltas
      BY <1>5, <2>2 DEF Finish
    <3> QED
      BY <2>1, <2>2, <3>1, MergeDeltasChunks
  <2>3. CASE ~flag /\ deltas = <<>>
    <3>1. queue' = Chunks(StableRows(0, Len(stable))) /\ pc' = "done" /\ evaluated' = evaluated
      BY <1>5, <2>3 DEF Finish
    <3>2. Len(stable) \in Int /\ 0 <= Len(stable)
      BY DEF MergeInv, InputInv
    <3>3. IsSeq(StableRows(0, Len(stable)))
      BY <3>2, StableIsSeq
    <3>4. FullButOne(queue')
      BY <3>1, <3>3, CutInChunks
    <3>5. flag' = flag /\ deltas' = deltas
      BY <2>1 DEF inputVars
    <3> QED
      BY <2>3, <3>1, <3>4, <3>5 DEF ChunkInv
  <2>4. CASE ~flag /\ deltas # <<>>
    <3>1. KWayMerge
      BY <1>5, <2>4 DEF Finish
    <3> QED
      BY <2>1, <2>4, <3>1, KWayMergeChunks
  <2> QED
    BY <2>2, <2>3, <2>4
<1>6. CASE UNCHANGED vars
  <2>1. UNCHANGED <<inputVars, evaluated, queue, order, pc>>
    BY <1>6 DEF vars
  <2> QED
    BY <2>1, ChunksKept
<1> QED
  BY <1>1, <1>2, <1>3, <1>4, <1>5, <1>6 DEF Next, Stopped

(* At first there are no chunks.                                           *)
LEMMA ChunkInit == Init => ChunkInv
<1> SUFFICES ASSUME Init PROVE ChunkInv
  OBVIOUS
<1>1. evaluated = <<>> /\ queue = <<>> /\ order = <<>> /\ pc = "run"
  BY DEF Init
<1>2. deltas \in DeltaList
  <2>1. PICK f \in Families : \E in \in Input(f) : deltas = in.deltas
    BY DEF Init
  <2>2. PICK in \in Input(f) : deltas = in.deltas
    BY <2>1
  <2> QED
    BY <2>2, MergeAssumption DEF DeltaList
<1>3. IsSeq(<<>>) /\ Len(<<>>) = 0 /\ DOMAIN <<>> = {}
  <2>1. <<>> \in Seq({}) /\ Len(<<>>) = 0 /\ DOMAIN <<>> = {}
    OBVIOUS
  <2> QED
    BY <2>1 DEF IsSeq
<1>4. ChunkSize \in Nat
  BY MergeAssumption
<1>5. FullButOne(queue) /\ Full(queue)
  BY <1>1, <1>3 DEF FullButOne, Full
<1>6. Len(queue) * ChunkSize <= Len(evaluated)
  BY <1>1, <1>3, <1>4
<1> QED
  BY <1>1, <1>2, <1>3, <1>5, <1>6 DEF ChunkInv

(* At most one chunk of a partition is short and none is empty, in         *)
(* whatever order batches and deltas arrive, and also where the merge      *)
(* ends in a crash.                                                        *)
THEOREM ChunksFullButOne == Spec => []ChunksAreFull
<1>1. ChunkInv => ChunksAreFull
  <2> SUFFICES ASSUME ChunkInv PROVE ChunksAreFull
    OBVIOUS
  <2> DEFINE short == {i \in DOMAIN queue : Len(queue[i]) < ChunkSize}
  <2>1. /\ \A i \in DOMAIN queue : Len(queue[i]) \in 1 .. ChunkSize
        /\ \A i, j \in short : i = j
    BY MergeAssumption DEF ChunkInv, FullButOne
  <2>2. Cardinality(short) <= 1
    <3>1. CASE short = {}
      <4> HIDE DEF short
      <4>1. Cardinality(short) = 0
        BY <3>1, FS_EmptySet
      <4> QED
        BY <4>1
    <3>2. CASE short # {}
      <4>1. PICK i : short = {i}
        BY <2>1, <3>2
      <4> HIDE DEF short
      <4>2. Cardinality(short) = 1
        BY <4>1, FS_Singleton
      <4> QED
        BY <4>2
    <3> QED
      BY <3>1, <3>2
  <2> QED
    BY <2>1, <2>2 DEF ChunksAreFull
<1> QED
  BY <1>1, MergeInit, MergeStep, ChunkInit, ChunkStep, PTL DEF Spec

-----------------------------------------------------------------------------
(* The rows in the chunks.                                                 *)

(* The rows of a queue, by chunk and place in the chunk.                   *)
Places(q) == {x \in (DOMAIN q) \X (1 .. ChunkSize) : x[2] <= Len(q[x[1]])}

(* A row of a chunk is at a place of the queue.                            *)
LEMMA PlacesAre ==
    ASSUME NEW q, NEW i \in DOMAIN q, NEW m \in 1 .. ChunkSize, m <= Len(q[i])
    PROVE  <<i, m>> \in Places(q)
  BY DEF Places

(* Every row of G is at one place of the queue, and nothing else.          *)
LEMMA OnePlaceEach ==
    ASSUME NEW q, IsSeq(q), NEW G,
           \A x \in Places(q) : q[x[1]][x[2]] \in G,
           \A g \in G : \E x \in Places(q) : q[x[1]][x[2]] = g,
           \A x, y \in Places(q) : q[x[1]][x[2]] = q[y[1]][y[2]] => x = y
    PROVE  {q[x[1]][x[2]] : x \in Places(q)} = G /\ Cardinality(Places(q)) = Cardinality(G)
<1>1. PICK n \in Nat : DOMAIN q = 1 .. n
  BY SeqPlaces
<1>2. PICK c \in Nat : c = ChunkSize
  BY MergeAssumption
<1>3. IsFiniteSet(Places(q))
  <2>1. IsFiniteSet(1 .. n) /\ IsFiniteSet(1 .. c)
    BY FS_Interval
  <2>2. IsFiniteSet((1 .. n) \X (1 .. c))
    BY <2>1, FS_Product
  <2>3. Places(q) \subseteq (1 .. n) \X (1 .. c)
    BY <1>1, <1>2 DEF Places
  <2> QED
    BY <2>2, <2>3, FS_Subset
<1> DEFINE v == [x \in Places(q) |-> q[x[1]][x[2]]]
<1>4. v \in Bijection(Places(q), G)
  <2>1. v \in [Places(q) -> G] /\ DOMAIN v = Places(q) /\ \A x \in Places(q) : v[x] = q[x[1]][x[2]]
    OBVIOUS
  <2> HIDE DEF v
  <2>2. \A x, y \in Places(q) : v[x] = v[y] => x = y
    BY <2>1
  <2>3. \A g \in G : \E x \in Places(q) : v[x] = g
    BY <2>1
  <2> QED
    BY <2>1, <2>2, <2>3 DEF Bijection, Injection, Surjection, IsInjective
<1> HIDE DEF v
<1>5. Cardinality(Places(q)) = Cardinality(G)
  <2>1. ExistsBijection(Places(q), G)
    BY <1>4, Zenon DEF ExistsBijection
  <2> QED
    BY <1>3, <2>1, FS_Bijection, FS_CountingElements, Zenon
<1>6. {q[x[1]][x[2]] : x \in Places(q)} = G
  OBVIOUS
<1> QED
  BY <1>5, <1>6

(* The queue holds the rows, in order, in chunks of which all but the last *)
(* are full; Covers: all of the rows.                                      *)
Cut(q, rows) ==
    /\ IsSeq(q) /\ IsSeq(rows)
    /\ \A i \in DOMAIN q : Len(q[i]) \in 1 .. ChunkSize
    /\ \A i \in DOMAIN q : \A m \in 1 .. Len(q[i]) :
         /\ ChunkSize * (i - 1) + m \in DOMAIN rows
         /\ q[i][m] = rows[ChunkSize * (i - 1) + m]
Covers(q, rows) ==
    \A l \in DOMAIN rows : \E i \in DOMAIN q : \E m \in 1 .. Len(q[i]) : l = ChunkSize * (i - 1) + m

(* Chunks that cut up distinct rows hand on each of them once.             *)
LEMMA CutHandsOn ==
    ASSUME NEW q, NEW rows, Cut(q, rows), Covers(q, rows), Distinct(rows)
    PROVE  /\ {q[x[1]][x[2]] : x \in Places(q)} = Elems(rows)
           /\ Cardinality(Places(q)) = Cardinality(Elems(rows))
<1>1. PICK c \in Nat : c = ChunkSize /\ c >= 1
  BY MergeAssumption
<1>2. PICK n \in Nat : DOMAIN q = 1 .. n
  BY SeqPlaces DEF Cut
<1>3. ASSUME NEW i \in DOMAIN q PROVE Len(q[i]) \in Nat /\ Len(q[i]) <= c
  BY <1>1 DEF Cut
<1>4. ASSUME NEW x \in Places(q)
      PROVE  /\ x[1] \in 1 .. n /\ x[2] \in 1 .. c /\ x = <<x[1], x[2]>>
             /\ c * (x[1] - 1) + x[2] \in DOMAIN rows
             /\ q[x[1]][x[2]] = rows[c * (x[1] - 1) + x[2]]
  <2>1. x[1] \in 1 .. n /\ x[2] \in 1 .. c /\ x = <<x[1], x[2]>> /\ x[2] <= Len(q[x[1]])
    BY <1>1, <1>2 DEF Places
  <2>2. x[1] \in DOMAIN q /\ x[2] \in 1 .. Len(q[x[1]])
    BY <1>2, <1>3, <2>1
  <2> QED
    BY <1>1, <2>1, <2>2 DEF Cut
<1>5. \A x \in Places(q) : q[x[1]][x[2]] \in Elems(rows)
  BY <1>4, Zenon DEF Elems
<1>6. ASSUME NEW g \in Elems(rows) PROVE \E x \in Places(q) : q[x[1]][x[2]] = g
  <2>1. PICK l \in DOMAIN rows : g = rows[l]
    BY DEF Elems
  <2>a. PICK i \in DOMAIN q : \E m \in 1 .. Len(q[i]) : l = c * (i - 1) + m
    BY <1>1 DEF Covers
  <2>2. PICK m \in 1 .. Len(q[i]) : l = c * (i - 1) + m
    BY <2>a
  <2>3. m \in 1 .. ChunkSize /\ m <= Len(q[i])
    BY <1>1, <1>3, <2>2
  <2>4. <<i, m>> \in Places(q)
    BY <2>3, PlacesAre
  <2>5. q[i][m] = g
    BY <1>1, <2>1, <2>2 DEF Cut
  <2> QED
    BY <2>4, <2>5
<1>7. ASSUME NEW x \in Places(q), NEW y \in Places(q), q[x[1]][x[2]] = q[y[1]][y[2]]
      PROVE  x = y
  <2>1. c * (x[1] - 1) + x[2] = c * (y[1] - 1) + y[2]
    BY <1>4, <1>7, Zenon DEF Distinct
  <2>2. PICK i \in Nat, j \in Nat, a \in 1 .. c, b \in 1 .. c :
           i = x[1] /\ j = y[1] /\ a = x[2] /\ b = y[2]
    BY <1>4
  <2>3. c * (i - 1) + a = c * (j - 1) + b
    BY <2>1, <2>2
  <2>4. i < j => c * (i - 1) + c <= c * (j - 1)
    <3>1. i < j => c * i <= c * (j - 1)
      OBVIOUS
    <3>2. c * i = c * (i - 1) + c
      OBVIOUS
    <3> QED
      BY <3>1, <3>2
  <2>5. j < i => c * (j - 1) + c <= c * (i - 1)
    <3>1. j < i => c * j <= c * (i - 1)
      OBVIOUS
    <3>2. c * j = c * (j - 1) + c
      OBVIOUS
    <3> QED
      BY <3>1, <3>2
  <2>6. PICK ci \in Int, cj \in Int : ci = c * (i - 1) /\ cj = c * (j - 1)
    OBVIOUS
  <2>7. i = j /\ ci = cj
    BY <2>2, <2>3, <2>4, <2>5, <2>6
  <2>8. a = b
    BY <2>2, <2>3, <2>6, <2>7
  <2> QED
    BY <1>4, <2>2, <2>7, <2>8, Zenon
<1>8. IsSeq(q)
  BY DEF Cut
<1> QED
  BY <1>5, <1>6, <1>7, <1>8, OnePlaceEach, Zenon

(* What Chunks and NextChunk cut.                                          *)
LEMMA SubSeqIs ==
    ASSUME NEW s, IsSeq(s), NEW a \in Nat, NEW b \in Nat, a >= 1, b <= Len(s), b - a + 1 >= 0
    PROVE  /\ IsSeq(SubSeq(s, a, b)) /\ Len(SubSeq(s, a, b)) = b - a + 1
           /\ \A m \in 1 .. b - a + 1 : SubSeq(s, a, b)[m] = s[a + m - 1]
<1>1. PICK S : s \in Seq(S)
  BY DEF IsSeq
<1>2. a \in 1 .. Len(s) + 1 /\ b \in a - 1 .. Len(s)
  BY <1>1
<1>3. /\ SubSeq(s, a, b) \in Seq(S) /\ Len(SubSeq(s, a, b)) = b - a + 1
      /\ \A m \in 1 .. b - a + 1 : SubSeq(s, a, b)[m] = s[a + m - 1]
  BY <1>1, <1>2, SubSeqProperties
<1> QED
  BY <1>3 DEF IsSeq

(* What is cut off the front stays so when rows are added behind.          *)
LEMMA CutExtends ==
    ASSUME NEW q, NEW rows, NEW x, Cut(q, rows), IsSeq(x)
    PROVE  Cut(q, rows \o x)
<1>1. /\ IsSeq(rows \o x) /\ Len(rows \o x) = Len(rows) + Len(x)
      /\ \A l \in DOMAIN rows : (rows \o x)[l] = rows[l]
  BY Concat DEF Cut
<1>2. DOMAIN rows \subseteq DOMAIN (rows \o x)
  <2>1. /\ DOMAIN rows = 1 .. Len(rows) /\ Len(rows) \in Nat /\ Len(x) \in Nat
        /\ DOMAIN (rows \o x) = 1 .. Len(rows \o x)
    BY <1>1, SeqPlaces DEF Cut
  <2> QED
    BY <1>1, <2>1
<1>3. PICK all : all = rows \o x
  OBVIOUS
<1>4. IsSeq(all) /\ DOMAIN rows \subseteq DOMAIN all /\ \A l \in DOMAIN rows : all[l] = rows[l]
  BY <1>1, <1>2, <1>3
<1>5. Cut(q, all)
  BY <1>4, Zenon DEF Cut
<1> QED
  BY <1>3, <1>5

(* The chunks of the last merge cut up all rows.                           *)
LEMMA ChunksCut ==
    ASSUME NEW rows, IsSeq(rows)
    PROVE  Cut(Chunks(rows), rows) /\ Covers(Chunks(rows), rows)
<1>1. PICK n \in Nat : n = Len(rows) /\ DOMAIN rows = 1 .. n
  BY SeqPlaces
<1>2. PICK c \in Nat : c = ChunkSize /\ c >= 1
  BY MergeAssumption
<1>3. PICK k \in Nat : k = Ceil(n)
  BY CeilBounds
<1>4. n <= c * k /\ (n > 0 => k >= 1 /\ c * (k - 1) < n) /\ (n = 0 => k = 0)
  BY <1>2, <1>3, CeilBounds
<1> DEFINE q == Chunks(rows)
<1> DEFINE End(i) == IF n < c * i THEN n ELSE c * i
<1>5. q = [i \in 1 .. k |-> SubSeq(rows, c * (i - 1) + 1, End(i))]
  BY <1>1, <1>2, <1>3 DEF Chunks
<1>6. DOMAIN q = 1 .. k /\ q = [i \in DOMAIN q |-> q[i]] /\ \A i \in 1 .. k : q[i] = SubSeq(rows, c * (i - 1) + 1, End(i))
  BY <1>5
<1> HIDE DEF q
<1>7. IsSeq(q)
  BY <1>6, FunctionIsSeq
<1>8. ASSUME NEW i \in 1 .. k
      PROVE  /\ c * (i - 1) \in Nat /\ c * i \in Nat /\ c * i = c * (i - 1) + c
             /\ c * (i - 1) < n /\ End(i) \in Nat /\ End(i) <= n /\ End(i) - c * (i - 1) \in 1 .. c
             /\ Len(q[i]) = End(i) - c * (i - 1)
             /\ \A m \in 1 .. End(i) - c * (i - 1) : q[i][m] = rows[c * (i - 1) + m]
  <2>1. c * (i - 1) \in Nat /\ c * i \in Nat /\ c * i = c * (i - 1) + c
    OBVIOUS
  <2>2. c * (i - 1) <= c * (k - 1)
    OBVIOUS
  <2>3. n > 0
    BY <1>4
  <2>4. c * (i - 1) < n
    BY <1>4, <2>1, <2>2, <2>3
  <2>5. PICK a \in Nat, b \in Nat : a = c * (i - 1) + 1 /\ b = End(i)
    BY <2>1
  <2>6. a >= 1 /\ b <= Len(rows) /\ b - a + 1 >= 0 /\ b <= n /\ b - a + 1 = End(i) - c * (i - 1) /\ b - a + 1 \in 1 .. c
    BY <1>1, <1>2, <2>1, <2>4, <2>5
  <2>7. Len(SubSeq(rows, a, b)) = b - a + 1 /\ \A m \in 1 .. b - a + 1 : SubSeq(rows, a, b)[m] = rows[a + m - 1]
    BY <2>6, SubSeqIs
  <2>8. q[i] = SubSeq(rows, a, b)
    BY <1>6, <2>5
  <2>9. ASSUME NEW m \in 1 .. End(i) - c * (i - 1) PROVE q[i][m] = rows[c * (i - 1) + m]
    <3>1. m \in 1 .. b - a + 1
      BY <2>6
    <3>2. a + m - 1 = c * (i - 1) + m
      BY <2>1, <2>5, <2>6
    <3> QED
      BY <2>7, <2>8, <3>1, <3>2
  <2> QED
    BY <2>1, <2>4, <2>5, <2>6, <2>7, <2>8, <2>9
<1>9. Cut(q, rows)
  <2>1. ASSUME NEW i \in DOMAIN q PROVE Len(q[i]) \in 1 .. ChunkSize
    BY <1>2, <1>6, <1>8
  <2>2. ASSUME NEW i \in DOMAIN q, NEW m \in 1 .. Len(q[i])
        PROVE  ChunkSize * (i - 1) + m \in DOMAIN rows /\ q[i][m] = rows[ChunkSize * (i - 1) + m]
    <3>1. i \in 1 .. k
      BY <1>6
    <3>2. PICK a \in Nat, e \in Nat : a = c * (i - 1) /\ e = End(i)
      BY <1>8, <3>1
    <3>3. e <= n /\ m \in 1 .. e - a /\ q[i][m] = rows[a + m]
      BY <1>8, <3>1, <3>2
    <3>4. a + m \in 1 .. n
      BY <3>2, <3>3
    <3> QED
      BY <1>1, <1>2, <3>2, <3>3, <3>4
  <2> QED
    BY <1>7, <2>1, <2>2, Zenon DEF Cut
<1>10. ASSUME NEW l \in DOMAIN rows
       PROVE  \E i \in DOMAIN q : \E m \in 1 .. Len(q[i]) : l = ChunkSize * (i - 1) + m
  <2>1. l \in Nat /\ l >= 1 /\ l <= n
    BY <1>1
  <2>2. PICK i \in Nat : i = Ceil(l)
    BY <2>1, CeilBounds
  <2>3. i >= 1 /\ c * (i - 1) < l /\ l <= c * i
    BY <1>2, <2>1, <2>2, CeilBounds
  <2>4. i <= k
    <3>1. SUFFICES ASSUME i >= k + 1 PROVE FALSE
      OBVIOUS
    <3>2. c * k <= c * (i - 1)
      BY <3>1
    <3> QED
      BY <1>4, <2>1, <2>3, <3>2
  <2>5. i \in 1 .. k /\ i \in DOMAIN q
    BY <1>6, <2>3, <2>4
  <2>6. PICK a \in Nat, e \in Nat : a = c * (i - 1) /\ e = End(i) /\ Len(q[i]) = e - a
    BY <1>8, <2>5
  <2>7. l <= e
    BY <2>1, <2>3, <2>6
  <2>8. l - a \in 1 .. Len(q[i]) /\ l = a + (l - a)
    BY <2>1, <2>3, <2>6, <2>7
  <2> QED
    BY <1>2, <2>5, <2>6, <2>8
<1> QED
  BY <1>9, <1>10, Zenon DEF Covers, q

(* More chunks behind full ones.                                           *)
LEMMA CutOn ==
    ASSUME NEW q, NEW rows, NEW r, Full(q), Cut(q, rows), Len(q) * ChunkSize <= Len(rows),
           Cut(r, SubSeq(rows, Len(q) * ChunkSize + 1, Len(rows)))
    PROVE  /\ Cut(q \o r, rows)
           /\ Covers(r, SubSeq(rows, Len(q) * ChunkSize + 1, Len(rows))) => Covers(q \o r, rows)
<1>1. PICK n \in Nat : n = Len(rows) /\ DOMAIN rows = 1 .. n
  BY SeqPlaces DEF Cut
<1>2. PICK c \in Nat : c = ChunkSize /\ c >= 1
  BY MergeAssumption
<1>3. PICK k \in Nat : k = Len(q) /\ DOMAIN q = 1 .. k
  BY SeqPlaces DEF Cut
<1>4. PICK j \in Nat : j = Len(r) /\ DOMAIN r = 1 .. j
  BY SeqPlaces DEF Cut
<1>5. PICK a \in Nat : a = k * c /\ a <= n /\ a = c * k
  BY <1>1, <1>2, <1>3
<1>6. PICK rest : rest = SubSeq(rows, a + 1, n)
  OBVIOUS
<1>7. SubSeq(rows, Len(q) * ChunkSize + 1, Len(rows)) = rest
  BY <1>1, <1>2, <1>3, <1>5, <1>6
<1>8. IsSeq(rest) /\ Len(rest) = n - a /\ DOMAIN rest = 1 .. n - a /\ \A m \in 1 .. n - a : rest[m] = rows[a + m]
  <2>1. PICK b \in Nat : b = a + 1
    OBVIOUS
  <2>2. IsSeq(rows) /\ b >= 1 /\ n <= Len(rows) /\ n - b + 1 >= 0
    BY <1>1, <1>5, <2>1 DEF Cut
  <2>3. IsSeq(SubSeq(rows, b, n)) /\ Len(SubSeq(rows, b, n)) = n - b + 1
        /\ \A m \in 1 .. n - b + 1 : SubSeq(rows, b, n)[m] = rows[b + m - 1]
    BY <2>2, SubSeqIs
  <2>4. DOMAIN SubSeq(rows, b, n) = 1 .. n - b + 1
    BY <2>3, SeqPlaces
  <2>5. n - b + 1 = n - a /\ \A m \in Nat : b + m - 1 = a + m
    BY <2>1
  <2> QED
    BY <1>6, <2>1, <2>3, <2>4, <2>5
<1>9. /\ IsSeq(q \o r) /\ Len(q \o r) = k + j
      /\ \A i \in DOMAIN q : (q \o r)[i] = q[i]
      /\ \A i \in DOMAIN (q \o r) : i \in DOMAIN q \/ (i - k \in DOMAIN r /\ (q \o r)[i] = r[i - k])
  BY <1>3, <1>4, Concat DEF Cut
<1>10. PICK s : s = q \o r
  OBVIOUS
<1>11. /\ IsSeq(s) /\ DOMAIN s = 1 .. k + j
       /\ \A i \in 1 .. k : s[i] = q[i]
       /\ \A i \in 1 .. j : s[k + i] = r[i]
  <2>1. DOMAIN s = 1 .. k + j
    BY <1>9, <1>10, SeqPlaces
  <2>2. ASSUME NEW i \in 1 .. j PROVE s[k + i] = r[i]
    <3>1. PICK l \in Nat : l = k + i
      OBVIOUS
    <3>2. l \in DOMAIN s /\ l \notin DOMAIN q /\ l - k = i
      BY <1>3, <2>1, <3>1
    <3> QED
      BY <1>9, <1>10, <3>1, <3>2
  <2> QED
    BY <1>3, <1>9, <1>10, <2>1, <2>2
<1>12. ASSUME NEW i \in 1 .. j, NEW m \in Int
       PROVE  c * (k + i - 1) + m = a + (c * (i - 1) + m)
  <2>1. c * (k + i - 1) = c * k + c * (i - 1)
    OBVIOUS
  <2> QED
    BY <1>5, <2>1
<1>13. ASSUME NEW i \in DOMAIN s
       PROVE  /\ Len(s[i]) \in 1 .. ChunkSize
              /\ \A m \in 1 .. Len(s[i]) :
                   ChunkSize * (i - 1) + m \in DOMAIN rows /\ s[i][m] = rows[ChunkSize * (i - 1) + m]
  <2>1. CASE i \in 1 .. k
    BY <1>3, <1>11, <2>1 DEF Cut
  <2>2. CASE i \notin 1 .. k
    <3>1. PICK p \in 1 .. j : i = k + p
      <4>1. i - k \in 1 .. j /\ i = k + (i - k)
        BY <1>11, <2>2
      <4> QED
        BY <4>1
    <3>2. s[i] = r[p] /\ Len(s[i]) \in 1 .. c
      BY <1>2, <1>4, <1>7, <1>11, <3>1 DEF Cut
    <3>3. ASSUME NEW m \in 1 .. Len(s[i]) PROVE c * (i - 1) + m \in 1 .. n /\ s[i][m] = rows[c * (i - 1) + m]
      <4>1. PICK l \in Int : l = c * (p - 1) + m
        BY <3>2
      <4>2. l \in 1 .. n - a /\ r[p][m] = rest[l]
        BY <1>2, <1>4, <1>7, <1>8, <3>2, <4>1 DEF Cut
      <4>3. c * (i - 1) + m = a + l
        <5>1. m \in Int
          OBVIOUS
        <5>2. c * (k + p - 1) + m = a + (c * (p - 1) + m)
          BY <1>12, <5>1
        <5> QED
          BY <3>1, <4>1, <5>2
      <4>4. rest[l] = rows[a + l] /\ a + l \in 1 .. n
        BY <1>8, <4>2
      <4> QED
        BY <3>2, <4>2, <4>3, <4>4
    <3> QED
      BY <1>1, <1>2, <3>2, <3>3
  <2> QED
    BY <2>1, <2>2
<1>14. Cut(s, rows)
  BY <1>11, <1>13, Zenon DEF Cut
<1>15. ASSUME Covers(r, rest) PROVE Covers(s, rows)
  <2>1. SUFFICES ASSUME NEW l \in 1 .. n
                 PROVE  \E i \in DOMAIN s : \E m \in 1 .. Len(s[i]) : l = ChunkSize * (i - 1) + m
    BY <1>1, Zenon DEF Covers
  <2>2. CASE l <= a
    <3>1. PICK i \in Nat : i = Ceil(l)
      BY CeilBounds
    <3>a. l \in Nat /\ l > 0
      OBVIOUS
    <3>2. i >= 1 /\ c * (i - 1) < l /\ l <= c * i
      BY <1>2, <3>1, <3>a, CeilBounds
    <3>3. i <= k
      <4>1. SUFFICES ASSUME i >= k + 1 PROVE FALSE
        OBVIOUS
      <4>2. c * k <= c * (i - 1)
        BY <4>1
      <4> QED
        BY <1>5, <2>2, <3>2, <4>2
    <3>4. i \in DOMAIN s /\ Len(s[i]) = c
      BY <1>2, <1>3, <1>11, <3>2, <3>3 DEF Full
    <3>5. PICK b \in Nat : b = c * (i - 1) /\ c * i = b + c
      BY <3>2
    <3>6. l - b \in 1 .. Len(s[i]) /\ l = b + (l - b)
      BY <3>2, <3>4, <3>5
    <3> QED
      BY <1>2, <3>4, <3>5, <3>6
  <2>3. CASE l > a
    <3>1. l - a \in DOMAIN rest
      BY <1>8, <2>3
    <3>2. PICK p \in DOMAIN r : \E m \in 1 .. Len(r[p]) : l - a = c * (p - 1) + m
      BY <1>2, <1>15, <3>1 DEF Covers
    <3>3. PICK m \in 1 .. Len(r[p]) : l - a = c * (p - 1) + m
      BY <3>2
    <3>4. p \in 1 .. j /\ m \in Int
      BY <1>4
    <3>5. s[k + p] = r[p] /\ k + p \in DOMAIN s
      BY <1>11, <3>4
    <3>6. l = c * (k + p - 1) + m
      <4>1. PICK b \in Int : b = c * (p - 1)
        BY <3>4
      <4>2. c * (k + p - 1) + m = a + (b + m)
        BY <1>12, <3>4, <4>1
      <4> QED
        BY <3>3, <3>4, <4>1, <4>2
    <3>7. PICK i \in Nat : i = k + p
      BY <3>4
    <3>8. m \in 1 .. Len(s[i]) /\ l = ChunkSize * (i - 1) + m
      <4>1. r[p] = s[i]
        BY <3>5, <3>7
      <4>2. m \in 1 .. Len(s[i])
        BY <4>1, Zenon
      <4>3. l = c * (i - 1) + m
        <5>1. k + p - 1 = i - 1
          BY <3>4, <3>7
        <5> QED
          BY <3>6, <5>1, Zenon
      <4> QED
        BY <1>2, <4>2, <4>3, Zenon
    <3> QED
      BY <3>5, <3>7, <3>8
  <2> QED
    BY <2>2, <2>3
<1> QED
  BY <1>7, <1>10, <1>14, <1>15

-----------------------------------------------------------------------------
(* The search for a key in a batch.                                        *)

(* One step of the search.                                                 *)
Choice(v, num, mid, left, right) == IF v = num THEN mid ELSE IF v > num THEN left ELSE right
Middle(x) == (x[1] + x[2]) \div 2
Body(f, column, num, x) ==
    IF x[1] > x[2] THEN -1
    ELSE Choice(column[Middle(x) + 1], num, Middle(x), f[<<x[1], Middle(x) - 1>>], f[<<Middle(x) + 1, x[2]>>])
Ranges(last) == (0 .. last + 1) \X (-1 .. last)
Searches(f, column, last, num) == f = [x \in Ranges(last) |-> Body(f, column, num, x)]

(* The search as the function that satisfies its recursion.                *)
LEMMA SearchChosen ==
    ASSUME NEW column, NEW last, NEW num
    PROVE  BinarySearch(column, last, num) = (CHOOSE f : Searches(f, column, last, num))[<<0, last>>]
  BY Zenon DEF BinarySearch, Searches, Body, Choice, Middle, Ranges

(* A column in ascending order of L values, of which g is the number of    *)
(* the one equal to num, -1 if there is none.  The last value is no less   *)
(* than num, so the search does not come to the place behind it; Behind is *)
(* what it would return there.                                             *)
Sought(column, L, num, g) ==
    /\ L \in Nat \ {0} /\ num \in Nat /\ g \in -1 .. L - 1
    /\ \A i \in 1 .. L : column[i] \in Nat
    /\ \A i, j \in 1 .. L : i < j => column[i] < column[j]
    /\ column[L] >= num
    /\ g >= 0 => column[g + 1] = num
    /\ g = -1 => \A i \in 1 .. L : column[i] # num
Behind(column, L, num) == Choice(column[L + 1], num, L, -1, -1)
Answer(column, L, num, g, p, r) ==
    IF p = L /\ r = L THEN Behind(column, L, num)
    ELSE IF g >= 0 /\ p <= g /\ g <= r THEN g ELSE -1

(* One comparison of the search, if the two halves answer right.           *)
LEMMA ChoiceAnswers ==
    ASSUME NEW column, NEW L, NEW num, NEW g, Sought(column, L, num, g),
           NEW p \in 0 .. L, NEW r \in 0 .. L, p <= r, NEW mid, mid = (p + r) \div 2,
           NEW a, a = Answer(column, L, num, g, p, mid - 1),
           NEW b, b = Answer(column, L, num, g, mid + 1, r)
    PROVE  Choice(column[mid + 1], num, mid, a, b) = Answer(column, L, num, g, p, r)
<1>1. mid \in 0 .. L /\ p <= mid /\ mid <= r /\ (mid = L => p = L /\ r = L)
  <2>1. L \in Nat
    BY DEF Sought
  <2>2. mid \in Int /\ p <= mid /\ mid <= r
    BY <2>1
  <2>3. mid = L => p = L /\ r = L
    BY <2>1
  <2> QED
    BY <2>1, <2>2, <2>3
<1>2. PICK v : v = column[mid + 1]
  OBVIOUS
<1>5. CASE mid = L
  <2>1. a = -1 /\ b = -1
    BY <1>1, <1>5 DEF Answer, Sought
  <2> QED
    BY <1>1, <1>2, <1>5, <2>1, Zenon DEF Answer, Behind
<1>6. CASE mid # L
  <2>1. mid + 1 \in 1 .. L /\ L \in Nat /\ v \in Nat /\ num \in Nat
    BY <1>1, <1>2, <1>6 DEF Sought
  <2>2. a = IF g >= 0 /\ p <= g /\ g <= mid - 1 THEN g ELSE -1
    BY <1>1, <2>1 DEF Answer
  <2>3. b = (IF g >= 0 /\ mid + 1 <= g /\ g <= r THEN g ELSE -1) \/ (mid + 1 = L /\ r = L)
    BY <2>1 DEF Answer
  <2>4. g \in -1 .. L - 1 /\ (g >= 0 => g + 1 \in 1 .. L /\ column[g + 1] = num)
    BY <2>1 DEF Sought
  <2>5. CASE v = num
    <3>1. g = mid
      <4>1. g # -1
        BY <1>2, <2>1, <2>5 DEF Sought
      <4>2. PICK h \in 1 .. L, k \in 1 .. L : h = g + 1 /\ k = mid + 1
        BY <2>1, <2>4, <4>1
      <4>3. column[h] = column[k] /\ column[h] \in Nat
        <5>1. g >= 0 /\ column[g + 1] = num
          BY <2>1, <2>4, <4>1
        <5>2. column[h] = num
          BY <4>2, <5>1, Zenon
        <5>3. column[k] = num
          BY <1>2, <2>5, <4>2, Zenon
        <5> QED
          BY <2>1, <5>2, <5>3
      <4>4. ~(h < k) /\ ~(k < h)
        BY <4>3 DEF Sought
      <4> QED
        BY <1>1, <2>1, <2>4, <4>2, <4>4
    <3>2. Choice(v, num, mid, a, b) = mid
      BY <2>1, <2>5 DEF Choice
    <3> QED
      BY <1>1, <1>2, <1>6, <2>1, <3>1, <3>2 DEF Answer
  <2>6. CASE v > num
    <3>1. g < mid
      BY <1>2, <2>1, <2>4, <2>6 DEF Sought
    <3>2. Choice(v, num, mid, a, b) = a
      BY <2>1, <2>6 DEF Choice
    <3>3. ~(p = L /\ r = L)
      BY <1>1, <1>6
    <3> QED
      BY <1>1, <1>2, <2>1, <2>2, <2>4, <3>1, <3>2, <3>3 DEF Answer
  <2>7. CASE v < num
    <3>1. g = -1 \/ mid < g
      BY <1>2, <2>1, <2>4, <2>7 DEF Sought
    <3>2. Choice(v, num, mid, a, b) = b
      BY <2>1, <2>7 DEF Choice
    <3>3. ~(p = L /\ r = L)
      BY <1>1, <1>6
    <3>4. mid + 1 # L
      BY <1>2, <2>1, <2>7 DEF Sought
    <3> QED
      BY <1>1, <1>2, <2>1, <2>3, <2>4, <3>1, <3>2, <3>3, <3>4 DEF Answer
  <2> QED
    BY <2>1, <2>5, <2>6, <2>7
<1> QED
  BY <1>5, <1>6

(* The same for one call of the search, on any range.                      *)
LEMMA BodyIs ==
    ASSUME NEW column, NEW L, NEW num, NEW g, Sought(column, L, num, g),
           NEW last, last = L - 1 \/ last = L, NEW x \in Ranges(last), NEW f,
           x[1] <= x[2] =>
             /\ f[<<x[1], Middle(x) - 1>>] = Answer(column, L, num, g, x[1], Middle(x) - 1)
             /\ f[<<Middle(x) + 1, x[2]>>] = Answer(column, L, num, g, Middle(x) + 1, x[2])
    PROVE  Body(f, column, num, x) = Answer(column, L, num, g, x[1], x[2])
<1>1. L \in Nat /\ L >= 1 /\ last \in Nat /\ last <= L /\ g \in -1 .. L - 1
  BY DEF Sought
<1>2. PICK p \in Int, r \in Int : x[1] = p /\ x[2] = r /\ p \in 0 .. last + 1 /\ r \in -1 .. last
  BY <1>1 DEF Ranges
<1>3. CASE p > r
  <2>1. Body(f, column, num, x) = -1
    BY <1>2, <1>3 DEF Body
  <2>2. Answer(column, L, num, g, p, r) = -1
    BY <1>1, <1>2, <1>3 DEF Answer
  <2> QED
    BY <1>2, <2>1, <2>2
<1>4. CASE ~(p > r)
  <2>1. p \in 0 .. L /\ r \in 0 .. L /\ p <= r
    BY <1>1, <1>2, <1>4
  <2>2. PICK mid, a, b : mid = (p + r) \div 2 /\ a = f[<<p, mid - 1>>] /\ b = f[<<mid + 1, r>>]
    OBVIOUS
  <2>3. Middle(x) = mid
    BY <1>2, <2>2 DEF Middle
  <2>4. a = Answer(column, L, num, g, p, mid - 1) /\ b = Answer(column, L, num, g, mid + 1, r)
    BY <1>2, <2>1, <2>2, <2>3
  <2>5. Choice(column[mid + 1], num, mid, a, b) = Answer(column, L, num, g, p, r)
    BY <2>1, <2>2, <2>4, ChoiceAnswers
  <2>6. Body(f, column, num, x) = Choice(column[mid + 1], num, mid, a, b)
    BY <1>2, <1>4, <2>2, <2>3 DEF Body
  <2> QED
    BY <1>2, <2>5, <2>6
<1> QED
  BY <1>3, <1>4

(* The parts of a range that the search goes on with.                      *)
LEMMA Halves ==
    ASSUME NEW last \in Nat, NEW x \in Ranges(last), x[1] <= x[2]
    PROVE  /\ <<x[1], Middle(x) - 1>> \in Ranges(last) /\ <<Middle(x) + 1, x[2]>> \in Ranges(last)
           /\ x[1] \in Int /\ x[2] \in Int /\ Middle(x) \in Int /\ x[1] <= Middle(x) /\ Middle(x) <= x[2]
<1>1. PICK p \in Int, r \in Int : x[1] = p /\ x[2] = r /\ p \in 0 .. last + 1 /\ r \in -1 .. last
  BY DEF Ranges
<1>2. PICK mid \in Int : mid = (p + r) \div 2
  OBVIOUS
<1>3. p <= mid /\ mid <= r
  BY <1>1, <1>2
<1>4. Middle(x) = mid
  BY <1>1, <1>2 DEF Middle
<1>5. mid - 1 \in -1 .. last /\ mid + 1 \in 0 .. last + 1
  BY <1>1, <1>3
<1> QED
  BY <1>1, <1>3, <1>4, <1>5 DEF Ranges

(* The search of binarySearch returns the row of the key sought, or -1.    *)
LEMMA SearchFinds ==
    ASSUME NEW column, NEW L, NEW num, NEW g, Sought(column, L, num, g), NEW last, last = L - 1 \/ last = L
    PROVE  BinarySearch(column, last, num) = g
<1> DEFINE Ans(x) == Answer(column, L, num, g, x[1], x[2])
<1>1. L \in Nat /\ L >= 1 /\ last \in Nat /\ last <= L /\ g \in -1 .. last
  BY DEF Sought
<1>2. \E f : Searches(f, column, last, num)
  <2> DEFINE f == [x \in Ranges(last) |-> Ans(x)]
  <2>1. \A x \in Ranges(last) : f[x] = Ans(x)
    OBVIOUS
  <2>a. f = [x \in Ranges(last) |-> f[x]]
    OBVIOUS
  <2> HIDE DEF f
  <2>2. ASSUME NEW x \in Ranges(last) PROVE f[x] = Body(f, column, num, x)
    <3>1. ASSUME x[1] <= x[2]
          PROVE  /\ f[<<x[1], Middle(x) - 1>>] = Answer(column, L, num, g, x[1], Middle(x) - 1)
                 /\ f[<<Middle(x) + 1, x[2]>>] = Answer(column, L, num, g, Middle(x) + 1, x[2])
      <4>1. <<x[1], Middle(x) - 1>> \in Ranges(last) /\ <<Middle(x) + 1, x[2]>> \in Ranges(last)
        BY <1>1, <3>1, Halves
      <4> QED
        BY <2>1, <4>1
    <3>2. Body(f, column, num, x) = Answer(column, L, num, g, x[1], x[2])
      BY <3>1, BodyIs
    <3> QED
      BY <2>1, <3>2
  <2>3. f = [x \in Ranges(last) |-> Body(f, column, num, x)]
    BY <2>a, <2>2
  <2> QED
    BY <2>3 DEF Searches
<1>3. PICK f : f = CHOOSE h : Searches(h, column, last, num)
  OBVIOUS
<1>4. Searches(f, column, last, num)
  BY <1>2, <1>3, Zenon
<1>5. \A x \in Ranges(last) : f[x] = Body(f, column, num, x)
  BY <1>4, Zenon DEF Searches
<1> DEFINE N == {n \in Nat : \A x \in Ranges(last) : x[2] - x[1] + 1 <= n => f[x] = Ans(x)}
<1>6. \A x \in Ranges(last) : x[1] \in Int /\ x[2] \in Int
  BY <1>1 DEF Ranges
<1>7. 0 \in N
  <2>1. ASSUME NEW x \in Ranges(last), x[2] - x[1] + 1 <= 0 PROVE f[x] = Ans(x)
    <3>1. ~(x[1] <= x[2])
      BY <1>6, <2>1
    <3>a. x[1] <= x[2] =>
            /\ f[<<x[1], Middle(x) - 1>>] = Answer(column, L, num, g, x[1], Middle(x) - 1)
            /\ f[<<Middle(x) + 1, x[2]>>] = Answer(column, L, num, g, Middle(x) + 1, x[2])
      BY <3>1, Zenon
    <3>2. Body(f, column, num, x) = Answer(column, L, num, g, x[1], x[2])
      BY <3>a, BodyIs
    <3> QED
      BY <1>5, <3>2
  <2> HIDE DEF Ans
  <2> QED
    BY <2>1
<1>8. ASSUME NEW n \in Nat, n \in N PROVE n + 1 \in N
  <2>1. ASSUME NEW x \in Ranges(last), x[2] - x[1] + 1 <= n + 1 PROVE f[x] = Ans(x)
    <3>1. ASSUME x[1] <= x[2]
          PROVE  /\ f[<<x[1], Middle(x) - 1>>] = Answer(column, L, num, g, x[1], Middle(x) - 1)
                 /\ f[<<Middle(x) + 1, x[2]>>] = Answer(column, L, num, g, Middle(x) + 1, x[2])
      <4>1. /\ <<x[1], Middle(x) - 1>> \in Ranges(last) /\ <<Middle(x) + 1, x[2]>> \in Ranges(last)
            /\ x[1] \in Int /\ x[2] \in Int /\ Middle(x) \in Int /\ x[1] <= Middle(x) /\ Middle(x) <= x[2]
        BY <1>1, <3>1, Halves
      <4>2. PICK y \in Ranges(last), z \in Ranges(last) : y = <<x[1], Middle(x) - 1>> /\ z = <<Middle(x) + 1, x[2]>>
        BY <4>1
      <4>3. y[1] = x[1] /\ y[2] = Middle(x) - 1 /\ z[1] = Middle(x) + 1 /\ z[2] = x[2]
        BY <4>2
      <4>4. y[2] - y[1] + 1 <= n /\ z[2] - z[1] + 1 <= n
        BY <2>1, <4>1, <4>3
      <4>5. f[y] = Ans(y) /\ f[z] = Ans(z)
        BY <1>8, <4>4
      <4> QED
        BY <4>2, <4>3, <4>5
    <3>2. Body(f, column, num, x) = Answer(column, L, num, g, x[1], x[2])
      BY <3>1, BodyIs
    <3> QED
      BY <1>5, <3>2
  <2> HIDE DEF Ans
  <2> QED
    BY <2>1
<1> HIDE DEF N
<1>9. Nat \subseteq N
  BY <1>7, <1>8, Induction, Zenon
<1>10. PICK y \in Ranges(last) : y = <<0, last>> /\ y[1] = 0 /\ y[2] = last
  <2>1. 0 \in 0 .. last + 1 /\ last \in -1 .. last
    BY <1>1
  <2>2. <<0, last>> \in Ranges(last)
    BY <2>1 DEF Ranges
  <2> QED
    BY <2>2
<1>11. f[y] = Ans(y)
  <2>1. last + 1 \in N
    BY <1>1, <1>9
  <2>2. y[2] - y[1] + 1 <= last + 1
    BY <1>1, <1>10
  <2> HIDE DEF Ans
  <2> QED
    BY <2>1, <2>2 DEF N
<1>12. Ans(y) = g
  BY <1>1, <1>10 DEF Answer
<1>13. BinarySearch(column, last, num) = f[y]
  BY <1>3, <1>10, SearchChosen
<1> QED
  BY <1>11, <1>12, <1>13

-----------------------------------------------------------------------------
(* The rows of a batch.                                                    *)
Batch(n) == BatchBegin(n) + 1 .. BatchEnd(n)

(* The batches are parts of the object, and every row is in one of them.   *)
LEMMA BatchIn ==
    ASSUME InputInv, flag, NEW n \in 1 .. NumBatches
    PROVE  /\ BatchBegin(n) \in Nat /\ BatchEnd(n) \in Nat /\ BatchBegin(n) < BatchEnd(n)
           /\ BatchEnd(n) <= Len(stable) /\ Len(stable) \in Nat /\ DOMAIN stable = 1 .. Len(stable)
           /\ Batch(n) \subseteq DOMAIN stable
<1>1. /\ BatchBegin(n) \in Int /\ BatchEnd(n) \in Int
      /\ BatchEnd(n) - BatchBegin(n) \in 1 .. ChunkSize
  BY BatchRows
<1>2. PICK c \in Nat : c = ChunkSize /\ c >= 1
  BY MergeAssumption
<1>3. PICK l \in Nat : l = Len(stable) /\ DOMAIN stable = 1 .. l
  BY DEF InputInv
<1>4. BatchBegin(n) = c * (n - 1) /\ BatchEnd(n) = IF l < c * n THEN l ELSE c * n
  BY <1>2, <1>3 DEF BatchBegin, BatchEnd, BatchSize
<1>5. c * (n - 1) \in Nat /\ c * n \in Nat
  <2>1. n \in Nat /\ n >= 1
    BY BatchNumber
  <2> QED
    BY <2>1
<1>6. BatchBegin(n) \in Nat /\ BatchEnd(n) <= l
  BY <1>4, <1>5
<1>7. BatchBegin(n) < BatchEnd(n)
  BY <1>1, <1>2
<1> QED
  BY <1>1, <1>3, <1>6, <1>7 DEF Batch

(* Every row of the object is in a batch.                                  *)
LEMMA EachInABatch ==
    ASSUME InputInv, flag, NEW s \in DOMAIN stable
    PROVE  \E n \in 1 .. NumBatches : s \in Batch(n)
<1>2. PICK c \in Nat : c = ChunkSize /\ c >= 1
  BY MergeAssumption
<1>3. PICK l \in Nat : l = Len(stable) /\ DOMAIN stable = 1 .. l
  BY DEF InputInv
<1>4. s \in Nat /\ s >= 1 /\ s <= l
  BY <1>3
<1>5. PICK n \in Nat : n = Ceil(s)
  BY <1>4, CeilBounds
<1>6. n >= 1 /\ c * (n - 1) < s /\ s <= c * n
  BY <1>2, <1>4, <1>5, CeilBounds
<1>7. PICK k \in Nat : k = NumBatches /\ l <= c * k
  BY <1>2, <1>3, CeilBounds DEF NumBatches
<1>8. n <= k
  <2>1. SUFFICES ASSUME n >= k + 1 PROVE FALSE
    OBVIOUS
  <2>2. c * k <= c * (n - 1)
    BY <2>1
  <2> QED
    BY <1>4, <1>6, <1>7, <2>2
<1>9. BatchBegin(n) = c * (n - 1) /\ BatchEnd(n) = IF l < c * n THEN l ELSE c * n
  BY <1>2, <1>3 DEF BatchBegin, BatchEnd, BatchSize
<1>10. s \in Batch(n)
  <2>1. PICK b \in Nat, e \in Nat : b = c * (n - 1) /\ e = c * n
    BY <1>6
  <2> QED
    BY <1>4, <1>6, <1>9, <2>1 DEF Batch
<1> QED
  BY <1>6, <1>7, <1>8, <1>10

(* No row is in two batches.                                               *)
LEMMA BatchesApart ==
    ASSUME InputInv, flag, NEW n \in 1 .. NumBatches, NEW m \in 1 .. NumBatches, NEW s \in Batch(n), s \in Batch(m)
    PROVE  n = m
<1>2. PICK c \in Nat : c = ChunkSize /\ c >= 1
  BY MergeAssumption
<1>3. PICK l \in Nat : l = Len(stable)
  BY DEF InputInv
<1>4. n \in Nat /\ m \in Nat /\ s \in Int
  BY BatchNumber, BatchIn DEF Batch
<1>5. ASSUME NEW i \in Nat, NEW j \in Nat, i < j, s \in Batch(i), s \in Batch(j) PROVE FALSE
  <2>1. BatchEnd(i) = (IF l < c * i THEN l ELSE c * i) /\ BatchBegin(j) = c * (j - 1)
    BY <1>2, <1>3 DEF BatchBegin, BatchEnd, BatchSize
  <2>2. c * i \in Int /\ c * (j - 1) \in Int /\ c * i <= c * (j - 1)
    BY <1>5
  <2>3. s <= BatchEnd(i) /\ BatchBegin(j) + 1 <= s
    BY <1>5 DEF Batch
  <2> QED
    BY <1>4, <2>1, <2>2, <2>3
<1> QED
  BY <1>4, <1>5

(* The key column of the object is in ascending order.                     *)
Ascending == \A s, t \in DOMAIN stable : s < t => stable[s][1] < stable[t][1]

(* Where the search finds a key in a batch.                                *)
LEMMA FoundIs ==
    ASSUME InputInv, flag, NEW n \in 1 .. NumBatches, Ascending, NEW key \in Nat \X Nat
    PROVE  /\ FoundInBatch(n, key) # -1 =>
                \E s \in Batch(n) : s = BatchBegin(n) + 1 + FoundInBatch(n, key) /\ stable[s][1] = key[1]
           /\ \A s \in Batch(n) : stable[s][1] = key[1] =>
                FoundInBatch(n, key) # -1 /\ s = BatchBegin(n) + 1 + FoundInBatch(n, key)
<1>1. PICK b \in Nat, e \in Nat, l \in Nat :
        /\ b = BatchBegin(n) /\ e = BatchEnd(n) /\ l = Len(stable) /\ b < e /\ e <= l /\ DOMAIN stable = 1 .. l
  BY BatchIn
<1>2. PICK L \in Nat : L = e - b /\ L >= 1
  BY <1>1
<1>3. PICK num \in Nat : num = key[1]
  OBVIOUS
<1>4. PICK column : column = [i \in 1 .. L |-> stable[b + i][1]]
  OBVIOUS
<1>5. \A i \in 1 .. L : b + i \in DOMAIN stable /\ column[i] = stable[b + i][1] /\ column[i] \in Nat
  <2>1. \A s \in DOMAIN stable : stable[s][1] \in Nat
    BY DEF InputInv
  <2>2. \A i \in 1 .. L : b + i \in DOMAIN stable
    BY <1>1, <1>2
  <2> QED
    BY <1>4, <2>1, <2>2
<1>6. \A i, j \in 1 .. L : i < j => column[i] < column[j]
  <2> TAKE i, j \in 1 .. L
  <2> HAVE i < j
  <2>1. PICK s \in DOMAIN stable, t \in DOMAIN stable : s = b + i /\ t = b + j
    BY <1>5
  <2>2. s < t
    BY <2>1
  <2>3. stable[s][1] < stable[t][1]
    BY <2>2 DEF Ascending
  <2> QED
    BY <1>5, <2>1, <2>3
<1>7. Batch(n) = b + 1 .. e
  BY <1>1 DEF Batch
<1>8. PICK last : last = (IF composite THEN L - 1 ELSE L)
  OBVIOUS
<1>9. FoundInBatch(n, key) = IF column[L] >= num THEN BinarySearch(column, last, num) ELSE -1
  <2>1. BatchEnd(n) - BatchBegin(n) = L
    BY <1>1, <1>2
  <2>2. column = [i \in 1 .. L |-> stable[BatchBegin(n) + i][1]]
    BY <1>1, <1>4, Zenon
  <2> QED
    BY <1>3, <1>8, <2>1, <2>2, Zenon DEF FoundInBatch
<1>10. CASE ~(column[L] >= num)
  <2>1. ASSUME NEW s \in Batch(n), stable[s][1] = key[1] PROVE FALSE
    <3>1. s \in b + 1 .. e
      BY <1>7
    <3>2. s - b \in 1 .. L /\ b + (s - b) = s
      BY <1>2, <3>1
    <3>3. PICK i \in 1 .. L : i = s - b /\ b + i = s
      BY <3>2
    <3>4. column[i] = num
      BY <1>3, <1>5, <2>1, <3>3
    <3>5. i = L \/ column[i] < column[L]
      BY <1>2, <1>6
    <3>6. column[L] \in Nat
      BY <1>2, <1>5
    <3> QED
      BY <1>10, <3>4, <3>5, <3>6
  <2> QED
    BY <1>9, <1>10, <2>1
<1>11. CASE column[L] >= num
  <2>1. PICK g \in -1 .. L - 1 : (g >= 0 => column[g + 1] = num) /\ (g = -1 => \A i \in 1 .. L : column[i] # num)
    <3>1. CASE \A i \in 1 .. L : column[i] # num
      <4>1. -1 \in -1 .. L - 1 /\ ~(-1 >= 0)
        BY <1>2
      <4> QED
        BY <3>1, <4>1
    <3>2. CASE \E i \in 1 .. L : column[i] = num
      <4>1. PICK i \in 1 .. L : column[i] = num
        BY <3>2
      <4>2. i - 1 \in -1 .. L - 1 /\ (i - 1) + 1 = i /\ i - 1 # -1
        OBVIOUS
      <4> QED
        BY <4>1, <4>2
    <3> QED
      BY <3>1, <3>2
  <2>2. Sought(column, L, num, g)
    <3>1. L \in Nat \ {0}
      BY <1>2
    <3>2. \A i \in 1 .. L : column[i] \in Nat
      BY <1>5
    <3> QED
      BY <1>6, <1>11, <2>1, <3>1, <3>2, Zenon DEF Sought
  <2>3. FoundInBatch(n, key) = g
    <3>1. last = L - 1 \/ last = L
      BY <1>8
    <3>2. BinarySearch(column, last, num) = g
      BY <2>2, <3>1, SearchFinds
    <3> QED
      BY <1>9, <1>11, <3>2
  <2>4. ASSUME g # -1 PROVE \E s \in Batch(n) : s = b + 1 + g /\ stable[s][1] = key[1]
    <3>1. g >= 0 /\ g + 1 \in 1 .. L /\ b + (g + 1) = b + 1 + g
      BY <2>4
    <3>2. b + 1 + g \in b + 1 .. e
      BY <1>2, <2>1, <3>1
    <3>3. column[g + 1] = stable[b + (g + 1)][1]
      BY <1>5, <3>1
    <3> QED
      BY <1>3, <1>7, <2>1, <3>1, <3>2, <3>3
  <2>5. ASSUME NEW s \in Batch(n), stable[s][1] = key[1] PROVE g # -1 /\ s = b + 1 + g
    <3>1. s \in b + 1 .. e
      BY <1>7
    <3>2. s - b \in 1 .. L /\ b + (s - b) = s
      BY <1>2, <3>1
    <3>3. PICK i \in 1 .. L : i = s - b /\ b + i = s
      BY <3>2
    <3>4. column[i] = num /\ column[i] \in Nat
      BY <1>3, <1>5, <2>5, <3>3
    <3>5. g # -1
      BY <2>1, <3>4
    <3>6. PICK h \in 1 .. L : h = g + 1 /\ column[h] = num
      BY <2>1, <3>5
    <3>7. ~(i < h) /\ ~(h < i)
      BY <1>6, <3>4, <3>6
    <3> QED
      BY <3>3, <3>5, <3>6, <3>7
  <2> QED
    BY <1>1, <2>3, <2>4, <2>5
<1> QED
  BY <1>10, <1>11

-----------------------------------------------------------------------------
(* The rows that are merged.                                               *)
StableRow(s) == [key |-> stable[s], ver |-> 0]
PlainRow(r) == [key |-> r.key, ver |-> r.ver]
DistinctKeys(rows) == \A i, j \in DOMAIN rows : rows[i].key = rows[j].key => i = j

(* The stable rows from b to e that a bitmap keeps.                        *)
KeepsRows(rows, bm, b, e) ==
    /\ IsSeq(rows)
    /\ \A r : r \in Elems(rows) <=> \E s \in b + 1 .. e : bm[s] = 1 /\ r = StableRow(s)
    /\ Distinct(stable) => Distinct(rows)
(* The rows evaluate leaves of a batch are those whose bit is set.         *)
LEMMA KeptRows ==
    ASSUME stable \in Seq(Nat \X Nat), NEW b \in Nat, NEW e \in Nat, b <= e, e <= Len(stable), NEW bm,
           NEW rows, rows = Evaluate(StableRows(b, e), Kept(bm, b, e))
    PROVE  KeepsRows(rows, bm, b, e)
<1>1. PICK N \in Nat : N = e - b
  OBVIOUS
<1>2. PICK S, P : S = StableRows(b, e) /\ P = Kept(bm, b, e)
  OBVIOUS
<1>3. /\ DOMAIN S = 1 .. N /\ \A i \in 1 .. N : S[i] = [key |-> stable[b + i], ver |-> 0]
  BY <1>1, <1>2 DEF StableRows
<1>4. P \in SUBSET (1 .. N) /\ \A i \in 1 .. N : i \in P <=> bm[b + i] = 1
  BY <1>1, <1>2 DEF Kept
<1>5. rows = At(S, P)
  BY <1>2 DEF Evaluate
<1>6. Elems(rows) = {S[i] : i \in P} /\ (Distinct(S) => Distinct(rows))
  <2>1. /\ {At(S, P)[n] : n \in DOMAIN At(S, P)} = {S[m] : m \in P}
        /\ Distinct(S) => Distinct(At(S, P))
    BY <1>3, <1>4, AtElements
  <2>2. Elems(At(S, P)) = {At(S, P)[n] : n \in DOMAIN At(S, P)}
    BY Zenon DEF Elems
  <2> QED
    BY <1>5, <2>1, <2>2, Zenon
<1>7. IsSeq(rows)
  <2>1. IsFiniteSet(Kept(bm, b, e))
    BY KeptIsFinite
  <2> QED
    BY <2>1, EvaluateIsSeq
<1>8. ASSUME Distinct(stable) PROVE Distinct(S)
  <2>1. ASSUME NEW i \in 1 .. N, NEW j \in 1 .. N, S[i] = S[j] PROVE i = j
    <3>1. stable[b + i] = stable[b + j]
      <4>1. S[i].key = stable[b + i] /\ S[j].key = stable[b + j]
        BY <1>3
      <4> QED
        BY <2>1, <4>1
    <3>2. b + i \in DOMAIN stable /\ b + j \in DOMAIN stable
      BY <1>1
    <3>3. b + i = b + j
      BY <1>8, <3>1, <3>2 DEF Distinct
    <3> QED
      BY <3>3
  <2> QED
    BY <1>3, <2>1 DEF Distinct
<1>9. ASSUME NEW r PROVE r \in Elems(rows) <=> \E s \in b + 1 .. e : bm[s] = 1 /\ r = StableRow(s)
  <2>1. ASSUME r \in Elems(rows) PROVE \E s \in b + 1 .. e : bm[s] = 1 /\ r = StableRow(s)
    <3>1. PICK i \in P : r = S[i]
      BY <1>6, <2>1
    <3>2. i \in 1 .. N /\ b + i \in b + 1 .. e
      BY <1>1, <1>4
    <3> QED
      BY <1>3, <1>4, <3>1, <3>2 DEF StableRow
  <2>2. ASSUME NEW s \in b + 1 .. e, bm[s] = 1, r = StableRow(s) PROVE r \in Elems(rows)
    <3>1. PICK i \in 1 .. N : b + i = s
      <4>1. s - b \in 1 .. N /\ b + (s - b) = s
        BY <1>1
      <4> QED
        BY <4>1
    <3>2. i \in P /\ S[i] = StableRow(s)
      BY <1>3, <1>4, <2>2, <3>1 DEF StableRow
    <3> QED
      BY <1>6, <2>2, <3>2
  <2> QED
    BY <2>1, <2>2
<1> QED
  BY <1>6, <1>7, <1>8, <1>9 DEF KeepsRows

(* One sequence after another.                                             *)
LEMMA ConcatElems ==
    ASSUME NEW s, NEW t, IsSeq(s), IsSeq(t)
    PROVE  /\ \A r : r \in Elems(s \o t) <=> r \in Elems(s) \/ r \in Elems(t)
           /\ Distinct(s) /\ Distinct(t) /\ Elems(s) \cap Elems(t) = {} => Distinct(s \o t)
<1>1. PICK n \in Nat, m \in Nat : n = Len(s) /\ m = Len(t) /\ DOMAIN s = 1 .. n /\ DOMAIN t = 1 .. m
  BY SeqPlaces
<1>2. PICK a : a = s \o t
  OBVIOUS
<1>3. /\ IsSeq(a) /\ Len(a) = n + m
      /\ \A i \in DOMAIN s : a[i] = s[i]
      /\ \A i \in DOMAIN a : i \in DOMAIN s \/ (i - n \in DOMAIN t /\ a[i] = t[i - n])
  BY <1>1, <1>2, Concat
<1>4. DOMAIN a = 1 .. n + m
  BY <1>3, SeqPlaces
<1>5. \A i \in 1 .. m : n + i \in DOMAIN a /\ a[n + i] = t[i]
  <2> TAKE i \in 1 .. m
  <2>1. PICK l \in Nat : l = n + i
    OBVIOUS
  <2>2. l \in DOMAIN a /\ l \notin DOMAIN s /\ l - n = i
    BY <1>1, <1>4, <2>1
  <2> QED
    BY <1>3, <2>1, <2>2
<1>6. \A i \in DOMAIN s : i \in DOMAIN a
  BY <1>1, <1>4
<1>7. ASSUME NEW r PROVE r \in Elems(a) <=> r \in Elems(s) \/ r \in Elems(t)
  <2>1. r \in Elems(a) => r \in Elems(s) \/ r \in Elems(t)
    BY <1>3, Zenon DEF Elems
  <2>2. r \in Elems(s) => r \in Elems(a)
    BY <1>3, <1>6, Zenon DEF Elems
  <2>3. r \in Elems(t) => r \in Elems(a)
    BY <1>1, <1>5, Zenon DEF Elems
  <2> QED
    BY <2>1, <2>2, <2>3
<1>8. ASSUME Distinct(s), Distinct(t), Elems(s) \cap Elems(t) = {} PROVE Distinct(a)
  <2>1. ASSUME NEW i \in DOMAIN a, NEW j \in DOMAIN a, a[i] = a[j] PROVE i = j
    <3>1. \A h \in DOMAIN s : s[h] \in Elems(s)
      BY DEF Elems
    <3>2. \A h \in DOMAIN t : t[h] \in Elems(t)
      BY DEF Elems
    <3>3. i \in Int /\ j \in Int
      BY <1>4
    <3>4. (i \in DOMAIN s /\ j \in DOMAIN s) \/ (i - n \in DOMAIN t /\ j - n \in DOMAIN t /\ t[i - n] = t[j - n])
      BY <1>3, <1>8, <2>1, <3>1, <3>2
    <3>5. CASE i \in DOMAIN s /\ j \in DOMAIN s
      BY <1>3, <1>8, <2>1, <3>5 DEF Distinct
    <3>6. CASE i - n \in DOMAIN t /\ j - n \in DOMAIN t /\ t[i - n] = t[j - n]
      <4>1. i - n = j - n
        BY <1>8, <3>6 DEF Distinct
      <4> QED
        BY <3>3, <4>1
    <3> QED
      BY <3>4, <3>5, <3>6
  <2> QED
    BY <2>1 DEF Distinct
<1> QED
  BY <1>2, <1>7, <1>8

(* Rows without their type.                                                *)
LEMMA PlainRows ==
    ASSUME NEW rows, IsSeq(rows)
    PROVE  /\ IsSeq(Plain(rows)) /\ DOMAIN Plain(rows) = DOMAIN rows
           /\ \A i \in DOMAIN rows : Plain(rows)[i] = PlainRow(rows[i])
           /\ \A r : r \in Elems(Plain(rows)) <=> \E i \in DOMAIN rows : r = PlainRow(rows[i])
           /\ DistinctKeys(rows) => Distinct(Plain(rows))
<1>1. IsSeq(Plain(rows))
  BY PlainIsSeq
<1>2. DOMAIN Plain(rows) = DOMAIN rows /\ \A i \in DOMAIN rows : Plain(rows)[i] = PlainRow(rows[i])
  BY DEF Plain, PlainRow
<1>3. \A r : r \in Elems(Plain(rows)) <=> \E i \in DOMAIN rows : r = PlainRow(rows[i])
  BY <1>2, Zenon DEF Elems
<1>4. ASSUME DistinctKeys(rows) PROVE Distinct(Plain(rows))
  <2>1. \A i, j \in DOMAIN rows : PlainRow(rows[i]) = PlainRow(rows[j]) => rows[i].key = rows[j].key
    BY DEF PlainRow
  <2>2. ASSUME NEW i \in DOMAIN rows, NEW j \in DOMAIN rows, Plain(rows)[i] = Plain(rows)[j]
        PROVE  i = j
    <3>1. PlainRow(rows[i]) = PlainRow(rows[j])
      BY <1>2, <2>2
    <3>2. rows[i].key = rows[j].key
      BY <2>1, <3>1
    <3> QED
      BY <1>4, <3>2 DEF DistinctKeys
  <2> QED
    BY <1>2, <2>2 DEF Distinct
<1> QED
  BY <1>1, <1>2, <1>3, <1>4

(* The chunk a batch fills is cut from the rows merged.                    *)
LEMMA NextCut ==
    ASSUME NEW rows, Full(queue), Cut(queue, rows), Len(queue) * ChunkSize <= Len(rows)
    PROVE  Cut(queue \o NextChunk(rows), rows)
<1>1. PICK c \in Nat : c = ChunkSize /\ c >= 1
  BY MergeAssumption
<1>2. PICK k \in Nat : k = Len(queue)
  BY SeqPlaces DEF Cut
<1>3. PICK n \in Nat : n = Len(rows) /\ IsSeq(rows)
  BY SeqPlaces DEF Cut
<1>4. PICK a \in Nat : a = k * c /\ a <= n
  BY <1>1, <1>2, <1>3
<1>5. PICK rest : rest = SubSeq(rows, a + 1, n)
  OBVIOUS
<1>6. IsSeq(rest) /\ DOMAIN rest = 1 .. n - a /\ \A m \in 1 .. n - a : rest[m] = rows[a + m]
  <2>1. PICK b \in Nat : b = a + 1
    OBVIOUS
  <2>2. b >= 1 /\ n <= Len(rows) /\ n - b + 1 >= 0
    BY <1>3, <1>4, <2>1
  <2>3. IsSeq(SubSeq(rows, b, n)) /\ Len(SubSeq(rows, b, n)) = n - b + 1
        /\ \A m \in 1 .. n - b + 1 : SubSeq(rows, b, n)[m] = rows[b + m - 1]
    BY <1>3, <2>2, SubSeqIs
  <2>4. DOMAIN SubSeq(rows, b, n) = 1 .. n - b + 1
    BY <2>3, SeqPlaces
  <2>5. n - b + 1 = n - a /\ \A m \in Nat : b + m - 1 = a + m
    BY <2>1
  <2> QED
    BY <1>5, <2>1, <2>3, <2>4, <2>5
<1>7. Cut(NextChunk(rows), rest)
  <2>1. CASE n >= a + c
    <3>1. PICK b \in Nat, e \in Nat : b = a + 1 /\ e = a + c
      OBVIOUS
    <3>2. b >= 1 /\ e <= Len(rows) /\ e - b + 1 >= 0 /\ e - b + 1 = c
      BY <1>1, <1>3, <2>1, <3>1
    <3>3. PICK x : x = SubSeq(rows, b, e)
      OBVIOUS
    <3>4. Len(x) = c /\ \A m \in 1 .. c : x[m] = rows[b + m - 1]
      BY <1>3, <3>2, <3>3, SubSeqIs
    <3>5. NextChunk(rows) = <<x>>
      BY <1>1, <1>2, <1>3, <1>4, <2>1, <3>1, <3>3 DEF NextChunk
    <3>6. IsSeq(<<x>>) /\ DOMAIN <<x>> = {1} /\ <<x>>[1] = x
      <4>1. <<x>> \in Seq({x}) /\ Len(<<x>>) = 1 /\ <<x>>[1] = x
        OBVIOUS
      <4>2. DOMAIN <<x>> = {1}
        BY <4>1
      <4>3. IsSeq(<<x>>)
        BY <4>1, Zenon DEF IsSeq
      <4> QED
        BY <4>1, <4>2, <4>3
    <3>7. PICK y : y = <<x>>
      OBVIOUS
    <3>8. IsSeq(y) /\ DOMAIN y = {1} /\ y[1] = x
      BY <3>6, <3>7
    <3>9. ASSUME NEW m \in 1 .. c PROVE c * (1 - 1) + m \in DOMAIN rest /\ x[m] = rest[c * (1 - 1) + m]
      <4>1. c * (1 - 1) + m = m /\ m \in 1 .. n - a /\ b + m - 1 = a + m
        BY <2>1, <3>1
      <4> QED
        BY <1>6, <3>4, <4>1
    <3>10. Cut(y, rest)
      BY <1>1, <1>6, <3>4, <3>8, <3>9 DEF Cut
    <3> QED
      BY <3>5, <3>7, <3>10
  <2>2. CASE ~(n >= a + c)
    <3>1. NextChunk(rows) = <<>>
      BY <1>1, <1>2, <1>3, <1>4, <2>2 DEF NextChunk
    <3>2. IsSeq(<<>>) /\ DOMAIN <<>> = {}
      <4>1. <<>> \in Seq({})
        OBVIOUS
      <4>2. DOMAIN <<>> = {}
        OBVIOUS
      <4> QED
        BY <4>1, <4>2, Zenon DEF IsSeq
    <3> QED
      BY <1>6, <3>1, <3>2, Zenon DEF Cut
  <2> QED
    BY <2>1, <2>2
<1>8. rest = SubSeq(rows, Len(queue) * ChunkSize + 1, Len(rows))
  BY <1>1, <1>2, <1>3, <1>4, <1>5
<1> QED
  BY <1>7, <1>8, CutOn

-----------------------------------------------------------------------------
(* The rows of the table.                                                  *)

(* The row j of delta i is in the table.                                   *)
Counts(i, j) ==
    deltas[i].rows[j].type # "DELETE" /\ \A h \in 1 .. i - 1 : deltas[i].rows[j].key \notin DeltaKeys(h)

(* A stable row is in the table.                                           *)
Stays(s) == ~InDeltas(stable[s]) /\ (oldBm = None \/ oldBm[s] = 1)

(* The row of a key in a delta.                                            *)
LEMMA IndexIs ==
    ASSUME NEW i, DistinctKeys(deltas[i].rows), NEW j \in DOMAIN deltas[i].rows
    PROVE  IndexIn(i, deltas[i].rows[j].key) = j
BY DEF IndexIn, DistinctKeys

(* The newest delta with a key is the first in the list that has it.       *)
LEMMA NewestIs ==
    ASSUME deltas \in DeltaList, NEW i \in DOMAIN deltas, NEW k, k \in DeltaKeys(i),
           \A h \in 1 .. i - 1 : k \notin DeltaKeys(h)
    PROVE  Newest(k) = i
<1>1. DOMAIN deltas \subseteq Nat /\ \A h \in DOMAIN deltas : h >= 1
  BY DEF DeltaList
<1>2. ASSUME NEW h \in DOMAIN deltas, k \in DeltaKeys(h), \A g \in 1 .. h - 1 : k \notin DeltaKeys(g)
      PROVE  h = i
  <2>1. i \in Nat /\ h \in Nat /\ i >= 1 /\ h >= 1
    BY <1>1
  <2>2. ~(i < h)
    BY <1>2, <2>1
  <2>3. ~(h < i)
    BY <1>2, <2>1
  <2> QED
    BY <2>1, <2>2, <2>3
<1> QED
  BY <1>2 DEF Newest

(* Of every key some delta has, one is the newest.                         *)
LEMMA NewestExists ==
    ASSUME deltas \in DeltaList, NEW k, InDeltas(k)
    PROVE  \E i \in DOMAIN deltas : k \in DeltaKeys(i) /\ \A h \in 1 .. i - 1 : k \notin DeltaKeys(h)
<1> DEFINE T == {i \in DOMAIN deltas : k \in DeltaKeys(i)}
<1>1. PICK n \in Nat : DOMAIN deltas = 1 .. n
  BY DEF DeltaList
<1>2. T \in SUBSET Nat /\ T # {}
  BY <1>1 DEF InDeltas
<1>3. PICK i \in T : \A h \in T : ~(h < i)
  BY <1>2, Least
<1>4. ASSUME NEW h \in 1 .. i - 1 PROVE k \notin DeltaKeys(h)
  <2>1. h \in DOMAIN deltas /\ h < i
    BY <1>1, <1>3
  <2> QED
    BY <1>3, <2>1
<1> QED
  BY <1>3, <1>4

(* The rows of the table: of each delta what no newer one has, and of the  *)
(* object what is not in the deltas and has its bit.                       *)
LEMMA LatestRows ==
    ASSUME deltas \in DeltaList, \A i \in DOMAIN deltas : DistinctKeys(deltas[i].rows), NEW r
    PROVE  r \in Latest <=>
             \/ \E i \in DOMAIN deltas : \E j \in DOMAIN deltas[i].rows :
                  Counts(i, j) /\ r = PlainRow(deltas[i].rows[j])
             \/ \E s \in DOMAIN stable : Stays(s) /\ r = StableRow(s)
<1> DEFINE K == {k \in AllKeys : InDeltas(k) /\ TypeAt(Newest(k), k) # "DELETE"}
<1> DEFINE V(k) == [key |-> k, ver |-> deltas[Newest(k)].rows[IndexIn(Newest(k), k)].ver]
<1>1. r \in Latest <=> (\E k \in K : r = V(k)) \/ \E s \in DOMAIN stable : Stays(s) /\ r = StableRow(s)
  BY Zenon DEF Latest, Stays, StableRow
<1>2. ASSUME NEW i \in DOMAIN deltas, NEW j \in DOMAIN deltas[i].rows,
             \A h \in 1 .. i - 1 : deltas[i].rows[j].key \notin DeltaKeys(h)
      PROVE  /\ Newest(deltas[i].rows[j].key) = i
             /\ IndexIn(i, deltas[i].rows[j].key) = j
             /\ InDeltas(deltas[i].rows[j].key) /\ deltas[i].rows[j].key \in AllKeys
  <2>1. PICK k : k = deltas[i].rows[j].key
    OBVIOUS
  <2>2. k \in DeltaKeys(i)
    BY <2>1 DEF DeltaKeys
  <2>3. Newest(k) = i
    BY <1>2, <2>1, <2>2, NewestIs
  <2>4. IndexIn(i, k) = j
    BY <2>1, IndexIs
  <2>5. InDeltas(k) /\ k \in AllKeys
    BY <2>2 DEF InDeltas, AllKeys
  <2> QED
    BY <2>1, <2>3, <2>4, <2>5
<1>3. ASSUME NEW k \in K, r = V(k)
      PROVE  \E i \in DOMAIN deltas : \E j \in DOMAIN deltas[i].rows :
               Counts(i, j) /\ r = PlainRow(deltas[i].rows[j])
  <2>1. PICK i \in DOMAIN deltas : k \in DeltaKeys(i) /\ \A h \in 1 .. i - 1 : k \notin DeltaKeys(h)
    BY NewestExists
  <2>2. PICK j \in DOMAIN deltas[i].rows : k = deltas[i].rows[j].key
    BY <2>1 DEF DeltaKeys
  <2>3. Newest(k) = i /\ IndexIn(i, k) = j
    BY <1>2, <2>1, <2>2
  <2>4. Counts(i, j)
    BY <2>1, <2>2, <2>3 DEF Counts, TypeAt
  <2>5. r = PlainRow(deltas[i].rows[j])
    BY <1>3, <2>2, <2>3 DEF PlainRow
  <2> QED
    BY <2>4, <2>5
<1>4. ASSUME NEW i \in DOMAIN deltas, NEW j \in DOMAIN deltas[i].rows,
             Counts(i, j), r = PlainRow(deltas[i].rows[j])
      PROVE  \E k \in K : r = V(k)
  <2>1. PICK k : k = deltas[i].rows[j].key
    OBVIOUS
  <2>2. Newest(k) = i /\ IndexIn(i, k) = j /\ InDeltas(k) /\ k \in AllKeys
    BY <1>2, <1>4, <2>1 DEF Counts
  <2>3. k \in K
    BY <1>4, <2>2 DEF Counts, TypeAt
  <2>4. r = V(k)
    BY <1>4, <2>1, <2>2 DEF PlainRow
  <2> QED
    BY <2>3, <2>4
<1> QED
  BY <1>1, <1>3, <1>4

-----------------------------------------------------------------------------
(* The input for which the merge is right.                                 *)

(* The batched merge: the first column is a key, and the object is sorted  *)
(* by it; nothing is deleted; the bitmap leaves out the rows that the      *)
(* memory delta has; the tail is newer, and what it inserts is new.  With  *)
(* one batch the tail may not overwrite rows of the memory delta: they are *)
(* read anew after it.                                                     *)
BatchedInput ==
    /\ Ascending
    /\ \A k, l \in AllKeys : k[1] = l[1] => k = l
    /\ \A i \in DOMAIN deltas : \A j \in DOMAIN deltas[i].rows : deltas[i].rows[j].type # "DELETE"
    /\ deltas = <<>> => oldBm = None
    /\ deltas # <<>> /\ oldBm # None =>
         \A s \in DOMAIN stable : stable[s] \in DeltaKeys(Size) => oldBm[s] = 0
    /\ Size <= 2
    /\ Size = 2 =>
         /\ deltas[1].ts > deltas[2].ts
         /\ NumBatches = 1 => DeltaKeys(1) \cap DeltaKeys(2) = {}
         /\ \A j \in DOMAIN deltas[1].rows : deltas[1].rows[j].type # "UPDATE" =>
              /\ deltas[1].rows[j].key \notin DeltaKeys(2)
              /\ \A s \in DOMAIN stable : stable[s] = deltas[1].rows[j].key => oldBm[s] = 0

(* The plain merge: at most one delta, which is dated, and no bitmap.      *)
PlainInput == oldBm = None /\ Size <= 1 /\ \A i \in DOMAIN deltas : deltas[i].ts > 0

(* No key is twice in the object or in a delta.                            *)
MergeableInput ==
    /\ Distinct(stable)
    /\ \A i \in DOMAIN deltas : DistinctKeys(deltas[i].rows)
    /\ IF flag THEN BatchedInput ELSE PlainInput

-----------------------------------------------------------------------------
(* What the batches merged leave of the bitmap and of the memory delta.    *)

KeysIn(rows) == {rows[j].key : j \in DOMAIN rows}

(* The batch of row s is among the batches o.                              *)
Done(o, s) == \E n \in Elems(o) : s \in Batch(n)

(* The bitmap after the batches o: without the rows the tail overwrites.   *)
BitsAre(o, bm) ==
    /\ bm \in [DOMAIN stable -> 0 .. 1]
    /\ \A s \in DOMAIN stable :
         bm[s] = 1 <=> oldBm[s] = 1 /\ ~(Done(o, s) /\ stable[s] \in KeysIn(TailRows))

(* The memory rows left, and the tail rows that found their match.         *)
MemLeft(kept) ==
    \A i : i \in kept <=> i \in DOMAIN MemRows /\ MemRows[i].key \notin KeysIn(TailRows)
TailSeen(o, sn) ==
    \A j \in sn : \/ TailRows[j].key \in KeysIn(MemRows)
                  \/ \E s \in DOMAIN stable : Done(o, s) /\ stable[s] = TailRows[j].key

(* What MergeableInput says of the two deltas.                             *)
Deltas ==
    /\ \A j \in DOMAIN TailRows :
         /\ TailRows[j].key \in Nat \X Nat
         /\ \A s \in DOMAIN stable : stable[s][1] = TailRows[j].key[1] => stable[s] = TailRows[j].key
         /\ TailRows[j].type # "UPDATE" =>
              /\ TailRows[j].key \notin KeysIn(MemRows)
              /\ \A s \in DOMAIN stable : stable[s] = TailRows[j].key => oldBm[s] = 0
    /\ oldBm # None => \A s \in DOMAIN stable : stable[s] \in KeysIn(MemRows) => oldBm[s] = 0

(* The key of a row of a delta.                                            *)
LEMMA RowIs ==
    ASSUME deltas \in DeltaList, NEW i \in DOMAIN deltas, NEW j \in DOMAIN deltas[i].rows
    PROVE  /\ deltas[i].rows[j].key \in Nat \X Nat /\ deltas[i].rows[j].key \in DeltaKeys(i)
           /\ deltas[i].rows[j].key \in AllKeys
<1> DEFINE W == [key : Nat \X Nat, ver : Nat, type : Type]
<1> DEFINE D == [ts : Nat, rows : Seq(W)]
<1>1. deltas \in Seq(D)
  BY DEF DeltaList
<1>2. deltas[i] \in D
  <2> HIDE DEF D
  <2> QED
    BY <1>1
<1>3. deltas[i].rows \in Seq(W)
  <2> HIDE DEF W
  <2> QED
    BY <1>2
<1>4. deltas[i].rows[j] \in W
  <2> HIDE DEF W
  <2> QED
    BY <1>3
<1>5. deltas[i].rows[j].key \in Nat \X Nat
  BY <1>4
<1>6. deltas[i].rows[j].key \in DeltaKeys(i)
  BY DEF DeltaKeys
<1>7. deltas[i].rows[j].key \in AllKeys
  BY <1>6 DEF AllKeys
<1> QED
  BY <1>5, <1>6, <1>7

(* The memory delta is the last, the tail the first if there are two.      *)
LEMMA DeltasAre ==
    ASSUME flag, MergeableInput, deltas \in DeltaList, deltas # <<>>
    PROVE  /\ Size \in {1, 2} /\ DOMAIN deltas = 1 .. Size
           /\ MemRows = deltas[Size].rows
           /\ Size = 1 => TailRows = <<>>
           /\ Size = 2 => TailRows = deltas[1].rows
<1>1. Size \in {1, 2} /\ DOMAIN deltas = 1 .. Size
  <2>1. Size <= 2
    BY DEF MergeableInput, BatchedInput
  <2>2. IsSeq(deltas)
    BY DEF DeltaList, IsSeq
  <2>3. Size \in Nat /\ DOMAIN deltas = 1 .. Size /\ Size # 0
    BY <2>2, SeqPlaces DEF Size
  <2> QED
    BY <2>1, <2>3
<1>2. CASE Size = 1
  BY <1>1, <1>2 DEF MemRows, MemPos, TailRows
<1>3. CASE Size = 2
  <2>1. PICK x \in Nat, y \in Nat : x = deltas[1].ts /\ y = deltas[2].ts
    <3> DEFINE D == [ts : Nat, rows : Seq([key : Nat \X Nat, ver : Nat, type : Type])]
    <3>1. deltas \in Seq(D)
      BY DEF DeltaList
    <3>2. 1 \in DOMAIN deltas /\ 2 \in DOMAIN deltas
      BY <1>1, <1>3
    <3>3. deltas[1] \in D /\ deltas[2] \in D
      <4> HIDE DEF D
      <4> QED
        BY <3>1, <3>2
    <3>4. deltas[1].ts \in Nat /\ deltas[2].ts \in Nat
      BY <3>3
    <3> QED
      BY <3>4
  <2>2. x > y
    BY <1>3, <2>1 DEF MergeableInput, BatchedInput
  <2>3. DOMAIN deltas = {1, 2}
    BY <1>1, <1>3
  <2>4. MemPos = 2
    <3>1. 1 .. 2 - 1 = {1} /\ 1 .. 1 - 1 = {}
      OBVIOUS
    <3>2. /\ \A j \in DOMAIN deltas : deltas[2].ts <= deltas[j].ts
          /\ \A j \in 1 .. 2 - 1 : deltas[2].ts < deltas[j].ts
      BY <2>1, <2>2, <2>3, <3>1
    <3>3. ~(\A j \in DOMAIN deltas : deltas[1].ts <= deltas[j].ts)
      BY <2>1, <2>2, <2>3
    <3> QED
      BY <1>3, <2>3, <3>2, <3>3 DEF MemPos
  <2>5. TailPos = 1
    <3>1. 1 .. 1 - 1 = {}
      OBVIOUS
    <3>2. /\ \A j \in DOMAIN deltas : deltas[1].ts >= deltas[j].ts
          /\ \A j \in 1 .. 1 - 1 : deltas[1].ts > deltas[j].ts
      BY <2>1, <2>2, <2>3, <3>1
    <3>3. ~(\A j \in DOMAIN deltas : deltas[2].ts >= deltas[j].ts)
      BY <2>1, <2>2, <2>3
    <3> QED
      BY <2>3, <3>2, <3>3 DEF TailPos
  <2> QED
    BY <1>1, <1>3, <2>4, <2>5 DEF MemRows, TailRows
<1> QED
  BY <1>1, <1>2, <1>3

(* An input of the batched merge has the two deltas the next lemmas need.  *)
LEMMA DeltasFit ==
    ASSUME flag, MergeableInput, deltas \in DeltaList, deltas # <<>>
    PROVE  Deltas
<1>1. /\ Size \in {1, 2} /\ DOMAIN deltas = 1 .. Size /\ MemRows = deltas[Size].rows
      /\ Size = 1 => TailRows = <<>>
      /\ Size = 2 => TailRows = deltas[1].rows
  BY DeltasAre
<1>2. KeysIn(MemRows) = DeltaKeys(Size)
  BY <1>1 DEF KeysIn, DeltaKeys
<1>3. ASSUME NEW j \in DOMAIN TailRows
      PROVE  /\ TailRows[j].key \in Nat \X Nat
             /\ \A s \in DOMAIN stable : stable[s][1] = TailRows[j].key[1] => stable[s] = TailRows[j].key
             /\ TailRows[j].type # "UPDATE" =>
                  /\ TailRows[j].key \notin KeysIn(MemRows)
                  /\ \A s \in DOMAIN stable : stable[s] = TailRows[j].key => oldBm[s] = 0
  <2>1. Size = 2
    BY <1>1, <1>3
  <2>2. 1 \in DOMAIN deltas /\ j \in DOMAIN deltas[1].rows /\ TailRows[j] = deltas[1].rows[j]
    BY <1>1, <2>1
  <2>3. TailRows[j].key \in Nat \X Nat /\ TailRows[j].key \in AllKeys
    BY <2>2, RowIs
  <2>4. \A s \in DOMAIN stable : stable[s] \in AllKeys
    BY DEF AllKeys
  <2>5. \A k, l \in AllKeys : k[1] = l[1] => k = l
    BY DEF MergeableInput, BatchedInput
  <2>6. TailRows[j].type # "UPDATE" =>
          /\ TailRows[j].key \notin DeltaKeys(2)
          /\ \A s \in DOMAIN stable : stable[s] = TailRows[j].key => oldBm[s] = 0
    BY <2>1, <2>2 DEF MergeableInput, BatchedInput
  <2> QED
    BY <1>2, <2>1, <2>3, <2>4, <2>5, <2>6
<1>4. oldBm # None => \A s \in DOMAIN stable : stable[s] \in KeysIn(MemRows) => oldBm[s] = 0
  BY <1>2 DEF MergeableInput, BatchedInput
<1> QED
  BY <1>3, <1>4 DEF Deltas

(* Row s of a batch is found by the tail's row j when it has its key.      *)
LEMMA MatchIs ==
    ASSUME InputInv, flag, Ascending, Deltas, NEW n \in 1 .. NumBatches, NEW j \in DOMAIN TailRows
    PROVE  /\ FoundInBatch(n, TailRows[j].key) # -1 =>
                \E s \in Batch(n) : /\ s \in DOMAIN stable /\ stable[s] = TailRows[j].key
                                    /\ s = BatchBegin(n) + 1 + FoundInBatch(n, TailRows[j].key)
           /\ \A s \in Batch(n) : stable[s] = TailRows[j].key =>
                FoundInBatch(n, TailRows[j].key) # -1 /\ s = BatchBegin(n) + 1 + FoundInBatch(n, TailRows[j].key)
<1>1. PICK key \in Nat \X Nat : key = TailRows[j].key
  BY DEF Deltas
<1>2. /\ FoundInBatch(n, key) # -1 =>
           \E s \in Batch(n) : s = BatchBegin(n) + 1 + FoundInBatch(n, key) /\ stable[s][1] = key[1]
      /\ \A s \in Batch(n) : stable[s][1] = key[1] =>
           FoundInBatch(n, key) # -1 /\ s = BatchBegin(n) + 1 + FoundInBatch(n, key)
  BY FoundIs
<1>3. Batch(n) \subseteq DOMAIN stable
  BY BatchIn
<1>4. \A s \in DOMAIN stable : stable[s][1] = key[1] => stable[s] = key
  BY <1>1 DEF Deltas
<1> QED
  BY <1>1, <1>2, <1>3, <1>4

(* One more batch is merged.                                               *)
LEMMA DoneOn ==
    ASSUME NEW o \in Seq(Nat), NEW n \in Nat, NEW s
    PROVE  Done(Append(o, n), s) <=> Done(o, s) \/ s \in Batch(n)
<1>1. PICK a : a = Append(o, n)
  OBVIOUS
<1>2. /\ \A i \in DOMAIN o : i \in DOMAIN a /\ a[i] = o[i]
      /\ Len(o) + 1 \in DOMAIN a /\ a[Len(o) + 1] = n
      /\ \A i \in DOMAIN a : i \in DOMAIN o \/ i = Len(o) + 1
  BY <1>1
<1>3. \A b : b \in Elems(a) <=> b \in Elems(o) \/ b = n
  BY <1>2, Zenon DEF Elems
<1> QED
  BY <1>1, <1>3, Zenon DEF Done

(* The memory delta and the tail before batch n: the first batch reads     *)
(* them, a later one finds what those before it left.                      *)
Arriving(n, kept, unseen, o) ==
    /\ kept \subseteq DOMAIN MemRows /\ unseen \subseteq DOMAIN TailRows
    /\ \A i \in DOMAIN MemRows : MemRows[i].key \notin KeysIn(TailRows) => i \in kept
    /\ \/ unseen = DOMAIN TailRows
       \/ \A i \in kept : MemRows[i].key \notin KeysIn(TailRows)
    /\ TailSeen(o, DOMAIN TailRows \ unseen)

(* What batch n does with the tail and the memory delta.                   *)
Removes(n, kept, unseen, mem, stb, gone) ==
    /\ \A j : j \in mem <=> j \in unseen /\ OverwritesMem(j, kept)
    /\ \A j : j \in stb <=> j \in unseen /\ OverwritesStable(j, kept, n)
    /\ \A s : s \in gone <=> \E j \in stb : s = BatchBegin(n) + 1 + FoundInBatch(n, TailRows[j].key)

(* A batch leaves the rows of the memory delta the tail does not have.     *)
LEMMA MemAfter ==
    ASSUME Deltas, NEW n, NEW kept, NEW unseen, NEW o, Arriving(n, kept, unseen, o),
           NEW mem, NEW stb, NEW gone, Removes(n, kept, unseen, mem, stb, gone),
           NEW left, left = {i \in kept : ~\E j \in mem : MemRows[i].key = TailRows[j].key}
    PROVE  MemLeft(left)
<1>1. ASSUME NEW i \in left PROVE i \in DOMAIN MemRows /\ MemRows[i].key \notin KeysIn(TailRows)
  <2>1. i \in kept /\ i \in DOMAIN MemRows
    BY DEF Arriving
  <2>2. ASSUME MemRows[i].key \in KeysIn(TailRows) PROVE FALSE
    <3>1. PICK j \in DOMAIN TailRows : MemRows[i].key = TailRows[j].key
      BY <2>2 DEF KeysIn
    <3>2. unseen = DOMAIN TailRows
      BY <2>1, <2>2 DEF Arriving
    <3>3. TailRows[j].key \in KeysIn(MemRows)
      BY <2>1, <3>1 DEF KeysIn
    <3>4. TailRows[j].type = "UPDATE"
      BY <3>3 DEF Deltas
    <3>5. OverwritesMem(j, kept)
      BY <2>1, <3>1, <3>4 DEF OverwritesMem
    <3>6. j \in mem
      BY <3>2, <3>5 DEF Removes
    <3> QED
      BY <3>1, <3>6
  <2> QED
    BY <2>1, <2>2
<1>2. ASSUME NEW i \in DOMAIN MemRows, MemRows[i].key \notin KeysIn(TailRows) PROVE i \in left
  <2>1. i \in kept
    BY <1>2 DEF Arriving
  <2>2. ASSUME NEW j \in mem, MemRows[i].key = TailRows[j].key PROVE FALSE
    <3>1. j \in DOMAIN TailRows
      BY DEF Removes, Arriving
    <3> QED
      BY <1>2, <2>2, <3>1 DEF KeysIn
  <2> QED
    BY <2>1, <2>2
<1> QED
  BY <1>1, <1>2 DEF MemLeft

(* A batch marks rows of the tail that found their match.                  *)
LEMMA SeenAfter ==
    ASSUME InputInv, flag, Ascending, Deltas, NEW n \in 1 .. NumBatches, n \in Nat, NEW o \in Seq(Nat),
           NEW kept, NEW unseen, Arriving(n, kept, unseen, o),
           NEW mem, NEW stb, NEW gone, Removes(n, kept, unseen, mem, stb, gone)
    PROVE  TailSeen(Append(o, n), (DOMAIN TailRows \ unseen) \cup mem \cup stb)
<1>1. \A s : Done(Append(o, n), s) <=> Done(o, s) \/ s \in Batch(n)
  BY DoneOn
<1>2. PICK a : a = Append(o, n)
  OBVIOUS
<1>3. \A s : Done(a, s) <=> Done(o, s) \/ s \in Batch(n)
  BY <1>1, <1>2
<1>4. ASSUME NEW j \in (DOMAIN TailRows \ unseen) \cup mem \cup stb
      PROVE  \/ TailRows[j].key \in KeysIn(MemRows)
             \/ \E s \in DOMAIN stable : Done(a, s) /\ stable[s] = TailRows[j].key
  <2>1. CASE j \in DOMAIN TailRows \ unseen
    <3>1. \/ TailRows[j].key \in KeysIn(MemRows)
          \/ \E s \in DOMAIN stable : Done(o, s) /\ stable[s] = TailRows[j].key
      BY <2>1, Zenon DEF Arriving, TailSeen
    <3> QED
      BY <1>3, <3>1
  <2>2. CASE j \in mem
    <3>1. OverwritesMem(j, kept)
      BY <2>2 DEF Removes
    <3>2. PICK i \in kept : MemRows[i].key = TailRows[j].key
      BY <3>1 DEF OverwritesMem
    <3>3. i \in DOMAIN MemRows
      BY DEF Arriving
    <3> QED
      BY <3>2, <3>3 DEF KeysIn
  <2>3. CASE j \in stb
    <3>1. j \in DOMAIN TailRows /\ FoundInBatch(n, TailRows[j].key) # -1
      BY <2>3 DEF Removes, Arriving, OverwritesStable
    <3>2. PICK s \in Batch(n) : s \in DOMAIN stable /\ stable[s] = TailRows[j].key
      BY <3>1, MatchIs
    <3> QED
      BY <1>3, <3>2
  <2> QED
    BY <1>4, <2>1, <2>2, <2>3
<1> QED
  BY <1>2, <1>4 DEF TailSeen

(* A batch clears the bits of its rows that the tail overwrites.           *)
LEMMA BitsAfter ==
    ASSUME InputInv, flag, Ascending, Distinct(stable), Deltas, oldBm # None,
           NEW n \in 1 .. NumBatches, n \in Nat, NEW o \in Seq(Nat),
           \A m \in Elems(o) : m \in 1 .. NumBatches, n \notin Elems(o),
           NEW kept, NEW unseen, Arriving(n, kept, unseen, o),
           NEW mem, NEW stb, NEW gone, Removes(n, kept, unseen, mem, stb, gone),
           NEW old, BitsAre(o, old),
           NEW bm, bm = [s \in DOMAIN stable |-> IF s \in gone THEN 0 ELSE old[s]]
    PROVE  BitsAre(Append(o, n), bm)
<1>1. PICK a : a = Append(o, n)
  OBVIOUS
<1>2. \A s : Done(a, s) <=> Done(o, s) \/ s \in Batch(n)
  BY <1>1, DoneOn
<1>3. ASSUME NEW s \in gone PROVE s \in Batch(n) /\ stable[s] \in KeysIn(TailRows)
  <2>1. PICK j \in stb : s = BatchBegin(n) + 1 + FoundInBatch(n, TailRows[j].key)
    BY DEF Removes
  <2>2. j \in DOMAIN TailRows /\ FoundInBatch(n, TailRows[j].key) # -1
    BY DEF Removes, Arriving, OverwritesStable
  <2>3. s \in Batch(n) /\ stable[s] = TailRows[j].key
    BY <2>1, <2>2, MatchIs
  <2> QED
    BY <2>2, <2>3 DEF KeysIn
<1>4. ASSUME NEW s \in Batch(n), s \in DOMAIN stable, stable[s] \in KeysIn(TailRows), oldBm[s] = 1
      PROVE  s \in gone
  <2>1. PICK j \in DOMAIN TailRows : stable[s] = TailRows[j].key
    BY <1>4 DEF KeysIn
  <2>2. TailRows[j].type = "UPDATE" /\ TailRows[j].key \notin KeysIn(MemRows)
    <3>1. 1 # 0
      OBVIOUS
    <3> QED
      BY <1>4, <2>1, <3>1 DEF Deltas
  <2>3. j \in unseen
    <3>1. SUFFICES ASSUME j \in DOMAIN TailRows \ unseen PROVE FALSE
      OBVIOUS
    <3>2. PICK t \in DOMAIN stable : Done(o, t) /\ stable[t] = TailRows[j].key
      BY <2>2, <3>1, Zenon DEF Arriving, TailSeen
    <3>3. t = s
      BY <1>4, <2>1, <3>2 DEF Distinct
    <3>4. PICK m \in Elems(o) : s \in Batch(m)
      BY <3>2, <3>3 DEF Done
    <3>5. n = m
      BY <3>4, BatchesApart
    <3> QED
      BY <3>4, <3>5
  <2>4. ~OverwritesMem(j, kept)
    BY <2>2 DEF OverwritesMem, Arriving, KeysIn
  <2>5. FoundInBatch(n, TailRows[j].key) # -1 /\ s = BatchBegin(n) + 1 + FoundInBatch(n, TailRows[j].key)
    BY <2>1, MatchIs
  <2>6. j \in stb
    BY <2>2, <2>3, <2>4, <2>5 DEF Removes, OverwritesStable
  <2> QED
    BY <2>5, <2>6 DEF Removes
<1>5. bm \in [DOMAIN stable -> 0 .. 1]
  BY DEF BitsAre
<1>6. ASSUME NEW s \in DOMAIN stable
      PROVE  bm[s] = 1 <=> oldBm[s] = 1 /\ ~(Done(a, s) /\ stable[s] \in KeysIn(TailRows))
  <2>1. old[s] = 1 <=> oldBm[s] = 1 /\ ~(Done(o, s) /\ stable[s] \in KeysIn(TailRows))
    BY Zenon DEF BitsAre
  <2>2. bm[s] = 1 <=> s \notin gone /\ old[s] = 1
    <3>1. bm[s] = IF s \in gone THEN 0 ELSE old[s]
      OBVIOUS
    <3> QED
      BY <3>1
  <2> QED
    BY <1>2, <1>3, <1>4, <2>1, <2>2
<1> QED
  BY <1>1, <1>5, <1>6 DEF BitsAre

(* The rows merged are those of the batches o that the bitmap keeps.       *)
RowsAre(o, bm, rows) ==
    /\ IsSeq(rows) /\ Distinct(rows)
    /\ \A r : r \in Elems(rows) <=> \E s \in DOMAIN stable : Done(o, s) /\ bm[s] = 1 /\ r = StableRow(s)

(* A batch adds its rows with a bit to the rows evaluated.                 *)
LEMMA RowsAfter ==
    ASSUME InputInv, flag, Distinct(stable), NEW n \in 1 .. NumBatches, n \in Nat, NEW o \in Seq(Nat),
           \A m \in Elems(o) : m \in 1 .. NumBatches, n \notin Elems(o),
           NEW old, NEW bm, BitsAre(o, old), BitsAre(Append(o, n), bm),
           NEW ev, RowsAre(o, old, ev),
           NEW rows, rows = Evaluate(StableRows(BatchBegin(n), BatchEnd(n)), Kept(bm, BatchBegin(n), BatchEnd(n)))
    PROVE  IsSeq(rows) /\ RowsAre(Append(o, n), bm, ev \o rows)
<1>1. PICK b \in Nat, e \in Nat : b = BatchBegin(n) /\ e = BatchEnd(n) /\ b <= e /\ e <= Len(stable)
  BY BatchIn
<1>2. /\ IsSeq(rows) /\ Distinct(rows)
      /\ \A r : r \in Elems(rows) <=> \E s \in b + 1 .. e : bm[s] = 1 /\ r = StableRow(s)
  <2>1. stable \in Seq(Nat \X Nat)
    BY DEF InputInv
  <2>2. rows = Evaluate(StableRows(b, e), Kept(bm, b, e))
    BY <1>1
  <2>3. KeepsRows(rows, bm, b, e)
    BY <1>1, <2>1, <2>2, KeptRows
  <2> QED
    BY <2>3 DEF KeepsRows
<1>3. \A r : r \in Elems(rows) <=> \E s \in Batch(n) : bm[s] = 1 /\ r = StableRow(s)
  BY <1>1, <1>2, Zenon DEF Batch
<1>4. PICK a : a = Append(o, n)
  OBVIOUS
<1>5. \A s : Done(a, s) <=> Done(o, s) \/ s \in Batch(n)
  BY <1>4, DoneOn
<1>6. \A s \in DOMAIN stable : Done(o, s) => (bm[s] = 1 <=> old[s] = 1)
  <2> TAKE s \in DOMAIN stable
  <2>1. old[s] = 1 <=> oldBm[s] = 1 /\ ~(Done(o, s) /\ stable[s] \in KeysIn(TailRows))
    BY Zenon DEF BitsAre
  <2>2. bm[s] = 1 <=> oldBm[s] = 1 /\ ~(Done(a, s) /\ stable[s] \in KeysIn(TailRows))
    BY <1>4, Zenon DEF BitsAre
  <2> QED
    BY <1>5, <2>1, <2>2
<1>7. Batch(n) \subseteq DOMAIN stable
  BY BatchIn
<1>8. /\ IsSeq(ev) /\ Distinct(ev)
      /\ \A r : r \in Elems(ev) <=> \E s \in DOMAIN stable : Done(o, s) /\ old[s] = 1 /\ r = StableRow(s)
  BY DEF RowsAre
<1>9. IsSeq(ev \o rows)
  BY <1>2, <1>8, Concat
<1>10. \A r : r \in Elems(ev \o rows) <=> r \in Elems(ev) \/ r \in Elems(rows)
  BY <1>2, <1>8, ConcatElems
<1>11. ASSUME NEW r
       PROVE  r \in Elems(ev \o rows) <=> \E s \in DOMAIN stable : Done(a, s) /\ bm[s] = 1 /\ r = StableRow(s)
  <2>1. r \in Elems(ev) <=> \E s \in DOMAIN stable : Done(o, s) /\ bm[s] = 1 /\ r = StableRow(s)
    BY <1>6, <1>8, Zenon
  <2> QED
    BY <1>3, <1>5, <1>7, <1>10, <2>1, Zenon
<1>12. Elems(ev) \cap Elems(rows) = {}
  <2>1. ASSUME NEW r \in Elems(ev), r \in Elems(rows) PROVE FALSE
    <3>1. PICK s \in DOMAIN stable : Done(o, s) /\ r = StableRow(s)
      BY <1>8
    <3>2. PICK t \in Batch(n) : r = StableRow(t)
      BY <1>3, <2>1
    <3>3. stable[s] = stable[t]
      <4>1. StableRow(s).key = stable[s] /\ StableRow(t).key = stable[t]
        BY DEF StableRow
      <4> QED
        BY <3>1, <3>2, <4>1
    <3>4. s = t
      BY <1>7, <3>3 DEF Distinct
    <3>5. PICK m \in Elems(o) : s \in Batch(m)
      BY <3>1 DEF Done
    <3>6. n = m
      BY <3>4, <3>5, BatchesApart
    <3> QED
      BY <3>5, <3>6
  <2> QED
    BY <2>1
<1>13. Distinct(ev \o rows)
  BY <1>2, <1>8, <1>12, ConcatElems
<1> QED
  BY <1>2, <1>4, <1>9, <1>11, <1>13 DEF RowsAre

(* The batched merge so far.                                               *)
BatchedInv ==
    /\ order = <<>> => stableBm = oldBm /\ evaluated = <<>> /\ queue = <<>>
    /\ order # <<>> =>
         /\ oldBm # None /\ BitsAre(order, stableBm) /\ MemLeft(memKept) /\ TailSeen(order, seen)
         /\ RowsAre(order, stableBm, evaluated)
    /\ Cut(queue, evaluated)

(* The input.                                                              *)
LEMMA NothingYet ==
    ASSUME oldBm \in [DOMAIN stable -> 0 .. 1]
    PROVE  BitsAre(<<>>, oldBm) /\ RowsAre(<<>>, oldBm, <<>>)
<1>1. \A s : ~Done(<<>>, s)
  <2>1. Elems(<<>>) = {}
    BY DEF Elems
  <2> QED
    BY <2>1 DEF Done
<1>2. BitsAre(<<>>, oldBm)
  BY <1>1 DEF BitsAre
<1>3. IsSeq(<<>>) /\ Distinct(<<>>) /\ Elems(<<>>) = {}
  <2>1. <<>> \in Seq({}) /\ DOMAIN <<>> = {}
    OBVIOUS
  <2> QED
    BY <2>1 DEF IsSeq, Distinct, Elems
<1>4. RowsAre(<<>>, oldBm, <<>>)
  BY <1>1, <1>3 DEF RowsAre
<1> QED
  BY <1>2, <1>4

(* A batch is merged.                                                      *)
LEMMA BatchMerged ==
    ASSUME InputInv, flag, deltas \in DeltaList, deltas # <<>>, MergeableInput,
           oldBm = None \/ oldBm \in [DOMAIN stable -> 0 .. 1],
           order \in Seq(Nat), \A m \in Elems(order) : m \in 1 .. NumBatches,
           NEW n \in 1 .. NumBatches, n \in Nat, n \notin Elems(order), n = 1 <=> order = <<>>,
           BatchedInv, Full(queue), Len(queue) * ChunkSize <= Len(evaluated), stableBm # None, MergeBatch(n)
    PROVE  /\ order' = Append(order, n) /\ oldBm # None
           /\ BitsAre(order', stableBm') /\ MemLeft(memKept') /\ TailSeen(order', seen')
           /\ RowsAre(order', stableBm', evaluated')
           /\ Cut(queue', evaluated')
<1>1. Deltas /\ Ascending /\ Distinct(stable)
  BY DeltasFit DEF MergeableInput, BatchedInput
<1>2. oldBm # None /\ oldBm \in [DOMAIN stable -> 0 .. 1]
  BY DEF BatchedInv
<1>3. BitsAre(order, stableBm) /\ RowsAre(order, stableBm, evaluated)
  <2>1. CASE order = <<>>
    BY <1>2, <2>1, NothingYet DEF BatchedInv
  <2>2. CASE order # <<>>
    BY <2>2 DEF BatchedInv
  <2> QED
    BY <2>1, <2>2
<1>4. PICK kept, unseen : /\ kept = (IF n = 1 THEN DOMAIN MemRows ELSE memKept)
                          /\ unseen = (IF n = 1 THEN DOMAIN TailRows ELSE DOMAIN TailRows \ seen)
  OBVIOUS
<1>5. PICK mem, stb : /\ mem = {j \in unseen : OverwritesMem(j, kept)}
                      /\ stb = {j \in unseen : OverwritesStable(j, kept, n)}
  OBVIOUS
<1>6. PICK gone : gone = {BatchBegin(n) + 1 + FoundInBatch(n, TailRows[j].key) : j \in stb}
  OBVIOUS
<1>7. PICK bm : bm = [s \in DOMAIN stable |-> IF s \in gone THEN 0 ELSE stableBm[s]]
  OBVIOUS
<1>8. PICK rows : rows = Evaluate(StableRows(BatchBegin(n), BatchEnd(n)), Kept(bm, BatchBegin(n), BatchEnd(n)))
  OBVIOUS
<1>9. /\ memKept' = {i \in kept : ~\E j \in mem : MemRows[i].key = TailRows[j].key}
      /\ seen' = (DOMAIN TailRows \ unseen) \cup mem \cup stb
      /\ stableBm' = bm
      /\ evaluated' = evaluated \o rows
      /\ queue' = queue \o NextChunk(evaluated')
      /\ order' = Append(order, n)
  BY <1>4, <1>5, <1>6, <1>7, <1>8, Zenon DEF MergeBatch
<1>10. Removes(n, kept, unseen, mem, stb, gone)
  BY <1>5, <1>6, Zenon DEF Removes
<1>11. Arriving(n, kept, unseen, order)
  <2>1. CASE n = 1
    <3>1. kept = DOMAIN MemRows /\ unseen = DOMAIN TailRows
      BY <1>4, <2>1
    <3>2. TailSeen(order, DOMAIN TailRows \ unseen)
      BY <3>1 DEF TailSeen
    <3> QED
      BY <3>1, <3>2 DEF Arriving
  <2>2. CASE n # 1
    <3>1. kept = memKept /\ unseen = DOMAIN TailRows \ seen
      BY <1>4, <2>2
    <3>2. MemLeft(memKept) /\ TailSeen(order, seen)
      BY <2>2 DEF BatchedInv
    <3>3. TailSeen(order, DOMAIN TailRows \ unseen)
      BY <3>1, <3>2 DEF TailSeen
    <3> QED
      BY <3>1, <3>2, <3>3 DEF Arriving, MemLeft
  <2> QED
    BY <2>1, <2>2
<1>12. MemLeft(memKept')
  <2>1. PICK left : left = {i \in kept : ~\E j \in mem : MemRows[i].key = TailRows[j].key}
    OBVIOUS
  <2>2. MemLeft(left)
    BY <1>1, <1>10, <1>11, <2>1, MemAfter
  <2> QED
    BY <1>9, <2>1, <2>2
<1>13. TailSeen(order', seen')
  <2>1. TailSeen(Append(order, n), (DOMAIN TailRows \ unseen) \cup mem \cup stb)
    BY <1>1, <1>10, <1>11, SeenAfter
  <2> QED
    BY <1>9, <2>1
<1>14. BitsAre(Append(order, n), bm)
  BY <1>1, <1>2, <1>3, <1>7, <1>10, <1>11, BitsAfter
<1>15. IsSeq(rows) /\ RowsAre(Append(order, n), bm, evaluated \o rows)
  BY <1>1, <1>3, <1>8, <1>14, RowsAfter
<1>16. Cut(queue', evaluated')
  <2>1. PICK all : all = evaluated \o rows
    OBVIOUS
  <2>2. Cut(queue, all)
    BY <1>15, <2>1, CutExtends DEF BatchedInv
  <2>3. Len(queue) * ChunkSize <= Len(all)
    <3>1. Len(all) = Len(evaluated) + Len(rows) /\ Len(evaluated) \in Nat /\ Len(rows) \in Nat
      BY <1>3, <1>15, <2>1, Concat, SeqPlaces DEF RowsAre
    <3>2. Len(queue) \in Nat /\ ChunkSize \in Nat
      BY SeqPlaces, MergeAssumption DEF Full
    <3>3. PICK m \in Nat : m = Len(queue) * ChunkSize
      BY <3>2
    <3> QED
      BY <3>1, <3>3
  <2>4. Cut(queue \o NextChunk(all), all)
    BY <2>2, <2>3, NextCut
  <2> QED
    BY <1>9, <2>1, <2>4
<1> QED
  BY <1>2, <1>9, <1>12, <1>13, <1>14, <1>15, <1>16

-----------------------------------------------------------------------------
(* The deltas are merged.                                                  *)

(* The rows the merged delta has: the memory rows that the tail leaves,    *)
(* and the tail.                                                           *)
NewRows(x) ==
    /\ IsSeq(x) /\ DistinctKeys(x)
    /\ \A w : w \in Elems(x) <=>
         \/ \E i \in DOMAIN MemRows : MemRows[i].key \notin KeysIn(TailRows) /\ w = MemRows[i]
         \/ \E j \in DOMAIN TailRows : w = TailRows[j]

(* The keys of the rows are distinct if the rows are, and no two of them   *)
(* have the same key.                                                      *)
LEMMA KeysDiffer ==
    ASSUME NEW x, Distinct(x), \A v, w \in Elems(x) : v.key = w.key => v = w
    PROVE  DistinctKeys(x)
<1>1. \A i \in DOMAIN x : x[i] \in Elems(x)
  BY DEF Elems
<1>2. ASSUME NEW i \in DOMAIN x, NEW j \in DOMAIN x, x[i].key = x[j].key PROVE i = j
  <2>1. x[i] = x[j]
    BY <1>1, <1>2
  <2> QED
    BY <2>1 DEF Distinct
<1> QED
  BY <1>2 DEF DistinctKeys

(* Rows with distinct keys are distinct.                                   *)
LEMMA KeysThenRows ==
    ASSUME NEW x, DistinctKeys(x)
    PROVE  Distinct(x) /\ \A v, w \in Elems(x) : v.key = w.key => v = w
BY DEF DistinctKeys, Distinct, Elems

(* What evaluate leaves of a delta.                                        *)
LEMMA RowsLeft ==
    ASSUME NEW rows, IsSeq(rows), DistinctKeys(rows), NEW P, P \subseteq DOMAIN rows, NEW x, x = Evaluate(rows, P)
    PROVE  /\ IsSeq(x) /\ Distinct(x)
           /\ \A w : w \in Elems(x) <=> \E i \in P : w = rows[i]
<1>1. PICK n \in Nat : DOMAIN rows = 1 .. n
  BY SeqPlaces
<1>2. P \in SUBSET (1 .. n)
  BY <1>1
<1>3. Distinct(rows)
  BY KeysThenRows
<1>4. /\ {At(rows, P)[m] : m \in DOMAIN At(rows, P)} = {rows[m] : m \in P}
      /\ Distinct(rows) => Distinct(At(rows, P))
  BY <1>1, <1>2, AtElements
<1>5. x = At(rows, P)
  BY DEF Evaluate
<1>6. IsSeq(x)
  <2>1. IsFiniteSet(1 .. n)
    BY FS_Interval
  <2>2. IsFiniteSet(P)
    BY <1>2, <2>1, FS_Subset
  <2> QED
    BY <2>2, EvaluateIsSeq
<1>7. Elems(x) = {rows[m] : m \in P}
  <2>1. Elems(At(rows, P)) = {At(rows, P)[m] : m \in DOMAIN At(rows, P)}
    BY Zenon DEF Elems
  <2> QED
    BY <1>4, <1>5, <2>1, Zenon
<1>8. Distinct(x)
  BY <1>3, <1>4, <1>5, Zenon
<1> QED
  BY <1>6, <1>7, <1>8

(* The rows of the deltas that the last merge adds.                        *)
LEMMA MergedRows ==
    ASSUME flag, MergeableInput, deltas \in DeltaList, deltas # <<>>, NEW kept,
           NumBatches # 1 => MemLeft(kept), NumBatches = 1 => kept = DOMAIN MemRows,
           NEW old, old = (IF Size > 1 THEN Evaluate(deltas[Size].rows, kept) ELSE <<>>),
           NEW x, x = old \o deltas[1].rows
    PROVE  NewRows(x)
<1>1. /\ Size \in {1, 2} /\ DOMAIN deltas = 1 .. Size /\ MemRows = deltas[Size].rows
      /\ Size = 1 => TailRows = <<>>
      /\ Size = 2 => TailRows = deltas[1].rows
  BY DeltasAre
<1>2. \A i \in DOMAIN deltas : IsSeq(deltas[i].rows) /\ DistinctKeys(deltas[i].rows)
  BY RowsAreSeq DEF MergeableInput
<1>3. 1 \in DOMAIN deltas
  BY <1>1
<1>4. CASE Size = 1
  <2>1. PICK R : deltas[1].rows \in Seq(R)
    BY <1>2, <1>3 DEF IsSeq
  <2>2. x = deltas[1].rows
    BY <1>4, <2>1
  <2>3. MemRows = x /\ TailRows = <<>>
    BY <1>1, <1>4, <2>2
  <2>4. DOMAIN TailRows = {} /\ KeysIn(TailRows) = {}
    BY <2>3 DEF KeysIn
  <2>5. IsSeq(x) /\ DistinctKeys(x)
    BY <1>2, <1>3, <2>2
  <2>6. \A w : w \in Elems(x) <=> \E i \in DOMAIN x : w = x[i]
    BY DEF Elems
  <2>7. ASSUME NEW w
        PROVE  w \in Elems(x) <=>
                 \/ \E i \in DOMAIN MemRows : MemRows[i].key \notin KeysIn(TailRows) /\ w = MemRows[i]
                 \/ \E j \in DOMAIN TailRows : w = TailRows[j]
    <3>1. ~\E j \in DOMAIN TailRows : w = TailRows[j]
      BY <2>4
    <3>2. (\E i \in DOMAIN MemRows : MemRows[i].key \notin KeysIn(TailRows) /\ w = MemRows[i])
            <=> \E i \in DOMAIN x : w = x[i]
      BY <2>3, <2>4, Zenon
    <3> QED
      BY <2>6, <3>1, <3>2, Zenon
  <2> QED
    BY <2>5, <2>7, Zenon DEF NewRows
<1>5. CASE Size = 2
  <2>1. 2 \in DOMAIN deltas /\ MemRows = deltas[2].rows /\ TailRows = deltas[1].rows /\ Size > 1
    BY <1>1, <1>5
  <2>2. MemLeft(kept)
    <3>1. CASE NumBatches = 1
      <4>1. DeltaKeys(1) \cap DeltaKeys(2) = {}
        BY <1>5, <3>1 DEF MergeableInput, BatchedInput
      <4>2. DeltaKeys(1) = KeysIn(TailRows) /\ DeltaKeys(2) = KeysIn(MemRows)
        BY <2>1, Zenon DEF DeltaKeys, KeysIn
      <4>3. \A i \in DOMAIN MemRows : MemRows[i].key \in KeysIn(MemRows)
        BY DEF KeysIn
      <4>4. \A i \in DOMAIN MemRows : MemRows[i].key \notin KeysIn(TailRows)
        BY <4>1, <4>2, <4>3
      <4> QED
        BY <3>1, <4>4 DEF MemLeft
    <3> QED
      BY <3>1
  <2>3. IsSeq(MemRows) /\ DistinctKeys(MemRows) /\ IsSeq(TailRows) /\ DistinctKeys(TailRows)
    BY <1>2, <1>3, <2>1
  <2>4. kept \subseteq DOMAIN MemRows /\ \A i \in kept : MemRows[i].key \notin KeysIn(TailRows)
    BY <2>2 DEF MemLeft
  <2>5. old = Evaluate(MemRows, kept) /\ x = old \o TailRows
    BY <2>1, <1>5
  <2>6. PICK mr, tr : mr = MemRows /\ tr = TailRows
    OBVIOUS
  <2>7. IsSeq(old) /\ Distinct(old) /\ \A w : w \in Elems(old) <=> \E i \in kept : w = mr[i]
    <3>1. old = Evaluate(mr, kept) /\ IsSeq(mr) /\ DistinctKeys(mr) /\ kept \subseteq DOMAIN mr
      BY <2>3, <2>4, <2>5, <2>6
    <3> QED
      BY <3>1, RowsLeft
  <2>8. Distinct(tr) /\ (\A v, w \in Elems(tr) : v.key = w.key => v = w) /\ IsSeq(tr)
    BY <2>3, <2>6, KeysThenRows
  <2>9. \A v, w \in Elems(mr) : v.key = w.key => v = w
    BY <2>3, <2>6, KeysThenRows
  <2>10. \A w \in Elems(old) : w \in Elems(mr) /\ w.key \notin KeysIn(tr)
    <3> TAKE w \in Elems(old)
    <3>1. PICK i \in kept : w = mr[i]
      BY <2>7
    <3>2. i \in DOMAIN mr /\ mr[i].key \notin KeysIn(tr)
      BY <2>4, <2>6
    <3> QED
      BY <3>1, <3>2 DEF Elems
  <2>11. \A w : w \in Elems(tr) <=> \E j \in DOMAIN tr : w = tr[j]
    BY DEF Elems
  <2>12. \A w \in Elems(tr) : w.key \in KeysIn(tr)
    BY <2>11 DEF KeysIn
  <2>13. Elems(old) \cap Elems(tr) = {}
    BY <2>10, <2>12
  <2>14. IsSeq(x) /\ Distinct(x) /\ \A w : w \in Elems(x) <=> w \in Elems(old) \/ w \in Elems(tr)
    <3>1. x = old \o tr
      BY <2>5, <2>6
    <3>2. IsSeq(old) /\ IsSeq(tr) /\ Distinct(old) /\ Distinct(tr)
      BY <2>7, <2>8
    <3>3. IsSeq(old \o tr)
      BY <3>2, Concat
    <3>4. /\ \A r : r \in Elems(old \o tr) <=> r \in Elems(old) \/ r \in Elems(tr)
          /\ Distinct(old) /\ Distinct(tr) /\ Elems(old) \cap Elems(tr) = {} => Distinct(old \o tr)
      BY <3>2, ConcatElems
    <3> QED
      BY <2>13, <3>1, <3>2, <3>3, <3>4, Zenon
  <2>15. \A v, w \in Elems(x) : v.key = w.key => v = w
    BY <2>8, <2>9, <2>10, <2>12, <2>14
  <2>16. DistinctKeys(x)
    BY <2>14, <2>15, KeysDiffer
  <2>17. \A w : w \in Elems(x) <=>
           \/ \E i \in DOMAIN MemRows : MemRows[i].key \notin KeysIn(TailRows) /\ w = MemRows[i]
           \/ \E j \in DOMAIN TailRows : w = TailRows[j]
    BY <2>2, <2>6, <2>7, <2>11, <2>14 DEF MemLeft
  <2> QED
    BY <2>14, <2>16, <2>17 DEF NewRows
<1> QED
  BY <1>1, <1>4, <1>5

(* The table, once all batches are merged: the stable rows the bitmap      *)
(* keeps, and the rows of the merged delta.                                *)
Table(bm, x, r) ==
    \/ \E w \in Elems(x) : r = PlainRow(w)
    \/ \E s \in DOMAIN stable : bm[s] = 1 /\ r = StableRow(s)

(* Those rows and the rows with a bit are the table.                       *)
LEMMA TableIsLatest ==
    ASSUME flag, MergeableInput, deltas \in DeltaList, deltas # <<>>, oldBm # None,
           NEW o, \A s \in DOMAIN stable : Done(o, s), NEW bm, BitsAre(o, bm), NEW x, NewRows(x), NEW r
    PROVE  r \in Latest <=> Table(bm, x, r)
<1>1. /\ Size \in {1, 2} /\ DOMAIN deltas = 1 .. Size /\ MemRows = deltas[Size].rows
      /\ Size = 1 => TailRows = <<>>
      /\ Size = 2 => TailRows = deltas[1].rows
  BY DeltasAre
<1>2. \A i \in DOMAIN deltas : DistinctKeys(deltas[i].rows)
  BY DEF MergeableInput
<1>3. r \in Latest <=>
        \/ \E i \in DOMAIN deltas : \E j \in DOMAIN deltas[i].rows :
             Counts(i, j) /\ r = PlainRow(deltas[i].rows[j])
        \/ \E s \in DOMAIN stable : Stays(s) /\ r = StableRow(s)
  BY <1>2, LatestRows
<1>4. \A i \in DOMAIN deltas : \A j \in DOMAIN deltas[i].rows : deltas[i].rows[j].type # "DELETE"
  BY DEF MergeableInput, BatchedInput
<1>5. \A k : InDeltas(k) <=> k \in KeysIn(MemRows) \/ k \in KeysIn(TailRows)
  <2>1. CASE Size = 1
    <3>1. DOMAIN deltas = {1} /\ KeysIn(MemRows) = DeltaKeys(1)
      BY <1>1, <2>1 DEF KeysIn, DeltaKeys
    <3>2. KeysIn(TailRows) = {}
      BY <1>1, <2>1 DEF KeysIn
    <3> QED
      BY <3>1, <3>2 DEF InDeltas
  <2>2. CASE Size = 2
    <3>1. DOMAIN deltas = {1, 2} /\ KeysIn(MemRows) = DeltaKeys(2)
      BY <1>1, <2>2 DEF KeysIn, DeltaKeys
    <3>2. KeysIn(TailRows) = DeltaKeys(1)
      BY <1>1, <2>2 DEF KeysIn, DeltaKeys
    <3> QED
      BY <3>1, <3>2 DEF InDeltas
  <2> QED
    BY <1>1, <2>1, <2>2
<1>6. ASSUME NEW s \in DOMAIN stable PROVE Stays(s) <=> bm[s] = 1
  <2>1. bm[s] = 1 <=> oldBm[s] = 1 /\ stable[s] \notin KeysIn(TailRows)
    BY Zenon DEF BitsAre
  <2>2. stable[s] \in KeysIn(MemRows) => oldBm[s] = 0
    BY DeltasFit DEF Deltas
  <2>3. oldBm[s] = 0 => ~(oldBm[s] = 1)
    OBVIOUS
  <2> QED
    BY <1>5, <2>1, <2>2, <2>3, Zenon DEF Stays
<1>7. (\E i \in DOMAIN deltas : \E j \in DOMAIN deltas[i].rows :
             Counts(i, j) /\ r = PlainRow(deltas[i].rows[j]))
        <=> \/ \E i \in DOMAIN MemRows : MemRows[i].key \notin KeysIn(TailRows) /\ r = PlainRow(MemRows[i])
            \/ \E j \in DOMAIN TailRows : r = PlainRow(TailRows[j])
  <2>1. CASE Size = 1
    <3>1. DOMAIN deltas = {1} /\ MemRows = deltas[1].rows
      BY <1>1, <2>1
    <3>2. KeysIn(TailRows) = {} /\ DOMAIN TailRows = {}
      BY <1>1, <2>1 DEF KeysIn
    <3>3. 1 .. 1 - 1 = {}
      OBVIOUS
    <3>4. \A j \in DOMAIN deltas[1].rows : Counts(1, j)
      BY <1>4, <3>1, <3>3 DEF Counts
    <3> QED
      BY <3>1, <3>2, <3>4
  <2>2. CASE Size = 2
    <3>1. DOMAIN deltas = {1, 2} /\ MemRows = deltas[2].rows /\ TailRows = deltas[1].rows
      BY <1>1, <2>2
    <3>2. KeysIn(TailRows) = DeltaKeys(1)
      BY <3>1 DEF KeysIn, DeltaKeys
    <3>3. 1 .. 1 - 1 = {} /\ 1 .. 2 - 1 = {1}
      OBVIOUS
    <3>4. \A j \in DOMAIN deltas[1].rows : Counts(1, j)
      BY <1>4, <3>1, <3>3 DEF Counts
    <3>5. \A j \in DOMAIN deltas[2].rows : Counts(2, j) <=> deltas[2].rows[j].key \notin DeltaKeys(1)
      BY <1>4, <3>1, <3>3 DEF Counts
    <3> QED
      BY <3>1, <3>2, <3>4, <3>5
  <2> QED
    BY <1>1, <2>1, <2>2
<1>8. (\E w \in Elems(x) : r = PlainRow(w))
        <=> \/ \E i \in DOMAIN MemRows : MemRows[i].key \notin KeysIn(TailRows) /\ r = PlainRow(MemRows[i])
            \/ \E j \in DOMAIN TailRows : r = PlainRow(TailRows[j])
  BY Zenon DEF NewRows
<1> QED
  BY <1>3, <1>6, <1>7, <1>8, Zenon DEF Table

(* The rows handed on and the cache stand for the table.                   *)
HandsOn(q, rows) ==
    /\ \A r : r \in Elems(rows) <=> r \in Latest
    /\ Distinct(rows) /\ Cut(q, rows) /\ Covers(q, rows)
StandsFor(bm, x) ==
    \A r : r \in Latest <=>
             r \in Elems(Plain(x)) \/ \E s \in DOMAIN stable : bm[s] = 1 /\ r = StableRow(s)

(* The table is what the rows merged and the rows of the deltas are.       *)
LEMMA AllRows ==
    ASSUME NEW bm, NEW x, IsSeq(x), DistinctKeys(x), \A r : r \in Latest <=> Table(bm, x, r),
           NEW ev, IsSeq(ev), Distinct(ev),
           \A r : r \in Elems(ev) <=> \E s \in DOMAIN stable : bm[s] = 1 /\ r = StableRow(s),
           \A s \in DOMAIN stable : \A w \in Elems(x) : bm[s] = 1 => stable[s] # w.key
    PROVE  /\ IsSeq(ev \o Plain(x)) /\ Distinct(ev \o Plain(x)) /\ IsSeq(Plain(x))
           /\ \A r : r \in Elems(ev \o Plain(x)) <=> r \in Latest
           /\ StandsFor(bm, x)
<1>1. PICK p : p = Plain(x)
  OBVIOUS
<1>2. IsSeq(p) /\ Distinct(p)
  BY <1>1, PlainRows
<1>3. \A r : r \in Elems(p) <=> \E w \in Elems(x) : r = PlainRow(w)
  <2>1. \A r : r \in Elems(p) <=> \E i \in DOMAIN x : r = PlainRow(x[i])
    BY <1>1, PlainRows
  <2> QED
    BY <2>1, Zenon DEF Elems
<1>4. Elems(ev) \cap Elems(p) = {}
  <2>1. ASSUME NEW r \in Elems(ev), r \in Elems(p) PROVE FALSE
    <3>1. PICK s \in DOMAIN stable : bm[s] = 1 /\ r = StableRow(s)
      OBVIOUS
    <3>2. PICK w \in Elems(x) : r = PlainRow(w)
      BY <1>3, <2>1
    <3>3. StableRow(s).key = stable[s] /\ PlainRow(w).key = w.key
      BY DEF StableRow, PlainRow
    <3> QED
      BY <3>1, <3>2, <3>3
  <2> QED
    BY <2>1
<1>5. IsSeq(ev \o p)
  BY <1>2, Concat
<1>6. /\ \A r : r \in Elems(ev \o p) <=> r \in Elems(ev) \/ r \in Elems(p)
      /\ Distinct(ev) /\ Distinct(p) /\ Elems(ev) \cap Elems(p) = {} => Distinct(ev \o p)
  BY <1>2, ConcatElems
<1>7. \A r : r \in Elems(ev \o p) <=> r \in Latest
  BY <1>3, <1>6, Zenon DEF Table
<1>8. StandsFor(bm, x)
  BY <1>1, <1>3, Zenon DEF StandsFor, Table
<1> QED
  BY <1>1, <1>2, <1>4, <1>5, <1>6, <1>7, <1>8

(* The last merge hands on the table and sends what stands for it.         *)
LEMMA DeltasMerged ==
    ASSUME flag, MergeableInput, InputInv, deltas \in DeltaList, deltas # <<>>,
           order # <<>>, \A s \in DOMAIN stable : Done(order, s), BatchedInv,
           Full(queue), Len(queue) * ChunkSize <= Len(evaluated), MergeDeltas, pc' = "done", stableBm' = stableBm
    PROVE  HandsOn(queue', evaluated') /\ StandsFor(stableBm', merged')
<1>1. PICK kept : kept = IF NumBatches = 1 THEN DOMAIN MemRows ELSE memKept
  OBVIOUS
<1>2. PICK old : old = IF Size > 1 THEN Evaluate(deltas[Size].rows, kept) ELSE <<>>
  OBVIOUS
<1>3. PICK x : x = old \o deltas[1].rows
  OBVIOUS
<1>4. PICK all : all = evaluated \o Plain(x)
  OBVIOUS
<1>5. /\ evaluated' = all /\ merged' = x
      /\ queue' = queue \o Chunks(SubSeq(all, Len(queue) * ChunkSize + 1, Len(all)))
  <2>1. pc' # "crash"
    OBVIOUS
  <2> QED
    BY <1>1, <1>2, <1>3, <1>4, <2>1, Zenon DEF MergeDeltas
<1>6. /\ oldBm # None /\ BitsAre(order, stableBm) /\ MemLeft(memKept)
      /\ RowsAre(order, stableBm, evaluated) /\ Cut(queue, evaluated)
  BY DEF BatchedInv
<1>7. NewRows(x)
  BY <1>1, <1>2, <1>3, <1>6, MergedRows
<1>8. \A r : r \in Latest <=> Table(stableBm, x, r)
  BY <1>6, <1>7, TableIsLatest
<1>9. \A r : r \in Elems(evaluated) <=> \E s \in DOMAIN stable : stableBm[s] = 1 /\ r = StableRow(s)
  BY <1>6, Zenon DEF RowsAre
<1>10. ASSUME NEW s \in DOMAIN stable, NEW w \in Elems(x), stableBm[s] = 1 PROVE stable[s] # w.key
  <2>1. oldBm[s] = 1 /\ stable[s] \notin KeysIn(TailRows)
    BY <1>6, <1>10, Zenon DEF BitsAre
  <2>2. stable[s] \notin KeysIn(MemRows)
    <3>1. stable[s] \in KeysIn(MemRows) => oldBm[s] = 0
      BY <1>6, DeltasFit DEF Deltas
    <3> QED
      BY <2>1, <3>1
  <2>3. w.key \in KeysIn(MemRows) \/ w.key \in KeysIn(TailRows)
    <3>1. \/ \E i \in DOMAIN MemRows : w = MemRows[i]
          \/ \E j \in DOMAIN TailRows : w = TailRows[j]
      BY <1>7, Zenon DEF NewRows
    <3> QED
      BY <3>1 DEF KeysIn
  <2> QED
    BY <2>1, <2>2, <2>3
<1>11. IsSeq(x) /\ DistinctKeys(x) /\ IsSeq(evaluated) /\ Distinct(evaluated)
  BY <1>6, <1>7 DEF NewRows, RowsAre
<1>12. /\ IsSeq(all) /\ Distinct(all) /\ IsSeq(Plain(x))
       /\ \A r : r \in Elems(all) <=> r \in Latest
       /\ StandsFor(stableBm, x)
  <2>1. PICK bm, ev : bm = stableBm /\ ev = evaluated
    OBVIOUS
  <2>2. /\ IsSeq(ev \o Plain(x)) /\ Distinct(ev \o Plain(x)) /\ IsSeq(Plain(x))
        /\ \A r : r \in Elems(ev \o Plain(x)) <=> r \in Latest
        /\ StandsFor(bm, x)
    <3>1. \A r : r \in Latest <=> Table(bm, x, r)
      BY <1>8, <2>1
    <3>2. \A r : r \in Elems(ev) <=> \E s \in DOMAIN stable : bm[s] = 1 /\ r = StableRow(s)
      BY <1>9, <2>1
    <3>3. \A s \in DOMAIN stable : \A w \in Elems(x) : bm[s] = 1 => stable[s] # w.key
      BY <1>10, <2>1
    <3>4. IsSeq(ev) /\ Distinct(ev)
      BY <1>11, <2>1
    <3> QED
      BY <1>11, <3>1, <3>2, <3>3, <3>4, AllRows
  <2> QED
    BY <1>4, <2>1, <2>2, Zenon
<1>13. Cut(queue, all)
  BY <1>4, <1>6, <1>12, CutExtends
<1>14. PICK a \in Nat, b \in Nat : a = Len(queue) * ChunkSize /\ b = Len(all) /\ a <= b
  <2>1. Len(queue) \in Nat /\ Len(evaluated) \in Nat /\ Len(Plain(x)) \in Nat /\ ChunkSize \in Nat
    BY <1>11, <1>12, SeqPlaces, MergeAssumption DEF Full
  <2>2. Len(all) = Len(evaluated) + Len(Plain(x))
    BY <1>4, <1>11, <1>12, Concat
  <2>3. PICK m \in Nat : m = Len(queue) * ChunkSize
    BY <2>1
  <2> QED
    BY <2>1, <2>2, <2>3
<1>15. PICK rest : rest = SubSeq(all, a + 1, b)
  OBVIOUS
<1>16. IsSeq(rest)
  BY <1>12, <1>14, <1>15, Part
<1>17. Cut(Chunks(rest), rest) /\ Covers(Chunks(rest), rest)
  BY <1>16, ChunksCut
<1>18. Cut(queue', all) /\ Covers(queue', all)
  <2>1. PICK q, ch : q = queue /\ ch = Chunks(rest)
    OBVIOUS
  <2>2. rest = SubSeq(all, Len(q) * ChunkSize + 1, Len(all)) /\ queue' = q \o ch
    BY <1>5, <1>14, <1>15, <2>1
  <2>3. Cut(ch, SubSeq(all, Len(q) * ChunkSize + 1, Len(all))) /\ Covers(ch, SubSeq(all, Len(q) * ChunkSize + 1, Len(all)))
    BY <1>17, <2>1, <2>2
  <2>4. Full(q) /\ Cut(q, all) /\ Len(q) * ChunkSize <= Len(all)
    BY <1>13, <1>14, <2>1
  <2> QED
    BY <2>2, <2>3, <2>4, CutOn
<1> QED
  BY <1>5, <1>12, <1>18 DEF HandsOn

-----------------------------------------------------------------------------
(* Without deltas the table is the object.                                 *)

(* Without deltas the table is the object.                                 *)
LEMMA ObjectIsLatest ==
    ASSUME deltas = <<>>, oldBm = None, NEW r
    PROVE  r \in Latest <=> \E s \in DOMAIN stable : r = StableRow(s)
<1>1. DOMAIN deltas = {} /\ deltas \in DeltaList
  BY DEF DeltaList
<1>2. \A s \in DOMAIN stable : Stays(s)
  BY <1>1 DEF Stays, InDeltas
<1>3. r \in Latest <=>
        \/ \E i \in DOMAIN deltas : \E j \in DOMAIN deltas[i].rows :
             Counts(i, j) /\ r = PlainRow(deltas[i].rows[j])
        \/ \E s \in DOMAIN stable : Stays(s) /\ r = StableRow(s)
  BY <1>1, LatestRows
<1> QED
  BY <1>1, <1>2, <1>3

(* The batches in the queue are those of the order.                        *)
Queued ==
    /\ IsSeq(queue) /\ DOMAIN queue = DOMAIN order
    /\ \A i \in DOMAIN queue : queue[i] = StableRows(BatchBegin(order[i]), BatchEnd(order[i]))

(* Without deltas the batches handed on are the table.                     *)
LEMMA BatchesHandedOn ==
    ASSUME flag, InputInv, Distinct(stable), deltas = <<>>, oldBm = None, Queued, OnceFrom1(order),
           Elems(order) = 1 .. NumBatches
    PROVE  /\ {queue[x[1]][x[2]] : x \in Places(queue)} = Latest
           /\ Cardinality(Places(queue)) = Cardinality(Latest)
<1>1. PICK c \in Nat : c = ChunkSize /\ c >= 1
  BY MergeAssumption
<1>2. ASSUME NEW i \in DOMAIN queue
      PROVE  /\ order[i] \in 1 .. NumBatches
             /\ \E b \in Nat, e \in Nat :
                  /\ b = BatchBegin(order[i]) /\ e = BatchEnd(order[i]) /\ b < e /\ e - b <= c
                  /\ Len(queue[i]) = e - b /\ Batch(order[i]) = b + 1 .. e
                  /\ \A m \in 1 .. e - b : queue[i][m] = StableRow(b + m)
  <2>1. order[i] \in 1 .. NumBatches
    BY DEF Queued, Elems
  <2>2. PICK n \in 1 .. NumBatches : n = order[i]
    BY <2>1
  <2>3. PICK b \in Nat, e \in Nat : b = BatchBegin(n) /\ e = BatchEnd(n) /\ b < e
    BY BatchIn
  <2>4. e - b \in 1 .. c
    BY <1>1, <2>3, BatchRows
  <2>5. queue[i] = StableRows(b, e)
    BY <2>2, <2>3 DEF Queued
  <2>6. Len(queue[i]) = e - b
    <3>1. b \in Int /\ e \in Int /\ b <= e
      BY <2>3
    <3>2. Len(StableRows(b, e)) = e - b
      BY <3>1, StableIsSeq
    <3> QED
      BY <2>5, <3>2
  <2>7. \A m \in 1 .. e - b : queue[i][m] = StableRow(b + m)
    BY <2>5 DEF StableRows, StableRow
  <2>8. Batch(n) = b + 1 .. e
    BY <2>3 DEF Batch
  <2> QED
    BY <2>1, <2>2, <2>3, <2>4, <2>6, <2>7, <2>8
<1>3. ASSUME NEW x \in Places(queue)
      PROVE  \E i \in DOMAIN queue, m \in Nat, s \in DOMAIN stable :
               /\ x = <<i, m>> /\ s \in Batch(order[i]) /\ s = BatchBegin(order[i]) + m
               /\ queue[x[1]][x[2]] = StableRow(s)
  <2>1. PICK i \in DOMAIN queue, m \in 1 .. c : x = <<i, m>> /\ m <= Len(queue[i])
    BY <1>1 DEF Places
  <2>2. PICK b \in Nat, e \in Nat :
          /\ b = BatchBegin(order[i]) /\ e = BatchEnd(order[i]) /\ b < e
          /\ Len(queue[i]) = e - b /\ Batch(order[i]) = b + 1 .. e
          /\ \A l \in 1 .. e - b : queue[i][l] = StableRow(b + l)
    BY <1>2
  <2>3. m \in 1 .. e - b /\ b + m \in b + 1 .. e
    BY <2>1, <2>2
  <2>4. order[i] \in 1 .. NumBatches
    BY <1>2
  <2>5. Batch(order[i]) \subseteq DOMAIN stable
    BY <2>4, BatchIn
  <2>6. queue[i][m] = StableRow(b + m)
    BY <2>2, <2>3
  <2>7. x[1] = i /\ x[2] = m
    BY <2>1
  <2>8. queue[x[1]][x[2]] = queue[i][m]
    BY <2>7
  <2>9. b + m \in DOMAIN stable /\ b + m \in Batch(order[i]) /\ m \in Nat
    BY <2>2, <2>3, <2>5
  <2> QED
    BY <2>1, <2>2, <2>6, <2>8, <2>9
<1>4. \A x \in Places(queue) : queue[x[1]][x[2]] \in Latest
  BY <1>3, ObjectIsLatest
<1>5. ASSUME NEW g \in Latest PROVE \E x \in Places(queue) : queue[x[1]][x[2]] = g
  <2>1. PICK s \in DOMAIN stable : g = StableRow(s)
    BY ObjectIsLatest
  <2>2. PICK n \in 1 .. NumBatches : s \in Batch(n)
    BY EachInABatch
  <2>3. PICK i \in DOMAIN queue : order[i] = n
    BY DEF Queued, Elems
  <2>4. PICK b \in Nat, e \in Nat :
          /\ b < e /\ e - b <= c /\ Len(queue[i]) = e - b /\ Batch(order[i]) = b + 1 .. e
          /\ \A l \in 1 .. e - b : queue[i][l] = StableRow(b + l)
    BY <1>2
  <2>5. s \in b + 1 .. e
    BY <2>2, <2>3, <2>4
  <2>6. PICK m \in 1 .. e - b : b + m = s
    <3>1. s - b \in 1 .. e - b /\ b + (s - b) = s
      BY <2>5
    <3> QED
      BY <3>1
  <2>7. queue[i][m] = g
    BY <2>1, <2>4, <2>6
  <2>8. m \in 1 .. ChunkSize /\ m <= Len(queue[i])
    BY <1>1, <2>4
  <2>9. <<i, m>> \in Places(queue)
    BY <2>8, PlacesAre
  <2> QED
    BY <2>7, <2>9
<1>6. ASSUME NEW x \in Places(queue), NEW y \in Places(queue), queue[x[1]][x[2]] = queue[y[1]][y[2]]
      PROVE  x = y
  <2>1. PICK i \in DOMAIN queue, m \in Nat, s \in DOMAIN stable :
          /\ x = <<i, m>> /\ s \in Batch(order[i]) /\ s = BatchBegin(order[i]) + m
          /\ queue[x[1]][x[2]] = StableRow(s)
    BY <1>3
  <2>2. PICK j \in DOMAIN queue, l \in Nat, t \in DOMAIN stable :
          /\ y = <<j, l>> /\ t \in Batch(order[j]) /\ t = BatchBegin(order[j]) + l
          /\ queue[y[1]][y[2]] = StableRow(t)
    BY <1>3
  <2>3. StableRow(s) = StableRow(t)
    BY <1>6, <2>1, <2>2
  <2>4. StableRow(s).key = stable[s] /\ StableRow(t).key = stable[t]
    BY DEF StableRow
  <2>5. s = t
    BY <2>3, <2>4 DEF Distinct
  <2>6. order[i] \in 1 .. NumBatches /\ order[j] \in 1 .. NumBatches
    BY <1>2
  <2>7. order[i] = order[j]
    BY <2>1, <2>2, <2>5, <2>6, BatchesApart
  <2>8. i = j
    BY <2>7 DEF OnceFrom1, Queued
  <2>9. BatchBegin(order[i]) \in Nat
    BY <2>6, BatchIn
  <2>10. m = l
    BY <2>1, <2>2, <2>5, <2>8, <2>9
  <2> QED
    BY <2>1, <2>2, <2>8, <2>10
<1>7. IsSeq(queue)
  BY DEF Queued
<1>8. PICK q, G : q = queue /\ G = Latest
  OBVIOUS
<1>9. {q[x[1]][x[2]] : x \in Places(q)} = G /\ Cardinality(Places(q)) = Cardinality(G)
  <2>1. IsSeq(q) /\ \A x \in Places(q) : q[x[1]][x[2]] \in G
    BY <1>4, <1>7, <1>8
  <2>2. \A g \in G : \E x \in Places(q) : q[x[1]][x[2]] = g
    BY <1>5, <1>8
  <2>3. \A x, y \in Places(q) : q[x[1]][x[2]] = q[y[1]][y[2]] => x = y
    BY <1>6, <1>8
  <2> QED
    BY <2>1, <2>2, <2>3, OnePlaceEach
<1> QED
  BY <1>8, <1>9

(* noMerge hands on the object in chunks.                                  *)
LEMMA ObjectHandedOn ==
    ASSUME InputInv, Distinct(stable), deltas = <<>>, oldBm = None,
           NEW rows, rows = StableRows(0, Len(stable)), NEW q, q = Chunks(rows)
    PROVE  HandsOn(q, rows)
<1>1. PICK n \in Nat : n = Len(stable) /\ DOMAIN stable = 1 .. n
  BY DEF InputInv
<1>2. IsSeq(rows) /\ DOMAIN rows = 1 .. n /\ \A i \in 1 .. n : rows[i] = StableRow(i)
  <2>1. rows = StableRows(0, n)
    BY <1>1
  <2>2. IsSeq(rows)
    BY <2>1, StableIsSeq
  <2>3. rows = [i \in 1 .. n - 0 |-> [key |-> stable[0 + i], ver |-> 0]]
    BY <2>1 DEF StableRows
  <2>4. n - 0 = n /\ \A i \in 1 .. n : 0 + i = i
    OBVIOUS
  <2> QED
    BY <2>2, <2>3, <2>4 DEF StableRow
<1>3. ASSUME NEW r PROVE r \in Elems(rows) <=> r \in Latest
  <2>1. r \in Elems(rows) <=> \E s \in DOMAIN stable : r = StableRow(s)
    BY <1>1, <1>2 DEF Elems
  <2> QED
    BY <2>1, ObjectIsLatest
<1>4. Distinct(rows)
  <2>1. ASSUME NEW i \in 1 .. n, NEW j \in 1 .. n, rows[i] = rows[j] PROVE i = j
    <3>1. StableRow(i) = StableRow(j)
      BY <1>2, <2>1
    <3>2. StableRow(i).key = stable[i] /\ StableRow(j).key = stable[j]
      BY DEF StableRow
    <3> QED
      BY <1>1, <3>1, <3>2 DEF Distinct
  <2> QED
    BY <1>2, <2>1 DEF Distinct
<1>5. Cut(q, rows) /\ Covers(q, rows)
  BY <1>2, ChunksCut
<1> QED
  BY <1>3, <1>4, <1>5 DEF HandsOn

-----------------------------------------------------------------------------
(* The plain merge of one delta.                                           *)

(* The place of a key in the order of S; c lists S in that order.          *)
RankIn(S, k) == Cardinality({l \in S : Less(l, k)}) + 1
Lists(c, S) ==
    /\ \A n \in 1 .. Cardinality(S) : c[n] \in S
    /\ \A k \in S : \E n \in 1 .. Cardinality(S) : c[n] = k
    /\ \A n, m \in 1 .. Cardinality(S) : c[n] = c[m] => n = m
    /\ \A n \in 1 .. Cardinality(S) : \A k \in S : RankIn(S, k) = n <=> k = c[n]

(* A finite set of keys has a list in ascending order.                     *)
LEMMA ListExists ==
    ASSUME NEW S, S \subseteq Nat \X Nat, IsFiniteSet(S)
    PROVE  \E c : Lists(c, S)
<1> DEFINE R == {x \in S \X S : Less(x[1], x[2])}
<1>1. \A k, l \in S : <<k, l>> \in R <=> Less(k, l)
  OBVIOUS
<1>2. Ordered(R, S)
  <2>1. \A k, l \in S : k # l => Less(k, l) \/ Less(l, k)
    BY DEF Less
  <2>2. \A k, l, m \in S : Less(k, l) /\ Less(l, m) => Less(k, m)
    BY DEF Less
  <2> HIDE DEF R
  <2> QED
    BY <1>1, <2>1, <2>2, Zenon DEF Ordered
<1> HIDE DEF R
<1>3. PICK N \in Nat : N = Cardinality(S)
  BY FS_CardinalityType
<1>4. PICK c : Sorts(c, R, S, N)
  BY <1>2, <1>3, SortExists, Zenon
<1>5. /\ c \in [1 .. N -> S] /\ (\A i, j \in 1 .. N : i # j => c[i] # c[j])
      /\ \A i, j \in 1 .. N : i < j => Less(c[i], c[j])
  <2>1. c \in [1 .. N -> S] /\ (\A i, j \in 1 .. N : i # j => c[i] # c[j])
        /\ \A i, j \in 1 .. N : i < j => <<c[i], c[j]>> \in R
    BY <1>4, Zenon DEF Sorts
  <2>2. \A i \in 1 .. N : c[i] \in S
    BY <2>1
  <2> QED
    BY <1>1, <2>1, <2>2, Zenon
<1>6. \A i \in 1 .. N : c[i] \in S /\ c[i] \in Nat \X Nat
  BY <1>5
<1>7. \A k \in S : \E n \in 1 .. N : c[n] = k
  <2>1. c \in Injection(1 .. N, S)
    BY <1>5 DEF Injection, IsInjective
  <2>2. IsFiniteSet(1 .. N) /\ Cardinality(1 .. N) = N
    BY FS_Interval
  <2>3. Cardinality(1 .. N) = Cardinality(S)
    BY <1>3, <2>2
  <2>4. c \in Surjection(1 .. N, S)
    BY <2>1, <2>3, FS_Injection
  <2> QED
    BY <2>4 DEF Surjection
<1>8. \A i, j \in 1 .. N : Less(c[i], c[j]) <=> i < j
  <2> TAKE i, j \in 1 .. N
  <2>1. ~(Less(c[i], c[j]) /\ Less(c[j], c[i])) /\ ~Less(c[i], c[i])
    BY <1>6 DEF Less
  <2>2. i < j \/ i = j \/ j < i
    OBVIOUS
  <2> QED
    BY <1>5, <2>1, <2>2
<1>9. ASSUME NEW n \in 1 .. N PROVE RankIn(S, c[n]) = n
  <2> DEFINE T == {l \in S : Less(l, c[n])}
  <2>1. PICK p \in Nat : p = n - 1
    OBVIOUS
  <2> DEFINE g == [i \in 1 .. p |-> c[i]]
  <2>2. \A i \in 1 .. p : i \in 1 .. N /\ i < n
    BY <2>1
  <2>3. \A i \in 1 .. p : c[i] \in T
    BY <1>6, <1>8, <2>2
  <2>4. \A l \in T : \E i \in 1 .. p : c[i] = l
    <3> TAKE l \in T
    <3>1. PICK i \in 1 .. N : c[i] = l
      BY <1>7
    <3>2. i < n
      BY <1>8, <3>1
    <3> QED
      BY <2>1, <3>1, <3>2
  <2>5. g \in Bijection(1 .. p, T)
    <3>1. g \in [1 .. p -> T] /\ DOMAIN g = 1 .. p /\ \A i \in 1 .. p : g[i] = c[i]
      BY <2>3
    <3> HIDE DEF g, T
    <3>2. \A i, j \in 1 .. p : g[i] = g[j] => i = j
      BY <1>5, <2>2, <3>1
    <3>3. \A l \in T : \E i \in 1 .. p : g[i] = l
      BY <2>4, <3>1
    <3> QED
      BY <3>1, <3>2, <3>3 DEF Bijection, Injection, Surjection, IsInjective
  <2> HIDE DEF g
  <2>6. Cardinality(T) = p
    <3> HIDE DEF T
    <3>1. ExistsBijection(1 .. p, T)
      BY <2>5, Zenon DEF ExistsBijection
    <3> QED
      BY <2>1, <3>1, FS_CountingElements
  <2>7. RankIn(S, c[n]) = Cardinality(T) + 1
    BY DEF RankIn
  <2> HIDE DEF T
  <2> QED
    BY <2>1, <2>6, <2>7
<1>10. ASSUME NEW n \in 1 .. N, NEW k \in S PROVE RankIn(S, k) = n <=> k = c[n]
  <2>1. PICK m \in 1 .. N : c[m] = k
    BY <1>7
  <2>2. RankIn(S, k) = m
    BY <1>9, <2>1
  <2> QED
    BY <1>5, <2>1, <2>2
<1>11. Lists(c, S)
  BY <1>3, <1>5, <1>6, <1>7, <1>10, Zenon DEF Lists
<1> QED
  BY <1>11

(* The one delta decides over its keys.                                    *)
LEMMA OneDecides ==
    ASSUME DOMAIN deltas = {1}, deltas[1].ts \in Nat, deltas[1].ts > 0, NEW k
    PROVE  Decider(k) = IF k \in DeltaKeys(1) THEN 1 ELSE 0
<1> DEFINE has == {i \in DOMAIN deltas : k \in DeltaKeys(i) /\ deltas[i].ts > 0}
<1> DEFINE newest == {i \in has : \A j \in has : deltas[i].ts >= deltas[j].ts}
<1>1. Decider(k) = IF has = {} THEN 0 ELSE CHOOSE i \in newest : \A j \in newest : i <= j
  BY Zenon DEF Decider
<1>2. CASE k \notin DeltaKeys(1)
  <2>1. has = {}
    BY <1>2
  <2> QED
    BY <1>1, <1>2, <2>1, Zenon
<1>3. CASE k \in DeltaKeys(1)
  <2>1. has = {1}
    BY <1>3
  <2>2. newest \subseteq {1}
    BY <2>1
  <2>3. 1 \in newest
    <3>1. deltas[1].ts >= deltas[1].ts
      OBVIOUS
    <3> QED
      BY <2>1, <3>1
  <2>4. newest = {1}
    BY <2>2, <2>3
  <2>5. (CHOOSE i \in {1} : \A j \in {1} : i <= j) = 1
    OBVIOUS
  <2>6. has # {}
    BY <2>1
  <2> HIDE DEF has, newest
  <2>7. Decider(k) = CHOOSE i \in newest : \A j \in newest : i <= j
    BY <1>1, <2>6
  <2>8. Decider(k) = 1
    BY <2>4, <2>5, <2>7
  <2> QED
    BY <1>3, <2>8
<1> QED
  BY <1>2, <1>3

(* The rows of the delta that are left are those that do not delete.       *)
Survives(w) == \E j \in DOMAIN deltas[1].rows : deltas[1].rows[j].type # "DELETE" /\ w = deltas[1].rows[j]

(* What MergeableInput says of the input of the plain merge.               *)
LEMMA OneDelta ==
    ASSUME ~flag, MergeableInput, deltas \in DeltaList, deltas # <<>>
    PROVE  /\ DOMAIN deltas = {1} /\ Size = 1 /\ deltas[1].ts \in Nat /\ deltas[1].ts > 0
           /\ IsSeq(deltas[1].rows) /\ DistinctKeys(deltas[1].rows) /\ oldBm = None
           /\ \A k : k \in DeltaKeys(1) <=> \E j \in DOMAIN deltas[1].rows : k = deltas[1].rows[j].key
<1>1. Size <= 1 /\ oldBm = None /\ \A i \in DOMAIN deltas : deltas[i].ts > 0 /\ DistinctKeys(deltas[i].rows)
  BY DEF MergeableInput, PlainInput
<1>2. IsSeq(deltas)
  BY DEF DeltaList, IsSeq
<1>3. Size \in Nat /\ DOMAIN deltas = 1 .. Size /\ Size # 0
  BY <1>2, SeqPlaces DEF Size
<1>4. Size = 1 /\ DOMAIN deltas = {1}
  BY <1>1, <1>3
<1>5. deltas[1].ts \in Nat
  <2> DEFINE D == [ts : Nat, rows : Seq([key : Nat \X Nat, ver : Nat, type : Type])]
  <2>1. deltas \in Seq(D)
    BY DEF DeltaList
  <2>2. deltas[1] \in D
    <3> HIDE DEF D
    <3> QED
      BY <1>4, <2>1
  <2> QED
    BY <2>2
<1>6. IsSeq(deltas[1].rows)
  BY <1>4, RowsAreSeq
<1> QED
  BY <1>1, <1>4, <1>5, <1>6 DEF DeltaKeys

(* With one delta the k-way merge keeps the rows it does not have.         *)
LEMMA BitsOfOne ==
    ASSUME ~flag, MergeableInput, deltas \in DeltaList, deltas # <<>>, NEW s \in DOMAIN stable
    PROVE  Bit(s) = 1 <=> stable[s] \notin DeltaKeys(1)
<1>1. \A k : Decider(k) = IF k \in DeltaKeys(1) THEN 1 ELSE 0
  BY OneDelta, OneDecides
<1>2. ~\E k \in AllKeys : Decider(k) = 0 /\ \A i \in DOMAIN stable : stable[i] # k
  <2>1. ASSUME NEW k \in AllKeys, Decider(k) = 0, \A i \in DOMAIN stable : stable[i] # k PROVE FALSE
    <3>1. DOMAIN deltas = {1}
      BY OneDelta
    <3>2. k \in DeltaKeys(1)
      BY <2>1, <3>1 DEF AllKeys
    <3> QED
      BY <1>1, <2>1, <3>2
  <2> QED
    BY <2>1
<1> QED
  BY <1>1, <1>2 DEF Bit

(* With one delta the k-way merge keeps the rows that are not deleted.     *)
LEMMA SurvivorsOfOne ==
    ASSUME InputInv, ~flag, MergeableInput, deltas \in DeltaList, deltas # <<>>,
           NEW rows, rows = [n \in DOMAIN DeltasPositions |-> deltas[1].rows[DeltasPositions[n]]]
    PROVE  IsSeq(rows) /\ DistinctKeys(rows) /\ \A w : w \in Elems(rows) <=> Survives(w)
<1>1. /\ DOMAIN deltas = {1} /\ Size = 1 /\ DistinctKeys(deltas[1].rows)
      /\ \A k : k \in DeltaKeys(1) <=> \E j \in DOMAIN deltas[1].rows : k = deltas[1].rows[j].key
  BY OneDelta
<1>2. \A k : Decider(k) = IF k \in DeltaKeys(1) THEN 1 ELSE 0
  BY OneDelta, OneDecides
<1>3. PICK K : K = {k \in AllKeys : Decider(k) # 0 /\ TypeAt(Decider(k), k) # "DELETE"}
  OBVIOUS
<1>4. \A k \in K : Decider(k) = 1 /\ k \in DeltaKeys(1) /\ TypeAt(1, k) # "DELETE"
  BY <1>2, <1>3
<1>5. ASSUME NEW j \in DOMAIN deltas[1].rows, deltas[1].rows[j].type # "DELETE"
      PROVE  deltas[1].rows[j].key \in K
  <2>1. PICK k : k = deltas[1].rows[j].key
    OBVIOUS
  <2>2. k \in DeltaKeys(1) /\ k \in AllKeys
    BY <1>1, <2>1, RowIs
  <2>3. IndexIn(1, k) = j
    BY <1>1, <2>1, IndexIs
  <2>4. Decider(k) = 1 /\ TypeAt(1, k) # "DELETE"
    BY <1>2, <1>5, <2>2, <2>3 DEF TypeAt
  <2> QED
    BY <1>3, <2>1, <2>2, <2>4
<1>6. K \subseteq Nat \X Nat /\ IsFiniteSet(K)
  <2>1. IsFiniteSet(AllKeys) /\ K \subseteq AllKeys
    BY <1>3, KeysAreFinite
  <2>2. IsFiniteSet(K)
    BY <2>1, FS_Subset
  <2>3. ASSUME NEW k \in K PROVE k \in Nat \X Nat
    <3>1. PICK j \in DOMAIN deltas[1].rows : k = deltas[1].rows[j].key
      BY <1>1, <1>4
    <3>2. 1 \in DOMAIN deltas
      BY <1>1
    <3> QED
      BY <3>1, <3>2, RowIs
  <2> QED
    BY <2>2, <2>3
<1>7. PICK c : Lists(c, K)
  BY <1>6, ListExists
<1>8. PICK N \in Nat : N = Cardinality(K)
  BY <1>6, FS_CardinalityType
<1>9. /\ \A n \in 1 .. N : c[n] \in K
      /\ \A k \in K : \E n \in 1 .. N : c[n] = k
      /\ \A n, m \in 1 .. N : c[n] = c[m] => n = m
      /\ \A n \in 1 .. N : \A k \in K : RankIn(K, k) = n <=> k = c[n]
  BY <1>7, <1>8, Zenon DEF Lists
<1>10. DeltasPositions = [n \in 1 .. N |->
            PlaceInCombined(Decider(CHOOSE k \in K : RankIn(K, k) = n), CHOOSE k \in K : RankIn(K, k) = n)]
  <2> DEFINE keep == {k \in AllKeys : Decider(k) # 0 /\ TypeAt(Decider(k), k) # "DELETE"}
  <2>1. DeltasPositions = [n \in 1 .. Cardinality(keep) |->
            PlaceInCombined(Decider(CHOOSE k \in keep : RankIn(keep, k) = n), CHOOSE k \in keep : RankIn(keep, k) = n)]
    BY Zenon DEF DeltasPositions, RankIn
  <2>2. keep = K
    BY <1>3
  <2> HIDE DEF keep
  <2> QED
    BY <1>8, <2>1, <2>2
<1>11. ASSUME NEW n \in 1 .. N
       PROVE  DeltasPositions[n] = IndexIn(1, c[n])
  <2>1. (CHOOSE k \in K : RankIn(K, k) = n) = c[n]
    BY <1>9
  <2>2. DeltasPositions[n] = PlaceInCombined(Decider(c[n]), c[n])
    BY <1>10, <2>1
  <2>3. Decider(c[n]) = 1
    BY <1>4, <1>9
  <2>4. 1 # Size + 1
    BY <1>1
  <2> QED
    BY <2>2, <2>3, <2>4 DEF PlaceInCombined
<1>12. DOMAIN rows = 1 .. N /\ \A n \in 1 .. N : rows[n] = deltas[1].rows[DeltasPositions[n]]
  <2>1. DOMAIN DeltasPositions = 1 .. N
    BY <1>10
  <2> QED
    BY <2>1
<1>13. ASSUME NEW n \in 1 .. N
       PROVE  /\ rows[n].key = c[n]
              /\ \E j \in DOMAIN deltas[1].rows : deltas[1].rows[j].type # "DELETE" /\ rows[n] = deltas[1].rows[j]
  <2>1. c[n] \in DeltaKeys(1) /\ TypeAt(1, c[n]) # "DELETE"
    BY <1>4, <1>9
  <2>2. PICK j \in DOMAIN deltas[1].rows : c[n] = deltas[1].rows[j].key
    BY <1>1, <2>1
  <2>3. IndexIn(1, c[n]) = j
    BY <1>1, <2>2, IndexIs
  <2>4. rows[n] = deltas[1].rows[j]
    BY <1>11, <1>12, <2>3
  <2>5. deltas[1].rows[j].type # "DELETE"
    BY <2>1, <2>3 DEF TypeAt
  <2> QED
    BY <2>2, <2>4, <2>5
<1>14. IsSeq(rows)
  <2>1. rows = [i \in DOMAIN rows |-> rows[i]]
    OBVIOUS
  <2> QED
    BY <1>12, <2>1, FunctionIsSeq
<1>15. DistinctKeys(rows)
  BY <1>9, <1>12, <1>13 DEF DistinctKeys
<1>16. ASSUME NEW w PROVE w \in Elems(rows) <=> Survives(w)
  <2>1. ASSUME w \in Elems(rows) PROVE Survives(w)
    <3>1. PICK n \in 1 .. N : w = rows[n]
      BY <1>12, <2>1 DEF Elems
    <3> QED
      BY <1>13, <3>1 DEF Survives
  <2>2. ASSUME Survives(w) PROVE w \in Elems(rows)
    <3>1. PICK j \in DOMAIN deltas[1].rows : deltas[1].rows[j].type # "DELETE" /\ w = deltas[1].rows[j]
      BY <2>2 DEF Survives
    <3>2. PICK n \in 1 .. N : c[n] = deltas[1].rows[j].key
      BY <1>5, <1>9, <3>1
    <3>3. IndexIn(1, c[n]) = j
      BY <1>1, <3>2, IndexIs
    <3>4. rows[n] = w
      BY <1>11, <1>12, <3>1, <3>3
    <3> QED
      BY <1>12, <3>4 DEF Elems
  <2> QED
    BY <2>1, <2>2
<1> QED
  BY <1>14, <1>15, <1>16

(* The k-way merge hands on the table and sends what stands for it.        *)
LEMMA PlainMerged ==
    ASSUME InputInv, ~flag, MergeableInput, deltas \in DeltaList, deltas # <<>>, KWayMerge, pc' = "done"
    PROVE  HandsOn(queue', evaluated') /\ StandsFor(stableBm', merged')
<1>1. /\ DOMAIN deltas = {1} /\ Size = 1 /\ oldBm = None /\ DistinctKeys(deltas[1].rows)
      /\ \A k : k \in DeltaKeys(1) <=> \E j \in DOMAIN deltas[1].rows : k = deltas[1].rows[j].key
  BY OneDelta
<1>2. PICK n \in Nat : n = Len(stable) /\ DOMAIN stable = 1 .. n /\ stable \in Seq(Nat \X Nat)
  BY DEF InputInv
<1>3. PICK bm : bm = [s \in DOMAIN stable |-> Bit(s)]
  OBVIOUS
<1>4. PICK rows : rows = [m \in DOMAIN DeltasPositions |-> deltas[1].rows[DeltasPositions[m]]]
  OBVIOUS
<1>5. PICK kept : kept = Evaluate(StableRows(0, n), Kept(bm, 0, n))
  OBVIOUS
<1>6. /\ evaluated' = kept \o Plain(rows) /\ queue' = Chunks(evaluated') /\ merged' = rows /\ stableBm' = bm
  <2>1. pc' # "crash" /\ ~(Size > 1)
    BY <1>1
  <2> QED
    BY <1>2, <1>3, <1>4, <1>5, <2>1 DEF KWayMerge
<1>7. IsSeq(rows) /\ DistinctKeys(rows) /\ \A w : w \in Elems(rows) <=> Survives(w)
  BY <1>4, SurvivorsOfOne
<1>8. \A s \in DOMAIN stable : bm[s] = 1 <=> stable[s] \notin DeltaKeys(1)
  BY <1>3, BitsOfOne
<1>9. KeepsRows(kept, bm, 0, n)
  <2>1. 0 \in Nat /\ 0 <= n /\ n <= Len(stable)
    BY <1>2
  <2> QED
    BY <1>2, <1>5, <2>1, KeptRows
<1>10. /\ IsSeq(kept) /\ Distinct(kept)
       /\ \A r : r \in Elems(kept) <=> \E s \in DOMAIN stable : bm[s] = 1 /\ r = StableRow(s)
  <2>1. Distinct(stable)
    BY DEF MergeableInput
  <2>2. 0 + 1 .. n = DOMAIN stable
    BY <1>2
  <2> QED
    BY <1>9, <2>1, <2>2 DEF KeepsRows
<1>11. ASSUME NEW r PROVE r \in Latest <=> Table(bm, rows, r)
  <2>1. \A i \in DOMAIN deltas : DistinctKeys(deltas[i].rows)
    BY DEF MergeableInput
  <2>2. r \in Latest <=>
          \/ \E i \in DOMAIN deltas : \E j \in DOMAIN deltas[i].rows :
               Counts(i, j) /\ r = PlainRow(deltas[i].rows[j])
          \/ \E s \in DOMAIN stable : Stays(s) /\ r = StableRow(s)
    BY <2>1, LatestRows
  <2>3. 1 .. 1 - 1 = {}
    OBVIOUS
  <2>4. \A j \in DOMAIN deltas[1].rows : Counts(1, j) <=> deltas[1].rows[j].type # "DELETE"
    BY <2>3 DEF Counts
  <2>5. (\E i \in DOMAIN deltas : \E j \in DOMAIN deltas[i].rows :
               Counts(i, j) /\ r = PlainRow(deltas[i].rows[j])) <=> \E w : Survives(w) /\ r = PlainRow(w)
    BY <1>1, <2>4 DEF Survives
  <2>6. \A s \in DOMAIN stable : Stays(s) <=> bm[s] = 1
    BY <1>1, <1>8 DEF Stays, InDeltas
  <2>7. (\E w : Survives(w) /\ r = PlainRow(w)) <=> \E w \in Elems(rows) : r = PlainRow(w)
    BY <1>7, Zenon
  <2> QED
    BY <2>2, <2>5, <2>6, <2>7, Zenon DEF Table
<1>12. ASSUME NEW s \in DOMAIN stable, NEW w \in Elems(rows), bm[s] = 1 PROVE stable[s] # w.key
  BY <1>1, <1>7, <1>8, <1>12 DEF Survives
<1>13. /\ IsSeq(kept \o Plain(rows)) /\ Distinct(kept \o Plain(rows))
       /\ \A r : r \in Elems(kept \o Plain(rows)) <=> r \in Latest
       /\ StandsFor(bm, rows)
  BY <1>7, <1>10, <1>11, <1>12, AllRows
<1>14. PICK all : all = kept \o Plain(rows)
  OBVIOUS
<1>15. Cut(Chunks(all), all) /\ Covers(Chunks(all), all)
  BY <1>13, <1>14, ChunksCut
<1>16. HandsOn(Chunks(all), all)
  BY <1>13, <1>14, <1>15, Zenon DEF HandsOn
<1> QED
  BY <1>6, <1>13, <1>14, <1>16

-----------------------------------------------------------------------------
(* The result.                                                             *)

ResultInv ==
    /\ oldBm = None \/ oldBm \in [DOMAIN stable -> 0 .. 1]
    /\ pc \in {"run", "drain"} => merged = None
    /\ MergeableInput =>
         /\ flag /\ deltas = <<>> => Queued /\ merged = None
         /\ flag /\ deltas # <<>> /\ pc \in {"run", "drain"} => BatchedInv
         /\ ResultIsLatest /\ CacheStandsForResult

(* What the input determines does not change.                              *)
LEMMA KeysKept ==
    ASSUME UNCHANGED inputVars
    PROVE  /\ flag' = flag /\ stable' = stable /\ deltas' = deltas /\ oldBm' = oldBm
           /\ \A i : DeltaKeys(i)' = DeltaKeys(i)
           /\ AllKeys' = AllKeys /\ Size' = Size /\ NumBatches' = NumBatches
           /\ \A n : Batch(n)' = Batch(n)
           /\ \A n : BatchBegin(n)' = BatchBegin(n)
           /\ \A n : BatchEnd(n)' = BatchEnd(n)
           /\ MemRows' = MemRows /\ TailRows' = TailRows
<1>1. flag' = flag /\ stable' = stable /\ deltas' = deltas /\ oldBm' = oldBm
  BY DEF inputVars
<1>2. \A i : DeltaKeys(i)' = DeltaKeys(i)
  BY <1>1 DEF DeltaKeys
<1>3. AllKeys' = AllKeys /\ Size' = Size /\ NumBatches' = NumBatches
  BY <1>1 DEF AllKeys, DeltaKeys, Size, NumBatches, Ceil
<1>4. /\ \A n : BatchBegin(n)' = BatchBegin(n)
      /\ \A n : BatchEnd(n)' = BatchEnd(n)
  BY <1>1 DEF BatchBegin, BatchEnd, BatchSize
<1>5. \A n : Batch(n)' = Batch(n)
  BY <1>4 DEF Batch
<1>6. MemRows' = MemRows /\ TailRows' = TailRows
  BY <1>1 DEF MemRows, TailRows, MemPos, TailPos, Size
<1> QED
  BY <1>1, <1>2, <1>3, <1>4, <1>5, <1>6

(* The input never changes, and neither does the table.                    *)
LEMMA InputsKept ==
    ASSUME UNCHANGED inputVars
    PROVE  (MergeableInput' <=> MergeableInput) /\ Latest' = Latest
<1>1. /\ flag' = flag /\ stable' = stable /\ deltas' = deltas /\ oldBm' = oldBm
      /\ \A i : DeltaKeys(i)' = DeltaKeys(i)
      /\ AllKeys' = AllKeys /\ Size' = Size /\ NumBatches' = NumBatches
  BY KeysKept
<1>2. PlainInput' <=> PlainInput
  BY <1>1 DEF PlainInput
<1>3. Ascending' <=> Ascending
  BY <1>1 DEF Ascending
<1>4. BatchedInput' <=> BatchedInput
  BY <1>1, <1>3 DEF BatchedInput
<1>5. MergeableInput' <=> MergeableInput
  BY <1>1, <1>2, <1>4 DEF MergeableInput, Distinct, DistinctKeys
<1>6. Latest' = Latest
  BY <1>1 DEF Latest, InDeltas, Newest, TypeAt, IndexIn, AllKeys, DeltaKeys
<1> QED
  BY <1>5, <1>6

(* So what is said of a merge is said of the new values alone.             *)
LEMMA MergedKept ==
    ASSUME UNCHANGED inputVars
    PROVE  /\ BitsAre(order, stableBm)' <=> BitsAre(order', stableBm')
           /\ MemLeft(memKept)' <=> MemLeft(memKept')
           /\ TailSeen(order, seen)' <=> TailSeen(order', seen')
           /\ RowsAre(order, stableBm, evaluated)' <=> RowsAre(order', stableBm', evaluated')
           /\ Cut(queue, evaluated)' <=> Cut(queue', evaluated')
<1>1. /\ flag' = flag /\ stable' = stable /\ oldBm' = oldBm
      /\ \A n : Batch(n)' = Batch(n)
      /\ MemRows' = MemRows /\ TailRows' = TailRows
  BY KeysKept
<1>2. \A s : Done(order, s)' <=> Done(order', s)
  BY <1>1 DEF Done, Elems
<1>3. BitsAre(order, stableBm)' <=> BitsAre(order', stableBm')
  BY <1>1, <1>2 DEF BitsAre, KeysIn
<1>4. MemLeft(memKept)' <=> MemLeft(memKept')
  BY <1>1 DEF MemLeft, KeysIn
<1>5. TailSeen(order, seen)' <=> TailSeen(order', seen')
  BY <1>1, <1>2 DEF TailSeen, KeysIn
<1>6. RowsAre(order, stableBm, evaluated)' <=> RowsAre(order', stableBm', evaluated')
  BY <1>1, <1>2 DEF RowsAre, IsSeq, Distinct, Elems, StableRow
<1>7. Cut(queue, evaluated)' <=> Cut(queue', evaluated')
  BY DEF Cut, IsSeq
<1> QED
  BY <1>3, <1>4, <1>5, <1>6, <1>7

(* Rows that stand for the table make the result right.                    *)
LEMMA ResultNext ==
    ASSUME UNCHANGED inputVars, NEW rows, HandsOn(queue', rows)
    PROVE  ResultIsLatest'
<1>1. PICK q : q = queue'
  OBVIOUS
<1>2. Cut(q, rows) /\ Covers(q, rows) /\ Distinct(rows) /\ \A r : r \in Elems(rows) <=> r \in Latest
  BY <1>1 DEF HandsOn
<1>3. /\ {q[x[1]][x[2]] : x \in Places(q)} = Elems(rows)
      /\ Cardinality(Places(q)) = Cardinality(Elems(rows))
  BY <1>2, CutHandsOn
<1>4. Elems(rows) = Latest
  BY <1>2
<1>5. Latest' = Latest
  BY InputsKept
<1>6. /\ {queue'[x[1]][x[2]] : x \in Places(queue')} = Latest'
      /\ Cardinality(Places(queue')) = Cardinality(Latest')
  BY <1>1, <1>3, <1>4, <1>5
<1> QED
  BY <1>6 DEF ResultIsLatest, Places

(* What is sent stands for the table afterwards.                           *)
LEMMA CacheNext ==
    ASSUME UNCHANGED inputVars, StandsFor(stableBm', merged')
    PROVE  CacheStandsForResult'
<1>1. Latest' = Latest /\ stable' = stable
  BY InputsKept, KeysKept
<1>2. PICK x, bm : x = merged' /\ bm = stableBm'
  OBVIOUS
<1>3. \A r : r \in Latest <=>
        r \in Elems(Plain(x)) \/ \E s \in DOMAIN stable : bm[s] = 1 /\ r = StableRow(s)
  BY <1>2 DEF StandsFor
<1>4. Latest = Elems(Plain(x))
               \cup {[key |-> stable[s], ver |-> 0] : s \in {s \in DOMAIN stable : bm[s] = 1}}
  BY <1>3, Zenon DEF StableRow
<1>5. Elems(Plain(merged))' = Elems(Plain(x))
  BY <1>2 DEF Elems, Plain
<1> QED
  BY <1>1, <1>2, <1>4, <1>5 DEF CacheStandsForResult

(* The batch that is merged is a new one, and the first is batch 1.        *)
LEMMA NewBatch ==
    ASSUME MergeInv, MergeInv', flag, flag' = flag, NumBatches' = NumBatches, pc' # "crash", fromHandler' > 0,
           NEW n \in Nat, order' = Append(order, n)
    PROVE  /\ order \in Seq(Nat) /\ \A m \in Elems(order) : m \in 1 .. NumBatches
           /\ n \notin Elems(order)
           /\ n = 1 <=> order = <<>>
<1>1. order \in Seq(Nat)
  BY DEF MergeInv, OrderInv
<1>2. /\ \A b \in Nat : b \in Elems(order') => b \in 1 .. Received'
      /\ \A i, j \in DOMAIN order' : order'[i] = order'[j] => i = j
      /\ order' # <<>> => order'[1] = 1
  BY DEF MergeInv, OrderInv, OnceFrom1
<1>3. PICK l \in Nat : l = Len(order) /\ DOMAIN order = 1 .. l
  BY <1>1
<1>4. /\ DOMAIN order' = 1 .. l + 1 /\ order'[l + 1] = n /\ order' # <<>>
      /\ \A i \in 1 .. l : order'[i] = order[i]
  BY <1>1, <1>3
<1>5. n \notin Elems(order)
  <2>1. SUFFICES ASSUME NEW i \in 1 .. l, order[i] = n PROVE FALSE
    BY <1>3 DEF Elems
  <2>2. i \in DOMAIN order' /\ l + 1 \in DOMAIN order' /\ i # l + 1
    BY <1>4
  <2> QED
    BY <1>2, <1>4, <2>1, <2>2
<1>6. n = 1 <=> order = <<>>
  <2>1. order = <<>> <=> l = 0
    BY <1>1, <1>3
  <2>2. 1 \in DOMAIN order' /\ l + 1 \in DOMAIN order'
    BY <1>4
  <2>3. n = 1 => l + 1 = 1
    BY <1>2, <1>4, <2>2
  <2>4. l = 0 => n = 1
    BY <1>2, <1>4
  <2> QED
    BY <2>1, <2>3, <2>4
<1>7. ASSUME NEW m \in Elems(order) PROVE m \in 1 .. NumBatches
  <2>1. m \in Nat /\ m \in Elems(order')
    <3>1. PICK i \in 1 .. l : m = order[i]
      BY <1>3 DEF Elems
    <3>2. i \in DOMAIN order' /\ m = order'[i] /\ m \in Nat
      BY <1>1, <1>3, <1>4, <3>1
    <3> QED
      BY <3>2 DEF Elems
  <2>2. m \in 1 .. Received'
    BY <1>2, <2>1
  <2>3. NumBatches \in Nat
    BY BatchNumber DEF MergeInv
  <2>4. Received' \in Nat /\ Received' <= NumBatches
    BY <2>3 DEF Received, MergeInv, ControlInv
  <2> QED
    BY <2>2, <2>3, <2>4
<1> QED
  BY <1>1, <1>5, <1>6, <1>7

(* A batch keeps the invariant.                                            *)
LEMMA BatchStep ==
    ASSUME MergeInv, MergeInv', ChunkInv, ResultInv, flag, pc \in {"run", "drain"}, UNCHANGED <<inputVars, merged>>,
           fromHandler' > 0, NEW n \in 1 .. NumBatches, MergeBatch(n)
    PROVE  ResultInv'
<1>0. /\ flag' = flag /\ stable' = stable /\ deltas' = deltas /\ oldBm' = oldBm /\ NumBatches' = NumBatches
      /\ \A m : BatchBegin(m)' = BatchBegin(m)
      /\ \A m : BatchEnd(m)' = BatchEnd(m)
  BY KeysKept
<1>1. MergeableInput' <=> MergeableInput
  BY InputsKept
<1>2. n \in Nat /\ InputInv /\ deltas \in DeltaList /\ merged' = None /\ pc' # "done"
  <2>1. pc' = pc \/ pc' = "crash"
    BY MergeBatchOrder
  <2>2. n \in Nat
    BY BatchNumber DEF MergeInv
  <2> QED
    BY <2>1, <2>2 DEF MergeInv, ChunkInv, ResultInv
<1>3. ResultIsLatest' /\ CacheStandsForResult'
  BY <1>2 DEF ResultIsLatest, CacheStandsForResult
<1>4. (oldBm = None \/ oldBm \in [DOMAIN stable -> 0 .. 1])'
  BY <1>0 DEF ResultInv
<1>5. CASE pc' = "crash"
  <2>1. deltas # <<>>
    BY <1>5 DEF MergeBatch
  <2> QED
    BY <1>0, <1>2, <1>3, <1>4, <1>5, <2>1 DEF ResultInv
<1>6. CASE pc' # "crash" /\ deltas = <<>>
  <2>1. /\ queue' = Append(queue, StableRows(BatchBegin(n), BatchEnd(n)))
        /\ order' = Append(order, n)
    BY <1>6 DEF MergeBatch
  <2>2. ASSUME MergeableInput PROVE Queued'
    <3>1. Queued
      BY <1>6, <2>2 DEF ResultInv
    <3>2. PICK x : x = StableRows(BatchBegin(n), BatchEnd(n))
      OBVIOUS
    <3>3. PICK S : queue \in Seq(S)
      BY <3>1 DEF Queued, IsSeq
    <3>4. queue \in Seq(S \cup {x}) /\ x \in S \cup {x}
      BY <3>3
    <3>5. PICK l \in Nat : l = Len(queue) /\ DOMAIN queue = 1 .. l
      BY <3>3
    <3>6. order \in Seq(Nat) /\ DOMAIN order = 1 .. l
      BY <3>1, <3>5 DEF Queued, MergeInv, OrderInv
    <3>7. Len(order) = l
      BY <3>6
    <3>8. /\ queue' \in Seq(S \cup {x}) /\ DOMAIN queue' = 1 .. l + 1 /\ queue'[l + 1] = x
          /\ \A i \in 1 .. l : queue'[i] = queue[i]
      BY <2>1, <3>2, <3>4, <3>5
    <3>9. /\ DOMAIN order' = 1 .. l + 1 /\ order'[l + 1] = n
          /\ \A i \in 1 .. l : order'[i] = order[i]
      BY <1>2, <2>1, <3>6, <3>7
    <3>10. \A b, e : StableRows(b, e)' = StableRows(b, e)
      BY <1>0 DEF StableRows
    <3>11. ASSUME NEW i \in 1 .. l + 1
           PROVE  queue'[i] = StableRows(BatchBegin(order'[i]), BatchEnd(order'[i]))
      <4>1. CASE i \in 1 .. l
        BY <3>1, <3>5, <3>8, <3>9, <4>1 DEF Queued
      <4>2. CASE i = l + 1
        BY <3>2, <3>8, <3>9, <4>2
      <4> QED
        BY <4>1, <4>2
    <3>12. ASSUME NEW i \in 1 .. l + 1
           PROVE  queue'[i] = StableRows(BatchBegin(order[i]), BatchEnd(order[i]))'
      <4>1. queue'[i] = StableRows(BatchBegin(order'[i]), BatchEnd(order'[i]))
        BY <3>11
      <4> QED
        BY <1>0, <4>1 DEF StableRows, BatchBegin, BatchEnd, BatchSize
    <3>13. IsSeq(queue)'
      BY <3>8 DEF IsSeq
    <3> QED
      BY <3>8, <3>9, <3>12, <3>13 DEF Queued
  <2> QED
    BY <1>0, <1>1, <1>2, <1>3, <1>4, <1>6, <2>2 DEF ResultInv
<1>7. CASE pc' # "crash" /\ deltas # <<>>
  <2>1. stableBm # None /\ order' = Append(order, n)
    BY <1>7 DEF MergeBatch
  <2>2. /\ order \in Seq(Nat) /\ (\A m \in Elems(order) : m \in 1 .. NumBatches)
        /\ n \notin Elems(order) /\ (n = 1 <=> order = <<>>)
    BY <1>0, <1>2, <1>7, <2>1, NewBatch
  <2>3. ASSUME MergeableInput PROVE BatchedInv'
    <3>1. BatchedInv /\ (oldBm = None \/ oldBm \in [DOMAIN stable -> 0 .. 1])
      BY <1>7, <2>3 DEF ResultInv
    <3>2. Full(queue) /\ Len(queue) * ChunkSize <= Len(evaluated)
      BY <1>7 DEF ChunkInv
    <3>3. /\ oldBm # None
          /\ BitsAre(order', stableBm') /\ MemLeft(memKept') /\ TailSeen(order', seen')
          /\ RowsAre(order', stableBm', evaluated')
          /\ Cut(queue', evaluated')
      BY <1>2, <1>7, <2>1, <2>2, <2>3, <3>1, <3>2, BatchMerged
    <3>4. /\ BitsAre(order, stableBm)' /\ MemLeft(memKept)' /\ TailSeen(order, seen)'
          /\ RowsAre(order, stableBm, evaluated)'
          /\ Cut(queue, evaluated)'
      BY <3>3, MergedKept
    <3>5. order' # <<>>
      BY <1>2, <2>1, <2>2
    <3> QED
      BY <1>0, <3>3, <3>4, <3>5 DEF BatchedInv
  <2> QED
    BY <1>0, <1>1, <1>2, <1>3, <1>4, <1>7, <2>3 DEF ResultInv
<1> QED
  BY <1>5, <1>6, <1>7

(* A step that merges nothing keeps it.                                    *)
LEMMA ResultKept ==
    ASSUME ResultInv,
           UNCHANGED <<inputVars, stableBm, memKept, seen, evaluated, queue, merged, order>>,
           pc' = pc \/ (pc \in {"run", "drain"} /\ pc' \in {"run", "drain"})
    PROVE  ResultInv'
<1>0. /\ flag' = flag /\ stable' = stable /\ deltas' = deltas /\ oldBm' = oldBm
      /\ \A m : BatchBegin(m)' = BatchBegin(m)
      /\ \A m : BatchEnd(m)' = BatchEnd(m)
  BY KeysKept
<1>1. (MergeableInput' <=> MergeableInput) /\ Latest' = Latest
  BY InputsKept
<1>2. /\ stableBm' = stableBm /\ memKept' = memKept /\ seen' = seen /\ evaluated' = evaluated
      /\ queue' = queue /\ merged' = merged /\ order' = order
  OBVIOUS
<1>3. (pc' \in {"run", "drain"} => pc \in {"run", "drain"}) /\ (pc' = "done" => pc = "done")
  OBVIOUS
<1>4. Queued => Queued'
  BY <1>0, <1>2 DEF Queued, IsSeq, StableRows
<1>5. BatchedInv => BatchedInv'
  <2>1. /\ BitsAre(order, stableBm)' <=> BitsAre(order, stableBm)
        /\ MemLeft(memKept)' <=> MemLeft(memKept)
        /\ TailSeen(order, seen)' <=> TailSeen(order, seen)
        /\ RowsAre(order, stableBm, evaluated)' <=> RowsAre(order, stableBm, evaluated)
        /\ Cut(queue, evaluated)' <=> Cut(queue, evaluated)
    BY <1>2, MergedKept
  <2> QED
    BY <1>0, <1>2, <2>1 DEF BatchedInv
<1>6. ResultIsLatest => ResultIsLatest'
  BY <1>1, <1>2, <1>3 DEF ResultIsLatest
<1>7. CacheStandsForResult => CacheStandsForResult'
  BY <1>0, <1>1, <1>2, <1>3 DEF CacheStandsForResult, Elems, Plain
<1>8. (oldBm = None \/ oldBm \in [DOMAIN stable -> 0 .. 1])'
  BY <1>0 DEF ResultInv
<1> QED
  BY <1>0, <1>1, <1>2, <1>3, <1>4, <1>5, <1>6, <1>7, <1>8 DEF ResultInv

(* When the last batch that was kept back is merged, all are.              *)
LEMMA AllBatches ==
    ASSUME MergeInv, flag, pc = "drain", earlyIdx = Len(stables)
    PROVE  /\ Elems(order) = 1 .. NumBatches /\ OnceFrom1(order) /\ order # <<>>
           /\ \A s \in DOMAIN stable : Done(order, s)
<1>1. NumBatches \in Nat /\ NumBatches >= 1 /\ InputInv
  BY BatchNumber DEF MergeInv
<1>2. fromScan = NumBatches + 1 /\ fromHandler = 2
  BY DEF MergeInv, ControlInv
<1>3. Received = NumBatches
  BY <1>1, <1>2 DEF Received
<1>4. /\ order \in Seq(Nat)
      /\ \A b \in Nat : b \in Elems(order) <=> b \in 1 .. Received /\ (b <= earlyIdx \/ b > Len(stables))
      /\ OnceFrom1(order)
  BY <1>2 DEF MergeInv, OrderInv
<1>5. PICK l \in Nat : l = Len(stables) /\ l = earlyIdx
  BY DEF MergeInv, EarlyInv
<1>6. Elems(order) \subseteq Nat
  BY <1>4 DEF Elems
<1>7. \A b \in Nat : b \in Elems(order) <=> b \in 1 .. NumBatches
  BY <1>1, <1>3, <1>4, <1>5
<1>8. Elems(order) = 1 .. NumBatches
  <2>1. 1 .. NumBatches \subseteq Nat
    BY <1>1
  <2> QED
    BY <1>6, <1>7, <2>1, Zenon
<1>9. order # <<>>
  <2>1. 1 \in Elems(order)
    BY <1>1, <1>8
  <2> QED
    BY <2>1 DEF Elems
<1>10. ASSUME NEW s \in DOMAIN stable PROVE Done(order, s)
  <2>1. PICK n \in 1 .. NumBatches : s \in Batch(n)
    BY <1>1, EachInABatch
  <2> QED
    BY <1>8, <2>1 DEF Done
<1> QED
  BY <1>4, <1>8, <1>9, <1>10

(* The end of the merge.                                                   *)
LEMMA FinishStep ==
    ASSUME MergeInv, ChunkInv, ResultInv, Finish
    PROVE  ResultInv'
<1>0. UNCHANGED inputVars /\ pc = "drain" /\ order' = order
  BY DEF Finish
<1>1. /\ flag' = flag /\ stable' = stable /\ deltas' = deltas /\ oldBm' = oldBm
      /\ \A m : BatchBegin(m)' = BatchBegin(m)
      /\ \A m : BatchEnd(m)' = BatchEnd(m)
  BY <1>0, KeysKept
<1>2. (MergeableInput' <=> MergeableInput) /\ Latest' = Latest
  BY <1>0, InputsKept
<1>3. (oldBm = None \/ oldBm \in [DOMAIN stable -> 0 .. 1])'
  BY <1>1 DEF ResultInv
<1>4. InputInv /\ deltas \in DeltaList /\ merged = None
  BY <1>0 DEF MergeInv, ChunkInv, ResultInv
<1>5. pc' \in {"done", "crash"}
  BY DEF Finish, MergeDeltas, KWayMerge
<1>6. CASE pc' = "crash"
  <2>1. deltas # <<>>
    BY <1>6 DEF Finish, MergeDeltas
  <2>2. ResultIsLatest' /\ CacheStandsForResult'
    BY <1>6 DEF ResultIsLatest, CacheStandsForResult
  <2> QED
    BY <1>1, <1>3, <1>6, <2>1, <2>2 DEF ResultInv
<1>7. CASE pc' = "done" /\ flag /\ deltas = <<>>
  <2>1. queue' = queue /\ merged' = None /\ earlyIdx = Len(stables)
    BY <1>4, <1>7 DEF Finish, MergeDeltas
  <2>2. CacheStandsForResult'
    BY <2>1 DEF CacheStandsForResult
  <2>3. ASSUME MergeableInput PROVE Queued' /\ ResultIsLatest'
    <3>1. Queued /\ oldBm = None /\ Distinct(stable)
      BY <1>7, <2>3 DEF ResultInv, MergeableInput, BatchedInput
    <3>2. OnceFrom1(order) /\ Elems(order) = 1 .. NumBatches
      BY <1>0, <1>7, <2>1, AllBatches
    <3>3. /\ {queue[x[1]][x[2]] : x \in Places(queue)} = Latest
          /\ Cardinality(Places(queue)) = Cardinality(Latest)
      BY <1>4, <1>7, <3>1, <3>2, BatchesHandedOn
    <3>4. ResultIsLatest'
      BY <1>2, <2>1, <3>3 DEF ResultIsLatest, Places
    <3>5. Queued'
      BY <1>0, <1>1, <2>1, <3>1 DEF Queued, IsSeq, StableRows
    <3> QED
      BY <3>4, <3>5
  <2> QED
    BY <1>1, <1>2, <1>3, <1>7, <2>1, <2>2, <2>3 DEF ResultInv
<1>8. CASE pc' = "done" /\ flag /\ deltas # <<>>
  <2>1. MergeDeltas /\ stableBm' = stableBm /\ earlyIdx = Len(stables)
    BY <1>8 DEF Finish
  <2>2. ASSUME MergeableInput PROVE ResultIsLatest' /\ CacheStandsForResult'
    <3>1. BatchedInv
      BY <1>0, <1>8, <2>2 DEF ResultInv
    <3>2. Full(queue) /\ Len(queue) * ChunkSize <= Len(evaluated)
      BY <1>0, <1>8 DEF ChunkInv
    <3>3. order # <<>> /\ \A s \in DOMAIN stable : Done(order, s)
      BY <1>0, <1>8, <2>1, AllBatches
    <3>4. HandsOn(queue', evaluated') /\ StandsFor(stableBm', merged')
      BY <1>4, <1>8, <2>1, <2>2, <3>1, <3>2, <3>3, DeltasMerged
    <3> QED
      BY <1>0, <3>4, ResultNext, CacheNext
  <2> QED
    BY <1>1, <1>2, <1>3, <1>8, <2>2 DEF ResultInv
<1>9. CASE pc' = "done" /\ ~flag /\ deltas = <<>>
  <2>1. queue' = Chunks(StableRows(0, Len(stable))) /\ merged' = None
    BY <1>4, <1>9 DEF Finish
  <2>2. CacheStandsForResult'
    BY <2>1 DEF CacheStandsForResult
  <2>3. ASSUME MergeableInput PROVE ResultIsLatest'
    <3>1. oldBm = None /\ Distinct(stable)
      BY <1>9, <2>3 DEF MergeableInput, PlainInput
    <3>2. PICK rows : rows = StableRows(0, Len(stable))
      OBVIOUS
    <3>3. HandsOn(Chunks(rows), rows)
      BY <1>4, <1>9, <3>1, <3>2, ObjectHandedOn
    <3>4. HandsOn(queue', rows)
      BY <2>1, <3>2, <3>3
    <3> QED
      BY <1>0, <3>4, ResultNext
  <2> QED
    BY <1>1, <1>2, <1>3, <1>9, <2>2, <2>3 DEF ResultInv
<1>10. CASE pc' = "done" /\ ~flag /\ deltas # <<>>
  <2>1. KWayMerge
    BY <1>10 DEF Finish
  <2>2. ASSUME MergeableInput PROVE ResultIsLatest' /\ CacheStandsForResult'
    <3>1. HandsOn(queue', evaluated') /\ StandsFor(stableBm', merged')
      BY <1>4, <1>10, <2>1, <2>2, PlainMerged
    <3> QED
      BY <1>0, <3>1, ResultNext, CacheNext
  <2> QED
    BY <1>1, <1>2, <1>3, <1>10, <2>2 DEF ResultInv
<1> QED
  BY <1>5, <1>6, <1>7, <1>8, <1>9, <1>10

(* Every step keeps the invariant.                                         *)
LEMMA ResultStep == MergeInv /\ MergeInv' /\ ChunkInv /\ ResultInv /\ [Next]_vars => ResultInv'
<1> SUFFICES ASSUME MergeInv, MergeInv', ChunkInv, ResultInv, [Next]_vars PROVE ResultInv'
  OBVIOUS
<1>0. NumBatches \in Nat /\ NumBatches >= 1
  BY BatchNumber DEF MergeInv
<1>1. CASE RecvTuple
  <2>1. UNCHANGED <<inputVars, merged>> /\ pc = "run" /\ fromHandler' = fromHandler /\ fromScan < NumBatches
    BY <1>1 DEF RecvTuple
  <2>2. CASE flag /\ DeltasReceived
    <3>1. MergeBatch(fromScan + 1)
      BY <1>1, <2>2 DEF RecvTuple
    <3>2. fromScan + 1 \in 1 .. NumBatches /\ fromHandler' > 0
      BY <1>0, <2>1, <2>2 DEF MergeInv, ControlInv, DeltasReceived
    <3> QED
      BY <2>1, <2>2, <3>1, <3>2, BatchStep
  <2>3. CASE ~(flag /\ DeltasReceived)
    <3>1. UNCHANGED <<stableBm, memKept, seen, evaluated, queue, order, pc>>
      BY <1>1, <2>3 DEF RecvTuple
    <3> QED
      BY <2>1, <3>1, ResultKept
  <2> QED
    BY <2>2, <2>3
<1>2. CASE RecvResponse
  <2>1. UNCHANGED <<inputVars, merged>> /\ pc = "run" /\ fromHandler = 0 /\ fromHandler' = 1
    BY <1>2 DEF RecvResponse
  <2>2. CASE flag /\ fromScan > 0
    <3>1. Len(stables) = Received /\ earlyIdx = 0 /\ stables \in Seq(Nat) /\ \A i \in DOMAIN stables : stables[i] = i
      BY <2>1 DEF MergeInv, EarlyInv
    <3>2. Received \in Nat /\ Received > 0
      BY <1>0, <2>2 DEF Received, MergeInv, ControlInv
    <3>3. stables[earlyIdx + 1] = 1
      BY <3>1, <3>2
    <3>4. MergeBatch(1)
      BY <1>2, <2>2, <3>3 DEF RecvResponse
    <3>5. 1 \in 1 .. NumBatches /\ fromHandler' > 0
      BY <1>0, <2>1
    <3> QED
      BY <2>1, <2>2, <3>4, <3>5, BatchStep
  <2>3. CASE ~(flag /\ fromScan > 0)
    <3>1. UNCHANGED <<stableBm, memKept, seen, evaluated, queue, order, pc>>
      BY <1>2, <2>3 DEF RecvResponse
    <3> QED
      BY <2>1, <3>1, ResultKept
  <2> QED
    BY <2>2, <2>3
<1>3. CASE RecvComplete
  <2>1. /\ UNCHANGED <<inputVars, stableBm, memKept, seen, evaluated, queue, merged, order>>
        /\ pc = "run" /\ pc' \in {"run", "drain"}
    BY <1>3 DEF RecvComplete
  <2> QED
    BY <2>1, ResultKept
<1>4. CASE DrainEarly
  <2>1. /\ UNCHANGED <<inputVars, merged, fromHandler>> /\ pc = "drain" /\ flag /\ earlyIdx < Len(stables)
        /\ MergeBatch(stables[earlyIdx + 1])
    BY <1>4 DEF DrainEarly
  <2>2. /\ stables \in Seq(Nat) /\ (\A i \in DOMAIN stables : stables[i] = i) /\ Len(stables) <= Received
        /\ earlyIdx \in 0 .. Len(stables)
    BY DEF MergeInv, EarlyInv
  <2>3. Received \in Nat /\ Received <= NumBatches /\ fromHandler = 2
    BY <1>0, <2>1 DEF Received, MergeInv, ControlInv
  <2>4. stables[earlyIdx + 1] = earlyIdx + 1 /\ earlyIdx + 1 \in 1 .. NumBatches /\ fromHandler' > 0
    BY <1>0, <2>1, <2>2, <2>3
  <2>5. MergeBatch(earlyIdx + 1)
    BY <2>1, <2>4
  <2> QED
    BY <2>1, <2>4, <2>5, BatchStep
<1>5. CASE Finish
  BY <1>5, FinishStep
<1>6. CASE UNCHANGED vars
  <2>1. UNCHANGED <<inputVars, stableBm, memKept, seen, evaluated, queue, merged, order, pc>>
    BY <1>6 DEF vars
  <2> QED
    BY <2>1, ResultKept
<1> QED
  BY <1>1, <1>2, <1>3, <1>4, <1>5, <1>6 DEF Next, Stopped

(* Nothing is handed on or sent at first.                                  *)
LEMMA ResultInit == Init => ResultInv
<1> SUFFICES ASSUME Init PROVE ResultInv
  OBVIOUS
<1>1. /\ evaluated = <<>> /\ queue = <<>> /\ order = <<>> /\ pc = "run" /\ merged = None
      /\ stableBm = oldBm
  BY DEF Init
<1>2. oldBm = None \/ oldBm \in [DOMAIN stable -> 0 .. 1]
  <2>1. PICK f \in Families : \E in \in Input(f) : stable = in.stable /\ oldBm = in.bm
    BY DEF Init
  <2>2. PICK in \in Input(f) : stable = in.stable /\ oldBm = in.bm
    BY <2>1
  <2> QED
    BY <2>2, MergeAssumption
<1>3. IsSeq(<<>>) /\ DOMAIN <<>> = {}
  <2>1. <<>> \in Seq({}) /\ DOMAIN <<>> = {}
    OBVIOUS
  <2> QED
    BY <2>1 DEF IsSeq
<1>4. Cut(queue, evaluated)
  BY <1>1, <1>3 DEF Cut
<1>5. Queued
  BY <1>1, <1>3 DEF Queued
<1>6. ResultIsLatest /\ CacheStandsForResult
  BY <1>1 DEF ResultIsLatest, CacheStandsForResult
<1> QED
  BY <1>1, <1>2, <1>4, <1>5, <1>6 DEF ResultInv, BatchedInv

(* A merge that the filter does not lead into undefined behaviour hands on *)
(* the rows of the table, each of them once, whichever of the batches and  *)
(* the deltas arrive first: for any object, deltas and bitmap that fit     *)
(* together, and for any size of the chunks.                               *)
THEOREM MergeIsLatest == Spec => [](MergeableInput => ResultIsLatest)
<1>1. ResultInv => (MergeableInput => ResultIsLatest)
  BY DEF ResultInv
<1> QED
  BY <1>1, MergeInit, MergeStep, ChunkInit, ChunkStep, ResultInit, ResultStep, PTL DEF Spec

(* For the same input the merged delta and the bitmap that such a merge    *)
(* sends to the cache stand for the table: the next query that starts from *)
(* them finds every row.                                                   *)
THEOREM CacheStandsForTable == Spec => [](MergeableInput => CacheStandsForResult)
<1>1. ResultInv => (MergeableInput => CacheStandsForResult)
  BY DEF ResultInv
<1> QED
  BY <1>1, MergeInit, MergeStep, ChunkInit, ChunkStep, ResultInit, ResultStep, PTL DEF Spec
=============================================================================
