--------------------------- MODULE UartTx_proofs ---------------------------
(***************************************************************************)
(* Proofs about the transmit ring for every ring size, every set of        *)
(* characters and every number of bytes: first when all printing is done   *)
(* under chSysLock (the global Printf), then for any printing.  With the   *)
(* unlocked printing in use the theorems of the first kind are false: the  *)
(* run uart_tx_unlocked shows how.                                         *)
(***************************************************************************)
EXTENDS UartTx, TLAPS

OnlyLocked == Callers \subseteq {"Printf"}

\* The interrupt is masked exactly while the thread is inside Printf, and the
\* loaded count is then still the count.
LockInv ==
    /\ masked <=> pc # "idle"
    /\ pc = "store" => loaded = IFullSlotsCount /\ IFullSlotsCount < BufSz

\* The channel: a running block is the oldest part of the ring, does not pass
\* the end of the buffer, and has sent ITransSize - cndtr of its bytes.
DmaInv ==
    /\ dmaOn <=> ~IDmaIsIdle
    /\ dmaOn => /\ ITransSize \in 1..IFullSlotsCount
                /\ PRead + ITransSize <= BufSz
                /\ cndtr <= ITransSize
                /\ cmar = PRead + (ITransSize - cndtr)
    /\ ~dmaOn /\ pc = "idle" => IFullSlotsCount = 0

\* Bytes of the ring that have left already.
Sent == IF dmaOn THEN ITransSize - cndtr ELSE 0

\* The ring holds the newest Occupied accepted bytes, and the line has got
\* everything before them and the Sent first of them.
DataInv ==
    /\ Occupied <= Len(accepted)
    /\ Len(line) = (Len(accepted) - Occupied) + Sent
    /\ \A k \in 0..(Occupied - 1) :
          TXBuf[Slot(k)] = accepted[(Len(accepted) - Occupied) + k + 1]

IInv == TypeOK /\ LockInv /\ RingConsistent /\ DmaInv /\ DataInv /\ LineIsPrefix
----------------------------------------------------------------------------
LEMMA InitIInv == Init => IInv
  <1> SUFFICES ASSUME Init PROVE IInv
    OBVIOUS
  <1> USE UartTxAssumption DEF Init, Index
  <1>1. TypeOK
    BY DEF TypeOK
  <1>2. LockInv /\ RingConsistent /\ DmaInv
    BY DEF LockInv, RingConsistent, DmaInv, Occupied, Slot
  <1>3. DataInv /\ LineIsPrefix
    BY DEF DataInv, LineIsPrefix, Occupied, Sent
  <1>4. QED
    BY <1>1, <1>2, <1>3 DEF IInv

\* What starting a block does: one that is not empty, inside the taken part of
\* the ring and inside the buffer, whenever there is something to send.
LEMMA SendViaDMA ==
    ASSUME NEW count \in 0..BufSz, NEW rd \in Index, ISendViaDMA(count, rd)
    PROVE  \/ /\ count = 0 /\ ITransSize' = 0 /\ dmaOn' = FALSE
              /\ UNCHANGED <<IDmaIsIdle, cmar, cndtr>>
           \/ /\ count > 0 /\ ITransSize' \in 1..count /\ rd + ITransSize' <= BufSz
              /\ IDmaIsIdle' = FALSE /\ dmaOn' = TRUE
              /\ cmar' = rd /\ cndtr' = ITransSize' /\ ITransSize' - cndtr' = 0
  <1> DEFINE n == MIN(count, BufSz - rd)
  <1>1. n \in 0..count /\ rd + n <= BufSz /\ (n = 0 <=> count = 0)
    BY UartTxAssumption DEF MIN, Index
  <1>2. ITransSize' = n
    BY DEF ISendViaDMA
  <1>3. CASE n = 0
    BY <1>1, <1>2, <1>3 DEF ISendViaDMA
  <1>4. CASE n # 0
    <2>1. IDmaIsIdle' = FALSE /\ dmaOn' = TRUE /\ cmar' = rd /\ cndtr' = n
      BY <1>4 DEF ISendViaDMA
    <2>2. n \in 1..count /\ count > 0
      BY <1>1, <1>4, UartTxAssumption
    <2>3. ITransSize' - cndtr' = 0
      BY <1>2, <2>1, <2>2
    <2>4. QED
      BY <1>1, <1>2, <2>1, <2>2, <2>3
  <1>5. QED
    BY <1>3, <1>4

LEMMA BeginPrintIInv ==
    ASSUME OnlyLocked, IInv, NEW caller \in Callers, BeginPrint(caller)
    PROVE  IInv'
  <1> USE UartTxAssumption DEF IInv, BeginPrint, OnlyLocked, Index,
                               uartVars, dmaVars, histVars
  <1>1. TypeOK'
    BY DEF TypeOK
  <1>2. LockInv' /\ RingConsistent' /\ DmaInv'
    BY DEF LockInv, RingConsistent, DmaInv, Occupied, Slot
  <1>3. DataInv' /\ LineIsPrefix'
    BY DEF DataInv, LineIsPrefix, Occupied, Sent, Slot
  <1>4. QED
    BY <1>1, <1>2, <1>3

LEMMA IPutByteIInv ==
    ASSUME IInv, NEW b \in Byte, IPutByte(b)
    PROVE  IInv'
  <1> USE UartTxAssumption DEF IInv, IPutByte, Index, dmaVars
  <1>1. TypeOK'
    BY DEF TypeOK, Circulate
  <1>2. LockInv' /\ DmaInv'
    BY DEF LockInv, DmaInv, TypeOK
  <1>3. RingConsistent'
    BY DEF RingConsistent, Occupied, Slot, Circulate, TypeOK
  <1>4. /\ Len(accepted') = Len(accepted) + 1
        /\ accepted'[Len(accepted) + 1] = b
        /\ \A i \in 1..Len(accepted) : accepted'[i] = accepted[i]
    BY DEF TypeOK
  <1>5. Occupied = IFullSlotsCount /\ Occupied' = IFullSlotsCount + 1
        /\ Occupied \in 0..(BufSz - 1)
    BY DEF Occupied, TypeOK
  <1>6. Len(accepted) \in Nat /\ Len(line) \in Nat
    BY DEF TypeOK
  <1>7. ASSUME NEW k \in 0..(Occupied' - 1)
        PROVE  TXBuf'[Slot(k)'] = accepted'[(Len(accepted') - Occupied') + k + 1]
    <2>1. Slot(k)' = Slot(k) /\ Slot(k) \in Index
      BY <1>5 DEF Slot, TypeOK
    <2>2. CASE k = Occupied
      BY <2>1, <2>2, <1>4, <1>5, <1>6 DEF RingConsistent, TypeOK
    <2>3. CASE k # Occupied
      <3>1. k \in 0..(Occupied - 1)
        BY <2>3, <1>5
      <3>2. Slot(k) # PWrite
        BY <3>1, <1>5 DEF RingConsistent, Slot, TypeOK
      <3>3. TXBuf'[Slot(k)] = accepted[(Len(accepted) - Occupied) + k + 1]
        BY <3>1, <3>2, <2>1 DEF DataInv, TypeOK
      <3>4. (Len(accepted) - Occupied) + k + 1 \in 1..Len(accepted)
        BY <3>1, <1>5, <1>6 DEF DataInv
      <3>5. /\ accepted'[(Len(accepted) - Occupied) + k + 1]
                   = accepted[(Len(accepted) - Occupied) + k + 1]
            /\ Len(accepted') - Occupied' = Len(accepted) - Occupied
        BY <3>4, <1>4, <1>5, <1>6
      <3>6. QED
        BY <3>3, <3>5, <2>1
    <2>4. QED
      BY <2>2, <2>3
  <1>8. DataInv'
    <2>1. Sent' = Sent
      BY DEF Sent
    <2>2. Occupied <= Len(accepted) /\ Len(line) = (Len(accepted) - Occupied) + Sent
      BY DEF DataInv
    <2>3. Occupied' = Occupied + 1
      BY <1>5
    <2>4. Occupied' <= Len(accepted') /\ Len(line') = (Len(accepted') - Occupied') + Sent'
      BY <2>1, <2>2, <2>3, <1>4, <1>5, <1>6
    <2>5. QED
      BY <2>4, <1>7 DEF DataInv
  <1>9. LineIsPrefix'
    BY <1>4, <1>6 DEF LineIsPrefix
  <1>10. QED
    BY <1>1, <1>2, <1>3, <1>8, <1>9

LEMMA StoreCountIInv ==
    ASSUME IInv, StoreCount
    PROVE  IInv'
  <1> USE UartTxAssumption DEF IInv, StoreCount, Index, dmaVars, histVars
  <1>1. TypeOK'
    BY DEF TypeOK, LockInv
  <1>2. LockInv' /\ DmaInv'
    BY DEF LockInv, DmaInv, TypeOK
  <1>3. Occupied' = Occupied
    BY DEF Occupied, LockInv, TypeOK
  <1>4. RingConsistent'
    BY <1>3 DEF RingConsistent, Slot
  <1>5. DataInv' /\ LineIsPrefix'
    BY <1>3 DEF DataInv, LineIsPrefix, Sent, Slot
  <1>6. QED
    BY <1>1, <1>2, <1>4, <1>5

LEMMA IPutByteOverflowIInv ==
    ASSUME IInv, IPutByteOverflow
    PROVE  IInv'
  <1> USE UartTxAssumption DEF IInv, IPutByteOverflow, Index, uartVars, dmaVars, histVars
  <1>1. TypeOK'
    BY DEF TypeOK
  <1>2. LockInv' /\ RingConsistent' /\ DmaInv'
    BY DEF LockInv, RingConsistent, DmaInv, Occupied, Slot
  <1>3. DataInv' /\ LineIsPrefix'
    BY DEF DataInv, LineIsPrefix, Occupied, Sent, Slot
  <1>4. QED
    BY <1>1, <1>2, <1>3

LEMMA EndPrintIInv ==
    ASSUME IInv, EndPrint
    PROVE  IInv'
  <1> USE UartTxAssumption DEF IInv, Index
  <1>1. /\ pc \in {"put", "end"} /\ pc' = "idle" /\ masked' = FALSE
        /\ UNCHANGED <<TXBuf, PRead, PWrite, IFullSlotsCount, loaded, accepted, line>>
    BY DEF EndPrint, histVars
  <1>2. IFullSlotsCount \in 0..BufSz /\ PRead \in 0..(BufSz - 1)
    BY DEF TypeOK
  <1>3. LockInv' /\ Occupied' = Occupied
    BY <1>1 DEF LockInv, Occupied
  <1>4. (TypeOK /\ DmaInv)' /\ Sent' = Sent
    <2>1. CASE IDmaIsIdle
      <3>1. ISendViaDMA(IFullSlotsCount, PRead)
        BY <2>1 DEF EndPrint
      <3>2. dmaOn = FALSE
        BY <2>1 DEF DmaInv, TypeOK
      <3>3. CASE /\ IFullSlotsCount = 0 /\ ITransSize' = 0 /\ dmaOn' = FALSE
                 /\ UNCHANGED <<IDmaIsIdle, cmar, cndtr>>
        <4>1. IDmaIsIdle = TRUE /\ IDmaIsIdle' = TRUE
          BY <2>1, <3>3 DEF TypeOK
        <4>2. TypeOK'
          BY <3>3, <4>1, <1>1 DEF TypeOK
        <4>3. DmaInv'
          BY <3>3, <4>1, <1>1 DEF DmaInv
        <4>4. Sent' = Sent
          BY <3>2, <3>3 DEF Sent
        <4>5. QED
          BY <4>2, <4>3, <4>4
      <3>4. CASE /\ IFullSlotsCount > 0 /\ ITransSize' \in 1..IFullSlotsCount
                 /\ PRead + ITransSize' <= BufSz
                 /\ IDmaIsIdle' = FALSE /\ dmaOn' = TRUE
                 /\ cmar' = PRead /\ cndtr' = ITransSize' /\ ITransSize' - cndtr' = 0
        <4>1. TypeOK'
          BY <3>4, <1>1, <1>2 DEF TypeOK
        <4>2. DmaInv'
          BY <3>4, <1>1, <1>2 DEF DmaInv, TypeOK
        <4>3. Sent = 0
          BY <3>2 DEF Sent
        <4>4. Sent' = 0
          BY <3>4 DEF Sent
        <4>5. QED
          BY <4>1, <4>2, <4>3, <4>4
      <3>5. QED
        BY <3>1, <3>3, <3>4, <1>2, SendViaDMA
    <2>2. CASE ~IDmaIsIdle
      <3>1. UNCHANGED <<ITransSize, IDmaIsIdle, dmaOn, cmar, cndtr>>
        BY <2>2 DEF EndPrint, dmaVars
      <3>2. QED
        BY <3>1, <2>2, <1>1 DEF TypeOK, DmaInv, Sent
    <2>3. QED
      BY <2>1, <2>2
  <1>5. RingConsistent' /\ DataInv' /\ LineIsPrefix'
    BY <1>1, <1>3, <1>4 DEF RingConsistent, DataInv, LineIsPrefix, Slot
  <1>6. QED
    BY <1>3, <1>4, <1>5

LEMMA DmaMoveIInv ==
    ASSUME IInv, DmaMove
    PROVE  IInv'
  <1> USE UartTxAssumption DEF IInv, Index
  <1>1. /\ dmaOn /\ cndtr > 0
        /\ line' = Append(line, TXBuf[cmar])
        /\ cmar' = cmar + 1 /\ cndtr' = cndtr - 1
        /\ UNCHANGED <<TXBuf, PRead, PWrite, IFullSlotsCount, ITransSize, IDmaIsIdle,
                       dmaOn, pc, masked, loaded, accepted>>
    BY DEF DmaMove, uartVars, thdVars
  <1>2. /\ ITransSize \in 1..IFullSlotsCount /\ PRead + ITransSize <= BufSz
        /\ cndtr \in 1..ITransSize /\ cmar = PRead + (ITransSize - cndtr)
    BY <1>1 DEF DmaInv, TypeOK
  <1>3. Occupied \in IFullSlotsCount..BufSz /\ Occupied' = Occupied
    BY <1>1 DEF Occupied, RingConsistent, TypeOK
  <1>4. Sent = ITransSize - cndtr /\ Sent' = Sent + 1 /\ Sent \in 0..(Occupied - 1)
    BY <1>1, <1>2, <1>3 DEF Sent, TypeOK
  <1>5. Len(accepted) \in Nat /\ Len(line) \in Nat
    BY DEF TypeOK
  <1>6. cmar \in Index /\ Slot(Sent) = cmar
    BY <1>2, <1>4 DEF Slot, TypeOK
  <1>7. TXBuf[cmar] = accepted[Len(line) + 1] /\ Len(line) + 1 <= Len(accepted)
    <2>1. TXBuf[Slot(Sent)] = accepted[(Len(accepted) - Occupied) + Sent + 1]
      BY <1>4 DEF DataInv
    <2>2. Len(line) + 1 = (Len(accepted) - Occupied) + Sent + 1 /\ Occupied <= Len(accepted)
      BY <1>5 DEF DataInv
    <2>3. QED
      BY <2>1, <2>2, <1>3, <1>4, <1>5, <1>6
  <1>8. TXBuf[cmar] \in Byte
    BY <1>6 DEF TypeOK
  <1>9. Len(line') = Len(line) + 1 /\ line'[Len(line) + 1] = TXBuf[cmar]
        /\ \A i \in 1..Len(line) : line'[i] = line[i]
    BY <1>1, <1>8 DEF TypeOK
  <1>10. TypeOK'
    BY <1>1, <1>2, <1>8 DEF TypeOK
  <1>11. LockInv' /\ RingConsistent'
    BY <1>1, <1>3 DEF LockInv, RingConsistent, Slot
  <1>12. DmaInv'
    BY <1>1, <1>2 DEF DmaInv, TypeOK
  <1>13. DataInv'
    <2>1. Len(line') = (Len(accepted') - Occupied') + Sent'
      BY <1>1, <1>3, <1>4, <1>5, <1>9 DEF DataInv
    <2>2. QED
      BY <2>1, <1>1, <1>3 DEF DataInv, Slot
  <1>14. LineIsPrefix'
    BY <1>1, <1>5, <1>7, <1>9 DEF LineIsPrefix
  <1>15. QED
    BY <1>10, <1>11, <1>12, <1>13, <1>14

LEMMA IRQDmaTxHandlerIInv ==
    ASSUME IInv, IRQDmaTxHandler
    PROVE  IInv'
  <1> USE UartTxAssumption DEF IInv, Index
  <1> DEFINE count == IFullSlotsCount - ITransSize
             rd    == Circulate(PRead + ITransSize)
  <1>1. /\ dmaOn /\ cndtr = 0 /\ ~masked
        /\ IFullSlotsCount' = count /\ PRead' = rd
        /\ UNCHANGED <<TXBuf, PWrite, pc, masked, loaded, accepted, line>>
    BY DEF IRQDmaTxHandler, thdVars, histVars
  <1>2. /\ pc = "idle"
        /\ ITransSize \in 1..IFullSlotsCount /\ PRead + ITransSize <= BufSz
        /\ IFullSlotsCount \in 0..BufSz /\ PRead \in 0..(BufSz - 1)
    BY <1>1 DEF LockInv, DmaInv, TypeOK
  <1>3. count \in 0..BufSz /\ rd \in Index
    BY <1>2 DEF Circulate
  <1>4. \/ /\ count = 0 /\ IDmaIsIdle' = TRUE /\ dmaOn' = FALSE
           /\ UNCHANGED <<ITransSize, cmar, cndtr>>
        \/ /\ count > 0
           /\ ITransSize' \in 1..count /\ rd + ITransSize' <= BufSz
           /\ IDmaIsIdle' = FALSE /\ dmaOn' = TRUE
           /\ cmar' = rd /\ cndtr' = ITransSize' /\ ITransSize' - cndtr' = 0
    <2>1. CASE count = 0
      BY <2>1 DEF IRQDmaTxHandler
    <2>2. CASE count # 0
      <3>1. ISendViaDMA(count, rd)
        BY <2>2 DEF IRQDmaTxHandler
      <3> HIDE DEF count, rd
      <3>2. QED
        BY <3>1, <2>2, <1>3, SendViaDMA
    <2>3. QED
      BY <2>1, <2>2
  <1>5. TypeOK'
    <2> HIDE DEF count, rd
    <2>1. ITransSize' \in 0..BufSz /\ cmar' \in 0..BufSz /\ cndtr' \in 0..BufSz
      BY <1>3, <1>4 DEF TypeOK
    <2>2. IDmaIsIdle' \in BOOLEAN /\ dmaOn' \in BOOLEAN
      BY <1>4
    <2>3. QED
      BY <2>1, <2>2, <1>1, <1>3 DEF TypeOK
  <1>6. LockInv' /\ DmaInv'
    BY <1>1, <1>2, <1>3, <1>4 DEF LockInv, DmaInv
  <1>7. Occupied = IFullSlotsCount /\ Occupied' = Occupied - ITransSize
    BY <1>1, <1>2 DEF Occupied
  <1>8. Sent = ITransSize /\ Sent' = 0
    BY <1>1, <1>2, <1>4 DEF Sent
  <1>9. \A k \in Nat : ITransSize + k <= BufSz => Slot(k)' = Slot(ITransSize + k)
    BY <1>1, <1>2 DEF Slot, Circulate
  <1>10. RingConsistent'
    BY <1>1, <1>2, <1>7, <1>9 DEF RingConsistent
  <1>11. Len(accepted) \in Nat /\ Len(line) \in Nat
    BY DEF TypeOK
  <1>12. ASSUME NEW k \in 0..(Occupied' - 1)
         PROVE  TXBuf'[Slot(k)'] = accepted'[(Len(accepted') - Occupied') + k + 1]
    <2>1. ITransSize + k \in 0..(Occupied - 1) /\ ITransSize + k <= BufSz /\ k \in Nat
      BY <1>2, <1>7
    <2>2. Slot(k)' = Slot(ITransSize + k)
      BY <2>1, <1>9
    <2>3. TXBuf[Slot(ITransSize + k)]
             = accepted[(Len(accepted) - Occupied) + (ITransSize + k) + 1]
      BY <2>1 DEF DataInv
    <2>4. (Len(accepted) - Occupied) + (ITransSize + k) + 1
             = (Len(accepted') - Occupied') + k + 1
      BY <1>1, <1>2, <1>7, <1>11
    <2>5. QED
      BY <2>2, <2>3, <2>4, <1>1
  <1>13. DataInv'
    <2>1. Occupied' <= Len(accepted') /\ Len(line') = (Len(accepted') - Occupied') + Sent'
      BY <1>1, <1>2, <1>7, <1>8, <1>11 DEF DataInv
    <2>2. QED
      BY <2>1, <1>12 DEF DataInv
  <1>14. LineIsPrefix'
    BY <1>1 DEF LineIsPrefix
  <1>15. QED
    BY <1>5, <1>6, <1>10, <1>13, <1>14

LEMMA StutterIInv ==
    ASSUME IInv, UNCHANGED vars
    PROVE  IInv'
  BY DEF IInv, vars, uartVars, dmaVars, thdVars, histVars, TypeOK, LockInv,
         RingConsistent, DmaInv, DataInv, LineIsPrefix, Occupied, Sent, Slot, Index

LEMMA NextIInv ==
    ASSUME OnlyLocked, IInv, [Next]_vars
    PROVE  IInv'
  <1>1. CASE \E caller \in Callers : BeginPrint(caller)
    BY <1>1, BeginPrintIInv
  <1>2. CASE \E b \in Byte : IPutByte(b)
    BY <1>2, IPutByteIInv
  <1>3. CASE StoreCount
    BY <1>3, StoreCountIInv
  <1>4. CASE IPutByteOverflow
    BY <1>4, IPutByteOverflowIInv
  <1>5. CASE EndPrint
    BY <1>5, EndPrintIInv
  <1>6. CASE DmaMove
    BY <1>6, DmaMoveIInv
  <1>7. CASE IRQDmaTxHandler
    BY <1>7, IRQDmaTxHandlerIInv
  <1>8. CASE UNCHANGED vars
    BY <1>8, StutterIInv
  <1>9. QED
    BY <1>1, <1>2, <1>3, <1>4, <1>5, <1>6, <1>7, <1>8 DEF Next

\* The strengthened invariant holds in every state of every behaviour.
THEOREM InductiveInvariant == OnlyLocked /\ Spec => []IInv
  <1> SUFFICES ASSUME OnlyLocked PROVE Spec => []IInv
    OBVIOUS
  <1>1. IInv /\ [Next]_vars => IInv'
    BY NextIInv
  <1>2. QED
    BY InitIInv, <1>1, PTL DEF Spec
----------------------------------------------------------------------------
(* Whoever prints, with the lock or without.                               *)

\* The count that the thread loaded is never less than the count: the handler
\* subtracts meanwhile, nobody adds.
LoadedInv == pc = "store" => loaded >= IFullSlotsCount /\ loaded < BufSz

BothInv == TypeOK /\ LoadedInv /\ DmaInv

LEMMA InitBothInv == Init => BothInv
  <1> SUFFICES ASSUME Init PROVE BothInv
    OBVIOUS
  <1> USE UartTxAssumption DEF Init
  <1>1. TypeOK
    BY DEF TypeOK, Index
  <1>2. LoadedInv /\ DmaInv
    BY DEF LoadedInv, DmaInv
  <1>3. QED
    BY <1>1, <1>2 DEF BothInv

LEMMA ThreadBothInv ==
    ASSUME BothInv, \/ \E caller \in Callers : BeginPrint(caller)
                    \/ IPutByteOverflow
    PROVE  BothInv'
  <1>1. /\ pc' \in {"put", "end"} /\ masked' \in BOOLEAN
        /\ UNCHANGED <<TXBuf, PRead, PWrite, IFullSlotsCount, ITransSize, IDmaIsIdle,
                       dmaOn, cmar, cndtr, loaded, accepted, line>>
    BY DEF BeginPrint, IPutByteOverflow, uartVars, dmaVars, histVars, BothInv, TypeOK
  <1>2. TypeOK' /\ LoadedInv' /\ DmaInv'
    BY <1>1 DEF BothInv, TypeOK, LoadedInv, DmaInv
  <1>3. QED
    BY <1>2 DEF BothInv

LEMMA IPutByteBothInv ==
    ASSUME BothInv, NEW b \in Byte, IPutByte(b)
    PROVE  BothInv'
  <1> USE UartTxAssumption DEF BothInv, IPutByte, Index, dmaVars
  <1>1. TypeOK'
    BY DEF TypeOK, Circulate
  <1>2. LoadedInv' /\ DmaInv'
    BY DEF LoadedInv, DmaInv, TypeOK
  <1>3. QED
    BY <1>1, <1>2

\* The store: what it writes back is above the count, so the block stays within.
LEMMA StoreCountBothInv ==
    ASSUME BothInv, StoreCount
    PROVE  BothInv'
  <1> USE UartTxAssumption DEF BothInv, StoreCount, Index, dmaVars, histVars
  <1>1. loaded \in 0..(BufSz - 1) /\ IFullSlotsCount \in 0..loaded
    BY DEF TypeOK, LoadedInv
  <1>2. TypeOK'
    BY <1>1 DEF TypeOK
  <1>3. LoadedInv' /\ DmaInv'
    BY <1>1 DEF LoadedInv, DmaInv, TypeOK
  <1>4. QED
    BY <1>2, <1>3

\* A block begins, or there is nothing to send.
LEMMA BlockBegins ==
    ASSUME BothInv, NEW count \in 0..BufSz, NEW rd \in Index, ISendViaDMA(count, rd),
           IFullSlotsCount' = count, PRead' = rd, IDmaIsIdle \/ count # 0
    PROVE  /\ ITransSize' \in 0..BufSz /\ cmar' \in 0..BufSz /\ cndtr' \in 0..BufSz
           /\ IDmaIsIdle' \in BOOLEAN /\ dmaOn' \in BOOLEAN
           /\ DmaInv'
  <1>1. CASE /\ count = 0 /\ ITransSize' = 0 /\ dmaOn' = FALSE
             /\ UNCHANGED <<IDmaIsIdle, cmar, cndtr>>
    <2>1. IDmaIsIdle' \in BOOLEAN /\ IDmaIsIdle' /\ cmar' \in 0..BufSz /\ cndtr' \in 0..BufSz
      BY <1>1 DEF BothInv, TypeOK
    <2>2. QED
      BY <1>1, <2>1, UartTxAssumption DEF DmaInv
  <1>2. CASE /\ count > 0 /\ ITransSize' \in 1..count /\ rd + ITransSize' <= BufSz
             /\ IDmaIsIdle' = FALSE /\ dmaOn' = TRUE
             /\ cmar' = rd /\ cndtr' = ITransSize' /\ ITransSize' - cndtr' = 0
    <2>1. ITransSize' \in 0..BufSz /\ cmar' \in 0..BufSz /\ cndtr' \in 0..BufSz
      BY <1>2, UartTxAssumption DEF Index
    <2>2. cndtr' <= ITransSize'
      BY <1>2, <2>1
    <2>3. rd \in Int /\ rd = rd + 0
      BY UartTxAssumption DEF Index
    <2>4. cmar' = PRead' + (ITransSize' - cndtr')
      BY <1>2, <2>3
    <2>5. QED
      BY <1>2, <2>1, <2>2, <2>4 DEF DmaInv
  <1>3. QED
    BY <1>1, <1>2, SendViaDMA

LEMMA EndPrintBothInv ==
    ASSUME BothInv, EndPrint
    PROVE  BothInv'
  <1>1. /\ pc' = "idle" /\ masked' = FALSE
        /\ UNCHANGED <<TXBuf, PRead, PWrite, IFullSlotsCount, loaded, accepted, line>>
    BY DEF EndPrint, histVars
  <1>2. LoadedInv'
    BY <1>1 DEF LoadedInv
  <1>3. CASE IDmaIsIdle
    <2>1. /\ ISendViaDMA(IFullSlotsCount, PRead) /\ IFullSlotsCount \in 0..BufSz /\ PRead \in Index
      BY <1>3 DEF EndPrint, BothInv, TypeOK
    <2>2. /\ ITransSize' \in 0..BufSz /\ cmar' \in 0..BufSz /\ cndtr' \in 0..BufSz
          /\ IDmaIsIdle' \in BOOLEAN /\ dmaOn' \in BOOLEAN /\ DmaInv'
      BY <1>1, <1>3, <2>1, BlockBegins
    <2>3. TypeOK'
      BY <1>1, <2>2 DEF BothInv, TypeOK
    <2>4. QED
      BY <1>2, <2>2, <2>3 DEF BothInv
  <1>4. CASE ~IDmaIsIdle
    <2>1. UNCHANGED <<ITransSize, IDmaIsIdle, dmaOn, cmar, cndtr>>
      BY <1>4 DEF EndPrint, dmaVars
    <2>2. TypeOK' /\ DmaInv'
      BY <1>1, <1>4, <2>1 DEF BothInv, TypeOK, DmaInv
    <2>3. QED
      BY <1>2, <2>2 DEF BothInv
  <1>5. QED
    BY <1>3, <1>4

LEMMA DmaMoveBothInv ==
    ASSUME BothInv, DmaMove
    PROVE  BothInv'
  <1>1. /\ dmaOn /\ cndtr > 0
        /\ line' = Append(line, TXBuf[cmar])
        /\ cmar' = cmar + 1 /\ cndtr' = cndtr - 1
        /\ UNCHANGED <<TXBuf, PRead, PWrite, IFullSlotsCount, ITransSize, IDmaIsIdle,
                       dmaOn, pc, masked, loaded, accepted>>
    BY DEF DmaMove, uartVars, thdVars
  <1>2. /\ ITransSize \in 1..IFullSlotsCount /\ PRead + ITransSize <= BufSz
        /\ cndtr \in 1..ITransSize /\ cmar = PRead + (ITransSize - cndtr)
        /\ PRead \in 0..(BufSz - 1) /\ IFullSlotsCount \in 0..BufSz /\ BufSz \in Nat
    BY <1>1, UartTxAssumption DEF BothInv, DmaInv, TypeOK, Index
  <1>3. cmar \in Index /\ cmar + 1 \in 0..BufSz /\ cndtr - 1 \in 0..BufSz
    BY <1>2 DEF Index
  <1>4. line' \in Seq(Byte)
    BY <1>1, <1>3 DEF BothInv, TypeOK
  <1>5. TypeOK'
    BY <1>1, <1>3, <1>4 DEF BothInv, TypeOK
  <1>6. DmaInv'
    BY <1>1, <1>2 DEF BothInv, DmaInv
  <1>7. QED
    BY <1>1, <1>5, <1>6 DEF BothInv, LoadedInv

\* The handler comes in anywhere, also between the load and the store.
LEMMA IRQDmaTxHandlerBothInv ==
    ASSUME BothInv, IRQDmaTxHandler
    PROVE  BothInv'
  <1> DEFINE count == IFullSlotsCount - ITransSize
             rd    == Circulate(PRead + ITransSize)
  <1>1. /\ dmaOn /\ IFullSlotsCount' = count /\ PRead' = rd
        /\ UNCHANGED <<TXBuf, PWrite, pc, masked, loaded, accepted, line>>
    BY DEF IRQDmaTxHandler, thdVars, histVars
  <1>2. /\ ITransSize \in 1..IFullSlotsCount /\ PRead + ITransSize <= BufSz
        /\ IFullSlotsCount \in 0..BufSz /\ PRead \in 0..(BufSz - 1) /\ BufSz \in Nat \ {0}
    BY <1>1, UartTxAssumption DEF BothInv, DmaInv, TypeOK, Index
  <1>3. count \in 0..BufSz /\ count <= IFullSlotsCount /\ rd \in Index
    BY <1>2 DEF Circulate, Index
  <1>4. LoadedInv'
    <2>1. pc = "store" => loaded >= count
      <3>1. loaded \in Nat
        BY DEF BothInv, TypeOK
      <3>2. QED
        BY <1>2, <1>3, <3>1 DEF BothInv, LoadedInv
    <2> HIDE DEF count
    <2>2. QED
      BY <1>1, <2>1 DEF BothInv, LoadedInv
  <1>5. /\ ITransSize' \in 0..BufSz /\ cmar' \in 0..BufSz /\ cndtr' \in 0..BufSz
        /\ IDmaIsIdle' \in BOOLEAN /\ dmaOn' \in BOOLEAN
        /\ DmaInv'
    <2>1. CASE count = 0
      <3>1. IDmaIsIdle' = TRUE /\ dmaOn' = FALSE /\ UNCHANGED <<ITransSize, cmar, cndtr>>
        BY <2>1 DEF IRQDmaTxHandler
      <3>2. QED
        BY <1>1, <2>1, <3>1 DEF BothInv, TypeOK, DmaInv
    <2>2. CASE count # 0
      <3>1. ISendViaDMA(count, rd)
        BY <2>2 DEF IRQDmaTxHandler
      <3> HIDE DEF count, rd
      <3>2. QED
        BY <1>1, <1>3, <2>2, <3>1, BlockBegins
    <2>3. QED
      BY <2>1, <2>2
  <1> HIDE DEF count, rd
  <1>6. TypeOK'
    BY <1>1, <1>3, <1>5 DEF BothInv, TypeOK
  <1>7. QED
    BY <1>4, <1>5, <1>6 DEF BothInv

\* What holds whoever prints.
THEOREM AnyPrinterInvariant == Spec => []BothInv
  <1>1. ASSUME BothInv, [Next]_vars PROVE BothInv'
    <2>1. CASE UNCHANGED vars
      BY <1>1, <2>1 DEF BothInv, vars, uartVars, dmaVars, thdVars, histVars, TypeOK, LoadedInv,
                        DmaInv, Index
    <2>2. QED
      BY <1>1, <2>1, ThreadBothInv, IPutByteBothInv, StoreCountBothInv, EndPrintBothInv,
         DmaMoveBothInv, IRQDmaTxHandlerBothInv DEF Next
  <1>2. QED
    BY InitBothInv, <1>1, PTL DEF Spec

\* Type correctness of the transmitter, whoever prints; in particular the count
\* never leaves 0..BufSz and the cursors never leave the buffer.
THEOREM TypeCorrect == Spec => []TypeOK
  <1>1. BothInv => TypeOK
    BY DEF BothInv
  <1>2. QED
    BY AnyPrinterInvariant, <1>1, PTL

\* The block being sent lies in the buffer and is no larger than the count.
BlockInBuffer == dmaOn => ITransSize <= IFullSlotsCount /\ cmar + cndtr <= BufSz

\* Whoever prints, and however often a subtraction of the handler is undone: the
\* DMA reads only the buffer, and the count never wraps below zero.
THEOREM BlockAlwaysInBuffer == Spec => []BlockInBuffer
  <1>1. ASSUME BothInv PROVE BlockInBuffer
    <2>1. CASE dmaOn
      <3>1. /\ ITransSize \in 1..IFullSlotsCount /\ PRead + ITransSize <= BufSz
            /\ cmar = PRead + (ITransSize - cndtr)
            /\ PRead \in Nat /\ cndtr \in Nat /\ IFullSlotsCount \in Nat
        BY <1>1, <2>1, UartTxAssumption DEF BothInv, DmaInv, TypeOK, Index
      <3>2. ITransSize <= IFullSlotsCount /\ cmar + cndtr = PRead + ITransSize
        BY <3>1
      <3>3. QED
        BY <3>1, <3>2 DEF BlockInBuffer
    <2>2. QED
      BY <2>1 DEF BlockInBuffer
  <1>2. QED
    BY AnyPrinterInvariant, <1>1, PTL

\* The idle channel counts no slot as taken between two texts.
NoRoomLost == IDmaIsIdle /\ pc = "idle" => IFullSlotsCount = 0

\* Whoever prints, room is not lost for good: a wrong count is worked off, with
\* stale bytes sent, before the channel goes idle.
THEOREM RoomNeverLost == Spec => []NoRoomLost
  <1>1. BothInv => NoRoomLost
    BY DEF BothInv, DmaInv, NoRoomLost
  <1>2. QED
    BY AnyPrinterInvariant, <1>1, PTL
----------------------------------------------------------------------------
(* The theorems about locked printing.                                     *)

\* The count and the two cursors agree in every state.
THEOREM RingAlwaysConsistent == OnlyLocked /\ Spec => []RingConsistent
  <1>1. IInv => RingConsistent
    BY DEF IInv
  <1>2. QED
    BY InductiveInvariant, <1>1, PTL

\* The wire carries a prefix of the accepted bytes.
THEOREM LineAlwaysPrefix == OnlyLocked /\ Spec => []LineIsPrefix
  <1>1. IInv => LineIsPrefix
    BY DEF IInv
  <1>2. QED
    BY InductiveInvariant, <1>1, PTL

\* When the channel is idle between two texts nothing was left behind.
THEOREM IdleMeansSent == OnlyLocked /\ Spec => []NothingLeftToSend
  <1>1. IInv => NothingLeftToSend
    <2> SUFFICES ASSUME IInv, IDmaIsIdle, pc = "idle"
                 PROVE  line = accepted /\ PRead = PWrite
      BY DEF NothingLeftToSend
    <2>1. IFullSlotsCount = 0 /\ Occupied = 0 /\ Sent = 0
      BY DEF IInv, DmaInv, Occupied, Sent
    <2>2. PRead = PWrite
      BY <2>1, UartTxAssumption DEF IInv, RingConsistent, Slot, TypeOK, Index
    <2>3. Len(line) = Len(accepted) /\ accepted \in Seq(Byte) /\ line \in Seq(Byte)
      BY <2>1 DEF IInv, DataInv, TypeOK
    <2>4. line = accepted
      BY <2>3 DEF IInv, LineIsPrefix
    <2>5. QED
      BY <2>2, <2>4
  <1>2. QED
    BY InductiveInvariant, <1>1, PTL
----------------------------------------------------------------------------
(* The transmitter implements the byte stream of TxFifo: a character put is *)
(* a Put, a byte moved a Deliver, a completed block a Release, and the rest *)
(* of the code changes nothing that the stream shows.                       *)

LEMMA StepImplementsFifo ==
    ASSUME IInv, [Next]_vars
    PROVE  [Fifo!Next]_(Fifo!vars)
  <1> USE UartTxAssumption DEF Fifo!vars
  <1> DEFINE rel == Len(accepted) - Occupied
  <1>1. /\ Len(accepted) \in Nat /\ Len(line) \in Nat
        /\ Occupied \in 0..BufSz /\ Occupied <= Len(accepted)
        /\ Len(line) = rel + Sent
    BY DEF IInv, TypeOK, DataInv, RingConsistent, Occupied
  <1>2. CASE \E caller \in Callers : BeginPrint(caller)
    BY <1>2 DEF BeginPrint, Occupied, uartVars, histVars
  <1>3. ASSUME NEW b \in Byte, IPutByte(b)
        PROVE  Fifo!Put(b)
    <2>1. Occupied = IFullSlotsCount /\ Occupied' = IFullSlotsCount + 1
      BY <1>3 DEF IPutByte, Occupied, IInv, TypeOK
    <2>2. Len(accepted') = Len(accepted) + 1
      BY <1>3 DEF IPutByte, IInv, TypeOK
    <2>3. rel' = rel
      BY <1>1, <2>1, <2>2
    <2>4. Len(accepted) - rel < BufSz
      BY <1>1, <1>3, <2>1 DEF IPutByte
    <2>5. QED
      BY <1>3, <2>3, <2>4 DEF Fifo!Put, IPutByte
  <1>4. CASE StoreCount
    <2>1. Occupied' = Occupied
      BY <1>4 DEF StoreCount, Occupied, IInv, LockInv, TypeOK
    <2>2. QED
      BY <1>4, <2>1 DEF StoreCount, histVars
  <1>5. CASE IPutByteOverflow
    BY <1>5 DEF IPutByteOverflow, Occupied, uartVars, histVars
  <1>6. CASE EndPrint
    BY <1>6 DEF EndPrint, Occupied, histVars
  <1>7. CASE DmaMove
    <2>1. /\ dmaOn /\ cndtr \in 1..ITransSize
          /\ ITransSize \in 1..IFullSlotsCount /\ PRead + ITransSize <= BufSz
          /\ cmar = PRead + (ITransSize - cndtr)
      BY <1>7 DEF DmaMove, IInv, DmaInv, TypeOK
    <2>2. Sent \in 0..(Occupied - 1) /\ Slot(Sent) = cmar
      BY <2>1 DEF Sent, Occupied, Slot, IInv, TypeOK, Index
    <2>3. TXBuf[Slot(Sent)] = accepted[rel + Sent + 1]
      BY <2>2 DEF IInv, DataInv
    <2>4. Len(line) < Len(accepted) /\ TXBuf[cmar] = accepted[Len(line) + 1]
      BY <1>1, <2>2, <2>3
    <2>5. Occupied' = Occupied
      BY <1>7 DEF DmaMove, Occupied, uartVars, thdVars
    <2>6. QED
      BY <1>7, <2>4, <2>5 DEF DmaMove, Fifo!Next, Fifo!Deliver
  <1>8. CASE IRQDmaTxHandler
    <2>1. /\ pc = "idle" /\ pc' = pc /\ accepted' = accepted /\ line' = line
          /\ IFullSlotsCount' = IFullSlotsCount - ITransSize
          /\ ITransSize \in 1..IFullSlotsCount /\ IFullSlotsCount \in 0..BufSz
          /\ Sent = ITransSize
      BY <1>8 DEF IRQDmaTxHandler, IInv, LockInv, DmaInv, TypeOK, Sent, thdVars, histVars
    <2>2. Occupied = IFullSlotsCount /\ Occupied' = IFullSlotsCount - ITransSize
      BY <2>1 DEF Occupied
    <2>3. rel' = rel + ITransSize
      BY <1>1, <2>1, <2>2
    <2>4. rel' \in (rel + 1)..Len(line)
      BY <1>1, <2>1, <2>3
    <2>5. QED
      BY <2>1, <2>4 DEF Fifo!Next, Fifo!Release
  <1>9. CASE UNCHANGED vars
    BY <1>9 DEF vars, uartVars, thdVars, histVars, Occupied
  <1>10. QED
    BY <1>2, <1>3, <1>4, <1>5, <1>6, <1>7, <1>8, <1>9 DEF Next, Fifo!Next

\* The transmit ring with its DMA and its interrupt is a byte stream with room
\* for BufSz bytes.
THEOREM ImplementsFifo == OnlyLocked /\ Spec => FifoSpec
  <1> SUFFICES ASSUME OnlyLocked PROVE Spec => Fifo!Spec
    BY DEF FifoSpec
  <1>1. Init => Fifo!Init
    BY DEF Init, Fifo!Init, Occupied
  <1>2. IInv /\ [Next]_vars => [Fifo!Next]_(Fifo!vars)
    BY StepImplementsFifo
  <1>3. Spec => []IInv
    BY InductiveInvariant
  <1>4. QED
    BY <1>1, <1>2, <1>3, PTL DEF Spec, Fifo!Spec
============================================================================
