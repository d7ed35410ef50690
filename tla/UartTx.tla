------------------------------ MODULE UartTx ------------------------------
(***************************************************************************)
(* The transmit half of BaseUart_t (kl_lib/uart.{h,cpp}): a ring of        *)
(* UART_TXBUF_SZ characters filled by the thread that prints and emptied,  *)
(* block by block, by a DMA channel whose transfer-complete interrupt      *)
(* starts the next block.                                                  *)
(*                                                                         *)
(* Who runs when.  One thread prints at a time (only the main thread       *)
(* prints).  The DMA channel moves bytes whenever it is enabled, whatever  *)
(* the CPU does.  The interrupt handler runs to the end without the thread *)
(* (single core) and only while it is not masked: chSysLock masks it.      *)
(* Printf (shell.cpp) prints inside chSysLock; CmdUart_t::Printf, behind   *)
(* Shell_t::Ack and Shell_t::Reply, prints with no lock.                   *)
(*                                                                         *)
(* IFullSlotsCount++ is a load and a store on this CPU, and the two are    *)
(* steps of their own (IPutByte, StoreCount), because the handler          *)
(* subtracts from the same word.  The rest of IPutByte touches nothing the *)
(* handler writes, and is one step with the load.                          *)
(***************************************************************************)
EXTENDS Integers, Sequences

CONSTANTS Byte,      \* the characters printed
          BufSz,     \* UART_TXBUF_SZ
          Callers,   \* the printing functions in use: a subset of Printers
          MaxBytes   \* bound: so many characters are accepted in a behaviour

Printers == {"Printf", "ShellPrintf"}

ASSUME UartTxAssumption ==
    /\ BufSz \in Nat \ {0}
    /\ Callers \subseteq Printers
    /\ MaxBytes \in Nat

VARIABLES
    TXBuf, PRead, PWrite,     \* the ring and its two cursors (as indices)
    IFullSlotsCount,          \* how many slots are taken
    ITransSize,               \* size of the block given to the DMA
    IDmaIsIdle,               \* no block is being sent
    dmaOn, cmar, cndtr,       \* DMA channel: enabled, next address, bytes left
    pc,                       \* where the printing thread is
    masked,                   \* the DMA interrupt is masked (chSysLock)
    loaded,                   \* IFullSlotsCount as the thread loaded it
    accepted,                 \* history: every byte IPutByte took
    line                      \* history: every byte the DMA gave the USART

uartVars == <<TXBuf, PRead, PWrite, IFullSlotsCount, ITransSize, IDmaIsIdle>>
dmaVars  == <<dmaOn, cmar, cndtr>>
thdVars  == <<pc, masked, loaded>>
histVars == <<accepted, line>>
vars     == <<uartVars, dmaVars, thdVars, histVars>>

Index == 0..(BufSz - 1)

\* The constructor and Init: an empty ring, an idle channel.
Init ==
    /\ TXBuf \in [Index -> Byte] /\ PRead = 0 /\ PWrite = 0
    /\ IFullSlotsCount = 0 /\ ITransSize = 0 /\ IDmaIsIdle = TRUE
    /\ dmaOn = FALSE /\ cmar = 0 /\ cndtr = 0
    /\ pc = "idle" /\ masked = FALSE /\ loaded = 0
    /\ accepted = <<>> /\ line = <<>>

\* "Circulate pointer": only the first index past the end becomes 0.
Circulate(i) == IF i >= BufSz THEN 0 ELSE i

MIN(m, n) == IF m < n THEN m ELSE n
----------------------------------------------------------------------------
(* The printing thread.                                                    *)

\* Faulty variant: global Printf without chSysLock.
BeginPrintNoLock(caller) ==
    /\ pc = "idle"
    /\ pc' = "put"
    /\ masked' = FALSE
    /\ UNCHANGED <<uartVars, dmaVars, loaded, histVars>>

\* Printf: chSysLock, then IVsPrintf.  CmdUart_t::Printf: IVsPrintf alone.
BeginPrint(caller) ==
    /\ pc = "idle"
    /\ pc' = "put"
    /\ masked' = (caller = "Printf")
    /\ UNCHANGED <<uartVars, dmaVars, loaded, histVars>>

\* Faulty variant: no test for a full ring.
IPutByteNoTest(b) ==
    /\ pc = "put"
    /\ Len(accepted) < MaxBytes
    /\ TXBuf' = [TXBuf EXCEPT ![PWrite] = b]
    /\ PWrite' = Circulate(PWrite + 1)
    /\ loaded' = IFullSlotsCount
    /\ accepted' = Append(accepted, b)
    /\ pc' = "store"
    /\ UNCHANGED <<PRead, IFullSlotsCount, ITransSize, IDmaIsIdle, dmaVars, masked, line>>

\* IPutByte up to the load of IFullSlotsCount.
IPutByte(b) ==
    /\ pc = "put"
    /\ IFullSlotsCount < BufSz
    /\ Len(accepted) < MaxBytes
    /\ TXBuf' = [TXBuf EXCEPT ![PWrite] = b]
    /\ PWrite' = Circulate(PWrite + 1)
    /\ loaded' = IFullSlotsCount
    /\ accepted' = Append(accepted, b)
    /\ pc' = "store"
    /\ UNCHANGED <<PRead, IFullSlotsCount, ITransSize, IDmaIsIdle, dmaVars, masked, line>>

\* The store of IFullSlotsCount++, and the return to IVsPrintf.
StoreCount ==
    /\ pc = "store"
    /\ IFullSlotsCount' = loaded + 1
    /\ pc' = "put"
    /\ UNCHANGED <<TXBuf, PRead, PWrite, ITransSize, IDmaIsIdle, dmaVars, masked, loaded,
                   histVars>>

\* IPutByte returns retvOverflow: IVsPrintf gives up the rest of the text.
IPutByteOverflow ==
    /\ pc = "put"
    /\ IFullSlotsCount >= BufSz
    /\ pc' = "end"
    /\ UNCHANGED <<uartVars, dmaVars, masked, loaded, histVars>>

\* Faulty variant: the block is not limited to the taken part of the ring.
ISendViaDMAPastCount(count, rd) ==
    LET n == BufSz - rd IN
    /\ ITransSize' = n
    /\ IDmaIsIdle' = FALSE
    /\ dmaOn' = TRUE
    /\ cmar' = rd
    /\ cndtr' = n

\* ISendViaDMA: the next block is what is taken, up to the end of the buffer.
\* Both callers come with the channel disabled.
ISendViaDMA(count, rd) ==
    LET n == MIN(count, BufSz - rd) IN
    /\ ITransSize' = n
    /\ IF n # 0
       THEN IDmaIsIdle' = FALSE /\ dmaOn' = TRUE /\ cmar' = rd /\ cndtr' = n
       ELSE dmaOn' = FALSE /\ UNCHANGED <<IDmaIsIdle, cmar, cndtr>>

\* Faulty variant: the channel is not started at the end of a text.
EndPrintNoStart ==
    /\ pc \in {"put", "end"}
    /\ pc' = "idle"
    /\ masked' = FALSE
    /\ UNCHANGED <<uartVars, dmaVars, loaded, histVars>>

\* End of IVsPrintf: IStartTransmissionIfNotYet; Printf then unlocks.
EndPrint ==
    /\ pc \in {"put", "end"}
    /\ pc' = "idle"
    /\ masked' = FALSE
    /\ IF IDmaIsIdle
       THEN ISendViaDMA(IFullSlotsCount, PRead)
       ELSE UNCHANGED <<ITransSize, IDmaIsIdle, dmaVars>>
    /\ UNCHANGED <<TXBuf, PRead, PWrite, IFullSlotsCount, loaded, histVars>>
----------------------------------------------------------------------------
(* The DMA channel and its interrupt.                                      *)

\* The enabled channel moves one byte to the USART.
DmaMove ==
    /\ dmaOn
    /\ cndtr > 0
    /\ line' = Append(line, TXBuf[cmar])
    /\ cmar' = cmar + 1
    /\ cndtr' = cndtr - 1
    /\ UNCHANGED <<uartVars, dmaOn, thdVars, accepted>>

\* Faulty variant: the handler goes idle with characters still in the ring.
IRQDmaTxHandlerNoRestart ==
    /\ dmaOn /\ cndtr = 0
    /\ ~masked
    /\ dmaOn' = FALSE
    /\ IFullSlotsCount' = IFullSlotsCount - ITransSize
    /\ PRead' = Circulate(PRead + ITransSize)
    /\ IDmaIsIdle' = TRUE
    /\ UNCHANGED <<TXBuf, PWrite, ITransSize, cmar, cndtr, thdVars, histVars>>

\* IRQDmaTxHandler: the block is complete, its slots are free again.
IRQDmaTxHandler ==
    /\ dmaOn /\ cndtr = 0
    /\ ~masked
    /\ LET count == IFullSlotsCount - ITransSize
           rd    == Circulate(PRead + ITransSize) IN
       /\ IFullSlotsCount' = count
       /\ PRead' = rd
       /\ IF count = 0
          THEN /\ IDmaIsIdle' = TRUE
               /\ dmaOn' = FALSE
               /\ UNCHANGED <<ITransSize, cmar, cndtr>>
          ELSE ISendViaDMA(count, rd)
    /\ UNCHANGED <<TXBuf, PWrite, thdVars, histVars>>
----------------------------------------------------------------------------
Next ==
    \/ \E caller \in Callers : BeginPrint(caller)
    \/ \E b \in Byte : IPutByte(b)
    \/ StoreCount
    \/ IPutByteOverflow
    \/ EndPrint
    \/ DmaMove
    \/ IRQDmaTxHandler

Spec == Init /\ [][Next]_vars

(* Fairness.  The DMA moves bytes by itself.  A pending interrupt is       *)
(* latched and taken as soon as it is unmasked, so it cannot be passed     *)
(* over for ever by a thread that locks again and again: strong fairness.  *)
(* A text that has been begun is finished: the printing thread is not      *)
(* blocked in it, and a text is finite.                                    *)
Fairness ==
    /\ WF_vars(DmaMove)
    /\ SF_vars(IRQDmaTxHandler)
    /\ WF_vars(StoreCount)
    /\ WF_vars(IPutByteOverflow)
    /\ WF_vars(EndPrint)

FairSpec == Spec /\ Fairness
----------------------------------------------------------------------------
(* Properties.                                                             *)

\* Whoever prints, locked or not: no block reaches past the end of the buffer,
\* and the handler's subtraction (uart.cpp:75, a uint32_t) does not wrap below
\* zero, even after one was undone.
TypeOK ==
    /\ TXBuf \in [Index -> Byte]
    /\ PRead \in Index /\ PWrite \in Index
    /\ IFullSlotsCount \in 0..BufSz
    /\ ITransSize \in 0..BufSz
    /\ IDmaIsIdle \in BOOLEAN /\ dmaOn \in BOOLEAN /\ masked \in BOOLEAN
    /\ cmar \in 0..BufSz /\ cndtr \in 0..BufSz
    /\ pc \in {"idle", "put", "store", "end"}
    /\ loaded \in 0..BufSz
    /\ accepted \in Seq(Byte) /\ line \in Seq(Byte)

\* Slots in use: IFullSlotsCount, and the one written but not yet counted.
Occupied == IFullSlotsCount + (IF pc = "store" THEN 1 ELSE 0)

\* The index k slots after PRead.
Slot(k) == IF PRead + k < BufSz THEN PRead + k ELSE PRead + k - BufSz

\* The count and the two cursors of the ring agree whatever the thread, the
\* channel and the handler are doing (uart.cpp:75-77, 96-99: three words kept
\* in step by hand by two contexts).
RingConsistent == Occupied <= BufSz /\ PWrite = Slot(Occupied)

\* What leaves on the wire is what was accepted, in order: no byte is lost,
\* sent twice, or overwritten in the ring before the DMA has read it.
LineIsPrefix ==
    /\ Len(line) <= Len(accepted)
    /\ \A i \in 1..Len(line) : line[i] = accepted[i]

\* "Nothing left to send" (uart.cpp:79): when the channel is idle between two
\* texts, every accepted byte has left and the ring is empty.
NothingLeftToSend ==
    IDmaIsIdle /\ pc = "idle" => line = accepted /\ PRead = PWrite

\* Every accepted byte leaves in the end: no schedule of texts, transfers and
\* interrupts leaves one in the ring with nobody to send it.
EveryByteLeaves ==
    \A n \in 1..MaxBytes : (Len(accepted) >= n) ~> (Len(line) >= n)

\* The transmitter implements a byte stream with BufSz bytes of room.
Fifo == INSTANCE TxFifo WITH Cap <- BufSz, acc <- accepted,
                             rel <- Len(accepted) - Occupied
FifoSpec == Fifo!Spec
============================================================================
