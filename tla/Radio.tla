------------------------------- MODULE Radio -------------------------------
(***************************************************************************)
(* The radio: rLevel1_t::Init and the rLvl1 thread (Radio/radio_lvl1.cpp), *)
(* the CC1101 driver they call (Radio/cc1101.{h,cpp}), and the chip.  The  *)
(* thread waits for a packet with a timeout, posts its percentage to       *)
(* EvtQMain and sends the packet back as an acknowledgement.  It learns    *)
(* that the chip is done from one interrupt, the falling edge of GDO0,     *)
(* which means a packet received, a packet sent, or a reception cut off;   *)
(* the state of the chip it knows only from the status byte of its last    *)
(* strobe, and nearly every result of an SPI transfer is dropped.          *)
(***************************************************************************)
EXTENDS Naturals, SequencesExt

CONSTANTS MAIN_EVT_Q_LEN,
          FailAt,          \* the places at which BusyWait may run out
          MaxPackets,      \* bound: so many packets reach the antenna
          MaxFails         \* bound: so often BusyWait runs out

\* Where the thread, or main in Init, is about to begin a transfer.
Transfers == {"reset", "pktlen", "flushFirst", "setChannel", "recalFirst", "flush", "enterRx",
              "timedOut", "received", "readFifo", "recal", "enterTx", "writeTx"}

ASSUME RadioAssumption == /\ MAIN_EVT_Q_LEN \in Nat \ {0}
                          /\ MaxPackets \in Nat /\ MaxFails \in Nat
                          /\ FailAt \subseteq Transfers

\* A packet is told from the others by its number; it may arrive damaged, or
\* come from someone who does not know TEST_WORD.
Kind == {"good", "damaged", "foreign"}
Packet == [n : 1..MaxPackets, kind : Kind]
None == [n |-> 0, kind |-> "none"]

VARIABLES
    pc,        \* where Init, then the thread, is
    IState,    \* status the chip returned with the last strobe
    ThdRef,    \* the thread is suspended on it
    Pkt,       \* the thread's packet
    chip,      \* the chip's state; "rxing": sync word received, GDO0 high
    crcOk,     \* bit 7 of PKTSTATUS
    rxFifo, txFifo,
    pend,      \* the edge interrupt of GDO0 is pending
    evtQ,      \* packets in EvtQMain
    air,       \* history: packets sent out
    handled,   \* history: packets taken from the FIFO and believed
    heard,     \* history: how many packets reached the antenna
    fails

chipVars == <<chip, crcOk, rxFifo, txFifo, air>>
hist == <<handled, heard>>
vars == <<pc, IState, ThdRef, Pkt, chipVars, pend, evtQ, hist, fails>>

Lines(p) == CASE p \in {"rxing", "rx"} -> "rx" [] OTHER -> p    \* status bits of a state

\* MCU reset: the chip may still be in any state.
Init == /\ pc = "reset" /\ IState = "idle" /\ ThdRef = FALSE /\ Pkt = None
        /\ chip \in {"idle", "rx", "tx"} /\ crcOk = FALSE
        /\ rxFifo = None /\ txFifo = None /\ pend = FALSE
        /\ evtQ = <<>> /\ air = <<>> /\ handled = <<>>
        /\ heard = 0 /\ fails = 0
----------------------------------------------------------------------------
(* The chip.                                                               *)

\* Faulty variant: the receiver stays on after a packet (cc1101_rf_settings.h:55).
RXOFF_MODE_rx == "rx"

RXOFF_MODE == "idle"
TXOFF_MODE == "idle"

\* What a strobe does.  Leaving a packet half received lowers GDO0.
ChipStrobe(s) ==
    /\ chip' = CASE s \in {"SRES", "SIDLE"} -> "idle"
                 [] s = "SRX" /\ chip = "idle" -> "rx"
                 [] s = "STX" -> "tx"
                 [] OTHER -> chip
    /\ pend' = (pend \/ (chip = "rxing" /\ chip' # "rxing"))
    /\ crcOk' = (crcOk /\ s \notin {"SRX", "SRES"})
    /\ rxFifo' = IF s \in {"SFRX", "SRES"} THEN None ELSE rxFifo
    /\ txFifo' = IF s = "SRES" THEN None ELSE txFifo
    /\ UNCHANGED air

ChipHears(k) ==
    /\ chip = "rx" /\ heard < MaxPackets
    /\ chip' = "rxing"
    /\ heard' = heard + 1
    /\ rxFifo' = [n |-> heard + 1, kind |-> k]
    /\ crcOk' = FALSE
    /\ UNCHANGED <<pc, IState, ThdRef, Pkt, txFifo, air, pend, evtQ, handled, fails>>

\* The end of a packet; one with a wrong CRC is flushed by the chip itself.
ChipRxEnds ==
    /\ chip = "rxing"
    /\ chip' = RXOFF_MODE
    /\ crcOk' = (rxFifo.kind # "damaged")
    /\ rxFifo' = IF crcOk' THEN rxFifo ELSE None
    /\ pend' = TRUE
    /\ UNCHANGED <<pc, IState, ThdRef, Pkt, txFifo, air, evtQ, hist, fails>>

\* Sending a packet takes longer than the thread needs from the end of WriteTX
\* to the suspend; with an empty FIFO the preamble never ends.
ChipTxEnds ==
    /\ chip = "tx" /\ txFifo # None /\ pc = "txSuspended"
    /\ chip' = TXOFF_MODE
    /\ air' = Append(air, txFifo)
    /\ txFifo' = None
    /\ pend' = TRUE
    /\ UNCHANGED <<pc, IState, ThdRef, Pkt, crcOk, rxFifo, evtQ, hist, fails>>
----------------------------------------------------------------------------
(* SPI transfers.  BusyWait runs out: the caller gets retvFail.            *)

SpiFails == /\ fails < MaxFails /\ pc \in FailAt
            /\ fails' = fails + 1
            /\ UNCHANGED <<IState, chipVars, pend>>

\* The status byte is shifted out while the strobe is shifted in.
WriteStrobe(s) == ChipStrobe(s) /\ IState' = Lines(chip) /\ UNCHANGED fails

\* An interrupt that is not masked comes before the thread's next step.
Runs(at) == pc = at /\ ~pend

\* A strobe whose result is dropped.
StrobeAnyway(s, to) ==
    /\ WriteStrobe(s) \/ SpiFails
    /\ pc' = to
    /\ UNCHANGED <<ThdRef, Pkt, evtQ, hist>>

\* A transfer that leaves the chip as it was.
Transfer(to, onFail) ==
    /\ \/ pc' = to /\ UNCHANGED <<IState, chipVars, pend, fails>>
       \/ pc' = onFail /\ SpiFails
    /\ UNCHANGED <<ThdRef, Pkt, evtQ, hist>>
----------------------------------------------------------------------------
(* rLevel1_t::Init, run by main; the interrupt of GDO0 is off until its    *)
(* last lines, so an edge is lost.                                         *)

Reset ==
    /\ pc = "reset"
    /\ \/ WriteStrobe("SRES") /\ pc' = "pktlen"
       \/ SpiFails /\ pc' = "initFailed"
    /\ UNCHANGED <<ThdRef, Pkt, evtQ, hist>>

\* PKTLEN written and read back.
CheckPktLen == pc = "pktlen" /\ Transfer("flushFirst", "initFailed")

\* FlushRxFIFO.  The register writes of RfConfig, SetTxPower and SetPktSize, whose
\* results are dropped, are left out: the chip here has no registers that a
\* failed one could leave as they were.
Configure == pc = "flushFirst" /\ StrobeAnyway("SFRX", "setChannel")

\* SetChannel: EnterIdle until the status says so.
SetChannel ==
    /\ pc = "setChannel"
    /\ IF IState # "idle" THEN StrobeAnyway("SIDLE", "setChannel")
                          ELSE Transfer("recalFirst", "recalFirst")
----------------------------------------------------------------------------
(* Receive.                                                                *)

FlushRxFIFO == Runs("flush") /\ StrobeAnyway("SFRX", "enterRx")

\* Under chSysLock up to the suspend.
EnterRX == pc = "enterRx" /\ StrobeAnyway("SRX", "rxSuspend")

SuspendTimeoutS ==
    /\ pc = "rxSuspend"
    /\ pc' = "rxSuspended" /\ ThdRef' = TRUE
    /\ UNCHANGED <<IState, Pkt, chipVars, pend, evtQ, hist, fails>>

\* Faulty variant: Transmit is limited in time as well.
TimeoutInTransmit ==
    /\ pc \in {"rxSuspended", "txSuspended"}
    /\ pc' = IF pc = "rxSuspended" THEN "timedOut" ELSE "flush"
    /\ ThdRef' = FALSE
    /\ UNCHANGED <<IState, Pkt, chipVars, pend, evtQ, hist, fails>>

\* The virtual timer: the thread gets MSG_TIMEOUT, the reference is cleared.
Timeout ==
    /\ pc = "rxSuspended" /\ ThdRef
    /\ pc' = "timedOut" /\ ThdRef' = FALSE
    /\ UNCHANGED <<IState, Pkt, chipVars, pend, evtQ, hist, fails>>

GiveUp == Runs("timedOut") /\ StrobeAnyway("SIDLE", "flush")

ReadPktStatus ==
    Runs("received") /\ Transfer(IF crcOk THEN "readFifo" ELSE "flush", "flush")

\* Faulty variant: the test word is not looked at.
ReadFIFOAnyWord ==
    /\ Runs("readFifo")
    /\ Pkt' = rxFifo /\ rxFifo' = None
    /\ pc' = "post" /\ handled' = Append(handled, Pkt')
    /\ UNCHANGED <<IState, ThdRef, chip, crcOk, txFifo, air, pend, evtQ, heard, fails>>

\* ReadFIFO's second part, and the test of TestWord in ITask; what is read from
\* an empty FIFO has no TEST_WORD.
ReadFIFO ==
    /\ Runs("readFifo")
    /\ \/ /\ Pkt' = rxFifo /\ rxFifo' = None
          /\ IF Pkt'.kind \in {"good", "damaged"}
             THEN pc' = "post" /\ handled' = Append(handled, Pkt')
             ELSE pc' = "flush" /\ UNCHANGED handled
          /\ UNCHANGED <<IState, chip, crcOk, txFifo, air, pend, fails>>
       \/ SpiFails /\ pc' = "flush" /\ UNCHANGED <<Pkt, handled>>
    /\ UNCHANGED <<ThdRef, evtQ, heard>>
----------------------------------------------------------------------------
(* The rest of ITask.                                                      *)

\* Faulty variant: one message too many.
SendNowOrExitLate ==
    /\ Runs("post")
    /\ IF Len(evtQ) <= MAIN_EVT_Q_LEN
       THEN evtQ' = Append(evtQ, Pkt) ELSE UNCHANGED evtQ
    /\ pc' = "recal"
    /\ UNCHANGED <<IState, ThdRef, Pkt, chipVars, pend, hist, fails>>

\* EvtQMain.SendNowOrExit, its result dropped.
SendNowOrExit ==
    /\ Runs("post")
    /\ IF Len(evtQ) < MAIN_EVT_Q_LEN
       THEN evtQ' = Append(evtQ, Pkt) ELSE UNCHANGED evtQ
    /\ pc' = "recal"
    /\ UNCHANGED <<IState, ThdRef, Pkt, chipVars, pend, hist, fails>>

\* Recalibrate, one strobe a step, in Init and in ITask; both drop the result.
Recalibrate ==
    \E at \in {"recalFirst", "recal"} :
        /\ pc = at /\ (at = "recal" => ~pend)
        /\ LET next == IF at = "recal" THEN "enterTx" ELSE "flush" IN
           IF IState = "idle" THEN StrobeAnyway("SCAL", next)
           ELSE /\ \/ WriteStrobe("SIDLE") /\ pc' = at
                   \/ SpiFails /\ pc' = next
                /\ UNCHANGED <<ThdRef, Pkt, evtQ, hist>>

EnterTX == Runs("enterTx") /\ StrobeAnyway("STX", "writeTx")

WriteTX ==
    /\ Runs("writeTx")
    /\ \/ txFifo' = Pkt /\ UNCHANGED <<IState, chip, crcOk, rxFifo, air, pend, fails>>
       \/ SpiFails
    /\ pc' = "txSuspend"
    /\ UNCHANGED <<ThdRef, Pkt, evtQ, hist>>

SuspendS ==
    /\ Runs("txSuspend")
    /\ pc' = "txSuspended" /\ ThdRef' = TRUE
    /\ UNCHANGED <<IState, Pkt, chipVars, pend, evtQ, hist, fails>>
----------------------------------------------------------------------------
\* Faulty variant: the thread is resumed while it receives only.
IIrqHandlerRxOnly ==
    /\ pend /\ pc \notin {"enterRx", "rxSuspend"}
    /\ pend' = FALSE
    /\ IF ThdRef /\ pc = "rxSuspended" THEN ThdRef' = FALSE /\ pc' = "received"
                                       ELSE UNCHANGED <<ThdRef, pc>>
    /\ UNCHANGED <<IState, Pkt, chipVars, evtQ, hist, fails>>

\* The interrupt: chThdResumeI with MSG_OK, nothing without a reference.
IIrqHandler ==
    /\ pend /\ pc \notin {"enterRx", "rxSuspend"}
    /\ pend' = FALSE
    /\ IF ThdRef
       THEN /\ ThdRef' = FALSE
            /\ pc' = IF pc = "txSuspended" THEN "flush" ELSE "received"
       ELSE UNCHANGED <<ThdRef, pc>>
    /\ UNCHANGED <<IState, Pkt, chipVars, evtQ, hist, fails>>

\* Main takes a message.
Fetch == /\ evtQ # <<>>
         /\ evtQ' = Tail(evtQ)
         /\ UNCHANGED <<pc, IState, ThdRef, Pkt, chipVars, pend, hist, fails>>

Thread ==
    \/ Reset \/ CheckPktLen \/ Configure \/ SetChannel
    \/ FlushRxFIFO \/ EnterRX \/ SuspendTimeoutS \/ GiveUp \/ ReadPktStatus \/ ReadFIFO
    \/ SendNowOrExit \/ Recalibrate \/ EnterTX \/ WriteTX \/ SuspendS

Interrupts == IIrqHandler \/ Timeout

Next == Thread \/ Interrupts \/ Fetch \/ ChipRxEnds \/ ChipTxEnds
        \/ \E k \in Kind : ChipHears(k)

Spec == Init /\ [][Next]_vars

(* Fairness.  The thread has the highest priority, the timer runs out, the *)
(* chip ends what it began.  Nobody has to send a packet.                  *)
Fairness == WF_vars(Thread) /\ WF_vars(IIrqHandler) /\ WF_vars(Timeout)
            /\ WF_vars(ChipRxEnds) /\ WF_vars(ChipTxEnds)

FairSpec == Spec /\ Fairness
----------------------------------------------------------------------------
(* Properties.                                                             *)

TypeOK ==
    /\ pc \in Transfers \cup {"initFailed", "rxSuspend", "rxSuspended", "post",
                              "txSuspend", "txSuspended"}
    /\ IState \in {"idle", "rx", "tx"} /\ chip \in {"idle", "rx", "rxing", "tx"}
    /\ {ThdRef, crcOk, pend} \subseteq BOOLEAN
    /\ {Pkt, rxFifo, txFifo} \subseteq Packet \cup {None}
    /\ evtQ \in Seq(Packet) /\ Len(evtQ) <= MAIN_EVT_Q_LEN
    /\ air \in Seq(Packet) /\ handled \in Seq(Packet)
    /\ heard \in 0..MaxPackets /\ fails \in 0..MaxFails

\* Each packet counts once, whatever interrupts are late or answers missing:
\* only intact packets with the test word are believed, none twice, and in the
\* order in which they came (radio_lvl1.cpp:46, cc1101.cpp:226-252).
EveryPacketOnce ==
    /\ \A i \in DOMAIN handled : handled[i].kind = "good"
    /\ \A i, j \in DOMAIN handled : i < j => handled[i].n < handled[j].n

\* The report of a reception is the packet just received, sent in full before
\* the next reception begins: no stale edge of GDO0 ends Transmit early, and no
\* report is sent for a packet that was not believed (radio_lvl1.cpp:52-53).
ReportsInOrder ==
    /\ IsPrefix(air, handled)
    /\ pc \in {"flush", "enterRx", "rxSuspended", "post"} =>
           Len(air) + (IF pc = "post" THEN 1 ELSE 0) = Len(handled)

LeavesRecalibrate == pc \in {"recal", "recalFirst"} /\ pc' \notin {"recal", "recalFirst"}

\* The synthesizer is calibrated only in the chip's idle state, although the
\* driver knows no more than the status before its last strobe (cc1101.h:59).
CalibratesInIdle ==
    [][LeavesRecalibrate /\ fails' = fails => chip = "idle"]_vars

\* The thread hears again and again: no interrupt is missed for good, and a
\* lost packet costs one timeout.
KeepsListening == []<>(pc \in {"rxSuspended", "initFailed"})
============================================================================
