---------------------------- MODULE Radio_proofs ----------------------------
(***************************************************************************)
(* Proofs about the radio for every number of packets, every place and     *)
(* number of failed transfers, and every length of EvtQMain.               *)
(***************************************************************************)
EXTENDS Radio, TLAPS

\* What the driver never reads and still may rely on: a good checksum means
\* that reception is over, and from there to Transmit the chip is idle with no
\* edge of GDO0 to come; it sends only between EnterTX and the end of Transmit.
ChipInv ==
    /\ ThdRef <=> pc \in {"rxSuspended", "txSuspended"}
    /\ crcOk => chip \notin {"rx", "rxing"} /\ rxFifo.kind # "damaged"
    /\ pc \in {"pktlen", "flushFirst", "setChannel", "recalFirst"} => chip = "idle"
    /\ pc \in {"readFifo", "post", "recal", "enterTx"} => chip = "idle" /\ ~pend
    /\ pc = "readFifo" => crcOk
    /\ pc \in {"writeTx", "txSuspend"} => chip \in {"idle", "tx"} /\ ~pend
    /\ pc = "txSuspended" => chip \in {"idle", "tx"} /\ (pend => chip = "idle")
    /\ chip = "tx" => pc \in {"reset", "initFailed", "writeTx", "txSuspend", "txSuspended"}
    /\ txFifo # None => pc \in {"txSuspend", "txSuspended"} /\ ~pend /\ txFifo = Pkt

\* What is in the FIFO is younger than everything believed so far.
OrderInv ==
    /\ \A i \in DOMAIN handled : handled[i].n <= heard
    /\ rxFifo # None => rxFifo.n <= heard /\ \A i \in DOMAIN handled : handled[i].n < rxFifo.n

\* A report is owed from the moment the packet is believed until it is sent.
Owed == pc \in {"post", "recal", "enterTx", "writeTx", "txSuspend"}
        \/ (pc = "txSuspended" /\ ~pend)

\* Exactly the packet last believed is missing in the air, while it is owed.
ReportInv == IF Owed THEN Pkt \in Packet /\ handled = Append(air, Pkt) ELSE air = handled

IInv == TypeOK /\ ChipInv /\ EveryPacketOnce /\ OrderInv /\ ReportInv
----------------------------------------------------------------------------
(* Transfers.                                                              *)

Strobe == {"SRES", "SFRX", "SIDLE", "SRX", "SCAL", "STX"}

\* What a strobe does to the chip, by cases.
LEMMA StrobeCases ==
  ASSUME NEW s \in Strobe, ChipStrobe(s)
  PROVE  /\ s \in {"SRES", "SIDLE"} => chip' = "idle"
         /\ s \in {"SFRX", "SCAL"} => chip' = chip
         /\ s = "SRX" => chip' = (IF chip = "idle" THEN "rx" ELSE chip) /\ ~crcOk'
         /\ s = "STX" => chip' = "tx"
         /\ pend' = (pend \/ (chip = "rxing" /\ chip' # "rxing"))
         /\ crcOk' = (crcOk /\ s \notin {"SRX", "SRES"})
         /\ rxFifo' \in {rxFifo, None}
         /\ txFifo' \in {txFifo, None}
         /\ s = "SRES" => txFifo' = None
         /\ s # "SRES" => txFifo' = txFifo
         /\ air' = air
  BY DEF Strobe, ChipStrobe

LEMMA NoneTyped == None.n = 0 /\ None.kind = "none" /\ None \notin Packet
  BY DEF None, Packet, Kind

\* The types survive a transfer, done or failed.
LEMMA StrobeTyped ==
  ASSUME NEW s \in Strobe, TypeOK, WriteStrobe(s) \/ SpiFails
  PROVE  /\ IState' \in {"idle", "rx", "tx"} /\ chip' \in {"idle", "rx", "rxing", "tx"}
         /\ crcOk' \in BOOLEAN /\ pend' \in BOOLEAN
         /\ rxFifo' \in Packet \cup {None} /\ txFifo' \in Packet \cup {None}
         /\ air' = air
         /\ fails' \in 0..MaxFails
  <1>1. CASE WriteStrobe(s)
    <2>1. ChipStrobe(s) /\ IState' = Lines(chip) /\ fails' = fails
      BY <1>1 DEF WriteStrobe
    <2>2. Lines(chip) \in {"idle", "rx", "tx"}
      BY DEF TypeOK, Lines
    <2>3. chip' \in {"idle", "rx", "rxing", "tx"}
      BY <2>1, StrobeCases DEF Strobe, TypeOK
    <2>4. QED
      BY <2>1, <2>2, <2>3, StrobeCases DEF TypeOK
  <1>2. CASE SpiFails
    BY <1>2, RadioAssumption DEF SpiFails, chipVars, TypeOK
  <1>3. QED
    BY <1>1, <1>2
----------------------------------------------------------------------------
LEMMA InitIInv == Init => IInv
  <1> SUFFICES ASSUME Init PROVE IInv
    OBVIOUS
  <1>1. <<>> \in Seq(Packet) /\ Len(<<>>) = 0 /\ \A i \in DOMAIN <<>> : FALSE
    OBVIOUS
  <1>2. TypeOK
    <2>1. pc = "reset" /\ "reset" \in Transfers
      BY DEF Init, Transfers
    <2>2. 0 \in 0..MaxPackets /\ 0 \in 0..MaxFails /\ 0 <= MAIN_EVT_Q_LEN
      BY RadioAssumption
    <2>3. evtQ \in Seq(Packet) /\ Len(evtQ) <= MAIN_EVT_Q_LEN
          /\ air \in Seq(Packet) /\ handled \in Seq(Packet)
      BY <1>1, <2>2 DEF Init
    <2>4. {ThdRef, crcOk, pend} \subseteq BOOLEAN
          /\ {Pkt, rxFifo, txFifo} \subseteq Packet \cup {None}
      BY DEF Init
    <2>5. /\ IState \in {"idle", "rx", "tx"} /\ chip \in {"idle", "rx", "rxing", "tx"}
          /\ heard \in 0..MaxPackets /\ fails \in 0..MaxFails
      BY <2>2 DEF Init
    <2>6. QED
      BY <2>1, <2>3, <2>4, <2>5 DEF TypeOK
  <1>3. ChipInv
    BY NoneTyped DEF Init, ChipInv
  <1>4. EveryPacketOnce /\ OrderInv /\ ReportInv
    BY <1>1 DEF Init, EveryPacketOnce, OrderInv, ReportInv, Owed
  <1>5. QED
    BY <1>2, <1>3, <1>4 DEF IInv

\* The places of Init and of the thread.
Places == Transfers \cup {"initFailed", "rxSuspend", "rxSuspended", "post",
                          "txSuspend", "txSuspended"}

\* A step that takes nothing from the FIFO but to drop it leaves the packets
\* believed as they are, and what is in the FIFO younger than they are.
LEMMA OrderKept ==
  ASSUME IInv, rxFifo' \in {rxFifo, None}, UNCHANGED hist
  PROVE  EveryPacketOnce' /\ OrderInv'
  <1>1. EveryPacketOnce'
    BY DEF IInv, EveryPacketOnce, hist
  <1>2. OrderInv'
    BY DEF IInv, OrderInv, hist
  <1>3. QED
    BY <1>1, <1>2

\* What is common to the steps that send a strobe and drop its result.
LEMMA StrobeKeeps ==
  ASSUME IInv, NEW s \in Strobe, NEW to \in Places, StrobeAnyway(s, to)
  PROVE  /\ TypeOK' /\ EveryPacketOnce' /\ OrderInv'
         /\ pc' = to /\ ThdRef' = ThdRef /\ Pkt' = Pkt /\ air' = air /\ handled' = handled
         /\ pend' => pend \/ chip = "rxing"
         /\ chip' \in {chip, "idle", "rx", "tx"}
         /\ chip' = "tx" => chip = "tx" \/ s = "STX"
         /\ chip' = "rx" => chip = "rx" \/ (s = "SRX" /\ ~crcOk')
         /\ chip = "idle" /\ s \notin {"SRX", "STX"} => chip' = "idle"
         /\ crcOk' => crcOk
         /\ rxFifo' \in {rxFifo, None}
         /\ txFifo' \in {txFifo, None}
  <1>1. (WriteStrobe(s) \/ SpiFails) /\ pc' = to /\ UNCHANGED <<ThdRef, Pkt, evtQ, hist>>
    BY DEF StrobeAnyway
  <1>2. /\ pend' => pend \/ chip = "rxing"
        /\ chip' \in {chip, "idle", "rx", "tx"}
        /\ chip' = "tx" => chip = "tx" \/ s = "STX"
        /\ chip' = "rx" => chip = "rx" \/ (s = "SRX" /\ ~crcOk')
        /\ chip = "idle" /\ s \notin {"SRX", "STX"} => chip' = "idle"
        /\ crcOk' => crcOk
        /\ rxFifo' \in {rxFifo, None}
        /\ txFifo' \in {txFifo, None}
    <2>1. CASE WriteStrobe(s)
      BY <2>1, StrobeCases DEF WriteStrobe, Strobe, IInv, TypeOK
    <2>2. CASE SpiFails
      BY <2>2 DEF SpiFails, chipVars
    <2>3. QED
      BY <1>1, <2>1, <2>2
  <1>3. TypeOK'
    BY <1>1, StrobeTyped DEF IInv, TypeOK, hist, Places
  <1>4. EveryPacketOnce' /\ OrderInv'
    BY <1>1, <1>2, OrderKept
  <1>5. QED
    BY <1>1, <1>2, <1>3, <1>4, StrobeTyped DEF hist, IInv
----------------------------------------------------------------------------
(* rLevel1_t::Init.                                                        *)

LEMMA ResetKeeps == IInv /\ Reset => IInv'
  <1> SUFFICES ASSUME IInv, Reset PROVE IInv'
    OBVIOUS
  <1>1. /\ pc' \in {"pktlen", "initFailed"} /\ UNCHANGED <<ThdRef, Pkt, evtQ, hist>>
        /\ WriteStrobe("SRES") \/ SpiFails
    BY DEF Reset
  <1>2. TypeOK'
    BY <1>1, StrobeTyped DEF IInv, TypeOK, hist, Strobe, Transfers
  <1>3. ChipInv'
    <2>1. CASE WriteStrobe("SRES") /\ pc' = "pktlen"
      <3>1. chip' = "idle" /\ ~crcOk' /\ txFifo' = None
        BY <2>1, StrobeCases DEF WriteStrobe, Strobe
      <3>2. ~ThdRef'
        BY <1>1 DEF Reset, IInv, ChipInv
      <3>3. QED
        BY <2>1, <3>1, <3>2 DEF ChipInv
    <2>2. CASE SpiFails /\ pc' = "initFailed"
      BY <1>1, <2>2 DEF SpiFails, chipVars, Reset, IInv, ChipInv
    <2>3. QED
      BY <2>1, <2>2 DEF Reset
  <1>4. rxFifo' \in {rxFifo, None} /\ air' = air
    BY <1>1, StrobeCases DEF WriteStrobe, Strobe, SpiFails, chipVars
  <1>5. EveryPacketOnce' /\ OrderInv'
    BY <1>1, <1>4, OrderKept
  <1>6. ReportInv'
    BY <1>1, <1>4 DEF Reset, hist, IInv, ReportInv, Owed
  <1>7. QED
    BY <1>2, <1>3, <1>5, <1>6 DEF IInv

\* A transfer that leaves the chip as it was.
LEMMA TransferKeeps ==
  ASSUME IInv, NEW to \in Places, NEW onFail \in Places, Transfer(to, onFail)
  PROVE  /\ TypeOK' /\ EveryPacketOnce' /\ OrderInv'
         /\ pc' \in {to, onFail}
         /\ UNCHANGED <<ThdRef, Pkt, chip, crcOk, rxFifo, txFifo, air, pend, handled>>
  <1>1. /\ pc' \in {to, onFail} /\ fails' \in 0..MaxFails
        /\ UNCHANGED <<IState, ThdRef, Pkt, chipVars, pend, evtQ, hist>>
    BY RadioAssumption DEF Transfer, SpiFails, IInv, TypeOK
  <1>2. TypeOK'
    BY <1>1 DEF chipVars, hist, Places, IInv, TypeOK
  <1>3. EveryPacketOnce' /\ OrderInv'
    BY <1>1, OrderKept DEF chipVars
  <1>4. QED
    BY <1>1, <1>2, <1>3 DEF chipVars, hist

LEMMA CheckPktLenKeeps == IInv /\ CheckPktLen => IInv'
  <1> SUFFICES ASSUME IInv, CheckPktLen PROVE IInv'
    OBVIOUS
  <1>1. "flushFirst" \in Places /\ "initFailed" \in Places
    BY DEF Places, Transfers
  <1>2. QED
    BY <1>1, TransferKeeps DEF CheckPktLen, IInv, ChipInv, ReportInv, Owed

LEMMA ConfigureKeeps == IInv /\ Configure => IInv'
  <1> SUFFICES ASSUME IInv, Configure PROVE IInv'
    OBVIOUS
  <1>1. "SFRX" \in Strobe /\ "setChannel" \in Places
    BY DEF Strobe, Places, Transfers
  <1>2. QED
    BY <1>1, StrobeKeeps, NoneTyped DEF Configure, IInv, ChipInv, ReportInv, Owed

LEMMA SetChannelKeeps == IInv /\ SetChannel => IInv'
  <1> SUFFICES ASSUME IInv, SetChannel PROVE IInv'
    OBVIOUS
  <1>1. "SIDLE" \in Strobe /\ "setChannel" \in Places /\ "recalFirst" \in Places
    BY DEF Strobe, Places, Transfers
  <1>2. CASE StrobeAnyway("SIDLE", "setChannel")
    BY <1>1, <1>2, StrobeKeeps, NoneTyped DEF SetChannel, IInv, ChipInv, ReportInv, Owed
  <1>3. CASE Transfer("recalFirst", "recalFirst")
    BY <1>1, <1>3, TransferKeeps DEF SetChannel, IInv, ChipInv, ReportInv, Owed
  <1>4. QED
    BY <1>2, <1>3 DEF SetChannel
----------------------------------------------------------------------------
(* Receive.                                                                *)

LEMMA FlushRxFIFOKeeps == IInv /\ FlushRxFIFO => IInv'
  <1> SUFFICES ASSUME IInv, FlushRxFIFO PROVE IInv'
    OBVIOUS
  <1>1. "SFRX" \in Strobe /\ "enterRx" \in Places
    BY DEF Strobe, Places, Transfers
  <1>2. QED
    BY <1>1, StrobeKeeps, NoneTyped DEF FlushRxFIFO, Runs, IInv, ChipInv, ReportInv, Owed

LEMMA EnterRXKeeps == IInv /\ EnterRX => IInv'
  <1> SUFFICES ASSUME IInv, EnterRX PROVE IInv'
    OBVIOUS
  <1>1. "SRX" \in Strobe /\ "rxSuspend" \in Places
    BY DEF Strobe, Places
  <1>2. QED
    BY <1>1, StrobeKeeps, NoneTyped DEF EnterRX, IInv, ChipInv, ReportInv, Owed

LEMMA GiveUpKeeps == IInv /\ GiveUp => IInv'
  <1> SUFFICES ASSUME IInv, GiveUp PROVE IInv'
    OBVIOUS
  <1>1. "SIDLE" \in Strobe /\ "flush" \in Places
    BY DEF Strobe, Places, Transfers
  <1>2. QED
    BY <1>1, StrobeKeeps, NoneTyped DEF GiveUp, Runs, IInv, ChipInv, ReportInv, Owed

\* The chip cannot be receiving when the thread goes on to read the FIFO: the
\* bit that says the checksum is good is reset when reception begins.
LEMMA ReadPktStatusKeeps == IInv /\ ReadPktStatus => IInv'
  <1> SUFFICES ASSUME IInv, ReadPktStatus PROVE IInv'
    OBVIOUS
  <1> DEFINE to == IF crcOk THEN "readFifo" ELSE "flush"
  <1>1. to \in Places /\ "flush" \in Places /\ (to = "readFifo" => crcOk)
        /\ to \in {"readFifo", "flush"}
    BY DEF Places, Transfers
  <1>2. pc = "received" /\ ~pend /\ Transfer(to, "flush")
    BY DEF ReadPktStatus, Runs
  <1> HIDE DEF to
  <1>3. /\ TypeOK' /\ EveryPacketOnce' /\ OrderInv'
        /\ pc' \in {"readFifo", "flush"} /\ (pc' = "readFifo" => crcOk)
        /\ UNCHANGED <<ThdRef, Pkt, chip, crcOk, rxFifo, txFifo, air, pend, handled>>
    BY <1>1, <1>2, TransferKeeps
  <1>4. ChipInv'
    BY <1>2, <1>3 DEF IInv, TypeOK, ChipInv
  <1>5. ReportInv'
    BY <1>2, <1>3 DEF IInv, ReportInv, Owed
  <1>6. QED
    BY <1>3, <1>4, <1>5 DEF IInv

\* What is read and believed is intact and younger than all before.
LEMMA ReadFIFOKeeps == IInv /\ ReadFIFO => IInv'
  <1> SUFFICES ASSUME IInv, ReadFIFO PROVE IInv'
    OBVIOUS
  <1>1. pc = "readFifo" /\ ~pend /\ UNCHANGED <<ThdRef, evtQ, heard>>
    BY DEF ReadFIFO, Runs
  <1>2. chip = "idle" /\ crcOk /\ rxFifo.kind # "damaged" /\ air = handled /\ txFifo = None
    BY <1>1 DEF IInv, ChipInv, ReportInv, Owed
  <1>3. CASE /\ Pkt' = rxFifo /\ rxFifo' = None
             /\ Pkt'.kind \in {"good", "damaged"}
             /\ pc' = "post" /\ handled' = Append(handled, Pkt')
             /\ UNCHANGED <<IState, chip, crcOk, txFifo, air, pend, fails>>
    <2>1. rxFifo \in Packet /\ rxFifo.kind = "good" /\ rxFifo # None
      BY <1>2, <1>3, NoneTyped DEF IInv, TypeOK
    <2>2. /\ handled' \in Seq(Packet) /\ Len(handled') = Len(handled) + 1
          /\ \A i \in DOMAIN handled : i \in DOMAIN handled' /\ handled'[i] = handled[i]
          /\ \A i \in DOMAIN handled' : i \notin DOMAIN handled =>
                                            i = Len(handled) + 1 /\ handled'[i] = rxFifo
          /\ \A i, j \in DOMAIN handled' : i < j => i \in DOMAIN handled
      BY <1>3, <2>1 DEF IInv, TypeOK
    <2>3. TypeOK'
      BY <1>1, <1>3, <2>1, <2>2 DEF IInv, TypeOK
    <2>4. ChipInv'
      BY <1>1, <1>2, <1>3, NoneTyped DEF IInv, ChipInv
    <2>5. \A i \in DOMAIN handled' : handled'[i].kind = "good" /\ handled'[i].n <= heard
      BY <2>1, <2>2 DEF IInv, EveryPacketOnce, OrderInv
    <2>6. \A i, j \in DOMAIN handled' : i < j => handled'[i].n < handled'[j].n
      <3> SUFFICES ASSUME NEW i \in DOMAIN handled', NEW j \in DOMAIN handled', i < j
                   PROVE  handled'[i].n < handled'[j].n
        OBVIOUS
      <3>1. i \in DOMAIN handled /\ handled'[i] = handled[i]
        BY <2>2
      <3>2. CASE j \in DOMAIN handled
        BY <2>2, <3>1, <3>2 DEF IInv, EveryPacketOnce
      <3>3. CASE j \notin DOMAIN handled
        BY <2>1, <2>2, <3>1, <3>3 DEF IInv, OrderInv
      <3>4. QED
        BY <3>2, <3>3
    <2>7. EveryPacketOnce' /\ OrderInv'
      BY <1>1, <1>3, <2>5, <2>6 DEF EveryPacketOnce, OrderInv
    <2>8. ReportInv'
      BY <1>2, <1>3, <2>1 DEF ReportInv, Owed
    <2>9. QED
      BY <2>3, <2>4, <2>7, <2>8 DEF IInv
  <1>4. CASE /\ Pkt' = rxFifo /\ rxFifo' = None
             /\ pc' = "flush" /\ handled' = handled
             /\ UNCHANGED <<IState, chip, crcOk, txFifo, air, pend, fails>>
    <2>1. TypeOK'
      BY <1>1, <1>4 DEF IInv, TypeOK, Transfers
    <2>2. ChipInv'
      BY <1>1, <1>2, <1>4, NoneTyped DEF IInv, ChipInv
    <2>3. EveryPacketOnce' /\ OrderInv'
      BY <1>1, <1>4, OrderKept DEF hist
    <2>4. ReportInv'
      BY <1>2, <1>4 DEF ReportInv, Owed
    <2>5. QED
      BY <2>1, <2>2, <2>3, <2>4 DEF IInv
  <1>5. CASE SpiFails /\ pc' = "flush" /\ UNCHANGED <<Pkt, handled>>
    <2>1. TypeOK'
      BY <1>1, <1>5, RadioAssumption DEF SpiFails, chipVars, IInv, TypeOK, Transfers
    <2>2. ChipInv'
      BY <1>1, <1>2, <1>5 DEF SpiFails, chipVars, IInv, ChipInv
    <2>3. EveryPacketOnce' /\ OrderInv'
      BY <1>1, <1>5, OrderKept DEF SpiFails, chipVars, hist
    <2>4. ReportInv'
      BY <1>2, <1>5 DEF SpiFails, chipVars, ReportInv, Owed
    <2>5. QED
      BY <2>1, <2>2, <2>3, <2>4 DEF IInv
  <1>6. QED
    BY <1>3, <1>4, <1>5 DEF ReadFIFO

\* A step of the thread that makes no transfer.
LEMMA QuietKeeps ==
  ASSUME IInv, UNCHANGED <<IState, Pkt, chipVars, hist, fails>>,
         pc' \in Places, ThdRef' \in BOOLEAN, pend' \in BOOLEAN,
         evtQ' \in Seq(Packet), Len(evtQ') <= MAIN_EVT_Q_LEN
  PROVE  TypeOK' /\ EveryPacketOnce' /\ OrderInv'
  <1>1. TypeOK'
    BY DEF chipVars, hist, Places, IInv, TypeOK
  <1>2. QED
    BY <1>1, OrderKept DEF chipVars

LEMMA SuspendTimeoutSKeeps == IInv /\ SuspendTimeoutS => IInv'
  <1> SUFFICES ASSUME IInv, SuspendTimeoutS PROVE IInv'
    OBVIOUS
  <1>1. TypeOK' /\ EveryPacketOnce' /\ OrderInv'
    BY QuietKeeps DEF SuspendTimeoutS, Places, IInv, TypeOK
  <1>2. ChipInv' /\ ReportInv'
    BY DEF SuspendTimeoutS, chipVars, hist, IInv, ChipInv, ReportInv, Owed
  <1>3. QED
    BY <1>1, <1>2 DEF IInv

LEMMA TimeoutKeeps == IInv /\ Timeout => IInv'
  <1> SUFFICES ASSUME IInv, Timeout PROVE IInv'
    OBVIOUS
  <1>1. TypeOK' /\ EveryPacketOnce' /\ OrderInv'
    BY QuietKeeps DEF Timeout, Places, Transfers, IInv, TypeOK
  <1>2. ChipInv' /\ ReportInv'
    BY DEF Timeout, chipVars, hist, IInv, ChipInv, ReportInv, Owed
  <1>3. QED
    BY <1>1, <1>2 DEF IInv

LEMMA SendNowOrExitKeeps == IInv /\ SendNowOrExit => IInv'
  <1> SUFFICES ASSUME IInv, SendNowOrExit PROVE IInv'
    OBVIOUS
  <1>1. Pkt \in Packet
    BY DEF SendNowOrExit, Runs, IInv, ReportInv, Owed
  <1>2. evtQ' \in Seq(Packet) /\ Len(evtQ') <= MAIN_EVT_Q_LEN
    <2>1. /\ evtQ \in Seq(Packet) /\ Len(evtQ) <= MAIN_EVT_Q_LEN
          /\ evtQ' = IF Len(evtQ) < MAIN_EVT_Q_LEN THEN Append(evtQ, Pkt) ELSE evtQ
      BY DEF SendNowOrExit, IInv, TypeOK
    <2>2. Append(evtQ, Pkt) \in Seq(Packet) /\ Len(Append(evtQ, Pkt)) = Len(evtQ) + 1
      BY <1>1, <2>1
    <2>3. QED
      BY <2>1, <2>2, RadioAssumption
  <1>3. TypeOK' /\ EveryPacketOnce' /\ OrderInv'
    BY <1>2, QuietKeeps DEF SendNowOrExit, Places, Transfers, IInv, TypeOK
  <1>4. ChipInv' /\ ReportInv'
    BY DEF SendNowOrExit, Runs, chipVars, hist, IInv, ChipInv, ReportInv, Owed
  <1>5. QED
    BY <1>3, <1>4 DEF IInv

LEMMA RecalibrateKeeps == IInv /\ Recalibrate => IInv'
  <1> SUFFICES ASSUME IInv, NEW at \in {"recalFirst", "recal"}, pc = at, at = "recal" => ~pend,
                      NEW next, next = (IF at = "recal" THEN "enterTx" ELSE "flush"),
                      \/ StrobeAnyway("SCAL", next)
                      \/ /\ (WriteStrobe("SIDLE") /\ pc' = at) \/ (SpiFails /\ pc' = next)
                         /\ UNCHANGED <<ThdRef, Pkt, evtQ, hist>>
               PROVE  IInv'
    BY DEF Recalibrate
  <1>1. "SCAL" \in Strobe /\ "SIDLE" \in Strobe /\ at \in Places /\ next \in Places
    BY DEF Strobe, Places, Transfers
  <1>2. StrobeAnyway("SCAL", next) \/ StrobeAnyway("SIDLE", next) \/ StrobeAnyway("SIDLE", at)
    BY DEF StrobeAnyway
  <1>3. chip = "idle" /\ (at = "recal" => ~pend)
    BY DEF IInv, ChipInv
  <1>4. /\ TypeOK' /\ EveryPacketOnce' /\ OrderInv'
        /\ pc' \in {at, next} /\ UNCHANGED <<ThdRef, Pkt, air, handled>>
        /\ chip' = "idle" /\ (pend' => pend) /\ (crcOk' => crcOk)
        /\ rxFifo' \in {rxFifo, None} /\ txFifo' \in {txFifo, None}
    BY <1>1, <1>2, <1>3, StrobeKeeps
  <1>5. ChipInv'
    BY <1>3, <1>4, NoneTyped DEF IInv, ChipInv
  <1>6. ReportInv'
    BY <1>4 DEF IInv, ReportInv, Owed
  <1>7. QED
    BY <1>4, <1>5, <1>6 DEF IInv

LEMMA EnterTXKeeps == IInv /\ EnterTX => IInv'
  <1> SUFFICES ASSUME IInv, EnterTX PROVE IInv'
    OBVIOUS
  <1>1. "STX" \in Strobe /\ "writeTx" \in Places
    BY DEF Strobe, Places, Transfers
  <1>2. QED
    BY <1>1, StrobeKeeps, NoneTyped DEF EnterTX, Runs, IInv, ChipInv, ReportInv, Owed

LEMMA WriteTXKeeps == IInv /\ WriteTX => IInv'
  <1> SUFFICES ASSUME IInv, WriteTX PROVE IInv'
    OBVIOUS
  <1>1. /\ pc = "writeTx" /\ ~pend /\ pc' = "txSuspend" /\ txFifo' \in {txFifo, Pkt}
        /\ UNCHANGED <<IState, chip, crcOk, rxFifo, air, pend, ThdRef, Pkt, evtQ, hist>>
        /\ fails' \in 0..MaxFails
    BY RadioAssumption DEF WriteTX, Runs, SpiFails, chipVars, IInv, TypeOK
  <1>2. TypeOK'
    BY <1>1 DEF hist, IInv, TypeOK
  <1>3. EveryPacketOnce' /\ OrderInv'
    BY <1>1, OrderKept
  <1>4. ChipInv' /\ ReportInv'
    BY <1>1 DEF hist, IInv, ChipInv, ReportInv, Owed
  <1>5. QED
    BY <1>2, <1>3, <1>4 DEF IInv

LEMMA SuspendSKeeps == IInv /\ SuspendS => IInv'
  <1> SUFFICES ASSUME IInv, SuspendS PROVE IInv'
    OBVIOUS
  <1>1. TypeOK' /\ EveryPacketOnce' /\ OrderInv'
    BY QuietKeeps DEF SuspendS, Places, IInv, TypeOK
  <1>2. ChipInv' /\ ReportInv'
    BY DEF SuspendS, Runs, chipVars, hist, IInv, ChipInv, ReportInv, Owed
  <1>3. QED
    BY <1>1, <1>2 DEF IInv
----------------------------------------------------------------------------
(* The interrupt, main, the chip.                                          *)

\* An edge resumes Transmit only when it is the one at the end of the packet.
LEMMA IIrqHandlerKeeps == IInv /\ IIrqHandler => IInv'
  <1> SUFFICES ASSUME IInv, IIrqHandler PROVE IInv'
    OBVIOUS
  <1>1. TypeOK' /\ EveryPacketOnce' /\ OrderInv'
    BY QuietKeeps DEF IIrqHandler, Places, Transfers, IInv, TypeOK
  <1>2. ChipInv' /\ ReportInv'
    BY DEF IIrqHandler, chipVars, hist, IInv, TypeOK, ChipInv, ReportInv, Owed
  <1>3. QED
    BY <1>1, <1>2 DEF IInv

LEMMA FetchKeeps == IInv /\ Fetch => IInv'
  <1> SUFFICES ASSUME IInv, Fetch PROVE IInv'
    OBVIOUS
  <1>1. evtQ' \in Seq(Packet) /\ Len(evtQ') <= MAIN_EVT_Q_LEN
    <2>1. evtQ \in Seq(Packet) /\ Len(evtQ) <= MAIN_EVT_Q_LEN /\ evtQ # <<>> /\ evtQ' = Tail(evtQ)
      BY DEF Fetch, IInv, TypeOK
    <2>2. evtQ' \in Seq(Packet) /\ Len(evtQ') = Len(evtQ) - 1
      BY <2>1
    <2>3. QED
      BY <2>1, <2>2, RadioAssumption
  <1>2. TypeOK' /\ EveryPacketOnce' /\ OrderInv'
    BY <1>1, QuietKeeps DEF Fetch, Places, IInv, TypeOK
  <1>3. ChipInv' /\ ReportInv'
    BY DEF Fetch, chipVars, hist, IInv, ChipInv, ReportInv, Owed
  <1>4. QED
    BY <1>2, <1>3 DEF IInv

\* A packet begins: it is the youngest of all.
LEMMA ChipHearsKeeps ==
  ASSUME IInv, NEW k \in Kind, ChipHears(k)
  PROVE  IInv'
  <1>1. rxFifo' \in Packet /\ rxFifo'.n = heard + 1 /\ heard' = heard + 1
        /\ heard' \in 0..MaxPackets
    BY RadioAssumption DEF ChipHears, Packet, IInv, TypeOK
  <1>2. TypeOK'
    BY <1>1 DEF ChipHears, IInv, TypeOK
  <1>3. ChipInv'
    BY DEF ChipHears, IInv, ChipInv
  <1>4. EveryPacketOnce'
    BY DEF ChipHears, IInv, EveryPacketOnce
  <1>5. OrderInv'
    <2>1. \A i \in DOMAIN handled : handled[i].n \in Nat
      <3>1. \A i \in DOMAIN handled : handled[i] \in Packet
        BY DEF IInv, TypeOK
      <3>2. \A p \in Packet : p.n \in Nat
        BY DEF Packet
      <3>3. QED
        BY <3>1, <3>2
    <2>2. \A i \in DOMAIN handled : handled[i].n <= heard
      BY DEF IInv, OrderInv
    <2>3. heard \in Nat
      BY RadioAssumption DEF IInv, TypeOK
    <2>4. QED
      BY <1>1, <2>1, <2>2, <2>3 DEF ChipHears, OrderInv
  <1>6. ReportInv'
    BY DEF ChipHears, IInv, ReportInv, Owed
  <1>7. QED
    BY <1>2, <1>3, <1>4, <1>5, <1>6 DEF IInv

LEMMA ChipRxEndsKeeps == IInv /\ ChipRxEnds => IInv'
  <1> SUFFICES ASSUME IInv, ChipRxEnds PROVE IInv'
    OBVIOUS
  <1>1. /\ chip = "rxing" /\ chip' = "idle" /\ pend' = TRUE
        /\ crcOk' = (rxFifo.kind # "damaged") /\ rxFifo' = (IF crcOk' THEN rxFifo ELSE None)
        /\ UNCHANGED <<pc, IState, ThdRef, Pkt, txFifo, air, evtQ, hist, fails>>
    BY DEF ChipRxEnds, RXOFF_MODE
  <1>2. rxFifo' \in {rxFifo, None} /\ crcOk' \in BOOLEAN
        /\ (crcOk' => rxFifo'.kind # "damaged")
    BY <1>1
  <1>3. TypeOK'
    BY <1>1, <1>2 DEF hist, IInv, TypeOK
  <1>4. EveryPacketOnce' /\ OrderInv'
    BY <1>1, <1>2, OrderKept
  <1>5. pc \notin {"readFifo", "post", "recal", "enterTx", "writeTx", "txSuspend", "txSuspended"}
    BY <1>1 DEF IInv, ChipInv
  <1>6. ChipInv' /\ ReportInv'
    BY <1>1, <1>2, <1>5 DEF hist, IInv, ChipInv, ReportInv, Owed
  <1>7. QED
    BY <1>3, <1>4, <1>6 DEF IInv

\* The report owed is sent: with that, none is.
LEMMA ChipTxEndsKeeps == IInv /\ ChipTxEnds => IInv'
  <1> SUFFICES ASSUME IInv, ChipTxEnds PROVE IInv'
    OBVIOUS
  <1>1. /\ pc = "txSuspended" /\ txFifo # None /\ chip' = "idle" /\ pend' = TRUE
        /\ air' = Append(air, txFifo) /\ txFifo' = None
        /\ UNCHANGED <<pc, IState, ThdRef, Pkt, crcOk, rxFifo, evtQ, hist, fails>>
    BY DEF ChipTxEnds, TXOFF_MODE
  <1>2. ~pend /\ txFifo = Pkt /\ Pkt \in Packet /\ handled = Append(air, Pkt)
    BY <1>1 DEF IInv, ChipInv, ReportInv, Owed
  <1>3. TypeOK'
    BY <1>1, <1>2 DEF hist, IInv, TypeOK
  <1>4. EveryPacketOnce' /\ OrderInv'
    BY <1>1, OrderKept
  <1>5. ChipInv' /\ ReportInv'
    BY <1>1, <1>2 DEF hist, IInv, ChipInv, ReportInv, Owed
  <1>6. QED
    BY <1>3, <1>4, <1>5 DEF IInv

LEMMA StutterKeeps == IInv /\ UNCHANGED vars => IInv'
  <1> SUFFICES ASSUME IInv, UNCHANGED vars PROVE IInv'
    OBVIOUS
  <1>1. TypeOK' /\ ChipInv' /\ ReportInv'
    BY DEF vars, chipVars, hist, IInv, TypeOK, ChipInv, ReportInv, Owed
  <1>2. EveryPacketOnce' /\ OrderInv'
    BY OrderKept DEF vars, chipVars
  <1>3. QED
    BY <1>1, <1>2 DEF IInv

LEMMA NextIInv == IInv /\ [Next]_vars => IInv'
  <1> SUFFICES ASSUME IInv, [Next]_vars PROVE IInv'
    OBVIOUS
  <1>1. CASE Thread
    BY <1>1, ResetKeeps, CheckPktLenKeeps, ConfigureKeeps, SetChannelKeeps, FlushRxFIFOKeeps,
       EnterRXKeeps, SuspendTimeoutSKeeps, GiveUpKeeps, ReadPktStatusKeeps, ReadFIFOKeeps,
       SendNowOrExitKeeps, RecalibrateKeeps, EnterTXKeeps, WriteTXKeeps, SuspendSKeeps
    DEF Thread
  <1>2. QED
    BY <1>1, IIrqHandlerKeeps, TimeoutKeeps, FetchKeeps, ChipHearsKeeps, ChipRxEndsKeeps,
       ChipTxEndsKeeps, StutterKeeps
    DEF Next, Interrupts

\* In every state of every behaviour the invariant holds.
THEOREM InductiveInvariant == Spec => []IInv
  BY InitIInv, NextIInv, PTL DEF Spec
----------------------------------------------------------------------------
\* Every variable keeps its type: EvtQMain never holds more than it has room
\* for, and nothing but a packet is posted or sent (radio_lvl1.cpp:46-53).
THEOREM TypeCorrect == Spec => []TypeOK
  <1>1. IInv => TypeOK
    BY DEF IInv
  <1>2. QED
    BY <1>1, InductiveInvariant, PTL

\* Whatever interrupts are late and whatever transfers fail, only intact
\* packets with the test word are believed, none twice, in their order
\* (radio_lvl1.cpp:46, cc1101.cpp:226-252).
THEOREM PacketsCountOnce == Spec => []EveryPacketOnce
  <1>1. IInv => EveryPacketOnce
    BY DEF IInv
  <1>2. QED
    BY <1>1, InductiveInvariant, PTL

\* Each report is the packet just believed, sent in full before the next
\* reception: no stale edge of GDO0 ends Transmit (radio_lvl1.cpp:52-53).
THEOREM ReportsAlwaysInOrder == Spec => []ReportsInOrder
  <1>1. ASSUME NEW p \in Packet, air \in Seq(Packet)
        PROVE  /\ IsPrefix(air, air) /\ IsPrefix(air, Append(air, p))
               /\ Len(Append(air, p)) = Len(air) + 1
    BY <1>1 DEF IsPrefix
  <1>2. IInv => ReportsInOrder
    <2> SUFFICES ASSUME IInv PROVE ReportsInOrder
      OBVIOUS
    <2>1. air \in Seq(Packet) /\ Len(air) \in Nat
      BY DEF IInv, TypeOK
    <2>2. CASE Owed
      <3>1. Pkt \in Packet /\ handled = Append(air, Pkt)
            /\ pc \notin {"flush", "enterRx", "rxSuspended"}
        BY <2>2 DEF IInv, ReportInv, Owed
      <3>2. QED
        BY <1>1, <2>1, <3>1 DEF ReportsInOrder
    <2>3. CASE ~Owed
      <3>1. air = handled /\ pc # "post"
        BY <2>3 DEF IInv, ReportInv, Owed
      <3>2. IsPrefix(air, air)
        BY <2>1 DEF IsPrefix
      <3>3. QED
        BY <2>1, <3>1, <3>2 DEF ReportsInOrder
    <2>4. QED
      BY <2>2, <2>3
  <1>3. QED
    BY <1>2, InductiveInvariant, PTL

\* The loop of Recalibrate ends, as far as no transfer fails, only where the
\* chip is idle, although the status it looks at is old (cc1101.h:59).
THEOREM AlwaysCalibratesInIdle == Spec => CalibratesInIdle
  <1>1. IInv /\ [Next]_vars => [LeavesRecalibrate /\ fails' = fails => chip = "idle"]_vars
    BY DEF IInv, ChipInv, LeavesRecalibrate
  <1>2. QED
    BY <1>1, InductiveInvariant, PTL DEF Spec, CalibratesInIdle
============================================================================
