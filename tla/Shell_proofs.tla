---------------------------- MODULE Shell_proofs ----------------------------
(***************************************************************************)
(* Proofs about the receiver, the command buffer and the busy flag, for    *)
(* every set of lines, every size of the ring, the command buffer and the  *)
(* queue, any number of lines and radio messages, and a paced host.  With  *)
(* a host that does not wait they are false: the run shell_streams shows   *)
(* how.  What PutChar and strtok do to the one Cmd_t in place is shown to  *)
(* be what Edit and Words say of the line, so that the commands executed   *)
(* are a FIFO of those typed.                                              *)
(***************************************************************************)
EXTENDS Shell, SequenceTheorems, FiniteSetTheorems, WellFoundedInduction, TLAPS

\* What the command buffer holds: characters, and a NUL past the last of them.
CmdStr == {s \in [0..(CmdSz - 1) -> Kept \cup {NUL}] : s[CmdSz - 1] = NUL}
Places == {None} \cup 0..(CmdSz - 1)

\* The bytes that UartRx has still to read: unread ones in the ring, from RIndx
\* on, and those the host has still to send.
Slot(k) == (RIndx + k) % RxSz
Byte(k) == IRxBuf[Slot(k)]

RingInv == unread <= MaxUnread /\ WIndx = Slot(unread)

OnlyEnds ==
    /\ \A i \in 0..(unread - 1) : Byte(i) \in Ends
    /\ \A j \in DOMAIN pending : pending[j] \in Ends

\* The first r characters of a line are read, the others are on their way.
Rest(chars, r) ==
    /\ r + unread + Len(pending) = Len(chars)
    /\ \A i \in 0..(unread - 1) : Byte(i) = chars[r + 1 + i]
    /\ \A j \in DOMAIN pending : pending[j] = chars[r + unread + j]

\* No end among them: the command buffer holds what they come to, and the line
\* is the last command typed, if it is a command.
Buffered(s) == CntNow = Len(s) /\ \A k \in 1..Len(s) : IString[k - 1] = s[k]
Open(chars, r) ==
    /\ \A k \in 1..r : chars[k] \notin Ends
    /\ Buffered(Typing(chars)[r])
    /\ IF Blank(chars) THEN lineNo = Len(typed)
                       ELSE lineNo + 1 = Len(typed) /\ typed[lineNo + 1] = CommandOf[chars]

\* All commands typed were completed, nothing is in the command buffer.
Done == CntNow = 0 /\ lineNo = Len(typed)

\* An end among them: only the rest of the end is left (the LF after a CR).
Over(chars, r) == Done /\ \A k \in (r + 1)..Len(chars) : chars[k] \in Ends

\* All that is on its way belongs to one line.
LineInv ==
    \/ Done /\ unread = 0 /\ pending = <<>>
    \/ \E chars \in Lines : \E r \in Nat : Rest(chars, r) /\ (Open(chars, r) \/ Over(chars, r))

\* While a command is under way the next one is not begun: UartRx is not in its
\* loop, but for the turn in which the command was completed, and then nothing
\* that PutChar would store is left.
BusyInv ==
    /\ BusyWhileProcessing
    /\ CmdProcessInProgress => CntNow = 0 /\ (rx = "loop" => OnlyEnds)

\* The command in the queue, if there is one, is the only one accepted and not
\* executed, and Cmd_t holds it.
CmdInv ==
    /\ CommandKept
    /\ Len(accepted) = Len(executed) + (IF InQueue = {} THEN 0 ELSE 1)

IInv == TypeOK /\ IString \in CmdStr /\ RingInv /\ LineInv /\ BusyInv /\ CmdInv
----------------------------------------------------------------------------
(* The ring.                                                               *)

LEMMA SlotIs ==
  ASSUME TypeOK, NEW k \in 0..RxSz
  PROVE  /\ Slot(k) = IF RIndx + k < RxSz THEN RIndx + k ELSE RIndx + k - RxSz
         /\ Slot(k) \in 0..(RxSz - 1)
  <1>1. RxSz \in Nat \ {0} /\ RIndx \in 0..(RxSz - 1)
    BY ShellAssumption DEF TypeOK
  <1>2. CASE RIndx + k < RxSz
    BY <1>1, <1>2 DEF Slot
  <1>3. CASE RIndx + k >= RxSz
    <2>1. RIndx + k - RxSz \in 0..(RxSz - 1)
      BY <1>1, <1>3
    <2>2. (RIndx + k) % RxSz = RIndx + k - RxSz
      BY <1>1, <2>1
    <2>3. QED
      BY <1>1, <1>3, <2>1, <2>2 DEF Slot
  <1>4. QED
    BY <1>1, <1>2, <1>3

LEMMA NextIndex ==
  ASSUME NEW i \in 0..(RxSz - 1)
  PROVE  (i + 1) % RxSz = IF i + 1 = RxSz THEN 0 ELSE i + 1
  <1>1. RxSz \in Nat \ {0}
    BY ShellAssumption
  <1>2. CASE i + 1 = RxSz
    <2>1. RxSz % RxSz = 0
      BY <1>1
    <2>2. QED
      BY <1>2, <2>1
  <1>3. CASE i + 1 # RxSz
    BY <1>1, <1>3
  <1>4. QED
    BY <1>2, <1>3

\* The count of bytes is what GetRcvdBytesCnt says, unless the ring is full: then
\* it says none.
LEMMA CountIs ==
  ASSUME TypeOK, RingInv
  PROVE  /\ unread < RxSz => GetRcvdBytesCnt = unread
         /\ GetRcvdBytesCnt # 0 => unread # 0
  <1>1. /\ RxSz \in Nat \ {0} /\ RIndx \in 0..(RxSz - 1) /\ WIndx \in 0..(RxSz - 1)
        /\ unread \in 0..RxSz
    BY ShellAssumption DEF TypeOK
  <1>2. WIndx = IF RIndx + unread < RxSz THEN RIndx + unread ELSE RIndx + unread - RxSz
    BY <1>1, SlotIs DEF RingInv
  <1>3. QED
    BY <1>1, <1>2 DEF GetRcvdBytesCnt

\* A byte received goes behind those not read.
LEMMA DmaRing ==
  ASSUME TypeOK, RingInv, DmaReceive
  PROVE  /\ IRxBuf' \in [0..(RxSz - 1) -> Str] /\ WIndx' \in 0..(RxSz - 1)
         /\ unread' \in 0..RxSz /\ RingInv'
         /\ \A k \in 0..(unread' - 1) : Byte(k)' = IF k = unread THEN Head(pending) ELSE Byte(k)
  <1>1. /\ RxSz \in Nat \ {0} /\ RIndx \in 0..(RxSz - 1) /\ WIndx \in 0..(RxSz - 1)
        /\ unread \in 0..RxSz /\ MaxUnread \in 1..RxSz
        /\ IRxBuf \in [0..(RxSz - 1) -> Str] /\ pending \in Seq(Char)
    BY ShellAssumption DEF TypeOK
  <1>2. /\ pending # <<>> /\ unread < MaxUnread /\ RIndx' = RIndx
        /\ IRxBuf' = [IRxBuf EXCEPT ![WIndx] = Head(pending)]
        /\ WIndx' = (WIndx + 1) % RxSz /\ unread' = unread + 1
    BY DEF DmaReceive
  <1>3. Head(pending) \in Str
    BY <1>1, <1>2 DEF Str
  <1>4. WIndx = IF RIndx + unread < RxSz THEN RIndx + unread ELSE RIndx + unread - RxSz
    BY <1>1, SlotIs DEF RingInv
  <1>5. WIndx' = IF WIndx + 1 = RxSz THEN 0 ELSE WIndx + 1
    BY <1>1, <1>2, NextIndex
  <1>6. unread + 1 \in 0..RxSz /\ \A k \in 0..RxSz : Slot(k)' = Slot(k)
    BY <1>1, <1>2 DEF Slot
  <1>7. WIndx' = Slot(unread)'
    <2>1. Slot(unread + 1) = IF RIndx + unread + 1 < RxSz THEN RIndx + unread + 1
                                                          ELSE RIndx + unread + 1 - RxSz
      BY <1>1, <1>6, SlotIs
    <2>2. WIndx' = Slot(unread + 1)
      <3>1. RIndx \in Nat /\ unread \in Nat /\ RxSz \in Nat /\ RIndx < RxSz /\ unread < RxSz
        BY <1>1, <1>2
      <3> DEFINE w == WIndx
                 x == Slot(unread + 1)
      <3>2. /\ w = IF RIndx + unread < RxSz THEN RIndx + unread ELSE RIndx + unread - RxSz
            /\ x = IF RIndx + unread + 1 < RxSz THEN RIndx + unread + 1
                                                ELSE RIndx + unread + 1 - RxSz
        BY <1>4, <2>1
      <3> HIDE DEF w, x
      <3>3. x = IF w + 1 = RxSz THEN 0 ELSE w + 1
        BY <3>1, <3>2
      <3>4. QED
        BY <1>5, <3>3 DEF w, x
    <2>3. Slot(unread)' = Slot(unread + 1)
      BY <1>2 DEF Slot
    <2>4. QED
      BY <2>2, <2>3
  <1>8. ASSUME NEW k \in 0..(unread' - 1)
        PROVE  Byte(k)' = IF k = unread THEN Head(pending) ELSE Byte(k)
    <2>1. k \in 0..RxSz /\ Slot(k) \in 0..(RxSz - 1) /\ Slot(k)' = Slot(k)
      <3>1. k \in 0..RxSz
        <4>1. unread' = unread + 1 /\ unread \in Nat /\ RxSz \in Nat /\ unread + 1 <= RxSz
          BY <1>1, <1>2, <1>6
        <4>2. QED
          BY <4>1
      <3>2. QED
        BY <1>6, <3>1, SlotIs
    <2>2. Slot(k) = WIndx <=> k = unread
      <3>1. Slot(k) = IF RIndx + k < RxSz THEN RIndx + k ELSE RIndx + k - RxSz
        BY <2>1, SlotIs
      <3>2. k <= unread /\ unread < RxSz
        BY <1>1, <1>2
      <3>3. QED
        BY <1>1, <1>4, <3>1, <3>2
    <2>3. QED
      BY <1>1, <1>2, <2>1, <2>2 DEF Byte
  <1>9. QED
    BY <1>1, <1>2, <1>3, <1>5, <1>6, <1>7, <1>8 DEF RingInv

\* The byte read is the oldest one.
LEMMA ReadRing ==
  ASSUME TypeOK, RingInv, GetRcvdBytesCnt # 0,
         RIndx' = (RIndx + 1) % RxSz, unread' = unread - 1, UNCHANGED <<IRxBuf, WIndx>>
  PROVE  /\ RIndx' \in 0..(RxSz - 1) /\ unread' \in 0..RxSz /\ unread # 0 /\ RingInv'
         /\ IRxBuf[RIndx] = Byte(0)
         /\ \A k \in 0..(unread' - 1) : Byte(k)' = Byte(k + 1)
  <1>1. /\ RxSz \in Nat \ {0} /\ RIndx \in 0..(RxSz - 1) /\ WIndx \in 0..(RxSz - 1)
        /\ unread \in 0..RxSz /\ MaxUnread \in 1..RxSz
    BY ShellAssumption DEF TypeOK
  <1>2. unread # 0 /\ unread' \in 0..RxSz
    BY <1>1, CountIs
  <1>3. RIndx' = IF RIndx + 1 = RxSz THEN 0 ELSE RIndx + 1
    BY <1>1, NextIndex
  <1>4. Slot(0) = RIndx
    BY <1>1, SlotIs
  <1>5. ASSUME NEW k \in 0..(RxSz - 1)
        PROVE  Slot(k)' = Slot(k + 1)
    <2>1. Slot(k + 1) = IF RIndx + (k + 1) < RxSz THEN RIndx + (k + 1) ELSE RIndx + (k + 1) - RxSz
      BY <1>1, SlotIs
    <2>2. Slot(k)' = (RIndx' + k) % RxSz
      BY DEF Slot
    <2>3. CASE RIndx' + k < RxSz
      <3>1. (RIndx' + k) % RxSz = RIndx' + k
        BY <1>1, <1>3, <2>3
      <3>2. QED
        BY <1>1, <1>3, <2>1, <2>2, <2>3, <3>1
    <2>4. CASE RIndx' + k >= RxSz
      <3>1. RIndx' + k - RxSz \in 0..(RxSz - 1)
        BY <1>1, <1>3, <2>4
      <3>2. (RIndx' + k) % RxSz = RIndx' + k - RxSz
        BY <1>1, <1>3, <3>1
      <3>3. QED
        BY <1>1, <1>3, <2>1, <2>2, <2>4, <3>2
    <2>5. QED
      BY <1>1, <1>3, <2>3, <2>4
  <1>6. unread - 1 \in 0..(RxSz - 1) /\ (unread - 1) + 1 = unread
    BY <1>1, <1>2
  <1>7. WIndx' = Slot(unread)'
    <2> DEFINE k == unread - 1
    <2>1. Slot(unread)' = (RIndx' + k) % RxSz
      BY DEF Slot
    <2>2. (RIndx' + k) % RxSz = Slot(k + 1)
      <3> HIDE DEF k
      <3>1. k \in 0..(RxSz - 1)
        BY <1>6 DEF k
      <3>2. QED
        BY <1>5, <3>1 DEF Slot
    <2>3. k + 1 = unread
      BY <1>6
    <2>4. QED
      BY <2>1, <2>2, <2>3 DEF RingInv
  <1>8. QED
    BY <1>1, <1>2, <1>3, <1>4, <1>5, <1>7 DEF RingInv, Byte
----------------------------------------------------------------------------
(* The command buffer.  Whatever is in it there is a NUL where a search    *)
(* ends, and so strtok never leaves it.                                    *)

LEMMA NatMin ==
  ASSUME NEW T \in SUBSET Nat, T # {}
  PROVE  \E x \in T : \A y \in T : x <= y
  <1>1. \E x \in T : \A y \in T : ~ (<<y, x>> \in OpToRel(<, Nat))
    BY NatLessThanWellFounded, WFMin
  <1>2. \E x \in T : \A y \in T : ~ (<<y, x>> \in {ss \in Nat \X Nat : ss[1] < ss[2]})
    BY <1>1, Zenon DEF OpToRel
  <1>3. ASSUME NEW x \in T, NEW y \in T, ~ (<<y, x>> \in {ss \in Nat \X Nat : ss[1] < ss[2]})
        PROVE  x <= y
    <2>1. x \in Nat /\ y \in Nat
      OBVIOUS
    <2>2. ~(y < x)
      BY <1>3, <2>1
    <2>3. QED
      BY <2>1, <2>2
  <1>4. QED
    BY <1>2, <1>3

LEMMA FindIs ==
  ASSUME NEW str \in CmdStr, NEW i \in 0..(CmdSz - 1), NEW cs, NUL \in cs
  PROVE  /\ Find(str, i, cs) \in i..(CmdSz - 1) /\ Find(str, i, cs) \in 0..(CmdSz - 1)
         /\ str[Find(str, i, cs)] \in cs
         /\ \A j \in i..(Find(str, i, cs) - 1) : str[j] \notin cs
  <1> DEFINE P(k) == str[k] \in cs /\ \A j \in i..(k - 1) : str[j] \notin cs
             T == {k \in i..(CmdSz - 1) : str[k] \in cs}
  <1>1. CmdSz \in Nat \ {0} /\ str[CmdSz - 1] = NUL
    BY ShellAssumption DEF CmdStr
  <1>2. T \in SUBSET Nat /\ CmdSz - 1 \in T
    BY <1>1
  <1>3. PICK k \in T : \A y \in T : k <= y
    <2> HIDE DEF T
    <2>1. QED
      BY <1>2, NatMin
  <1>4. k \in i..(CmdSz - 1) /\ str[k] \in cs /\ \A j \in i..(k - 1) : j \notin T /\ j \in i..(CmdSz - 1)
    BY <1>1, <1>2, <1>3
  <1>5. P(k)
    BY <1>4
  <1>6. Find(str, i, cs) = CHOOSE m \in i..(CmdSz - 1) : P(m)
    BY DEF Find
  <1> HIDE DEF P
  <1>7. Find(str, i, cs) \in i..(CmdSz - 1) /\ P(Find(str, i, cs))
    BY <1>4, <1>5, <1>6, Zenon
  <1>8. Find(str, i, cs) \in 0..(CmdSz - 1)
    BY <1>1, <1>7
  <1>9. QED
    BY <1>7, <1>8 DEF P

LEMMA StringAtIs ==
  ASSUME NEW str \in CmdStr, NEW i \in 0..(CmdSz - 1)
  PROVE  StringAt(str, i) \in Seq(Kept)
  <1> DEFINE e == Find(str, i, {NUL})
             n == e - i
  <1>1. e \in i..(CmdSz - 1) /\ \A j \in i..(e - 1) : str[j] \notin {NUL}
    <2>1. NUL \in {NUL}
      OBVIOUS
    <2>2. QED
      BY <2>1, FindIs, Zenon
  <1>2. CmdSz \in Nat \ {0} /\ i \in Nat
    BY ShellAssumption
  <1>3. StringAt(str, i) = [k \in 1..n |-> str[i + k - 1]]
    BY DEF StringAt
  <1> HIDE DEF e
  <1>4. n \in Nat
    BY <1>1, <1>2
  <1>5. ASSUME NEW k \in 1..n PROVE str[i + k - 1] \in Kept
    <2>1. i + k - 1 \in i..(e - 1) /\ i + k - 1 \in 0..(CmdSz - 1)
      BY <1>1, <1>2, <1>4
    <2>2. QED
      BY <1>1, <2>1 DEF CmdStr
  <1> HIDE DEF n
  <1>6. [k \in 1..n |-> str[i + k - 1]] \in Seq(Kept)
    BY <1>4, <1>5
  <1>7. QED
    BY <1>3, <1>6

LEMMA StrtokIs ==
  ASSUME NEW str \in CmdStr, NEW i \in Places
  PROVE  /\ strtok(str, i).str \in CmdStr
         /\ strtok(str, i).tok \in Places /\ strtok(str, i).saved \in Places
  <1> DEFINE start == Find(str, i, (Kept \ {"SP"}) \cup {NUL})
             end == Find(str, start, {"SP", NUL})
             none == [str |-> str, tok |-> None, saved |-> None]
             t == [str |-> [str EXCEPT ![end] = NUL], tok |-> start,
                   saved |-> IF str[end] = NUL THEN None ELSE end + 1]
  <1>1. strtok(str, i) = IF i = None \/ str[start] = NUL THEN none ELSE t
    BY DEF strtok
  <1>2. CASE i = None \/ str[start] = NUL
    <2>1. strtok(str, i) = none
      BY <1>1, <1>2
    <2> HIDE DEF start, end, t
    <2>2. QED
      BY <2>1 DEF Places
  <1>3. CASE ~(i = None \/ str[start] = NUL)
    <2>1. i \in 0..(CmdSz - 1) /\ CmdSz \in Nat \ {0}
      BY <1>3, ShellAssumption DEF Places
    <2>2. start \in 0..(CmdSz - 1)
      <3>1. NUL \in (Kept \ {"SP"}) \cup {NUL}
        OBVIOUS
      <3>2. QED
        BY <2>1, <3>1, FindIs, Zenon
    <2> HIDE DEF start
    <2>3. end \in 0..(CmdSz - 1)
      <3>1. NUL \in {"SP", NUL}
        OBVIOUS
      <3>2. QED
        BY <2>2, <3>1, FindIs, Zenon
    <2> HIDE DEF end
    <2>4. strtok(str, i) = t
      BY <1>1, <1>3
    <2>5. [str EXCEPT ![end] = NUL] \in CmdStr
      BY <2>1, <2>3 DEF CmdStr
    <2>6. str[end] # NUL => end + 1 \in 0..(CmdSz - 1)
      BY <2>1, <2>3 DEF CmdStr
    <2>7. QED
      BY <2>2, <2>4, <2>5, <2>6 DEF Places
  <1>4. QED
    BY <1>2, <1>3

\* Where the reading of parameters may stand.
ParamState == [str : CmdStr, saved : Places, ok : BOOLEAN, numbers : Seq(Seq(Kept))]

LEMMA GetNextIs ==
  ASSUME NEW p \in ParamState
  PROVE  GetNext(p) \in ParamState
  <1> DEFINE t == strtok(p.str, p.saved)
             word == IF t.tok = None THEN <<>> ELSE StringAt(t.str, t.tok)
             q == [str |-> t.str, saved |-> t.saved, ok |-> word # <<>> /\ IsNumber(word),
                   numbers |-> Append(p.numbers, word)]
  <1>1. GetNext(p) = IF ~p.ok THEN p ELSE q
    BY DEF GetNext
  <1>2. p.str \in CmdStr /\ p.saved \in Places /\ p.numbers \in Seq(Seq(Kept))
    BY DEF ParamState
  <1>3. t.str \in CmdStr /\ t.tok \in Places /\ t.saved \in Places
    BY <1>2, StrtokIs
  <1> HIDE DEF t
  <1>4. word \in Seq(Kept)
    <2>1. CASE t.tok = None
      BY <2>1
    <2>2. CASE t.tok # None
      <3>1. t.tok \in 0..(CmdSz - 1)
        BY <1>3, <2>2 DEF Places
      <3>2. QED
        BY <1>3, <2>2, <3>1, StringAtIs
    <2>3. QED
      BY <2>1, <2>2
  <1> HIDE DEF word
  <1>5. (word # <<>> /\ IsNumber(word)) \in BOOLEAN
    OBVIOUS
  <1>6. q \in ParamState
    BY <1>2, <1>3, <1>4, <1>5 DEF ParamState
  <1>7. QED
    BY <1>1, <1>6

\* The parameters read one after the other: there is such a function, and its
\* values are what they should be.  By the least number for which it fails.
LEMMA ReadingExists ==
  ASSUME NEW n \in Nat, NEW init \in ParamState
  PROVE  \E p : p = [k \in 0..n |-> IF k > 0 THEN GetNext(p[k - 1]) ELSE init]
  <1> DEFINE Q(m) == \E p \in [0..m -> ParamState] :
                        \A k \in 0..m : p[k] = IF k > 0 THEN GetNext(p[k - 1]) ELSE init
             T == {m \in Nat : ~Q(m)}
  <1>1. Q(0)
    <2> DEFINE p == [k \in 0..0 |-> init]
    <2>1. p \in [0..0 -> ParamState] /\ \A k \in 0..0 : p[k] = init /\ ~(k > 0)
      OBVIOUS
    <2> HIDE DEF p
    <2>2. QED
      BY <2>1
  <1>2. ASSUME NEW m \in Nat, m # 0, Q(m - 1) PROVE Q(m)
    <2>1. PICK p \in [0..(m - 1) -> ParamState] :
             \A k \in 0..(m - 1) : p[k] = IF k > 0 THEN GetNext(p[k - 1]) ELSE init
      BY <1>2
    <2> DEFINE q == [k \in 0..m |-> IF k = m THEN GetNext(p[m - 1]) ELSE p[k]]
    <2>2. m - 1 \in 0..(m - 1) /\ p[m - 1] \in ParamState
      BY <1>2
    <2>3. GetNext(p[m - 1]) \in ParamState
      BY <2>2, GetNextIs
    <2>4. \A k \in 0..m : k # m => k \in 0..(m - 1)
      BY <1>2
    <2>5. q \in [0..m -> ParamState]
      BY <2>3, <2>4
    <2>6. ASSUME NEW k \in 0..m PROVE q[k] = IF k > 0 THEN GetNext(q[k - 1]) ELSE init
      <3>1. CASE k = m
        <4>1. k > 0 /\ k - 1 \in 0..m /\ k - 1 # m /\ k - 1 = m - 1
          BY <1>2, <3>1
        <4>2. q[k - 1] = p[m - 1] /\ q[k] = GetNext(p[m - 1])
          BY <3>1, <4>1
        <4> HIDE DEF q
        <4>3. QED
          BY <4>1, <4>2
      <3>2. CASE k # m
        <4>1. k \in 0..(m - 1) /\ q[k] = p[k]
          BY <1>2, <3>2
        <4>2. k > 0 => k - 1 \in 0..m /\ k - 1 # m
          BY <1>2
        <4>3. k > 0 => q[k - 1] = p[k - 1]
          BY <4>2
        <4> HIDE DEF q
        <4>4. QED
          BY <2>1, <4>1, <4>3
      <3>3. QED
        BY <3>1, <3>2
    <2> HIDE DEF q
    <2>7. QED
      BY <2>5, <2>6
  <1>3. T = {}
    <2> SUFFICES ASSUME T # {} PROVE FALSE
      OBVIOUS
    <2>1. T \in SUBSET Nat
      OBVIOUS
    <2> HIDE DEF Q
    <2>2. PICK m \in T : \A y \in T : m <= y
      <3> HIDE DEF T
      <3> QED BY <2>1, NatMin
    <2>3. m \in Nat /\ ~Q(m)
      BY <2>2
    <2>4. m # 0
      BY <1>1, <2>3
    <2>5. m - 1 \in Nat /\ ~(m <= m - 1)
      BY <2>3, <2>4
    <2>6. Q(m - 1)
      BY <2>2, <2>5
    <2>7. QED
      BY <1>2, <2>3, <2>4, <2>6
  <1>4. PICK p \in [0..n -> ParamState] :
           \A k \in 0..n : p[k] = IF k > 0 THEN GetNext(p[k - 1]) ELSE init
    <2>1. Q(n)
      <3> HIDE DEF Q
      <3> QED BY <1>3
    <2>2. QED
      BY <2>1
  <1>5. p = [k \in 0..n |-> IF k > 0 THEN GetNext(p[k - 1]) ELSE init]
    BY <1>4
  <1>6. QED
    BY <1>5

LEMMA ReadingIs ==
  ASSUME NEW n \in Nat, NEW init \in ParamState,
         NEW p, p = [k \in 0..n |-> IF k > 0 THEN GetNext(p[k - 1]) ELSE init]
  PROVE  \A k \in 0..n : p[k] \in ParamState
  <1> DEFINE T == {k \in 0..n : p[k] \notin ParamState}
  <1>1. \A k \in 0..n : p[k] = IF k > 0 THEN GetNext(p[k - 1]) ELSE init
    OBVIOUS
  <1>2. T = {}
    <2> SUFFICES ASSUME T # {} PROVE FALSE
      OBVIOUS
    <2>1. T \in SUBSET Nat
      OBVIOUS
    <2>2. PICK k \in T : \A y \in T : k <= y
      <3> HIDE DEF T
      <3> QED BY <2>1, NatMin
    <2>3. k \in 0..n /\ p[k] \notin ParamState
      BY <2>2
    <2>4. k > 0
      <3>1. CASE ~(k > 0)
        <4>1. p[k] = init
          BY <1>1, <2>3, <3>1
        <4>2. QED
          BY <2>3, <4>1
      <3>2. QED
        BY <3>1
    <2>5. k - 1 \in 0..n /\ ~(k <= k - 1)
      BY <2>3, <2>4
    <2>6. p[k - 1] \in ParamState
      BY <2>2, <2>5
    <2>7. GetNext(p[k - 1]) \in ParamState
      BY <2>6, GetNextIs
    <2>8. p[k] = GetNext(p[k - 1])
      BY <1>1, <2>3, <2>4
    <2>9. QED
      BY <2>3, <2>7, <2>8
  <1>3. QED
    BY <1>2

LEMMA CmdParamsIs ==
  ASSUME IString \in CmdStr, Name \in Places, saved \in Places
  PROVE  /\ CmdParams \in ParamState /\ CmdName \in Seq(Kept)
         /\ CmdFrom(CmdParams) \in [name : Seq(Kept), ok : BOOLEAN, numbers : Seq(Seq(Kept))]
  <1>1. CmdName \in Seq(Kept)
    <2>1. CASE Name = None
      BY <2>1 DEF CmdName
    <2>2. CASE Name # None
      <3>1. Name \in 0..(CmdSz - 1)
        BY <2>2 DEF Places
      <3>2. QED
        BY <2>2, <3>1, StringAtIs DEF CmdName
    <2>3. QED
      BY <2>1, <2>2
  <1> DEFINE n == Takes(CmdName)
             init == [str |-> IString, saved |-> saved, ok |-> TRUE, numbers |-> <<>>]
             p == CHOOSE f : f = [k \in 0..n |-> IF k > 0 THEN GetNext(f[k - 1]) ELSE init]
  <1>2. n \in Nat
    BY ShellAssumption DEF Takes
  <1>3. init \in ParamState
    BY DEF ParamState
  <1>4. CmdParams = p[n]
    BY DEF CmdParams
  <1> HIDE DEF n, init
  <1>5. p = [k \in 0..n |-> IF k > 0 THEN GetNext(p[k - 1]) ELSE init]
    <2>1. \E f : f = [k \in 0..n |-> IF k > 0 THEN GetNext(f[k - 1]) ELSE init]
      BY <1>2, <1>3, ReadingExists
    <2>2. QED
      BY <2>1, Zenon
  <1> HIDE DEF p
  <1>6. p[n] \in ParamState
    <2>1. n \in 0..n
      BY <1>2
    <2>2. QED
      BY <1>2, <1>3, <1>5, <2>1, ReadingIs
  <1>7. CmdParams.ok \in BOOLEAN /\ CmdParams.numbers \in Seq(Seq(Kept))
    BY <1>4, <1>6 DEF ParamState
  <1>8. CmdFrom(CmdParams) \in [name : Seq(Kept), ok : BOOLEAN, numbers : Seq(Seq(Kept))]
    <2> HIDE DEF p
    <2>1. CmdFrom(CmdParams) = [name |-> CmdName, ok |-> CmdParams.ok,
                    numbers |-> IF CmdParams.ok THEN CmdParams.numbers ELSE <<>>]
      BY DEF CmdFrom
    <2>2. (IF CmdParams.ok THEN CmdParams.numbers ELSE <<>>) \in Seq(Seq(Kept))
      BY <1>7
    <2>3. QED
      BY <1>1, <1>7, <2>1, <2>2
  <1>9. QED
    BY <1>1, <1>4, <1>6, <1>8
----------------------------------------------------------------------------
(* What a line comes to.                                                   *)

\* What fits into the command buffer.
Typed == {s \in Seq(Kept) : Len(s) <= CmdSz - 1}

LEMMA EditIs ==
  ASSUME NEW s \in Typed, NEW c \in Char
  PROVE  /\ Edit(s, c) \in Typed /\ (c \in Ends => Edit(s, c) = s)
         /\ c = "BS" /\ Len(s) > 0 =>
               /\ Len(Edit(s, c)) = Len(s) - 1
               /\ \A k \in 1..(Len(s) - 1) : Edit(s, c)[k] = s[k]
         /\ c \in Kept /\ Len(s) < CmdSz - 1 => Edit(s, c) = Append(s, c)
         /\ ~(c = "BS" /\ Len(s) > 0) /\ ~(c \in Kept /\ Len(s) < CmdSz - 1) => Edit(s, c) = s
  <1>1. s \in Seq(Kept) /\ Len(s) \in Nat /\ Len(s) <= CmdSz - 1 /\ CmdSz \in Nat
    BY ShellAssumption DEF Typed
  <1>2. "BS" \notin Kept /\ "BS" \notin Ends /\ c \in Kept \cup Ends \cup {"BS"} /\ Kept \cap Ends = {}
    BY DEF Kept, Ends, Char
  <1>3. s # <<>> <=> Len(s) > 0
    BY <1>1
  <1>4. CASE c = "BS" /\ Len(s) > 0
    <2>1. Edit(s, c) = SubSeq(s, 1, Len(s) - 1)
      BY <1>3, <1>4 DEF Edit, Front
    <2>2. /\ SubSeq(s, 1, Len(s) - 1) \in Seq(Kept) /\ Len(SubSeq(s, 1, Len(s) - 1)) = Len(s) - 1
          /\ \A k \in 1..(Len(s) - 1) : SubSeq(s, 1, Len(s) - 1)[k] = s[k]
      <3> DEFINE m == Len(s) - 1
      <3>1. m \in Nat /\ 1 \in Int /\ \A k \in 1..m : s[k] \in Kept
        BY <1>1, <1>4
      <3>2. /\ SubSeq(s, 1, m) \in Seq(Kept) /\ Len(SubSeq(s, 1, m)) = IF 1 <= m THEN m - 1 + 1 ELSE 0
            /\ \A k \in 1..(m - 1 + 1) : SubSeq(s, 1, m)[k] = s[1 + k - 1]
        <4> HIDE DEF m
        <4> QED BY <3>1, SubSeqProperties
      <3>3. m - 1 + 1 = m /\ \A k \in 1..m : 1 + k - 1 = k
        BY <3>1
      <3> HIDE DEF m
      <3>4. Len(SubSeq(s, 1, m)) = m /\ \A k \in 1..m : SubSeq(s, 1, m)[k] = s[k]
        BY <3>1, <3>2, <3>3
      <3>5. QED
        BY <3>2, <3>4 DEF m
    <2>3. QED
      BY <1>1, <1>2, <1>4, <2>1, <2>2 DEF Typed
  <1>5. CASE c \in Kept /\ Len(s) < CmdSz - 1
    <2>1. Edit(s, c) = Append(s, c)
      BY <1>1, <1>2, <1>5 DEF Edit
    <2>2. Append(s, c) \in Seq(Kept) /\ Len(Append(s, c)) = Len(s) + 1
      BY <1>1, <1>5
    <2>3. QED
      BY <1>1, <1>2, <1>5, <2>1, <2>2 DEF Typed
  <1>6. CASE ~(c = "BS" /\ Len(s) > 0) /\ ~(c \in Kept /\ Len(s) < CmdSz - 1)
    <2>1. Edit(s, c) = s
      BY <1>1, <1>2, <1>3, <1>6 DEF Edit
    <2>2. QED
      BY <1>6, <2>1
  <1>7. QED
    BY <1>2, <1>4, <1>5, <1>6

\* Typing is the function its definition describes: there is one for every number
\* of characters.
LEMMA TypingExists ==
  ASSUME NEW chars \in Seq(Char), NEW n \in 0..Len(chars)
  PROVE  \E t \in [0..n -> Typed] :
            \A k \in 0..n : t[k] = IF k = 0 THEN <<>> ELSE Edit(t[k - 1], chars[k])
  <1> DEFINE Q(m) == \E t \in [0..m -> Typed] :
                        \A k \in 0..m : t[k] = IF k = 0 THEN <<>> ELSE Edit(t[k - 1], chars[k])
             T == {m \in 0..Len(chars) : ~Q(m)}
  <1>1. Q(0)
    <2> DEFINE t == [k \in 0..0 |-> <<>>]
    <2>1. <<>> \in Typed
      BY ShellAssumption DEF Typed
    <2>2. t \in [0..0 -> Typed] /\ \A k \in 0..0 : t[k] = <<>> /\ k = 0
      BY <2>1
    <2> HIDE DEF t
    <2>3. QED
      BY <2>2
  <1>2. ASSUME NEW m \in 1..Len(chars), Q(m - 1) PROVE Q(m)
    <2>1. PICK t \in [0..(m - 1) -> Typed] :
             \A k \in 0..(m - 1) : t[k] = IF k = 0 THEN <<>> ELSE Edit(t[k - 1], chars[k])
      BY <1>2
    <2> DEFINE u == [k \in 0..m |-> IF k = m THEN Edit(t[m - 1], chars[m]) ELSE t[k]]
    <2>2. m - 1 \in 0..(m - 1) /\ t[m - 1] \in Typed /\ chars[m] \in Char
      OBVIOUS
    <2>3. Edit(t[m - 1], chars[m]) \in Typed
      BY <2>2, EditIs
    <2>4. \A k \in 0..m : k # m => k \in 0..(m - 1)
      OBVIOUS
    <2>5. u \in [0..m -> Typed]
      BY <2>3, <2>4
    <2>6. ASSUME NEW k \in 0..m PROVE u[k] = IF k = 0 THEN <<>> ELSE Edit(u[k - 1], chars[k])
      <3>1. CASE k = m
        <4>1. k # 0 /\ k - 1 \in 0..m /\ k - 1 # m /\ k - 1 = m - 1
          BY <3>1
        <4>2. u[k - 1] = t[m - 1] /\ u[k] = Edit(t[m - 1], chars[k])
          BY <3>1, <4>1
        <4> HIDE DEF u
        <4>3. QED
          BY <4>1, <4>2
      <3>2. CASE k # m
        <4>1. k \in 0..(m - 1) /\ u[k] = t[k]
          BY <3>2
        <4>2. k # 0 => k - 1 \in 0..m /\ k - 1 # m
          OBVIOUS
        <4>3. k # 0 => u[k - 1] = t[k - 1]
          BY <4>2
        <4> HIDE DEF u
        <4>4. QED
          BY <2>1, <4>1, <4>3
      <3>3. QED
        BY <3>1, <3>2
    <2> HIDE DEF u
    <2>7. QED
      BY <2>5, <2>6
  <1>3. T = {}
    <2> SUFFICES ASSUME T # {} PROVE FALSE
      OBVIOUS
    <2>1. T \in SUBSET Nat
      OBVIOUS
    <2> HIDE DEF Q
    <2>2. PICK m \in T : \A y \in T : m <= y
      <3> HIDE DEF T
      <3> QED BY <2>1, NatMin
    <2>3. m \in 0..Len(chars) /\ ~Q(m) /\ Len(chars) \in Nat
      BY <2>2
    <2>4. m \in 1..Len(chars)
      <3>1. m # 0
        BY <1>1, <2>3
      <3>2. QED
        BY <2>3, <3>1
    <2>5. m - 1 \in 0..Len(chars) /\ ~(m <= m - 1)
      BY <2>3, <2>4
    <2>6. Q(m - 1)
      BY <2>2, <2>5
    <2>7. QED
      BY <1>2, <2>3, <2>4, <2>6
  <1>4. Q(n)
    <2> HIDE DEF Q
    <2> QED BY <1>3
  <1>5. QED
    BY <1>4

LEMMA TypingIs ==
  ASSUME NEW chars \in Seq(Char)
  PROVE  /\ Typing(chars) \in [0..Len(chars) -> Typed]
         /\ Typing(chars)[0] = <<>>
         /\ \A k \in 1..Len(chars) : Typing(chars)[k] = Edit(Typing(chars)[k - 1], chars[k])
  <1> DEFINE F(t) == [k \in 0..Len(chars) |-> IF k = 0 THEN <<>> ELSE Edit(t[k - 1], chars[k])]
  <1>1. Len(chars) \in Nat
    OBVIOUS
  <1>2. PICK t \in [0..Len(chars) -> Typed] :
           \A k \in 0..Len(chars) : t[k] = IF k = 0 THEN <<>> ELSE Edit(t[k - 1], chars[k])
    BY <1>1, TypingExists
  <1>3. t = F(t)
    BY <1>2
  <1>4. Typing(chars) = CHOOSE s : s = F(s)
    BY DEF Typing
  <1> HIDE DEF F
  <1>5. Typing(chars) = F(Typing(chars))
    BY <1>3, <1>4, Zenon
  <1> DEFINE g == Typing(chars)
  <1> HIDE DEF g
  <1>6. g = [k \in 0..Len(chars) |-> IF k = 0 THEN <<>> ELSE Edit(g[k - 1], chars[k])]
    BY <1>5 DEF F, g
  <1>7. g[0] = <<>> /\ \A k \in 1..Len(chars) : g[k] = Edit(g[k - 1], chars[k])
    BY <1>1, <1>6
  <1> DEFINE T == {k \in 0..Len(chars) : g[k] \notin Typed}
  <1>8. T = {}
    <2> SUFFICES ASSUME T # {} PROVE FALSE
      OBVIOUS
    <2>1. T \in SUBSET Nat
      OBVIOUS
    <2>2. PICK m \in T : \A y \in T : m <= y
      <3> HIDE DEF T
      <3> QED BY <2>1, NatMin
    <2>3. m \in 0..Len(chars) /\ g[m] \notin Typed
      BY <2>2
    <2>4. m # 0
      <3>1. <<>> \in Typed
        BY ShellAssumption DEF Typed
      <3>2. QED
        BY <1>7, <2>3, <3>1
    <2>5. m \in 1..Len(chars) /\ m - 1 \in 0..Len(chars) /\ ~(m <= m - 1)
      BY <1>1, <2>3, <2>4
    <2>6. g[m - 1] \in Typed /\ chars[m] \in Char
      BY <2>2, <2>5
    <2>7. Edit(g[m - 1], chars[m]) \in Typed
      BY <2>6, EditIs
    <2>8. QED
      BY <1>7, <2>3, <2>5, <2>7
  <1>9. g \in [0..Len(chars) -> Typed]
    BY <1>6, <1>8
  <1>10. QED
    BY <1>7, <1>9 DEF g

\* What follows an end changes nothing.
LEMMA TypingOver ==
  ASSUME NEW chars \in Seq(Char), NEW r \in 0..Len(chars),
         \A k \in (r + 1)..Len(chars) : chars[k] \in Ends
  PROVE  Typing(chars)[Len(chars)] = Typing(chars)[r]
  <1> DEFINE g == Typing(chars)
             T == {k \in r..Len(chars) : g[k] # g[r]}
  <1>1. Len(chars) \in Nat /\ r \in Nat /\ r <= Len(chars)
    OBVIOUS
  <1>2. g \in [0..Len(chars) -> Typed] /\ \A k \in 1..Len(chars) : g[k] = Edit(g[k - 1], chars[k])
    BY TypingIs
  <1> HIDE DEF g
  <1>3. T = {}
    <2> SUFFICES ASSUME T # {} PROVE FALSE
      OBVIOUS
    <2>1. T \in SUBSET Nat
      BY <1>1
    <2>2. PICK m \in T : \A y \in T : m <= y
      <3> HIDE DEF T
      <3> QED BY <2>1, NatMin
    <2>3. m \in r..Len(chars) /\ g[m] # g[r]
      BY <2>2
    <2>4. m # r
      BY <2>3
    <2>5. m \in (r + 1)..Len(chars) /\ m \in 1..Len(chars) /\ m - 1 \in r..Len(chars)
          /\ m - 1 \in 0..Len(chars) /\ ~(m <= m - 1)
      BY <1>1, <2>3, <2>4
    <2>6. g[m - 1] = g[r]
      BY <2>2, <2>5
    <2>7. chars[m] \in Ends /\ chars[m] \in Char /\ g[m - 1] \in Typed
      BY <1>2, <2>5
    <2>8. Edit(g[m - 1], chars[m]) = g[m - 1]
      BY <2>7, EditIs
    <2>9. QED
      BY <1>2, <2>3, <2>5, <2>6, <2>8
  <1>4. Len(chars) \in r..Len(chars)
    BY <1>1
  <1>5. g[Len(chars)] = g[r]
    BY <1>3, <1>4
  <1>6. QED
    BY <1>5 DEF g
----------------------------------------------------------------------------
(* Words.                                                                  *)

\* The number of words that begin at place i or before.
Upto(s, i) == {j \in WordStarts(s) : j <= i}

LEMMA StartsFinite ==
  ASSUME NEW s \in Seq(Kept)
  PROVE  /\ IsFiniteSet(WordStarts(s)) /\ Cardinality(WordStarts(s)) \in Nat
         /\ \A i : IsFiniteSet(Upto(s, i)) /\ Cardinality(Upto(s, i)) \in Nat
                   /\ Cardinality(Upto(s, i)) <= Cardinality(WordStarts(s))
  <1>1. Len(s) \in Nat /\ DOMAIN s = 1..Len(s)
    OBVIOUS
  <1>2. WordStarts(s) \in SUBSET (1..Len(s)) /\ \A i : Upto(s, i) \in SUBSET WordStarts(s)
    BY <1>1 DEF WordStarts, Upto
  <1>3. IsFiniteSet(1..Len(s))
    BY <1>1, FS_Interval
  <1>4. IsFiniteSet(WordStarts(s))
    BY <1>2, <1>3, FS_Subset
  <1>5. ASSUME NEW i
        PROVE  /\ IsFiniteSet(Upto(s, i))
               /\ Cardinality(Upto(s, i)) <= Cardinality(WordStarts(s))
    BY <1>2, <1>4, FS_Subset
  <1>6. QED
    BY <1>4, <1>5, FS_CardinalityType

LEMMA WordFromIs ==
  ASSUME NEW s \in Seq(Kept), NEW i \in 1..Len(s), NEW e \in i..Len(s),
         \A k \in i..e : s[k] # "SP", e = Len(s) \/ s[e + 1] = "SP"
  PROVE  /\ WordFrom(s, i) \in Seq(Kept) /\ Len(WordFrom(s, i)) = e - i + 1
         /\ \A k \in 1..(e - i + 1) : WordFrom(s, i)[k] = s[i + k - 1]
  <1> DEFINE P(m) == (\A k \in i..m : s[k] # "SP") /\ (m = Len(s) \/ s[m + 1] = "SP")
  <1>1. P(e)
    OBVIOUS
  <1>2. ASSUME NEW m \in i..Len(s), P(m) PROVE m = e
    <2>1. CASE m < e
      <3>1. m + 1 \in i..e /\ m # Len(s)
        BY <2>1
      <3>2. QED
        BY <1>2, <3>1
    <2>2. CASE e < m
      <3>1. e + 1 \in i..m /\ e # Len(s)
        BY <2>2
      <3>2. QED
        BY <1>2, <3>1
    <2>3. QED
      BY <2>1, <2>2
  <1>3. WordFrom(s, i) = SubSeq(s, i, CHOOSE m \in i..Len(s) : P(m))
    BY DEF WordFrom
  <1> HIDE DEF P
  <1>4. (CHOOSE m \in i..Len(s) : P(m)) = e
    BY <1>1, <1>2, Zenon
  <1>5. WordFrom(s, i) = SubSeq(s, i, e)
    BY <1>3, <1>4
  <1>6. i \in Int /\ e \in Int /\ i <= e /\ \A k \in i..e : s[k] \in Kept
    OBVIOUS
  <1>7. /\ SubSeq(s, i, e) \in Seq(Kept) /\ Len(SubSeq(s, i, e)) = IF i <= e THEN e - i + 1 ELSE 0
        /\ \A k \in 1..(e - i + 1) : SubSeq(s, i, e)[k] = s[i + k - 1]
    BY <1>6, SubSeqProperties
  <1>8. QED
    BY <1>5, <1>6, <1>7

LEMMA WordNoIs ==
  ASSUME NEW s \in Seq(Kept), NEW i \in WordStarts(s)
  PROVE  /\ Cardinality(Upto(s, i)) \in 1..Len(Words(s))
         /\ Words(s)[Cardinality(Upto(s, i))] = WordFrom(s, i)
  <1> DEFINE n == Cardinality(Upto(s, i))
             c == Cardinality(WordStarts(s))
  <1>1. i \in Nat /\ \A j \in WordStarts(s) : j \in Nat
    BY DEF WordStarts
  <1>2. IsFiniteSet(Upto(s, i)) /\ n \in Nat /\ c \in Nat /\ n <= c
    BY StartsFinite
  <1>3. i \in Upto(s, i)
    BY <1>1 DEF Upto
  <1>4. n # 0
    BY <1>2, <1>3, FS_EmptySet
  <1>5. ASSUME NEW j \in WordStarts(s), NEW k \in WordStarts(s), j < k
        PROVE  Cardinality(Upto(s, j)) # Cardinality(Upto(s, k))
    <2>1. Upto(s, j) \in SUBSET Upto(s, k) /\ k \in Upto(s, k) /\ k \notin Upto(s, j)
      <3>1. j \in Nat /\ k \in Nat
        BY <1>1
      <3>2. \A x \in WordStarts(s) : x <= j => x <= k
        BY <1>1, <1>5, <3>1
      <3>3. k <= k /\ ~(k <= j)
        BY <1>5, <3>1
      <3>4. QED
        BY <3>2, <3>3 DEF Upto
    <2>2. IsFiniteSet(Upto(s, k))
      BY StartsFinite
    <2>3. QED
      BY <2>1, <2>2, FS_Subset
  <1>6. \A j \in WordStarts(s) : Cardinality(Upto(s, j)) = n => j = i
    BY <1>1, <1>5
  <1>7. StartNo(s, n) = CHOOSE j \in WordStarts(s) : Cardinality(Upto(s, j)) = n
    BY DEF StartNo, Upto
  <1>8. StartNo(s, n) = i
    <2> HIDE DEF n
    <2>1. Cardinality(Upto(s, i)) = n
      BY DEF n
    <2>2. QED
      BY <1>6, <1>7, <2>1, Zenon
  <1>9. Words(s) = [m \in 1..c |-> WordFrom(s, StartNo(s, m))]
    BY DEF Words
  <1> HIDE DEF c, n
  <1>10. Len(Words(s)) = c /\ n \in 1..c
    BY <1>2, <1>4, <1>9
  <1>11. Words(s)[n] = WordFrom(s, i)
    BY <1>8, <1>9, <1>10
  <1>12. QED
    BY <1>10, <1>11 DEF n

\* A string of CmdSz - 1 characters at most, from place i of the buffer on: m
\* words begin before.  With no place left, there are no more than m.
At(str, i, s, m) ==
    IF i = None THEN Len(Words(s)) <= m
    ELSE /\ i \in 0..Len(s) /\ (i = 0 \/ s[i] = "SP")
         /\ \A k \in (i + 1)..Len(s) : str[k - 1] = s[k]
         /\ str[Len(s)] = NUL
         /\ Cardinality(Upto(s, i)) = m

LEMMA WordsLen ==
  ASSUME NEW s \in Seq(Kept)
  PROVE  /\ Len(Words(s)) = Cardinality(WordStarts(s)) /\ Len(Words(s)) \in Nat
         /\ DOMAIN Words(s) = 1..Len(Words(s))
         /\ Words(s) \in Seq({Words(s)[j] : j \in 1..Len(Words(s))})
  <1> DEFINE ws == Words(s)
             U == {ws[j] : j \in 1..Len(ws)}
  <1>1. Len(ws) = Cardinality(WordStarts(s)) /\ Len(ws) \in Nat /\ DOMAIN ws = 1..Len(ws)
    BY StartsFinite DEF Words
  <1>2. ws = [j \in 1..Len(ws) |-> ws[j]]
    BY <1>1 DEF Words
  <1> HIDE DEF ws
  <1>3. \A j \in 1..Len(ws) : ws[j] \in U
    OBVIOUS
  <1> HIDE DEF U
  <1>4. ws \in Seq(U)
    BY <1>1, <1>2, <1>3
  <1>5. QED
    BY <1>1, <1>4 DEF ws, U

\* strtok finds the next word, or that there is none.
LEMMA StrtokGives ==
  ASSUME NEW str \in CmdStr, NEW i \in Places, NEW s \in Typed, NEW m \in Nat, At(str, i, s, m)
  PROVE  LET t == strtok(str, i) IN
         IF m < Len(Words(s))
         THEN /\ t.tok # None /\ StringAt(t.str, t.tok) = Words(s)[m + 1]
              /\ Words(s)[m + 1] # <<>> /\ Words(s)[m + 1] \in Seq(Kept)
              /\ At(t.str, t.saved, s, m + 1)
         ELSE t.tok = None /\ t.saved = None
  <1> DEFINE L == Len(s)
             start == Find(str, i, (Kept \ {"SP"}) \cup {NUL})
             end == Find(str, start, {"SP", NUL})
             none == [str |-> str, tok |-> None, saved |-> None]
             cut == [str EXCEPT ![end] = NUL]
             t == [str |-> cut, tok |-> start, saved |-> IF str[end] = NUL THEN None ELSE end + 1]
  <1>1. strtok(str, i) = IF i = None \/ str[start] = NUL THEN none ELSE t
    BY DEF strtok
  <1>2. s \in Seq(Kept) /\ L \in Nat /\ L \in 0..(CmdSz - 1) /\ CmdSz \in Nat \ {0}
        /\ DOMAIN s = 1..L
    BY ShellAssumption DEF Typed
  <1>3. NUL \notin Kept /\ "SP" # NUL /\ "SP" \in Kept
    BY DEF Kept, NUL
  <1>4. Len(Words(s)) = Cardinality(WordStarts(s)) /\ Len(Words(s)) \in Nat
    BY <1>2, WordsLen
  <1>5. CASE i = None
    <2>1. ~(m < Len(Words(s)))
      BY <1>4, <1>5 DEF At
    <2>2. strtok(str, i) = none
      BY <1>1, <1>5
    <2>3. QED
      BY <2>1, <2>2
  <1>6. CASE i # None
    <2>1. /\ i \in 0..L /\ (i = 0 \/ s[i] = "SP")
          /\ \A k \in (i + 1)..L : str[k - 1] = s[k]
          /\ str[L] = NUL
          /\ Cardinality(Upto(s, i)) = m
      BY <1>6 DEF At
    <2>2. i \in 0..(CmdSz - 1) /\ i \in Nat
      BY <1>2, <2>1
    <2>3. /\ start \in i..(CmdSz - 1) /\ start \in 0..(CmdSz - 1)
          /\ str[start] \in (Kept \ {"SP"}) \cup {NUL}
          /\ \A j \in i..(start - 1) : str[j] \notin (Kept \ {"SP"}) \cup {NUL}
      <3>1. NUL \in (Kept \ {"SP"}) \cup {NUL}
        OBVIOUS
      <3>2. QED
        BY <2>2, <3>1, FindIs, Zenon
    <2> HIDE DEF start
    <2>4. start <= L
      <3>1. L < start => L \in i..(start - 1)
        BY <1>2, <2>1, <2>3
      <3>2. QED
        BY <1>2, <2>1, <2>2, <2>3, <3>1
    <2>5. ASSUME NEW k \in (i + 1)..start PROVE s[k] = "SP"
      <3>1. k - 1 \in i..(start - 1) /\ k \in (i + 1)..L /\ k \in 1..L
        BY <1>2, <2>2, <2>3, <2>4
      <3>2. str[k - 1] = s[k] /\ s[k] \in Kept /\ str[k - 1] \notin (Kept \ {"SP"}) \cup {NUL}
        BY <1>2, <2>1, <2>3, <3>1
      <3>3. QED
        BY <3>2
    <2>6. \A k \in WordStarts(s) : k \in 1..L /\ s[k] # "SP" /\ (k = 1 \/ s[k - 1] = "SP")
      BY <1>2 DEF WordStarts
    <2>7. CASE start = L
      <3>1. str[start] = NUL
        BY <2>1, <2>7
      <3>2. Upto(s, i) = WordStarts(s)
        <4>1. ASSUME NEW k \in WordStarts(s) PROVE k <= i
          <5>1. k \in 1..L /\ (i < k => k \in (i + 1)..start)
            BY <1>2, <2>2, <2>6, <2>7
          <5>2. QED
            BY <2>2, <2>5, <2>6, <5>1
        <4>2. QED
          BY <4>1 DEF Upto
      <3>3. ~(m < Len(Words(s)))
        BY <1>4, <2>1, <3>2
      <3>4. strtok(str, i) = none
        BY <1>1, <3>1
      <3>5. QED
        BY <3>3, <3>4
    <2>8. CASE start # L
      <3>1. start \in Nat /\ start < L /\ start + 1 \in (i + 1)..L /\ start + 1 \in 1..L
        <4>1. start \in Int /\ i <= start
          BY <1>2, <2>2, <2>3
        <4>2. start \in Nat /\ start < L
          <5> HIDE DEF L
          <5> QED BY <1>2, <2>2, <2>4, <2>8, <4>1
        <4>3. QED
          <5> HIDE DEF L
          <5> QED BY <1>2, <2>2, <4>1, <4>2
      <3>2. str[start] = s[start + 1] /\ s[start + 1] \in Kept /\ s[start + 1] # "SP" /\ str[start] # NUL
        <4>1. str[start + 1 - 1] = s[start + 1] /\ start + 1 - 1 = start
          BY <2>1, <3>1
        <4>2. QED
          BY <1>2, <1>3, <2>3, <3>1, <4>1
      <3>3. start + 1 \in WordStarts(s)
        <4>1. CASE start = i
          BY <1>2, <2>1, <3>1, <3>2, <4>1 DEF WordStarts
        <4>2. CASE start # i
          <5>1. start \in (i + 1)..start /\ start + 1 - 1 = start
            BY <2>2, <2>3, <4>2
          <5>2. s[start + 1 - 1] = "SP"
            BY <2>5, <5>1
          <5>3. QED
            BY <1>2, <3>1, <3>2, <5>2 DEF WordStarts
        <4>3. QED
          BY <4>1, <4>2
      <3>4. /\ Upto(s, start + 1) = Upto(s, i) \cup {start + 1}
            /\ start + 1 \notin Upto(s, i)
        <4>1. ASSUME NEW k \in WordStarts(s) PROVE k <= start + 1 <=> k <= i \/ k = start + 1
          <5>1. k \in 1..L /\ (i < k /\ k < start + 1 => k \in (i + 1)..start)
            BY <1>2, <2>2, <2>6, <3>1
          <5>2. ~(i < k /\ k < start + 1)
            BY <2>5, <2>6, <5>1
          <5>3. i <= start
            BY <2>2, <2>3
          <5>4. QED
            BY <2>2, <3>1, <5>1, <5>2, <5>3
        <4>2. ~(start + 1 <= i)
          BY <2>2, <2>3, <3>1
        <4>3. QED
          BY <3>3, <4>1, <4>2 DEF Upto
      <3>5. Cardinality(Upto(s, start + 1)) = m + 1
        <4>1. IsFiniteSet(Upto(s, i))
          BY <1>2, StartsFinite
        <4>2. QED
          BY <2>1, <3>4, <4>1, FS_AddElement
      <3>6. m + 1 \in 1..Len(Words(s)) /\ Words(s)[m + 1] = WordFrom(s, start + 1)
        BY <1>2, <3>3, <3>5, WordNoIs
      <3>7. /\ end \in start..(CmdSz - 1) /\ end \in 0..(CmdSz - 1) /\ str[end] \in {"SP", NUL}
            /\ \A j \in start..(end - 1) : str[j] \notin {"SP", NUL}
        <4>1. NUL \in {"SP", NUL}
          OBVIOUS
        <4>2. QED
          BY <2>3, <4>1, FindIs, Zenon
      <3> HIDE DEF end
      <3>8. end <= L
        <4>1. L < end => L \in start..(end - 1)
          BY <1>2, <3>1, <3>7
        <4>2. QED
          BY <1>2, <2>1, <3>1, <3>7, <4>1
      <3>9. start < end /\ end \in Nat
        <4>1. start # end
          BY <3>2, <3>7
        <4>2. QED
          BY <3>1, <3>7, <4>1
      <3>10. ASSUME NEW k \in (start + 1)..end PROVE s[k] # "SP" /\ s[k] = str[k - 1] /\ str[k - 1] # NUL
        <4>1. k - 1 \in start..(end - 1) /\ k \in (i + 1)..L
          BY <1>2, <2>2, <3>1, <3>8, <3>9
        <4>2. QED
          BY <2>1, <3>7, <4>1
      <3>11. end # L => str[end] = s[end + 1] /\ s[end + 1] = "SP" /\ str[end] # NUL
        <4> SUFFICES ASSUME end # L PROVE str[end] = s[end + 1] /\ s[end + 1] = "SP" /\ str[end] # NUL
          OBVIOUS
        <4>1. end + 1 \in (i + 1)..L /\ end + 1 \in 1..L /\ end + 1 - 1 = end
          <5> HIDE DEF L
          <5>1. end < L /\ i < end + 1
            BY <1>2, <2>2, <2>3, <3>8, <3>9
          <5>2. QED
            BY <1>2, <2>2, <3>9, <5>1
        <4>2. str[end] = s[end + 1] /\ s[end + 1] \in Kept
          <5> DEFINE x == end + 1
          <5>1. x \in (i + 1)..L /\ x \in 1..L /\ x - 1 = end
            BY <3>9, <4>1
          <5> HIDE DEF x
          <5>2. str[x - 1] = s[x] /\ s[x] \in Kept
            BY <1>2, <2>1, <5>1
          <5>3. QED
            BY <5>1, <5>2 DEF x
        <4>3. QED
          BY <1>3, <3>7, <4>2
      <3>12. strtok(str, i) = t
        BY <1>1, <1>6, <3>2
      <3>13. /\ WordFrom(s, start + 1) \in Seq(Kept) /\ Len(WordFrom(s, start + 1)) = end - start
             /\ \A k \in 1..(end - start) : WordFrom(s, start + 1)[k] = s[start + k]
        <4> DEFINE b == start + 1
        <4>1. b \in 1..Len(s) /\ end \in b..Len(s) /\ (end = Len(s) \/ s[end + 1] = "SP")
          <5>1. b \in Nat /\ b <= end /\ b \in 1..L
            BY <3>1, <3>9
          <5>2. b \in 1..L /\ end \in b..L
            <6> HIDE DEF L, b
            <6> QED BY <1>2, <3>8, <3>9, <5>1
          <5>3. QED
            BY <3>11, <5>2
        <4>2. /\ WordFrom(s, b) \in Seq(Kept) /\ Len(WordFrom(s, b)) = end - b + 1
              /\ \A k \in 1..(end - b + 1) : WordFrom(s, b)[k] = s[b + k - 1]
          <5>1. \A k \in b..end : s[k] # "SP"
            BY <3>10
          <5> HIDE DEF b
          <5> QED BY <1>2, <4>1, <5>1, WordFromIs
        <4>3. end - b + 1 = end - start /\ \A k \in 1..(end - start) : b + k - 1 = start + k
          BY <3>1, <3>9
        <4>4. QED
          BY <4>2, <4>3
      <3>14. cut \in CmdStr /\ cut[end] = NUL
             /\ \A k \in 0..(CmdSz - 1) : k # end => cut[k] = str[k]
        BY <1>2, <3>7, <3>8 DEF CmdStr
      <3> HIDE DEF cut
      <3>15. StringAt(cut, start) = WordFrom(s, start + 1)
        <4> DEFINE f == Find(cut, start, {NUL})
        <4>1. /\ f \in start..(CmdSz - 1) /\ cut[f] \in {NUL}
              /\ \A j \in start..(f - 1) : cut[j] \notin {NUL}
          <5>1. NUL \in {NUL}
            OBVIOUS
          <5>2. QED
            BY <2>3, <3>14, <5>1, FindIs, Zenon
        <4>2. StringAt(cut, start) = [k \in 1..(f - start) |-> cut[start + k - 1]]
          BY DEF StringAt
        <4> HIDE DEF f
        <4>3. f = end
          <5>1. CASE f < end
            <6>1. f + 1 \in (start + 1)..end /\ f + 1 - 1 = f /\ f \in 0..(CmdSz - 1) /\ f # end
              BY <1>2, <3>1, <3>9, <4>1, <5>1
            <6>2. cut[f] # NUL
              BY <3>10, <3>14, <6>1
            <6>3. QED
              BY <4>1, <6>2
          <5>2. CASE end < f
            <6>1. end \in start..(f - 1)
              BY <3>1, <3>9, <4>1, <5>2
            <6>2. QED
              BY <3>14, <4>1, <6>1
          <5>3. QED
            BY <3>9, <4>1, <5>1, <5>2, <3>1, <1>2
        <4>4. ASSUME NEW k \in 1..(end - start) PROVE cut[start + k - 1] = WordFrom(s, start + 1)[k]
          <5>1. start + k \in (start + 1)..end /\ start + k - 1 \in 0..(CmdSz - 1) /\ start + k - 1 # end
            BY <1>2, <3>1, <3>7, <3>9
          <5>2. s[start + k] = str[start + k - 1]
            <6> DEFINE x == start + k
            <6>1. x \in (start + 1)..end
              BY <5>1
            <6> HIDE DEF x
            <6>2. s[x] = str[x - 1]
              BY <3>10, <6>1
            <6>3. QED
              BY <3>1, <6>2, x - 1 = start + k - 1 DEF x
          <5>3. QED
            BY <3>13, <3>14, <5>1, <5>2
        <4> DEFINE w == WordFrom(s, start + 1)
        <4>5. DOMAIN w = 1..(end - start) /\ w = [k \in 1..(end - start) |-> w[k]]
          <5>1. end - start \in Nat
            BY <3>1, <3>9
          <5>2. w \in Seq(Kept) /\ Len(w) = end - start
            BY <3>13
          <5> HIDE DEF w
          <5>3. QED
            BY <5>1, <5>2
        <4> HIDE DEF w
        <4>6. \A k \in 1..(end - start) : cut[start + k - 1] = w[k]
          BY <4>4 DEF w
        <4>7. [k \in 1..(end - start) |-> cut[start + k - 1]] = w
          BY <4>5, <4>6
        <4>8. QED
          BY <4>2, <4>3, <4>7 DEF w
      <3>16. At(cut, IF str[end] = NUL THEN None ELSE end + 1, s, m + 1)
        <4>1. ASSUME NEW k \in WordStarts(s), k \in (start + 1)..(end + 1) PROVE k = start + 1
          <5> SUFFICES ASSUME k # start + 1 PROVE FALSE
            OBVIOUS
          <5>1. k \in 1..L /\ k \in (start + 2)..(end + 1)
            BY <1>2, <2>6, <3>1, <3>9, <4>1
          <5>2. k - 1 \in (start + 1)..end /\ k # 1
            BY <3>1, <3>9, <5>1
          <5>3. s[k - 1] # "SP"
            BY <3>10, <5>2
          <5>4. QED
            BY <2>6, <5>2, <5>3
        <4>2. Upto(s, end + 1) = Upto(s, start + 1)
          <5>1. ASSUME NEW k \in WordStarts(s) PROVE k <= end + 1 <=> k <= start + 1
            <6>1. k \in Nat
              BY <1>2, <2>6
            <6>2. k <= end + 1 /\ ~(k <= start + 1) => k \in (start + 1)..(end + 1)
              BY <3>1, <3>9, <6>1
            <6>3. QED
              BY <3>1, <3>9, <4>1, <6>1, <6>2
          <5>2. QED
            BY <5>1 DEF Upto
        <4>3. CASE end = L
          <5>1. Upto(s, end + 1) = WordStarts(s)
            BY <1>2, <2>6, <4>3 DEF Upto
          <5>2. str[end] = NUL /\ Len(Words(s)) = m + 1
            BY <1>4, <2>1, <3>5, <4>2, <4>3, <5>1
          <5>3. QED
            BY <1>4, <5>2 DEF At
        <4>4. CASE end # L
          <5>1. str[end] # NUL /\ s[end + 1] = "SP" /\ end + 1 \in 0..L /\ end + 1 # None
            <6>1. end + 1 \in 0..L /\ end + 1 # None
              <7> HIDE DEF L
              <7> QED BY <1>2, <3>8, <3>9, <4>4 DEF None
            <6>2. QED
              BY <3>11, <4>4, <6>1
          <5>2. cut[L] = NUL
            BY <1>2, <2>1, <3>14, <4>4
          <5>3. ASSUME NEW k \in (end + 1 + 1)..L PROVE cut[k - 1] = s[k]
            <6>1. k - 1 \in 0..(CmdSz - 1) /\ k - 1 # end /\ k \in (i + 1)..L
              BY <1>2, <2>2, <3>1, <3>9, <2>3
            <6>2. QED
              BY <2>1, <3>14, <6>1
          <5>4. Cardinality(Upto(s, end + 1)) = m + 1
            BY <3>5, <4>2
          <5>5. QED
            BY <5>1, <5>2, <5>3, <5>4 DEF At
        <4>5. QED
          BY <4>3, <4>4
      <3>17. Words(s)[m + 1] # <<>> /\ Words(s)[m + 1] \in Seq(Kept)
        <4>1. Len(WordFrom(s, start + 1)) # 0
          BY <3>1, <3>9, <3>13
        <4>2. QED
          BY <3>6, <3>13, <4>1
      <3>18. m < Len(Words(s)) /\ start # None
        BY <1>4, <3>1, <3>6 DEF None
      <3>19. QED
        BY <3>6, <3>12, <3>15, <3>16, <3>17, <3>18
    <2>9. QED
      BY <2>7, <2>8
  <1>7. QED
    BY <1>5, <1>6
----------------------------------------------------------------------------
(* What the command reads is what the line means.                          *)

\* The parameters after the name: k of them, numbers all of them.
Numbers(s, k) == \A j \in 2..(k + 1) : j <= Len(Words(s)) /\ IsNumber(Words(s)[j])

\* The state of the reading after k parameters.
ReadTo(p, s, k) ==
    /\ p.ok <=> Numbers(s, k)
    /\ p.ok => At(p.str, p.saved, s, k + 1) /\ p.numbers = SubSeq(Words(s), 2, k + 1)

LEMMA NumbersStep ==
  ASSUME NEW s \in Typed, NEW k \in Nat \ {0}
  PROVE  Numbers(s, k) <=> Numbers(s, k - 1) /\ k + 1 <= Len(Words(s)) /\ IsNumber(Words(s)[k + 1])
  <1>1. /\ k + 1 \in 2..(k + 1) /\ 2..(k - 1 + 1) \subseteq 2..(k + 1)
        /\ \A j \in 2..(k + 1) : j \in 2..(k - 1 + 1) \/ j = k + 1
    OBVIOUS
  <1>2. QED
    BY <1>1 DEF Numbers

LEMMA WordsUpto ==
  ASSUME NEW s \in Typed, NEW k \in Nat \ {0}, k < Len(Words(s))
  PROVE  SubSeq(Words(s), 2, k + 1) = Append(SubSeq(Words(s), 2, k), Words(s)[k + 1])
  <1> DEFINE ws == Words(s)
             U == {ws[j] : j \in 1..Len(ws)}
  <1>1. s \in Seq(Kept)
    BY DEF Typed
  <1>2. Len(ws) \in Nat /\ ws \in Seq(U)
    BY <1>1, WordsLen
  <1>3. 2 \in 1..Len(ws) /\ k + 1 \in 2..Len(ws) /\ k + 1 - 1 = k
    BY <1>2
  <1> HIDE DEF ws, U
  <1>4. SubSeq(ws, 2, k + 1) = SubSeq(ws, 2, k) \o << ws[k + 1] >>
    BY <1>2, <1>3, SubSeqRecursiveSecond
  <1>5. SubSeq(ws, 2, k) \in Seq(U)
    BY <1>2, <1>3
  <1>6. QED
    BY <1>2, <1>3, <1>4, <1>5 DEF ws

LEMMA GetNextGives ==
  ASSUME NEW s \in Typed, NEW k \in Nat \ {0}, NEW p \in ParamState, ReadTo(p, s, k - 1)
  PROVE  ReadTo(GetNext(p), s, k)
  <1> DEFINE t == strtok(p.str, p.saved)
             word == IF t.tok = None THEN <<>> ELSE StringAt(t.str, t.tok)
             q == [str |-> t.str, saved |-> t.saved, ok |-> word # <<>> /\ IsNumber(word),
                   numbers |-> Append(p.numbers, word)]
  <1>1. GetNext(p) = IF ~p.ok THEN p ELSE q
    BY DEF GetNext
  <1>2. p.str \in CmdStr /\ p.saved \in Places /\ p.ok \in BOOLEAN
    BY DEF ParamState
  <1>3. k - 1 + 1 = k /\ Len(Words(s)) \in Nat
    BY WordsLen DEF Typed
  <1>4. CASE ~p.ok
    <2>1. ~Numbers(s, k)
      BY <1>4, NumbersStep DEF ReadTo
    <2>2. QED
      BY <1>1, <1>4, <2>1 DEF ReadTo
  <1>5. CASE p.ok
    <2>1. Numbers(s, k - 1) /\ At(p.str, p.saved, s, k) /\ p.numbers = SubSeq(Words(s), 2, k)
      BY <1>3, <1>5 DEF ReadTo
    <2>2. IF k < Len(Words(s))
          THEN /\ t.tok # None /\ StringAt(t.str, t.tok) = Words(s)[k + 1]
               /\ Words(s)[k + 1] # <<>> /\ Words(s)[k + 1] \in Seq(Kept)
               /\ At(t.str, t.saved, s, k + 1)
          ELSE t.tok = None /\ t.saved = None
      BY <1>2, <2>1, StrtokGives
    <2>3. GetNext(p) = q
      BY <1>1, <1>5
    <2> HIDE DEF t
    <2>4. CASE k < Len(Words(s))
      <3>1. word = Words(s)[k + 1] /\ word # <<>> /\ At(t.str, t.saved, s, k + 1)
        BY <2>2, <2>4
      <3> HIDE DEF word
      <3>2. q.ok <=> Numbers(s, k)
        <4>1. q.ok = (word # <<>> /\ IsNumber(word))
          OBVIOUS
        <4>2. k + 1 <= Len(Words(s))
          BY <1>3, <2>4
        <4>3. Numbers(s, k) <=> IsNumber(word)
          BY <2>1, <3>1, <4>2, NumbersStep
        <4>4. QED
          BY <3>1, <4>1, <4>3
      <3>3. q.numbers = SubSeq(Words(s), 2, k + 1)
        BY <2>1, <2>4, <3>1, WordsUpto
      <3>4. QED
        BY <2>3, <3>1, <3>2, <3>3 DEF ReadTo
    <2>5. CASE ~(k < Len(Words(s)))
      <3>1. word = <<>>
        BY <2>2, <2>5
      <3>2. ~Numbers(s, k)
        BY <1>3, <2>5, NumbersStep
      <3> HIDE DEF word
      <3>3. q.ok = FALSE
        BY <3>1
      <3>4. QED
        BY <2>3, <3>2, <3>3 DEF ReadTo
    <2>6. QED
      BY <2>4, <2>5
  <1>6. QED
    BY <1>2, <1>4, <1>5

\* The Cmd_t of these contents.
NameAt(str, name) == IF name = None THEN <<>> ELSE StringAt(str, name)
ParamsAt(str, name, sv) ==
    LET n == Takes(NameAt(str, name))
        p[k \in 0..n] == IF k > 0 THEN GetNext(p[k - 1])
                         ELSE [str |-> str, saved |-> sv, ok |-> TRUE, numbers |-> <<>>]
    IN p[n]
CmdAt(str, name, sv) ==
    LET p == ParamsAt(str, name, sv) IN
    [name |-> NameAt(str, name), ok |-> p.ok, numbers |-> IF p.ok THEN p.numbers ELSE <<>>]

LEMMA CmdIs ==
  /\ Cmd = CmdAt(IString, Name, saved)
  /\ Cmd' = CmdAt(IString', Name', saved')
  BY DEF Cmd, CmdFrom, CmdParams, CmdName, CmdAt, ParamsAt, NameAt

LEMMA ParamsGive ==
  ASSUME NEW s \in Typed, NEW str \in CmdStr, NEW sv \in Places, NEW name,
         At(str, sv, s, 1), NEW n \in Nat, n = Takes(NameAt(str, name))
  PROVE  ReadTo(ParamsAt(str, name, sv), s, n) /\ ParamsAt(str, name, sv) \in ParamState
  <1> DEFINE init == [str |-> str, saved |-> sv, ok |-> TRUE, numbers |-> <<>>]
             p == CHOOSE f : f = [k \in 0..n |-> IF k > 0 THEN GetNext(f[k - 1]) ELSE init]
  <1>1. ParamsAt(str, name, sv) = p[n]
    BY DEF ParamsAt
  <1>2. init \in ParamState
    BY DEF ParamState
  <1> HIDE DEF init
  <1>3. p = [k \in 0..n |-> IF k > 0 THEN GetNext(p[k - 1]) ELSE init]
    <2>1. \E f : f = [k \in 0..n |-> IF k > 0 THEN GetNext(f[k - 1]) ELSE init]
      BY <1>2, ReadingExists
    <2>2. QED
      BY <2>1, Zenon
  <1> HIDE DEF p
  <1>4. \A k \in 0..n : p[k] \in ParamState
    BY <1>2, <1>3, ReadingIs
  <1>5. p[0] = init /\ \A k \in 1..n : p[k] = GetNext(p[k - 1])
    BY <1>3
  <1> DEFINE T == {k \in 0..n : ~ReadTo(p[k], s, k)}
  <1>6. T = {}
    <2> SUFFICES ASSUME T # {} PROVE FALSE
      OBVIOUS
    <2>1. T \in SUBSET Nat
      OBVIOUS
    <2>2. PICK m \in T : \A y \in T : m <= y
      <3> HIDE DEF T
      <3> QED BY <2>1, NatMin
    <2>3. m \in 0..n /\ ~ReadTo(p[m], s, m)
      BY <2>2
    <2>4. m # 0
      <3>1. Numbers(s, 0)
        <4>1. 2..(0 + 1) = {}
          OBVIOUS
        <4>2. QED
          BY <4>1 DEF Numbers
      <3>2. SubSeq(Words(s), 2, 0 + 1) = <<>> /\ 0 + 1 = 1
        BY SubSeqEmpty
      <3>3. ReadTo(init, s, 0)
        BY <3>1, <3>2 DEF ReadTo, init
      <3>4. QED
        BY <1>5, <2>3, <3>3
    <2>5. m \in 1..n /\ m \in Nat \ {0} /\ m - 1 \in 0..n /\ ~(m <= m - 1)
      BY <2>3, <2>4
    <2>6. ReadTo(p[m - 1], s, m - 1) /\ p[m - 1] \in ParamState
      BY <1>4, <2>2, <2>5
    <2>7. ReadTo(GetNext(p[m - 1]), s, m)
      BY <2>5, <2>6, GetNextGives
    <2>8. QED
      BY <1>5, <2>3, <2>5, <2>7
  <1>7. n \in 0..n
    OBVIOUS
  <1>8. QED
    BY <1>1, <1>4, <1>6, <1>7

\* A buffer that holds s, cut by the first strtok, is a command that means what s does.
LEMMA CommandGiven ==
  ASSUME NEW s \in Typed, NEW str \in CmdStr, str[Len(s)] = NUL,
         \A k \in 1..Len(s) : str[k - 1] = s[k]
  PROVE  CmdAt(strtok(str, 0).str, strtok(str, 0).tok, strtok(str, 0).saved) = Meaning(s)
  <1> DEFINE t == strtok(str, 0)
             ws == Words(s)
             name == IF ws = <<>> THEN <<>> ELSE Head(ws)
             n == Takes(name)
             good == n > 0 => Len(ws) > n /\ \A k \in 2..(n + 1) : IsNumber(ws[k])
  <1>1. s \in Seq(Kept) /\ Len(ws) \in Nat /\ DOMAIN ws = 1..Len(ws) /\ Len(s) \in Nat
    BY WordsLen DEF Typed
  <1>2. Meaning(s) = [name |-> name, ok |-> good,
                      numbers |-> IF good THEN SubSeq(ws, 2, n + 1) ELSE <<>>]
    BY DEF Meaning
  <1>3. n \in Nat
    BY ShellAssumption DEF Takes
  <1>4. At(str, 0, s, 0)
    <2>1. Upto(s, 0) = {}
      BY <1>1 DEF Upto, WordStarts
    <2>2. Cardinality(Upto(s, 0)) = 0
      BY <2>1, FS_EmptySet
    <2>3. 0 \in 0..Len(s) /\ 0 # None /\ \A k \in (0 + 1)..Len(s) : str[k - 1] = s[k]
      BY <1>1 DEF None
    <2>4. QED
      BY <2>2, <2>3 DEF At
  <1>5. 0 \in Places /\ 0 + 1 = 1
    BY ShellAssumption DEF Places
  <1>6. IF 0 < Len(ws)
        THEN /\ t.tok # None /\ StringAt(t.str, t.tok) = ws[1]
             /\ At(t.str, t.saved, s, 1)
        ELSE t.tok = None /\ t.saved = None
    BY <1>4, <1>5, StrtokGives
  <1>7. t.str \in CmdStr /\ t.tok \in Places /\ t.saved \in Places
    BY <1>5, StrtokIs
  <1> HIDE DEF t
  <1>8. NameAt(t.str, t.tok) = name /\ At(t.str, t.saved, s, 1)
    <2>1. CASE 0 < Len(ws)
      <3>1. ws # <<>> /\ Head(ws) = ws[1]
        BY <2>1
      <3> HIDE DEF ws
      <3>2. QED
        BY <1>6, <2>1, <3>1 DEF NameAt
    <2>2. CASE ~(0 < Len(ws))
      <3>1. Len(ws) = 0
        BY <1>1, <2>2
      <3>2. ws = <<>>
        <4>1. ws \in Seq({ws[j] : j \in 1..Len(ws)})
          BY <1>1, WordsLen
        <4> HIDE DEF ws
        <4>2. QED
          BY <3>1, <4>1
      <3>3. QED
        BY <1>6, <2>2, <3>1, <3>2 DEF NameAt, At
    <2>3. QED
      BY <2>1, <2>2
  <1> HIDE DEF name
  <1>9. /\ ReadTo(ParamsAt(t.str, t.tok, t.saved), s, n)
        /\ ParamsAt(t.str, t.tok, t.saved) \in ParamState
    BY <1>3, <1>7, <1>8, ParamsGive
  <1> DEFINE p == ParamsAt(t.str, t.tok, t.saved)
  <1>10. CmdAt(t.str, t.tok, t.saved)
          = [name |-> name, ok |-> p.ok, numbers |-> IF p.ok THEN p.numbers ELSE <<>>]
    BY <1>8 DEF CmdAt
  <1> HIDE DEF p, n
  <1>11. good <=> Numbers(s, n)
    <2>1. CASE n = 0
      <3>1. 2..(n + 1) = {}
        BY <2>1
      <3>2. QED
        BY <2>1, <3>1 DEF Numbers
    <2>2. CASE n # 0
      <3>1. n > 0 /\ n + 1 \in 2..(n + 1)
        BY <1>3, <2>2
      <3>2. Numbers(s, n) => n + 1 <= Len(ws)
        BY <3>1 DEF Numbers
      <3>3. Len(ws) > n <=> n + 1 <= Len(ws)
        BY <1>1, <1>3
      <3>4. n + 1 <= Len(ws) => \A j \in 2..(n + 1) : j <= Len(ws)
        BY <1>1, <1>3
      <3>5. QED
        BY <3>1, <3>2, <3>3, <3>4 DEF Numbers
    <2>3. QED
      BY <2>1, <2>2
  <1>12. p.ok = good /\ (p.ok => p.numbers = SubSeq(ws, 2, n + 1))
    <2>1. p.ok \in BOOLEAN
      BY <1>9 DEF ParamState, p
    <2>2. QED
      BY <1>9, <1>11, <2>1 DEF ReadTo, p
  <1>13. QED
    BY <1>2, <1>10, <1>12 DEF t
----------------------------------------------------------------------------
(* The line on its way.                                                    *)

\* What LineInv says of a line that is not read to its end.
LineOf(chars, r) == Rest(chars, r) /\ (Open(chars, r) \/ Over(chars, r))

LEMMA LineInvIs ==
  ASSUME LineInv
  PROVE  \/ Done /\ unread = 0 /\ pending = <<>>
         \/ \E chars \in Lines : \E r \in Nat : LineOf(chars, r)
  BY DEF LineInv, LineOf

\* Where r is, and what the characters are.
LEMMA RestIs ==
  ASSUME TypeOK, NEW chars \in Lines, NEW r \in Nat, Rest(chars, r)
  PROVE  /\ chars \in Seq(Char) /\ WellEnded(chars) /\ Len(chars) \in Nat /\ r \in 0..Len(chars)
         /\ unread \in Nat /\ Len(pending) \in Nat /\ DOMAIN pending = 1..Len(pending)
         /\ Typing(chars)[r] \in Typed
  <1>1. chars \in Seq(Char) /\ WellEnded(chars)
    BY ShellAssumption
  <1>2. unread \in Nat /\ pending \in Seq(Char)
    BY DEF TypeOK
  <1>3. Len(chars) \in Nat /\ Len(pending) \in Nat /\ DOMAIN pending = 1..Len(pending)
    BY <1>1, <1>2
  <1>4. r + unread + Len(pending) = Len(chars)
    BY DEF Rest
  <1>5. r \in 0..Len(chars)
    BY <1>2, <1>3, <1>4
  <1>6. Typing(chars)[r] \in Typed
    BY <1>1, <1>5, TypingIs
  <1>7. QED
    BY <1>1, <1>2, <1>3, <1>5, <1>6

\* From the first end on there is nothing else.
LEMMA EndsOnly ==
  ASSUME NEW chars \in Seq(Char), WellEnded(chars), NEW r \in 0..Len(chars), r # Len(chars),
         chars[r + 1] \in Ends
  PROVE  /\ \A k \in (r + 1)..Len(chars) : chars[k] \in Ends
         /\ Edited(chars) = Typing(chars)[r]
  <1>1. ASSUME NEW k \in (r + 1)..Len(chars) PROVE chars[k] \in Ends
    <2>1. r + 1 \in DOMAIN chars /\ k \in DOMAIN chars /\ (k = r + 1 \/ r + 1 < k)
      OBVIOUS
    <2>2. QED
      BY <2>1 DEF WellEnded
  <1>2. Typing(chars)[Len(chars)] = Typing(chars)[r]
    BY <1>1, TypingOver
  <1>3. QED
    BY <1>1, <1>2 DEF Edited

LEMMA RestSame ==
  ASSUME UNCHANGED <<IRxBuf, RIndx, unread, pending>>
  PROVE  /\ OnlyEnds' <=> OnlyEnds
         /\ WIndx' = WIndx => (RingInv' <=> RingInv)
         /\ \A chars \in Lines, r \in Nat : Rest(chars, r)' <=> Rest(chars, r)
  BY DEF OnlyEnds, Rest, RingInv, Byte, Slot

\* A step that leaves the bytes on their way and the count alone, and the command
\* buffer, if there is anything in it.
LEMMA LineSame ==
  ASSUME TypeOK, LineInv, UNCHANGED <<IRxBuf, RIndx, unread, pending, typed, lineNo, Cnt, Completed>>,
         IString' = IString \/ CntNow = 0
  PROVE  LineInv'
  <1>1. CntNow' = CntNow /\ (Done' <=> Done)
    BY DEF CntNow, Done
  <1>2. CASE Done /\ unread = 0 /\ pending = <<>>
    BY <1>1, <1>2 DEF LineInv
  <1>3. ASSUME NEW chars \in Lines, NEW r \in Nat, LineOf(chars, r) PROVE LineInv'
    <2>1. Rest(chars, r)'
      BY <1>3, RestSame DEF LineOf
    <2>2. CASE Over(chars, r)
      <3>1. Over(chars, r)'
        BY <1>1, <2>2 DEF Over
      <3>2. QED
        BY <2>1, <3>1 DEF LineInv
    <2>3. CASE Open(chars, r)
      <3>1. Typing(chars)[r] \in Typed /\ Len(Typing(chars)[r]) = CntNow
        BY <1>3, <2>3, RestIs DEF LineOf, Open, Buffered
      <3>2. IString' = IString \/ 1..Len(Typing(chars)[r]) = {}
        BY <3>1 DEF Typed
      <3>3. Buffered(Typing(chars)[r])'
        BY <1>1, <2>3, <3>2 DEF Open, Buffered
      <3>4. Open(chars, r)'
        BY <2>3, <3>3 DEF Open
      <3>5. QED
        BY <2>1, <3>4 DEF LineInv
    <2>4. QED
      BY <1>3, <2>2, <2>3 DEF LineOf
  <1>4. QED
    BY <1>2, <1>3, LineInvIs

\* A byte goes from the host to the ring: the rest of the line stays the same.
LEMMA LineReceived ==
  ASSUME TypeOK, LineInv, pending # <<>>, unread' = unread + 1, pending' = Tail(pending),
         UNCHANGED <<typed, lineNo, Cnt, Completed, IString>>,
         \A k \in 0..(unread' - 1) : Byte(k)' = IF k = unread THEN Head(pending) ELSE Byte(k)
  PROVE  LineInv' /\ (OnlyEnds => OnlyEnds')
  <1>1. /\ unread \in Nat /\ Len(pending) \in Nat \ {0} /\ Head(pending) = pending[1]
        /\ DOMAIN pending = 1..Len(pending) /\ DOMAIN pending' = 1..(Len(pending) - 1)
        /\ Len(pending') = Len(pending) - 1
        /\ \A j \in 1..(Len(pending) - 1) : pending'[j] = pending[j + 1]
    <2>1. pending \in Seq(Char) /\ unread \in Nat
      BY DEF TypeOK
    <2>2. QED
      BY <2>1
  <1>2. 1 \in DOMAIN pending /\ \A j \in DOMAIN pending' :
            j \in Nat /\ j + 1 \in DOMAIN pending /\ pending'[j] = pending[j + 1]
    BY <1>1
  <1>3. ASSUME NEW k \in 0..(unread' - 1)
        PROVE  \/ k \in 0..(unread - 1) /\ Byte(k)' = Byte(k)
               \/ k = unread /\ Byte(k)' = pending[1]
    <2>1. (k \in 0..(unread - 1) /\ k # unread) \/ k = unread
      BY <1>1
    <2>2. Byte(k)' = IF k = unread THEN pending[1] ELSE Byte(k)
      BY <1>1
    <2>3. QED
      BY <2>1, <2>2
  <1>4. ASSUME OnlyEnds PROVE OnlyEnds'
    <2>1. \A k \in 0..(unread' - 1) : Byte(k)' \in Ends
      BY <1>2, <1>3, <1>4 DEF OnlyEnds
    <2>2. \A j \in DOMAIN pending' : pending'[j] \in Ends
      BY <1>2, <1>4 DEF OnlyEnds
    <2>3. QED
      BY <2>1, <2>2 DEF OnlyEnds
  <1>5. ASSUME NEW chars \in Lines, NEW r \in Nat, LineOf(chars, r) PROVE LineInv'
    <2>1. /\ r + unread + Len(pending) = Len(chars) /\ Len(chars) \in Nat
          /\ \A i \in 0..(unread - 1) : Byte(i) = chars[r + 1 + i]
          /\ \A j \in DOMAIN pending : pending[j] = chars[r + unread + j]
      BY <1>5, RestIs DEF LineOf, Rest
    <2>2. r + unread' + Len(pending') = Len(chars)
      BY <1>1, <2>1
    <2>3. ASSUME NEW k \in 0..(unread' - 1) PROVE Byte(k)' = chars[r + 1 + k]
      <3>1. pending[1] = chars[r + unread + 1] /\ r + unread + 1 = r + 1 + unread
        BY <1>1, <1>2, <2>1
      <3>2. QED
        BY <1>3, <2>1, <3>1
    <2>4. ASSUME NEW j \in DOMAIN pending' PROVE pending'[j] = chars[r + unread' + j]
      <3> DEFINE x == j + 1
      <3>1. x \in DOMAIN pending /\ pending'[j] = pending[x]
        BY <1>2
      <3>2. r + unread + x = r + unread' + j
        <4>1. j \in Nat /\ unread \in Nat /\ unread' = unread + 1
          BY <1>1, <1>2
        <4>2. QED
          BY <4>1
      <3> HIDE DEF x
      <3>3. pending[x] = chars[r + unread + x]
        BY <2>1, <3>1
      <3>4. QED
        BY <3>1, <3>2, <3>3
    <2>5. Rest(chars, r)'
      BY <2>2, <2>3, <2>4 DEF Rest
    <2>6. (Open(chars, r) => Open(chars, r)') /\ (Over(chars, r) => Over(chars, r)')
      BY DEF Open, Over, Buffered, Done, CntNow
    <2>7. QED
      BY <1>5, <2>5, <2>6 DEF LineOf, LineInv
  <1>6. QED
    BY <1>4, <1>5, LineInvIs

\* A new line: the one before is read, to the last character of its end.
LEMMA LineBegins ==
  ASSUME TypeOK, LineInv, NEW chars \in Lines, unread = 0, pending = <<>>, pending' = chars,
         typed' = IF Blank(chars) THEN typed ELSE Append(typed, CommandOf[chars]),
         UNCHANGED <<unread, lineNo, Cnt, Completed, IString>>
  PROVE  LineInv' /\ Done
  <1>1. Done
    <2>1. ASSUME NEW old \in Lines, NEW r \in Nat, LineOf(old, r) PROVE Done
      <3>1. old \in Seq(Char) /\ WellEnded(old) /\ Len(old) \in Nat
        BY <2>1, RestIs DEF LineOf
      <3>2. r = Len(old) /\ Len(old) \in 1..Len(old) /\ old[Len(old)] \in Ends
        <4>1. r + 0 + 0 = Len(old)
          BY <2>1 DEF LineOf, Rest
        <4>2. old # <<>> /\ old[Len(old)] \in Ends
          BY <3>1 DEF WellEnded
        <4>3. QED
          BY <3>1, <4>1, <4>2
      <3>3. ~Open(old, r)
        BY <3>2 DEF Open
      <3>4. QED
        BY <2>1, <3>3 DEF LineOf, Over
    <2>2. QED
      BY <2>1, LineInvIs
  <1>2. chars \in Seq(Char) /\ Len(chars) \in Nat /\ DOMAIN chars = 1..Len(chars)
    BY ShellAssumption
  <1>3. Rest(chars, 0)'
    <2>1. 0..(unread' - 1) = {} /\ unread' = 0 /\ 0 + 0 + Len(chars) = Len(chars)
      BY <1>2
    <2>2. \A j \in DOMAIN chars : 0 + 0 + j = j
      BY <1>2
    <2>3. QED
      BY <2>1, <2>2 DEF Rest
  <1>4. Open(chars, 0)'
    <2>1. Typing(chars)[0] = <<>> /\ Len(<<>>) = 0 /\ 1..0 = {}
      BY <1>2, TypingIs
    <2>2. CntNow' = 0
      BY <1>1 DEF Done, CntNow
    <2>3. Buffered(Typing(chars)[0])'
      BY <2>1, <2>2 DEF Buffered
    <2>4. typed \in Seq(Commands) /\ CommandOf[chars] \in Commands /\ lineNo = Len(typed)
      BY <1>1 DEF TypeOK, Commands, Done
    <2>5. ~Blank(chars) => lineNo' + 1 = Len(typed') /\ typed'[lineNo' + 1] = CommandOf[chars]
      BY <2>4
    <2>6. Blank(chars) => lineNo' = Len(typed')
      BY <2>4
    <2>7. QED
      BY <2>1, <2>3, <2>5, <2>6 DEF Open
  <1>5. 0 \in Nat
    OBVIOUS
  <1>6. QED
    BY <1>1, <1>3, <1>4, <1>5 DEF LineInv

\* A byte read: one character more of the line.
LEMMA RestRead ==
  ASSUME TypeOK, unread # 0, unread' = unread - 1, pending' = pending,
         \A k \in 0..(unread' - 1) : Byte(k)' = Byte(k + 1)
  PROVE  /\ OnlyEnds => OnlyEnds' /\ Byte(0) \in Ends
         /\ \A chars \in Lines, r \in Nat :
               Rest(chars, r) => /\ r # Len(chars) /\ r + 1 \in 1..Len(chars)
                                 /\ Byte(0) = chars[r + 1] /\ Rest(chars, r + 1)'
  <1>1. unread \in Nat
    BY DEF TypeOK
  <1>2. ASSUME NEW k \in 0..(unread' - 1)
        PROVE  k + 1 \in 0..(unread - 1) /\ 0 < k + 1 /\ Byte(k)' = Byte(k + 1)
    BY <1>1
  <1>3. 0 \in 0..(unread - 1)
    BY <1>1
  <1>4. OnlyEnds => OnlyEnds' /\ Byte(0) \in Ends
    BY <1>2, <1>3 DEF OnlyEnds
  <1>5. ASSUME NEW chars \in Lines, NEW r \in Nat, Rest(chars, r)
        PROVE  /\ r # Len(chars) /\ r + 1 \in 1..Len(chars)
               /\ Byte(0) = chars[r + 1] /\ Rest(chars, r + 1)'
    <2>1. /\ Len(chars) \in Nat /\ r \in 0..Len(chars) /\ Len(pending) \in Nat
          /\ DOMAIN pending = 1..Len(pending)
      BY <1>5, RestIs
    <2>2. /\ r + unread + Len(pending) = Len(chars)
          /\ \A i \in 0..(unread - 1) : Byte(i) = chars[r + 1 + i]
          /\ \A j \in DOMAIN pending : pending[j] = chars[r + unread + j]
      BY <1>5 DEF Rest
    <2>3. r # Len(chars) /\ r + 1 \in 1..Len(chars) /\ (r + 1) + unread' + Len(pending) = Len(chars)
      BY <1>1, <2>1, <2>2
    <2>4. Byte(0) = chars[r + 1]
      <3>1. Byte(0) = chars[r + 1 + 0] /\ r + 1 + 0 = r + 1
        BY <1>3, <2>2
      <3>2. QED
        BY <3>1
    <2>5. ASSUME NEW k \in 0..(unread' - 1) PROVE Byte(k)' = chars[(r + 1) + 1 + k]
      <3>1. Byte(k)' = chars[r + 1 + (k + 1)] /\ r + 1 + (k + 1) = (r + 1) + 1 + k
        BY <1>2, <2>2
      <3>2. QED
        BY <3>1
    <2>6. ASSUME NEW j \in DOMAIN pending' PROVE pending'[j] = chars[(r + 1) + unread' + j]
      <3>1. j \in Nat /\ r + unread + j = (r + 1) + unread' + j
        BY <1>1, <2>1
      <3>2. QED
        BY <2>2, <3>1
    <2>7. QED
      BY <2>3, <2>4, <2>5, <2>6 DEF Rest
  <1>6. QED
    BY <1>4, <1>5
----------------------------------------------------------------------------
(* The queue and the command buffer, step by step.                         *)

Message == {"ShellCmd", "RadioCmd"}
MainState == {"waiting", "ready", "running", "inRadio", "inCmd"}

LEMMA SendIs ==
  ASSUME TypeOK, NEW msg \in Message, Send(msg)
  PROVE  /\ evtQ' \in Seq(Message) /\ Len(evtQ') <= QLen /\ main' \in MainState
         /\ main' = "inCmd" <=> main = "inCmd"
         /\ QFull \/ msg = "RadioCmd" => InQueue' = InQueue
         /\ ~QFull /\ msg = "ShellCmd" => InQueue' = InQueue \cup {Len(evtQ) + 1}
  <1>1. evtQ \in Seq(Message) /\ Len(evtQ) \in Nat /\ Len(evtQ) <= QLen /\ main \in MainState
        /\ QLen \in Nat
    BY ShellAssumption DEF TypeOK, Message, MainState
  <1>2. CASE QFull
    <2>1. evtQ' = evtQ /\ main' = main
      BY <1>2 DEF Send
    <2>2. QED
      BY <1>1, <1>2, <2>1 DEF InQueue
  <1>3. CASE ~QFull
    <2>1. evtQ' = Append(evtQ, msg) /\ main' = IF main = "waiting" THEN "ready" ELSE main
      BY <1>3 DEF Send
    <2>2. Len(evtQ) < QLen
      BY <1>1, <1>3 DEF QFull
    <2>3. /\ evtQ' \in Seq(Message) /\ Len(evtQ') = Len(evtQ) + 1
          /\ DOMAIN evtQ' = 1..(Len(evtQ) + 1) /\ DOMAIN evtQ = 1..Len(evtQ)
          /\ \A i \in 1..Len(evtQ) : evtQ'[i] = evtQ[i]
          /\ evtQ'[Len(evtQ) + 1] = msg
      BY <1>1, <2>1
    <2>4. Len(evtQ') <= QLen /\ main' \in MainState /\ (main' = "inCmd" <=> main = "inCmd")
      BY <1>1, <2>1, <2>2, <2>3 DEF MainState
    <2>5. \A i \in 1..(Len(evtQ) + 1) : i \in 1..Len(evtQ) \/ i = Len(evtQ) + 1
      BY <1>1
    <2>6. \A i \in 1..Len(evtQ) : i \in 1..(Len(evtQ) + 1) /\ i # Len(evtQ) + 1
      BY <1>1
    <2>7. Len(evtQ) + 1 \in 1..(Len(evtQ) + 1)
      BY <1>1
    <2>8. msg = "RadioCmd" => InQueue' = InQueue
      <3> SUFFICES ASSUME msg = "RadioCmd" PROVE InQueue' = InQueue
        OBVIOUS
      <3>1. msg # "ShellCmd"
        OBVIOUS
      <3>2. \A i : i \in InQueue' <=> i \in InQueue
        BY <2>3, <2>5, <2>6, <3>1 DEF InQueue
      <3>3. QED
        BY <3>2
    <2>9. msg = "ShellCmd" => InQueue' = InQueue \cup {Len(evtQ) + 1}
      <3> SUFFICES ASSUME msg = "ShellCmd" PROVE InQueue' = InQueue \cup {Len(evtQ) + 1}
        OBVIOUS
      <3>1. \A i : i \in InQueue' <=> i \in InQueue \/ i = Len(evtQ) + 1
        BY <2>3, <2>5, <2>6, <2>7 DEF InQueue
      <3>2. QED
        BY <3>1
    <2>10. QED
      BY <1>3, <2>3, <2>4, <2>8, <2>9
  <1>4. QED
    BY <1>2, <1>3

LEMMA FetchIs ==
  ASSUME TypeOK, NEW msg \in Message, Fetch(msg)
  PROVE  /\ evtQ' \in Seq(Message) /\ Len(evtQ') <= QLen
         /\ rx # "loop" /\ main # "inCmd"
         /\ 1 \in InQueue <=> msg = "ShellCmd"
         /\ \A i \in InQueue' : i \in Nat \ {0} /\ i + 1 \in InQueue
         /\ \A i \in InQueue : i # 1 => i - 1 \in InQueue'
  <1>1. evtQ \in Seq(Message) /\ Len(evtQ) \in Nat /\ Len(evtQ) <= QLen /\ QLen \in Nat
    BY ShellAssumption DEF TypeOK, Message
  <1>2. /\ rx # "loop" /\ main \in {"ready", "running"} /\ evtQ # <<>> /\ Head(evtQ) = msg
        /\ evtQ' = Tail(evtQ)
    BY DEF Fetch, MainRuns
  <1>3. /\ evtQ' \in Seq(Message) /\ Len(evtQ') = Len(evtQ) - 1 /\ Len(evtQ) > 0
        /\ DOMAIN evtQ' = 1..(Len(evtQ) - 1) /\ DOMAIN evtQ = 1..Len(evtQ)
        /\ \A i \in 1..(Len(evtQ) - 1) : evtQ'[i] = evtQ[i + 1]
        /\ evtQ[1] = msg
    BY <1>1, <1>2
  <1>4. 1 \in InQueue <=> msg = "ShellCmd"
    BY <1>1, <1>3 DEF InQueue
  <1>5. \A i \in InQueue' : i \in Nat \ {0} /\ i + 1 \in InQueue
    BY <1>1, <1>3 DEF InQueue
  <1>6. ASSUME NEW i \in InQueue, i # 1 PROVE i - 1 \in InQueue'
    <2>1. i \in 1..Len(evtQ) /\ evtQ[i] = "ShellCmd"
      BY <1>3 DEF InQueue
    <2>2. i - 1 \in 1..(Len(evtQ) - 1) /\ (i - 1) + 1 = i
      BY <1>1, <1>6, <2>1
    <2>3. evtQ'[i - 1] = "ShellCmd"
      BY <1>3, <2>1, <2>2
    <2>4. QED
      BY <1>3, <2>2, <2>3 DEF InQueue
  <1>7. QED
    BY <1>1, <1>2, <1>3, <1>4, <1>5, <1>6

LEMMA CntNowIs ==
  ASSUME TypeOK
  PROVE  CntNow \in 0..(CmdSz - 1) /\ CmdSz \in Nat \ {0}
  <1>1. Cnt \in 0..(CmdSz - 1)
    BY DEF TypeOK
  <1>2. CmdSz \in Nat \ {0}
    BY ShellAssumption
  <1>3. QED
    BY <1>1, <1>2 DEF CntNow

LEMMA PutCharIs ==
  ASSUME TypeOK, IString \in CmdStr, NEW c \in Str, PutChar(c)
  PROVE  /\ IString' \in CmdStr /\ Cnt' \in 0..(CmdSz - 1) /\ Completed' = FALSE
         /\ CntNow' = Cnt'
         /\ c \in Ends => Cnt' = CntNow /\ IString' = IString
  <1>1. CntNow \in 0..(CmdSz - 1) /\ CmdSz \in Nat \ {0}
    BY CntNowIs
  <1>2. /\ Completed' = FALSE
        /\ Cnt' = CASE c = "BS" /\ CntNow > 0 -> CntNow - 1
                    [] c \in Kept /\ CntNow < CmdSz - 1 -> CntNow + 1
                    [] OTHER -> CntNow
        /\ IString' = IF c \in Kept /\ CntNow < CmdSz - 1
                      THEN [IString EXCEPT ![CntNow] = c] ELSE IString
    BY DEF PutChar
  <1>3. CntNow' = Cnt'
    BY <1>2 DEF CntNow
  <1> HIDE DEF CntNow
  <1>4. "BS" \notin Kept /\ "BS" \notin Ends /\ (c \in Ends => c \notin Kept)
    BY DEF Kept, Ends
  <1>5. Cnt' \in 0..(CmdSz - 1) /\ (c \in Ends => Cnt' = CntNow)
    <2>1. CASE c = "BS" /\ CntNow > 0
      <3>1. Cnt' = CntNow - 1
        BY <1>2, <1>4, <2>1
      <3>2. QED
        BY <1>1, <1>4, <2>1, <3>1
    <2>2. CASE c \in Kept /\ CntNow < CmdSz - 1
      <3>1. Cnt' = CntNow + 1
        BY <1>2, <1>4, <2>2
      <3>2. QED
        BY <1>1, <1>4, <2>2, <3>1
    <2>3. CASE ~(c = "BS" /\ CntNow > 0) /\ ~(c \in Kept /\ CntNow < CmdSz - 1)
      <3>1. Cnt' = CntNow
        BY <1>2, <2>3
      <3>2. QED
        BY <1>1, <3>1
    <2>4. QED
      BY <2>1, <2>2, <2>3
  <1>6. IString' \in CmdStr /\ (c \in Ends => IString' = IString)
    BY <1>1, <1>2, <1>4 DEF CmdStr
  <1>7. QED
    BY <1>2, <1>3, <1>5, <1>6

\* PutChar edits the line as it is typed.
LEMMA PutCharEdits ==
  ASSUME TypeOK, IString \in CmdStr, NEW c \in Char, PutChar(c), NEW s \in Typed, Buffered(s)
  PROVE  Buffered(Edit(s, c))'
  <1> DEFINE n == CntNow
             u == Edit(s, c)
  <1>1. n \in 0..(CmdSz - 1) /\ CmdSz \in Nat \ {0}
    BY CntNowIs
  <1>2. /\ Completed' = FALSE
        /\ Cnt' = CASE c = "BS" /\ n > 0 -> n - 1
                    [] c \in Kept /\ n < CmdSz - 1 -> n + 1
                    [] OTHER -> n
        /\ IString' = IF c \in Kept /\ n < CmdSz - 1
                      THEN [IString EXCEPT ![n] = c] ELSE IString
    BY DEF PutChar
  <1>3. CntNow' = Cnt'
    BY <1>2 DEF CntNow
  <1>4. /\ s \in Seq(Kept) /\ n = Len(s) /\ \A k \in 1..n : IString[k - 1] = s[k]
        /\ DOMAIN IString = 0..(CmdSz - 1) /\ "BS" \notin Kept
    BY DEF Buffered, Typed, CmdStr, Kept
  <1> HIDE DEF n
  <1>5. CASE c = "BS" /\ n > 0
    <2>1. Cnt' = n - 1 /\ IString' = IString
      BY <1>2, <1>4, <1>5
    <2>2. Len(u) = n - 1 /\ \A k \in 1..(n - 1) : u[k] = s[k]
      BY <1>4, <1>5, EditIs
    <2>3. \A k \in 1..(n - 1) : k \in 1..n
      BY <1>1
    <2> HIDE DEF u
    <2>4. Cnt' = Len(u) /\ \A k \in 1..Len(u) : IString'[k - 1] = u[k]
      BY <1>4, <2>1, <2>2, <2>3
    <2>5. QED
      BY <1>3, <2>4 DEF Buffered, u
  <1>6. CASE c \in Kept /\ n < CmdSz - 1
    <2>1. Cnt' = n + 1 /\ IString' = [IString EXCEPT ![n] = c]
      BY <1>2, <1>4, <1>6
    <2>2. u = Append(s, c)
      BY <1>4, <1>6, EditIs
    <2>3. Len(u) = n + 1 /\ u[n + 1] = c /\ \A k \in 1..n : u[k] = s[k]
      BY <1>4, <2>2
    <2> HIDE DEF u
    <2>4. ASSUME NEW k \in 1..Len(u) PROVE IString'[k - 1] = u[k]
      <3>1. CASE k = n + 1
        <4>1. k - 1 = n /\ n \in 0..(CmdSz - 1)
          BY <1>1, <3>1
        <4>2. QED
          BY <1>4, <2>1, <2>3, <3>1, <4>1
      <3>2. CASE k # n + 1
        <4>1. k \in 1..n /\ k - 1 # n
          BY <1>1, <2>3, <3>2
        <4>2. QED
          BY <1>4, <2>1, <2>3, <4>1
      <3>3. QED
        BY <3>1, <3>2
    <2>5. QED
      BY <1>3, <2>1, <2>3, <2>4 DEF Buffered, u
  <1>7. CASE ~(c = "BS" /\ n > 0) /\ ~(c \in Kept /\ n < CmdSz - 1)
    <2>1. Cnt' = n /\ IString' = IString
      BY <1>2, <1>7
    <2>2. u = s
      BY <1>4, <1>7, EditIs
    <2> HIDE DEF u
    <2>3. QED
      BY <1>3, <1>4, <2>1, <2>2 DEF Buffered, u
  <1>8. QED
    BY <1>5, <1>6, <1>7

LEMMA PutLastIs ==
  ASSUME TypeOK, IString \in CmdStr, PutLast
  PROVE  /\ IString' \in CmdStr /\ Name' \in Places /\ saved' \in Places
         /\ Completed' = TRUE /\ Cnt' \in 0..(CmdSz - 1) /\ CntNow' = 0
  <1>1. CntNow \in 0..(CmdSz - 1) /\ CmdSz \in Nat \ {0}
    BY CntNowIs
  <1> DEFINE str == [IString EXCEPT ![CntNow] = NUL]
  <1>2. /\ IString' = strtok(str, 0).str /\ Name' = strtok(str, 0).tok
        /\ saved' = strtok(str, 0).saved /\ Completed' = TRUE /\ Cnt' = CntNow
    BY DEF PutLast
  <1>3. str \in CmdStr /\ 0 \in Places
    BY <1>1 DEF CmdStr, Places
  <1> HIDE DEF str
  <1>4. QED
    BY <1>1, <1>2, <1>3, StrtokIs DEF CntNow
\* The command completed is the one that was typed.
LEMMA PutLastGives ==
  ASSUME TypeOK, IString \in CmdStr, PutLast, NEW s \in Typed, Buffered(s)
  PROVE  Cmd' = Meaning(s)
  <1> DEFINE str == [IString EXCEPT ![CntNow] = NUL]
             n == CntNow
  <1>1. n \in 0..(CmdSz - 1) /\ CmdSz \in Nat \ {0}
    BY CntNowIs
  <1>2. n = Len(s) /\ \A k \in 1..n : IString[k - 1] = s[k]
    BY DEF Buffered
  <1>3. str \in CmdStr
    BY <1>1 DEF CmdStr
  <1>4. str[Len(s)] = NUL /\ \A k \in 1..Len(s) : str[k - 1] = s[k]
    <2> HIDE DEF n
    <2>1. str = [IString EXCEPT ![n] = NUL] /\ DOMAIN IString = 0..(CmdSz - 1)
      BY DEF CmdStr, n
    <2> HIDE DEF str
    <2>2. \A k \in 1..n : k - 1 # n /\ k - 1 \in 0..(CmdSz - 1)
      BY <1>1
    <2>3. str[n] = NUL /\ \A k \in 1..n : str[k - 1] = s[k]
      BY <1>1, <1>2, <2>1, <2>2
    <2>4. QED
      BY <1>2, <2>3
  <1>5. IString' = strtok(str, 0).str /\ Name' = strtok(str, 0).tok /\ saved' = strtok(str, 0).saved
    BY DEF PutLast
  <1> HIDE DEF str
  <1>6. CmdAt(strtok(str, 0).str, strtok(str, 0).tok, strtok(str, 0).saved) = Meaning(s)
    BY <1>3, <1>4, CommandGiven
  <1>7. QED
    BY <1>5, <1>6, CmdIs

\* Nothing happens to the command in the queue, or to its being there.
LEMMA CmdSame ==
  ASSUME CmdInv, UNCHANGED <<IString, Name, saved, accepted, executed>>,
         InQueue' = {} <=> InQueue = {}
  PROVE  CmdInv'
  <1>1. Cmd' = Cmd
    BY CmdIs
  <1>2. QED
    BY <1>1 DEF CmdInv, CommandKept
----------------------------------------------------------------------------
(* The invariant holds at first, and each action keeps it.                 *)

LEMMA InitIInv == Init => IInv
  <1> SUFFICES ASSUME Init PROVE IInv
    OBVIOUS
  <1> USE ShellAssumption
  <1>1. RxSz \in Nat \ {0} /\ CmdSz \in Nat \ {0} /\ QLen \in Nat /\ MaxUnread \in 1..RxSz
        /\ MaxRadio \in Nat
    OBVIOUS
  <1>2. TypeOK
    <2>1. 0 \in 0..(RxSz - 1) /\ 0 \in 0..(CmdSz - 1) /\ 0 \in 0..RxSz /\ 0 \in 0..MaxRadio
      BY <1>1
    <2>2. /\ IRxBuf \in [0..(RxSz - 1) -> Str] /\ IString \in [0..(CmdSz - 1) -> Str]
      BY DEF Init, Str
    <2>3. /\ <<>> \in Seq(Commands) /\ <<>> \in Seq(Char) /\ <<>> \in Seq({"ShellCmd", "RadioCmd"})
          /\ <<>> \in Seq([name : Seq(Kept), ok : BOOLEAN, numbers : Seq(Seq(Kept))])
          /\ Len(<<>>) = 0 /\ 0 \in 0..0 /\ 0 <= QLen
      BY <1>1
    <2>4. QED
      BY <2>1, <2>2, <2>3 DEF Init, TypeOK
  <1>3. IString \in CmdStr
    BY <1>1 DEF Init, CmdStr
  <1>4. RingInv
    <2>1. 0 % RxSz = 0 /\ 0 + 0 = 0
      BY <1>1
    <2>2. QED
      BY <1>1, <2>1 DEF Init, RingInv, Slot
  <1>5. LineInv
    BY DEF LineInv, Done, Init, CntNow
  <1>6. BusyInv /\ CmdInv
    <2>1. InQueue = {}
      BY DEF InQueue, Init
    <2>2. QED
      BY <2>1 DEF CmdInv, CommandKept, BusyInv, BusyWhileProcessing, Init
  <1>7. QED
    BY <1>2, <1>3, <1>4, <1>5, <1>6 DEF IInv

LEMMA HostLineKeeps ==
  ASSUME Paced, IInv, NEW chars \in Lines, HostLine(chars)
  PROVE  IInv'
  <1>1. /\ Len(typed) < MaxLines /\ pending = <<>> /\ unread = 0 /\ rx # "loop"
        /\ pending' = chars
        /\ typed' = IF Blank(chars) THEN typed ELSE Append(typed, CommandOf[chars])
        /\ UNCHANGED <<ringVars, cmdVars, CmdProcessInProgress, evtQ, rx, main, logVars, radioCnt>>
    BY DEF HostLine
  <1>2. TypeOK /\ LineInv /\ BusyInv /\ CmdInv /\ chars \in Seq(Char)
    BY ShellAssumption DEF IInv
  <1>3. typed \in Seq(Commands) /\ CommandOf[chars] \in Commands
    BY <1>2 DEF TypeOK, Commands
  <1>4. typed' \in Seq(Commands) /\ Len(typed') >= Len(typed) /\ Len(typed) \in Nat /\ Len(typed') \in Nat
    BY <1>1, <1>3
  <1>5. lineNo \in 0..Len(typed) /\ lineNo' = lineNo
    BY <1>1, <1>2 DEF TypeOK, logVars
  <1>6. lineNo' \in 0..Len(typed')
    BY <1>4, <1>5
  <1>7. TypeOK'
    BY <1>1, <1>2, <1>4, <1>6 DEF TypeOK, ringVars, cmdVars, logVars
  <1>8. IString' \in CmdStr /\ RingInv'
    BY <1>1 DEF IInv, RingInv, Slot, ringVars, cmdVars
  <1>9. LineInv'
    BY <1>1, <1>2, LineBegins DEF ringVars, cmdVars, logVars
  <1>10. InQueue' = InQueue /\ CntNow' = CntNow
    BY <1>1 DEF InQueue, CntNow, cmdVars
  <1>11. BusyInv'
    BY <1>1, <1>2, <1>10 DEF BusyInv, BusyWhileProcessing
  <1>12. CmdInv'
    BY <1>1, <1>2, <1>10, CmdSame DEF cmdVars, logVars
  <1>13. QED
    BY <1>7, <1>8, <1>9, <1>11, <1>12 DEF IInv

LEMMA DmaReceiveKeeps ==
  ASSUME IInv, DmaReceive
  PROVE  IInv'
  <1>1. TypeOK /\ RingInv /\ LineInv /\ BusyInv /\ CmdInv
    BY DEF IInv
  <1>2. /\ pending # <<>> /\ pending' = Tail(pending) /\ unread' = unread + 1
        /\ UNCHANGED <<RIndx, cmdVars, CmdProcessInProgress, evtQ, rx, main, typed, logVars, radioCnt>>
    BY DEF DmaReceive
  <1>3. /\ IRxBuf' \in [0..(RxSz - 1) -> Str] /\ WIndx' \in 0..(RxSz - 1)
        /\ unread' \in 0..RxSz /\ RingInv'
        /\ \A k \in 0..(unread' - 1) : Byte(k)' = IF k = unread THEN Head(pending) ELSE Byte(k)
    BY <1>1, DmaRing
  <1>4. pending \in Seq(Char) /\ pending' \in Seq(Char)
    BY <1>1, <1>2 DEF TypeOK
  <1>5. LineInv' /\ (OnlyEnds => OnlyEnds')
    BY <1>1, <1>2, <1>3, LineReceived DEF cmdVars, logVars
  <1>6. TypeOK'
    BY <1>1, <1>2, <1>3, <1>4 DEF TypeOK, cmdVars, logVars
  <1>7. InQueue' = InQueue /\ CntNow' = CntNow
    BY <1>2 DEF InQueue, CntNow, cmdVars
  <1>8. BusyInv'
    BY <1>1, <1>2, <1>5, <1>7 DEF BusyInv, BusyWhileProcessing
  <1>9. CmdInv'
    BY <1>1, <1>2, <1>7, CmdSame DEF cmdVars, logVars
  <1>10. QED
    BY <1>2, <1>3, <1>5, <1>6, <1>8, <1>9 DEF IInv, cmdVars

LEMMA RadioPostsKeeps ==
  ASSUME IInv, RadioPosts
  PROVE  IInv'
  <1>1. TypeOK /\ RingInv /\ LineInv /\ BusyInv /\ CmdInv
    BY DEF IInv
  <1>2. /\ radioCnt < MaxRadio /\ radioCnt' = radioCnt + 1 /\ Send("RadioCmd")
        /\ UNCHANGED <<ringVars, cmdVars, CmdProcessInProgress, rx, hostVars, logVars>>
    BY DEF RadioPosts
  <1>3. /\ evtQ' \in Seq(Message) /\ Len(evtQ') <= QLen /\ main' \in MainState
        /\ main' = "inCmd" <=> main = "inCmd"
        /\ InQueue' = InQueue
    BY <1>1, <1>2, SendIs DEF Message
  <1>4. radioCnt' \in 0..MaxRadio
    <2>1. radioCnt \in 0..MaxRadio /\ MaxRadio \in Nat
      BY <1>1, ShellAssumption DEF TypeOK
    <2>2. QED
      BY <1>2, <2>1
  <1>5. TypeOK'
    BY <1>1, <1>2, <1>3, <1>4 DEF TypeOK, Message, MainState, ringVars, cmdVars, hostVars, logVars
  <1>6. /\ OnlyEnds' <=> OnlyEnds
        /\ RingInv' <=> RingInv
    BY <1>2, RestSame DEF ringVars, hostVars
  <1>7. LineInv'
    BY <1>1, <1>2, LineSame DEF ringVars, cmdVars, hostVars, logVars
  <1>8. BusyInv'
    BY <1>1, <1>2, <1>3, <1>6 DEF BusyInv, BusyWhileProcessing, CntNow, cmdVars
  <1>9. CmdInv'
    BY <1>1, <1>2, <1>3, CmdSame DEF cmdVars, logVars
  <1>10. QED
    BY <1>1, <1>2, <1>5, <1>6, <1>7, <1>8, <1>9 DEF IInv, ringVars, cmdVars

\* UartRx wakes, begins its task, ends it.
LEMMA RxKeeps ==
  ASSUME IInv, RxWake \/ IRxTask \/ IRxTaskEnds
  PROVE  IInv'
  <1>1. TypeOK /\ RingInv /\ LineInv /\ BusyInv /\ CmdInv
    BY DEF IInv
  <1>2. /\ rx' \in {"asleep", "ready", "loop"}
        /\ rx' = "loop" => ~CmdProcessInProgress
        /\ UNCHANGED <<ringVars, cmdVars, CmdProcessInProgress, evtQ, main, hostVars, logVars, radioCnt>>
    BY DEF RxWake, IRxTask, IRxTaskEnds
  <1>3. TypeOK'
    BY <1>1, <1>2 DEF TypeOK, ringVars, cmdVars, hostVars, logVars
  <1>4. /\ OnlyEnds' <=> OnlyEnds
        /\ RingInv' <=> RingInv
    BY <1>2, RestSame DEF ringVars, hostVars
  <1>5. LineInv'
    BY <1>1, <1>2, LineSame DEF ringVars, cmdVars, hostVars, logVars
  <1>6. InQueue' = InQueue /\ CntNow' = CntNow
    BY <1>2 DEF InQueue, CntNow, cmdVars
  <1>7. BusyInv'
    BY <1>1, <1>2, <1>4, <1>6 DEF BusyInv, BusyWhileProcessing
  <1>8. CmdInv'
    BY <1>1, <1>2, <1>6, CmdSame DEF cmdVars, logVars
  <1>9. QED
    BY <1>1, <1>2, <1>3, <1>4, <1>5, <1>7, <1>8 DEF IInv, ringVars, cmdVars

\* main goes on without a message: Fetch finds nothing, or a handler ends.
LEMMA MainKeeps ==
  ASSUME IInv, FetchSleeps \/ RadioCmdEnds \/ OnCmdEnds
  PROVE  IInv'
  <1>1. TypeOK /\ RingInv /\ LineInv /\ BusyInv /\ CmdInv
    BY DEF IInv
  <1>2. /\ main' \in MainState /\ rx # "loop" /\ CmdProcessInProgress' \in BOOLEAN
        /\ UNCHANGED <<ringVars, cmdVars, evtQ, rx, hostVars, logVars, radioCnt>>
        /\ main' # "inCmd"
        /\ IF main = "inCmd" THEN ~CmdProcessInProgress'
                             ELSE CmdProcessInProgress' = CmdProcessInProgress
    BY <1>1 DEF FetchSleeps, RadioCmdEnds, OnCmdEnds, MainRuns, MainState, TypeOK
  <1>3. TypeOK'
    BY <1>1, <1>2 DEF TypeOK, MainState, ringVars, cmdVars, hostVars, logVars
  <1>4. /\ OnlyEnds' <=> OnlyEnds
        /\ RingInv' <=> RingInv
    BY <1>2, RestSame DEF ringVars, hostVars
  <1>5. LineInv'
    BY <1>1, <1>2, LineSame DEF ringVars, cmdVars, hostVars, logVars
  <1>6. InQueue' = InQueue /\ CntNow' = CntNow
    BY <1>2 DEF InQueue, CntNow, cmdVars
  <1>7. BusyInv'
    BY <1>1, <1>2, <1>4, <1>6 DEF BusyInv, BusyWhileProcessing
  <1>8. CmdInv'
    BY <1>1, <1>2, <1>6, CmdSame DEF cmdVars, logVars
  <1>9. QED
    BY <1>1, <1>2, <1>3, <1>4, <1>5, <1>7, <1>8 DEF IInv, ringVars, cmdVars

LEMMA RadioCmdKeeps ==
  ASSUME IInv, RadioCmd
  PROVE  IInv'
  <1>1. TypeOK /\ RingInv /\ LineInv /\ BusyInv /\ CmdInv
    BY DEF IInv
  <1>2. /\ Fetch("RadioCmd") /\ main' \in {"inRadio", "running"}
        /\ UNCHANGED <<ringVars, cmdVars, CmdProcessInProgress, rx, hostVars, logVars, radioCnt>>
    BY DEF RadioCmd
  <1>3. /\ evtQ' \in Seq(Message) /\ Len(evtQ') <= QLen
        /\ rx # "loop" /\ main # "inCmd"
        /\ 1 \notin InQueue
        /\ \A i \in InQueue' : i \in Nat \ {0} /\ i + 1 \in InQueue
        /\ \A i \in InQueue : i # 1 => i - 1 \in InQueue'
    BY <1>1, <1>2, FetchIs DEF Message
  <1>4. TypeOK'
    BY <1>1, <1>2, <1>3 DEF TypeOK, Message, ringVars, cmdVars, hostVars, logVars
  <1>5. /\ OnlyEnds' <=> OnlyEnds
        /\ RingInv' <=> RingInv
    BY <1>2, RestSame DEF ringVars, hostVars
  <1>6. LineInv'
    BY <1>1, <1>2, LineSame DEF ringVars, cmdVars, hostVars, logVars
  <1>7. (InQueue' # {} <=> InQueue # {}) /\ \A i, j \in InQueue' : i = j
    <2>1. \A i, j \in InQueue : i = j
      BY <1>1 DEF BusyInv, BusyWhileProcessing
    <2>2. ASSUME NEW i \in InQueue', NEW j \in InQueue' PROVE i = j
      <3>1. i \in Nat /\ j \in Nat /\ i + 1 = j + 1
        BY <1>3, <2>1
      <3>2. QED
        BY <3>1
    <2>3. QED
      BY <1>3, <2>2
  <1>8. BusyInv'
    BY <1>1, <1>2, <1>3, <1>5, <1>7 DEF BusyInv, BusyWhileProcessing, CntNow, cmdVars
  <1>9. CmdInv'
    BY <1>1, <1>2, <1>7, CmdSame DEF cmdVars, logVars
  <1>10. QED
    BY <1>1, <1>2, <1>4, <1>5, <1>6, <1>8, <1>9 DEF IInv, ringVars, cmdVars

LEMMA OnCmdKeeps ==
  ASSUME IInv, OnCmd
  PROVE  IInv'
  <1>1. TypeOK /\ RingInv /\ LineInv /\ BusyInv /\ CmdInv /\ IString \in CmdStr
    BY DEF IInv
  <1>2. /\ Fetch("ShellCmd") /\ Carried
        /\ \/ main' = "inCmd" /\ CmdProcessInProgress' = CmdProcessInProgress
           \/ main' = "running" /\ CmdProcessInProgress' = FALSE
        /\ UNCHANGED <<ringVars, rx, hostVars, lineNo, accepted, radioCnt>>
    BY DEF OnCmd
  <1>3. /\ evtQ' \in Seq(Message) /\ Len(evtQ') <= QLen
        /\ rx # "loop" /\ main # "inCmd"
        /\ 1 \in InQueue
        /\ \A i \in InQueue' : i \in Nat \ {0} /\ i + 1 \in InQueue
    BY <1>1, <1>2, FetchIs DEF Message
  <1>4. /\ executed' = Append(executed, CmdFrom(CmdParams))
        /\ IString' = CmdParams.str /\ saved' = CmdParams.saved
        /\ Cnt' = Cnt /\ Completed' = Completed /\ Name' = Name
    BY <1>2 DEF Carried
  <1>5. Name \in Places /\ saved \in Places
    BY <1>1 DEF TypeOK, Places
  <1>6. /\ CmdParams \in ParamState
        /\ CmdFrom(CmdParams) \in [name : Seq(Kept), ok : BOOLEAN, numbers : Seq(Seq(Kept))]
    BY <1>1, <1>5, CmdParamsIs
  <1>7. IString' \in CmdStr /\ saved' \in Places
    BY <1>4, <1>6 DEF ParamState
  <1>8. IString' \in [0..(CmdSz - 1) -> Str]
    BY <1>7 DEF CmdStr, Str, Char
  <1>9. executed' \in Seq([name : Seq(Kept), ok : BOOLEAN, numbers : Seq(Seq(Kept))])
    <2>1. executed \in Seq([name : Seq(Kept), ok : BOOLEAN, numbers : Seq(Seq(Kept))])
      BY <1>1 DEF TypeOK
    <2>2. QED
      BY <1>4, <1>6, <2>1
  <1>10. TypeOK'
    BY <1>1, <1>2, <1>3, <1>4, <1>7, <1>8, <1>9
       DEF TypeOK, Message, Places, ringVars, hostVars
  <1>11. /\ OnlyEnds' <=> OnlyEnds
         /\ RingInv' <=> RingInv
    BY <1>2, RestSame DEF ringVars, hostVars
  <1>12. CmdProcessInProgress /\ CntNow = 0 /\ InQueue # {}
    BY <1>1, <1>3 DEF BusyInv, BusyWhileProcessing
  <1>13. InQueue' = {}
    <2> SUFFICES ASSUME NEW i \in InQueue' PROVE FALSE
      OBVIOUS
    <2>1. i \in Nat \ {0} /\ i + 1 = 1
      BY <1>1, <1>3 DEF BusyInv, BusyWhileProcessing
    <2>2. QED
      BY <2>1
  <1>14. LineInv'
    BY <1>1, <1>2, <1>4, <1>12, LineSame DEF ringVars, hostVars
  <1>15. BusyInv'
    BY <1>1, <1>2, <1>3, <1>4, <1>12, <1>13 DEF BusyInv, BusyWhileProcessing, CntNow
  <1>16. CmdInv'
    <2>1. Len(executed') = Len(executed) + 1
      BY <1>1, <1>4 DEF TypeOK
    <2>2. Len(accepted) = Len(executed) + 1 /\ Len(executed) \in Nat
      BY <1>1, <1>12 DEF CmdInv, TypeOK
    <2>3. QED
      BY <1>2, <1>13, <2>1, <2>2 DEF CmdInv, CommandKept
  <1>17. QED
    BY <1>7, <1>10, <1>11, <1>2, <1>1, <1>14, <1>15, <1>16 DEF IInv, ringVars

\* A byte that does not complete a command.
LEMMA PutCharKeepsLine ==
  ASSUME TypeOK, LineInv, IString \in CmdStr, NEW b \in Str, b = Byte(0), PutChar(b),
         ~(b \in Ends /\ CntNow # 0),
         unread # 0, unread' = unread - 1, pending' = pending, typed' = typed,
         \A k \in 0..(unread' - 1) : Byte(k)' = Byte(k + 1)
  PROVE  LineInv'
  <1>1. /\ IString' \in CmdStr /\ CntNow' = Cnt'
        /\ b \in Ends => Cnt' = CntNow /\ IString' = IString
        /\ lineNo' = lineNo
    BY PutCharIs DEF PutChar
  <1>2. ASSUME NEW chars \in Lines, NEW r \in Nat, LineOf(chars, r) PROVE LineInv'
    <2>1. /\ r # Len(chars) /\ r + 1 \in 1..Len(chars) /\ b = chars[r + 1] /\ Rest(chars, r + 1)'
          /\ chars \in Seq(Char) /\ WellEnded(chars) /\ r \in 0..Len(chars) /\ Len(chars) \in Nat
          /\ Typing(chars)[r] \in Typed /\ r + 1 \in Nat
      BY <1>2, RestIs, RestRead DEF LineOf
    <2>2. CASE Over(chars, r)
      <3>1. r + 1 \in (r + 1)..Len(chars)
        BY <2>1
      <3>2. b \in Ends /\ \A k \in (r + 1 + 1)..Len(chars) : chars[k] \in Ends
        BY <2>1, <2>2, <3>1 DEF Over
      <3>3. Done'
        BY <1>1, <2>2, <3>2 DEF Over, Done
      <3>4. Over(chars, r + 1)'
        BY <3>2, <3>3 DEF Over
      <3>5. QED
        BY <2>1, <3>4 DEF LineInv
    <2>3. CASE Open(chars, r) /\ b \in Ends
      <3>1. CntNow = 0
        BY <2>3
      <3>2. (\A k \in (r + 1)..Len(chars) : chars[k] \in Ends) /\ Edited(chars) = Typing(chars)[r]
        BY <2>1, <2>3, EndsOnly
      <3>3. Blank(chars)
        <4>1. Len(Typing(chars)[r]) = 0
          BY <2>3, <3>1 DEF Open, Buffered
        <4>2. Typing(chars)[r] = <<>>
          BY <2>1, <4>1 DEF Typed
        <4>3. QED
          BY <3>2, <4>2 DEF Blank
      <3>4. Done'
        BY <1>1, <2>3, <3>1, <3>3 DEF Open, Done
      <3>5. \A k \in (r + 1 + 1)..Len(chars) : chars[k] \in Ends
        BY <2>1, <3>2
      <3>6. Over(chars, r + 1)'
        BY <3>4, <3>5 DEF Over
      <3>7. QED
        BY <2>1, <3>6 DEF LineInv
    <2>4. CASE Open(chars, r) /\ b \notin Ends
      <3>1. b \in Char /\ Typing(chars)[r + 1] = Edit(Typing(chars)[r], b)
        <4>1. r + 1 - 1 = r
          BY <2>1
        <4>2. Typing(chars)[r + 1] = Edit(Typing(chars)[r + 1 - 1], chars[r + 1])
          BY <2>1, TypingIs
        <4>3. QED
          BY <2>1, <4>1, <4>2
      <3>2. Buffered(Typing(chars)[r + 1])'
        <4>1. Buffered(Typing(chars)[r])
          BY <2>4 DEF Open
        <4>2. Buffered(Edit(Typing(chars)[r], b))'
          BY <2>1, <3>1, <4>1, PutCharEdits
        <4>3. QED
          BY <3>1, <4>2
      <3>3. \A k \in 1..(r + 1) : chars[k] \notin Ends
        <4>1. \A k \in 1..(r + 1) : k \in 1..r \/ k = r + 1
          BY <2>1
        <4>2. QED
          BY <2>1, <2>4, <4>1 DEF Open
      <3>4. Open(chars, r + 1)'
        BY <1>1, <2>4, <3>2, <3>3 DEF Open
      <3>5. QED
        BY <2>1, <3>4 DEF LineInv
    <2>5. QED
      BY <1>2, <2>2, <2>3, <2>4 DEF LineOf
  <1>3. QED
    BY <1>2, LineInvIs

\* The byte that completes a command: it is the last one typed.
LEMMA PutLastKeepsLine ==
  ASSUME TypeOK, LineInv, IString \in CmdStr, NEW b \in Ends, b = Byte(0), CntNow # 0, PutLast,
         unread # 0, unread' = unread - 1, pending' = pending, typed' = typed,
         \A k \in 0..(unread' - 1) : Byte(k)' = Byte(k + 1)
  PROVE  LineInv' /\ OnlyEnds' /\ lineNo + 1 = Len(typed) /\ Cmd' = typed[lineNo + 1]
  <1>1. CntNow' = 0 /\ lineNo' = lineNo + 1
    BY PutLastIs DEF PutLast
  <1>2. ASSUME NEW chars \in Lines, NEW r \in Nat, LineOf(chars, r)
        PROVE  LineInv' /\ OnlyEnds' /\ lineNo + 1 = Len(typed) /\ Cmd' = typed[lineNo + 1]
    <2>1. /\ r # Len(chars) /\ r + 1 \in 1..Len(chars) /\ b = chars[r + 1] /\ Rest(chars, r + 1)'
          /\ chars \in Seq(Char) /\ WellEnded(chars) /\ r \in 0..Len(chars) /\ Len(chars) \in Nat
          /\ Typing(chars)[r] \in Typed /\ r + 1 \in Nat
      BY <1>2, RestIs, RestRead DEF LineOf
    <2>2. Open(chars, r)
      BY <1>2 DEF LineOf, Over, Done
    <2>3. (\A k \in (r + 1)..Len(chars) : chars[k] \in Ends) /\ Edited(chars) = Typing(chars)[r]
      BY <2>1, EndsOnly
    <2>4. ~Blank(chars)
      <3>1. Len(Typing(chars)[r]) # 0
        BY <2>2 DEF Open, Buffered
      <3>2. Typing(chars)[r] # <<>>
        BY <3>1
      <3>3. QED
        BY <2>3, <3>2 DEF Blank
    <2>5. lineNo + 1 = Len(typed) /\ typed[lineNo + 1] = CommandOf[chars]
      BY <2>2, <2>4 DEF Open
    <2>6. Cmd' = Meaning(Typing(chars)[r])
      BY <2>1, <2>2, PutLastGives DEF Open
    <2>7. CommandOf[chars] = Meaning(Typing(chars)[r])
      BY <2>3 DEF CommandOf
    <2>8. Over(chars, r + 1)'
      <3>1. \A k \in (r + 1 + 1)..Len(chars) : chars[k] \in Ends
        BY <2>1, <2>3
      <3>2. Done'
        BY <1>1, <2>5 DEF Done
      <3>3. QED
        BY <3>1, <3>2 DEF Over
    <2>9. OnlyEnds'
      <3>1. unread' \in Nat /\ Len(pending') \in Nat /\ DOMAIN pending' = 1..Len(pending')
        <4>1. unread \in Nat /\ pending \in Seq(Char)
          BY DEF TypeOK
        <4>2. QED
          BY <4>1
      <3>2. /\ (r + 1) + unread' + Len(pending') = Len(chars)
            /\ \A i \in 0..(unread' - 1) : Byte(i)' = chars[(r + 1) + 1 + i]
            /\ \A j \in DOMAIN pending' : pending'[j] = chars[(r + 1) + unread' + j]
        BY <2>1 DEF Rest
      <3>3. ASSUME NEW i \in 0..(unread' - 1) PROVE Byte(i)' \in Ends
        <4>1. (r + 1) + 1 + i \in (r + 1)..Len(chars)
          BY <2>1, <3>1, <3>2
        <4>2. QED
          BY <2>3, <3>2, <4>1
      <3>4. ASSUME NEW j \in DOMAIN pending' PROVE pending'[j] \in Ends
        <4>1. (r + 1) + unread' + j \in (r + 1)..Len(chars)
          BY <2>1, <3>1, <3>2
        <4>2. QED
          BY <2>3, <3>2, <4>1
      <3>5. QED
        BY <3>3, <3>4 DEF OnlyEnds
    <2>10. QED
      BY <2>1, <2>5, <2>6, <2>7, <2>8, <2>9 DEF LineInv
  <1>3. QED
    BY <1>2, LineInvIs

\* One turn of UartRx's loop.
LEMMA IRxTaskByteKeeps ==
  ASSUME IInv, IRxTaskByte
  PROVE  IInv'
  <1>1. TypeOK /\ RingInv /\ LineInv /\ BusyInv /\ CmdInv /\ IString \in CmdStr
    BY DEF IInv
  <1>2. /\ rx = "loop" /\ GetRcvdBytesCnt # 0
        /\ RIndx' = (RIndx + 1) % RxSz /\ unread' = unread - 1
        /\ UNCHANGED <<IRxBuf, WIndx, rx, hostVars, executed, radioCnt>>
    BY DEF IRxTaskByte
  <1>3. /\ RIndx' \in 0..(RxSz - 1) /\ unread' \in 0..RxSz /\ unread # 0 /\ RingInv'
        /\ IRxBuf[RIndx] = Byte(0)
        /\ \A k \in 0..(unread' - 1) : Byte(k)' = Byte(k + 1)
    BY <1>1, <1>2, ReadRing
  <1>4. pending' = pending /\ typed' = typed
    BY <1>2 DEF hostVars
  <1>5. OnlyEnds => OnlyEnds' /\ Byte(0) \in Ends
    BY <1>1, <1>2, <1>3, <1>4, RestRead
  <1> DEFINE b == IRxBuf[RIndx]
  <1>6. b \in Str
    BY <1>1 DEF TypeOK
  <1>7. CASE b \in Ends /\ CntNow # 0
    <2>1. PutLast /\ Send("ShellCmd") /\ CmdProcessInProgress' = ~QFull
      BY <1>7 DEF IRxTaskByte, NewCmd
    <2>2. /\ IString' \in CmdStr /\ Name' \in Places /\ saved' \in Places
          /\ Completed' = TRUE /\ Cnt' \in 0..(CmdSz - 1) /\ CntNow' = 0
      BY <1>1, <2>1, PutLastIs
    <2>3. IString' \in [0..(CmdSz - 1) -> Str]
      BY <2>2 DEF CmdStr, Str, Char
    <2>4. /\ evtQ' \in Seq(Message) /\ Len(evtQ') <= QLen /\ main' \in MainState
          /\ main' = "inCmd" <=> main = "inCmd"
          /\ QFull => InQueue' = InQueue
          /\ ~QFull => InQueue' = InQueue \cup {Len(evtQ) + 1}
      BY <1>1, <2>1, SendIs DEF Message
    <2>5. LineInv' /\ OnlyEnds' /\ lineNo + 1 = Len(typed) /\ Cmd' = typed[lineNo + 1]
      BY <1>1, <1>2, <1>3, <1>4, <1>7, <2>1, PutLastKeepsLine
    <2>6. ~CmdProcessInProgress /\ InQueue = {}
      BY <1>1, <1>7 DEF BusyInv, BusyWhileProcessing
    <2>7. lineNo + 1 \in 1..Len(typed) /\ lineNo' = lineNo + 1
      BY <1>1, <2>1, <2>5 DEF TypeOK, PutLast
    <2>8. accepted' = IF QFull THEN accepted ELSE Append(accepted, typed[lineNo + 1])
      BY <2>1 DEF PutLast
    <2>9. accepted \in Seq(Commands) /\ typed[lineNo + 1] \in Commands
      BY <1>1, <2>7 DEF TypeOK
    <2>10. accepted' \in Seq(Commands)
      BY <2>8, <2>9
    <2>11. lineNo' \in 0..Len(typed')
      BY <1>4, <2>7
    <2>12. CmdProcessInProgress' \in BOOLEAN
      BY <2>1
    <2>13. TypeOK'
      BY <1>1, <1>2, <1>3, <1>4, <2>2, <2>3, <2>4, <2>10, <2>11, <2>12
         DEF TypeOK, Message, MainState, Places
    <2>14. BusyInv'
      BY <1>1, <2>1, <2>2, <2>4, <2>5, <2>6 DEF BusyInv, BusyWhileProcessing
    <2>15. CmdInv'
      <3>1. Len(accepted) = Len(executed) /\ executed' = executed /\ Len(accepted) \in Nat
        BY <1>1, <1>2, <2>6, <2>9 DEF CmdInv, TypeOK
      <3>2. CASE QFull
        BY <2>4, <2>6, <2>8, <3>1, <3>2 DEF CmdInv, CommandKept
      <3>3. CASE ~QFull
        <4>1. /\ Len(accepted') = Len(executed') + 1
              /\ accepted'[Len(executed') + 1] = typed[lineNo + 1]
          BY <2>8, <2>9, <3>1, <3>3
        <4>2. InQueue' # {}
          BY <2>4, <3>3
        <4>3. QED
          BY <2>5, <4>1, <4>2 DEF CmdInv, CommandKept
      <3>4. QED
        BY <3>2, <3>3
    <2>16. QED
      BY <1>3, <2>2, <2>5, <2>13, <2>14, <2>15 DEF IInv
  <1>8. CASE ~(b \in Ends /\ CntNow # 0)
    <2>1. PutChar(b)
      BY <1>8 DEF IRxTaskByte
    <2>2. /\ IString' \in CmdStr /\ Cnt' \in 0..(CmdSz - 1) /\ Completed' = FALSE
          /\ CntNow' = Cnt'
          /\ b \in Ends => Cnt' = CntNow /\ IString' = IString
      BY <1>1, <1>6, <2>1, PutCharIs
    <2>3. UNCHANGED <<Name, saved, CmdProcessInProgress, evtQ, main, lineNo, accepted>>
      BY <2>1 DEF PutChar
    <2>4. IString' \in [0..(CmdSz - 1) -> Str]
      BY <2>2 DEF CmdStr, Str, Char
    <2>5. TypeOK'
      BY <1>1, <1>2, <1>3, <1>4, <2>2, <2>3, <2>4 DEF TypeOK
    <2>6. CmdProcessInProgress => OnlyEnds' /\ CntNow' = 0 /\ IString' = IString
      BY <1>1, <1>2, <1>3, <1>5, <2>2 DEF BusyInv
    <2>7. LineInv'
      <3>1. b = Byte(0)
        BY <1>3
      <3> HIDE DEF b
      <3>2. QED
        BY <1>1, <1>2, <1>3, <1>4, <1>6, <1>8, <2>1, <3>1, PutCharKeepsLine
    <2>8. InQueue' = InQueue
      BY <2>3 DEF InQueue
    <2>9. BusyInv'
      BY <1>1, <1>2, <2>3, <2>6, <2>8 DEF BusyInv, BusyWhileProcessing
    <2>10. CmdInv'
      <3>1. CASE InQueue = {}
        BY <1>1, <1>2, <2>3, <2>8, <3>1 DEF CmdInv, CommandKept
      <3>2. CASE InQueue # {}
        <4>1. IString' = IString
          BY <1>1, <2>6, <3>2 DEF BusyInv, BusyWhileProcessing
        <4>2. QED
          BY <1>1, <1>2, <2>3, <2>8, <4>1, CmdSame
      <3>3. QED
        BY <3>1, <3>2
    <2>11. QED
      BY <1>3, <2>2, <2>5, <2>7, <2>9, <2>10 DEF IInv
  <1>9. QED
    BY <1>7, <1>8

LEMMA StutterKeeps == IInv /\ UNCHANGED vars => IInv'
  <1> SUFFICES ASSUME IInv, UNCHANGED vars PROVE IInv'
    OBVIOUS
  <1>1. UNCHANGED <<IRxBuf, WIndx, RIndx, unread, IString, Cnt, Completed, Name, saved,
                    CmdProcessInProgress, evtQ, rx, main, pending, typed, lineNo, accepted,
                    executed, radioCnt>>
    BY DEF vars, ringVars, cmdVars, hostVars, logVars
  <1>2. (OnlyEnds' <=> OnlyEnds) /\ (RingInv' <=> RingInv)
    BY <1>1, RestSame
  <1>3. InQueue' = InQueue /\ CntNow' = CntNow
    BY <1>1 DEF InQueue, CntNow
  <1>4. TypeOK'
    BY <1>1 DEF IInv, TypeOK
  <1>5. LineInv'
    BY <1>1, LineSame DEF IInv
  <1>6. BusyInv'
    BY <1>1, <1>2, <1>3 DEF IInv, BusyInv, BusyWhileProcessing
  <1>7. CmdInv'
    BY <1>1, <1>3, CmdSame DEF IInv
  <1>8. QED
    BY <1>1, <1>2, <1>4, <1>5, <1>6, <1>7 DEF IInv

LEMMA NextIInv == Paced /\ IInv /\ [Next]_vars => IInv'
  BY HostLineKeeps, DmaReceiveKeeps, RadioPostsKeeps, RxKeeps, MainKeeps, RadioCmdKeeps,
     OnCmdKeeps, IRxTaskByteKeeps, StutterKeeps DEF Next, Host, UartRx, MainThread

\* With a host that waits until its line was read: types, the ring, what is left
\* of the line, the busy flag and the one command, whatever the radio and the
\* queue do.
THEOREM InductiveInvariant == Paced /\ Spec => []IInv
  <1> SUFFICES ASSUME Paced PROVE Spec => []IInv
    OBVIOUS
  <1>1. Init => IInv
    BY InitIInv
  <1>2. IInv /\ [Next]_vars => IInv'
    BY NextIInv
  <1>3. QED
    BY <1>1, <1>2, PTL DEF Spec

\* PutChar and strtok (shell.h) never leave the command buffer, the indices never
\* leave the ring, and EvtQMain is never overfilled.
THEOREM TypeCorrect == Paced /\ Spec => []TypeOK
  <1>1. IInv => TypeOK
    BY DEF IInv
  <1>2. QED
    BY <1>1, InductiveInvariant, PTL

\* GetRcvdBytesCnt (uart.cpp:134) counts the bytes not read, for every size of
\* the buffer, as long as it is never quite full.
THEOREM UnprocessedAlwaysCounted == Paced /\ MaxUnread < RxSz /\ Spec => []UnprocessedCounted
  <1> SUFFICES ASSUME MaxUnread < RxSz PROVE Paced /\ Spec => []UnprocessedCounted
    OBVIOUS
  <1>1. IInv => UnprocessedCounted
    <2> SUFFICES ASSUME IInv PROVE UnprocessedCounted
      OBVIOUS
    <2>1. TypeOK /\ RingInv
      BY DEF IInv
    <2>2. unread < RxSz
      BY <2>1, ShellAssumption DEF RingInv, TypeOK
    <2>3. QED
      BY <2>1, <2>2, CountIs DEF UnprocessedCounted
  <1>2. QED
    BY <1>1, InductiveInvariant, PTL

\* CmdProcessInProgress (uart.cpp:288-294) is set exactly while a command is in
\* the queue or in its handler, and there is never a second one.
THEOREM BusyExactlyWhileProcessing == Paced /\ Spec => []BusyWhileProcessing
  <1>1. IInv => BusyWhileProcessing
    BY DEF IInv, BusyInv
  <1>2. QED
    BY <1>1, InductiveInvariant, PTL

\* While the message about a command is in the queue nobody but main, when it
\* executes it, changes what the one Cmd_t says.
THEOREM CommandUntouched ==
    Paced /\ Spec => [][InQueue # {} => OnCmd \/ UNCHANGED <<IString, Name, saved>>]_vars
  <1> SUFFICES ASSUME Paced
               PROVE  Spec => [][InQueue # {} => OnCmd \/ UNCHANGED <<IString, Name, saved>>]_vars
    OBVIOUS
  <1>1. IInv /\ [Next]_vars
            => [InQueue # {} => OnCmd \/ UNCHANGED <<IString, Name, saved>>]_vars
    <2> SUFFICES ASSUME IInv, Next, InQueue # {}
                 PROVE  OnCmd \/ UNCHANGED <<IString, Name, saved>>
      OBVIOUS
    <2>1. CASE IRxTaskByte
      <3>1. TypeOK /\ RingInv /\ BusyInv /\ IString \in CmdStr
        BY DEF IInv
      <3>2. rx = "loop" /\ CmdProcessInProgress
        BY <2>1, <3>1 DEF IRxTaskByte, BusyInv, BusyWhileProcessing
      <3>3. OnlyEnds /\ CntNow = 0
        BY <3>1, <3>2 DEF BusyInv
      <3>4. unread # 0 /\ IRxBuf[RIndx] = Byte(0)
        BY <2>1, <3>1, ReadRing DEF IRxTaskByte
      <3>5. IRxBuf[RIndx] \in Ends /\ IRxBuf[RIndx] \in Str
        <4>1. 0 \in 0..(unread - 1)
          BY <3>1, <3>4 DEF TypeOK
        <4>2. QED
          BY <3>3, <3>4, <4>1 DEF OnlyEnds, Ends, Str, Char
      <3>6. PutChar(IRxBuf[RIndx])
        BY <2>1, <3>3 DEF IRxTaskByte
      <3>7. IString' = IString
        BY <3>1, <3>5, <3>6, PutCharIs
      <3>8. QED
        BY <3>6, <3>7 DEF PutChar
    <2>2. CASE ~IRxTaskByte /\ ~OnCmd
      BY <2>2 DEF Next, Host, UartRx, MainThread, HostLine, DmaReceive, RadioPosts, RxWake, IRxTask,
                  IRxTaskEnds, FetchSleeps, RadioCmd, RadioCmdEnds, OnCmdEnds, cmdVars
    <2>3. QED
      BY <2>1, <2>2
  <1>2. QED
    BY <1>1, InductiveInvariant, PTL DEF Spec

\* The one Cmd_t, written in place by PutChar and strtok and read by main a long
\* time after, is still the command that the message in the queue is about.
THEOREM CommandAlwaysKept == Paced /\ Spec => []CommandKept
  <1>1. IInv => CommandKept
    BY DEF IInv, CmdInv
  <1>2. QED
    BY <1>1, InductiveInvariant, PTL

\* A command completed is put in the FIFO, unless EvtQMain is full.
LEMMA NewCmdPuts ==
  ASSUME IInv, IRxTaskByte
  PROVE  executed' = executed /\ ((\E m \in Commands : Fifo!Put(m)) \/ accepted' = accepted)
  <1>1. TypeOK /\ RingInv /\ LineInv /\ BusyInv /\ CmdInv /\ IString \in CmdStr
    BY DEF IInv
  <1>2. /\ rx = "loop" /\ GetRcvdBytesCnt # 0 /\ RIndx' = (RIndx + 1) % RxSz
        /\ unread' = unread - 1 /\ UNCHANGED <<IRxBuf, WIndx, hostVars, executed>>
    BY DEF IRxTaskByte
  <1> DEFINE b == IRxBuf[RIndx]
  <1>3. CASE ~(b \in Ends /\ CntNow # 0)
    BY <1>2, <1>3 DEF IRxTaskByte, PutChar
  <1>4. CASE b \in Ends /\ CntNow # 0
    <2>1. PutLast
      BY <1>4 DEF IRxTaskByte, NewCmd
    <2>2. /\ unread # 0 /\ b = Byte(0) /\ \A k \in 0..(unread' - 1) : Byte(k)' = Byte(k + 1)
      BY <1>1, <1>2, ReadRing
    <2>3. lineNo + 1 = Len(typed)
      <3> HIDE DEF b
      <3>1. QED
        BY <1>1, <1>2, <1>4, <2>1, <2>2, PutLastKeepsLine DEF hostVars
    <2>4. typed[lineNo + 1] \in Commands
      BY <1>1, <2>3 DEF TypeOK
    <2>5. Len(accepted) - Len(executed) < 1
      <3>1. InQueue = {}
        BY <1>1, <1>2, <1>4 DEF BusyInv, BusyWhileProcessing
      <3>2. Len(accepted) = Len(executed) /\ Len(accepted) \in Nat
        BY <1>1, <3>1 DEF CmdInv, TypeOK
      <3>3. QED
        BY <3>2
    <2>6. accepted' = accepted \/ accepted' = Append(accepted, typed[lineNo + 1])
      BY <2>1 DEF PutLast
    <2>7. QED
      BY <1>2, <2>4, <2>5, <2>6 DEF Fifo!Put
  <1>5. QED
    BY <1>3, <1>4

\* A command executed is the next one of the FIFO.
LEMMA OnCmdGets ==
  ASSUME IInv, OnCmd
  PROVE  Fifo!Get
  <1>1. TypeOK /\ CmdInv
    BY DEF IInv
  <1>2. executed' = Append(executed, Cmd) /\ accepted' = accepted
    BY DEF OnCmd, Carried, Cmd
  <1>3. InQueue # {}
    BY <1>1, FetchIs DEF OnCmd, Message
  <1>4. Cmd = accepted[Len(executed) + 1] /\ Len(accepted) = Len(executed) + 1
    BY <1>1, <1>3 DEF CmdInv, CommandKept
  <1>5. Len(executed) < Len(accepted)
    <2>1. Len(executed) \in Nat
      BY <1>1 DEF TypeOK
    <2>2. QED
      BY <1>4, <2>1
  <1>6. QED
    BY <1>2, <1>4, <1>5 DEF Fifo!Get

\* The shell implements a FIFO with one place: every command typed, unless it was
\* refused by a full queue, is executed once, in its order, as it was typed (name
\* and numbers), and none is begun before the one before it was executed.
THEOREM ImplementsFifo == Paced /\ Spec => OneCommandAtATime
  <1> SUFFICES ASSUME Paced PROVE Spec => Fifo!Spec
    BY DEF OneCommandAtATime
  <1>1. Init => Fifo!Init
    BY DEF Init, Fifo!Init
  <1>2. IInv /\ [Next]_vars => [Fifo!Next]_(Fifo!vars)
    <2> SUFFICES ASSUME IInv, [Next]_vars
                 PROVE  Fifo!Next \/ UNCHANGED <<accepted, executed>>
      BY DEF Fifo!vars
    <2>1. CASE IRxTaskByte
      BY <2>1, NewCmdPuts DEF Fifo!Next
    <2>2. CASE OnCmd
      BY <2>2, OnCmdGets DEF Fifo!Next
    <2>3. CASE ~IRxTaskByte /\ ~OnCmd
      BY <2>3 DEF Next, Host, UartRx, MainThread, HostLine, DmaReceive, RadioPosts, RxWake, IRxTask,
                  IRxTaskEnds, FetchSleeps, RadioCmd, RadioCmdEnds, OnCmdEnds, logVars, vars
    <2>4. QED
      BY <2>1, <2>2, <2>3
  <1>3. QED
    BY <1>1, <1>2, InductiveInvariant, PTL DEF Spec, Fifo!Spec
=============================================================================
