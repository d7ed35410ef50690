------------------------------- MODULE Shell -------------------------------
(***************************************************************************)
(* The command line of the device: a host types lines, a circular DMA puts *)
(* the bytes in IRxBuf, the UartRx thread polls them every 99 ms and makes *)
(* commands of them (IRxTask, Cmd_t::PutChar), the main thread is told of  *)
(* a command by a message in EvtQMain and executes it (ITask, OnCmd).      *)
(*                                                                         *)
(* There is one Cmd_t, written by UartRx and read by main; the flag        *)
(* CmdProcessInProgress is what is meant to keep them apart.  Both threads *)
(* run at NORMALPRIO, with no time slice: neither is taken off the CPU for *)
(* the other, except where main resumes the Effects thread and goes behind *)
(* UartRx in the ready list (chSchWakeupS).  The DMA and the radio thread  *)
(* (HIGHPRIO) come in anywhere.                                            *)
(*                                                                         *)
(* EvtQMain is a bounded queue here; EvtMsgQ shows that it is one.  A line *)
(* is a name and parameters; only the characters that PutChar, strtok and  *)
(* strtol treat in a way of their own are told apart, and a word that      *)
(* strtol takes for a number stands for the number.                        *)
(***************************************************************************)
EXTENDS Integers, Sequences, FiniteSets, SequencesExt

CONSTANTS Lines,      \* the lines the host may type: sequences of characters
          Params,     \* commands that start an effect (Fade, RGBW, Prc) and how
                      \* many numbers each of them takes
          RxSz,       \* UART_RXBUF_SZ
          CmdSz,      \* CMD_BUF_SZ
          QLen,       \* MAIN_EVT_Q_LEN
          Paced,      \* the host starts a line only when those before were read
          MaxUnread,  \* the host leaves no more than so many bytes unread
          MaxLines,   \* bound: lines typed in a behaviour
          MaxRadio    \* bound: radio messages in a behaviour

Kept == {"a", "b", "1", "SP"}       \* what PutChar stores; "SP" is a delimiter
Ends == {"CR", "LF"}                \* either completes a line
Char == Kept \cup Ends \cup {"BS"}
NUL  == "NUL"
None == -1                          \* a null pointer into IString

\* A line is its characters and then its end.
WellEnded(chars) ==
    /\ chars # <<>> /\ chars[Len(chars)] \in Ends
    /\ \A i, j \in DOMAIN chars : i < j /\ chars[i] \in Ends => chars[j] \in Ends

ASSUME ShellAssumption ==
    /\ Lines \subseteq Seq(Char) /\ \A chars \in Lines : WellEnded(chars)
    /\ Params \in [DOMAIN Params -> Nat \ {0}]
    /\ RxSz \in Nat \ {0} /\ CmdSz \in Nat \ {0} /\ QLen \in Nat \ {0}
    /\ Paced \in BOOLEAN
    /\ MaxUnread \in 1..RxSz
    /\ MaxLines \in Nat /\ MaxRadio \in Nat

VARIABLES
    IRxBuf, WIndx, RIndx,   \* the receive ring, where the DMA and UartRx are
    IString, Cnt, Completed, Name,  \* Cmd_t; Name points into IString
    saved,          \* what strtok keeps from call to call: where it goes on
    CmdProcessInProgress,           \* Shell_t
    evtQ,           \* EvtQMain: "ShellCmd" and "RadioCmd" messages
    rx,             \* UartRx: "asleep", "ready", "loop" (in IRxTask)
    main,           \* main: "waiting" (in Fetch), "ready", "running", and
                    \* "inRadio", "inCmd": ready, in the middle of a message
    pending,        \* bytes of the current line still to come
    unread,         \* history: bytes received and not read
    typed,          \* history: the commands typed
    lineNo,         \* history: how many PutChar completed
    accepted,       \* history: the commands EvtQMain took, as typed
    executed,       \* history: the commands executed
    radioCnt        \* history: radio messages so far

ringVars == <<IRxBuf, WIndx, RIndx, unread>>
cmdVars  == <<IString, Cnt, Completed, Name, saved>>
hostVars == <<pending, typed>>
logVars  == <<lineNo, accepted, executed>>
vars     == <<ringVars, cmdVars, CmdProcessInProgress, evtQ, rx, main, hostVars, logVars,
              radioCnt>>

Init ==
    /\ IRxBuf = [i \in 0..(RxSz - 1) |-> NUL] /\ WIndx = 0 /\ RIndx = 0 /\ unread = 0
    /\ IString = [i \in 0..(CmdSz - 1) |-> NUL] /\ Cnt = 0 /\ Completed = FALSE
    /\ Name = None /\ saved = None
    /\ CmdProcessInProgress = FALSE
    /\ evtQ = <<>>
    /\ rx = "asleep" /\ main = "waiting"
    /\ pending = <<>> /\ typed = <<>>
    /\ lineNo = 0 /\ accepted = <<>> /\ executed = <<>>
    /\ radioCnt = 0
----------------------------------------------------------------------------
(* The host and the DMA.                                                   *)

\* What a line means: backspace deletes, characters past the buffer are dropped.
Edit(s, c) ==
    IF c = "BS" THEN IF s = <<>> THEN s ELSE Front(s)
    ELSE IF c \in Ends \/ Len(s) >= CmdSz - 1 THEN s ELSE Append(s, c)
Typing(chars) ==
    LET s[k \in 0..Len(chars)] == IF k = 0 THEN <<>> ELSE Edit(s[k - 1], chars[k]) IN s
Edited(chars) == Typing(chars)[Len(chars)]

\* A line that comes to nothing makes no command.
Blank(chars) == Edited(chars) = <<>>

\* The words of a string: its longest runs without a delimiter, in their order.
WordStarts(s) == {i \in DOMAIN s : s[i] # "SP" /\ (i = 1 \/ s[i - 1] = "SP")}
WordFrom(s, i) ==
    SubSeq(s, i, CHOOSE e \in i..Len(s) : /\ \A k \in i..e : s[k] # "SP"
                                          /\ e = Len(s) \/ s[e + 1] = "SP")
StartNo(s, n) == CHOOSE i \in WordStarts(s) : Cardinality({j \in WordStarts(s) : j <= i}) = n
Words(s) == [n \in 1..Cardinality(WordStarts(s)) |-> WordFrom(s, StartNo(s, n))]

\* The command they are: a name, and as many numbers as it takes; otherwise it
\* is not carried out.
Takes(name) == IF name \in DOMAIN Params THEN Params[name] ELSE 0
IsNumber(word) == \A k \in DOMAIN word : word[k] = "1"

Meaning(s) ==
    LET ws   == Words(s)
        name == IF ws = <<>> THEN <<>> ELSE Head(ws)
        n    == Takes(name)
        ok   == n > 0 => Len(ws) > n /\ \A k \in 2..(n + 1) : IsNumber(ws[k])
    IN [name |-> name, ok |-> ok, numbers |-> IF ok THEN SubSeq(ws, 2, n + 1) ELSE <<>>]

CommandOf == [chars \in Lines |-> Meaning(Edited(chars))]
Commands  == {CommandOf[chars] : chars \in Lines}

\* The host starts a line.
HostLine(chars) ==
    /\ Len(typed) < MaxLines
    /\ pending = <<>>
    /\ Paced => unread = 0 /\ rx # "loop"
    /\ pending' = chars
    /\ typed' = IF Blank(chars) THEN typed ELSE Append(typed, CommandOf[chars])
    /\ UNCHANGED <<ringVars, cmdVars, CmdProcessInProgress, evtQ, rx, main, logVars, radioCnt>>

\* The circular DMA stores a byte, whatever the threads are doing.
DmaReceive ==
    /\ pending # <<>>
    /\ unread < MaxUnread
    /\ IRxBuf' = [IRxBuf EXCEPT ![WIndx] = Head(pending)]
    /\ WIndx' = (WIndx + 1) % RxSz
    /\ unread' = unread + 1
    /\ pending' = Tail(pending)
    /\ UNCHANGED <<RIndx, cmdVars, CmdProcessInProgress, evtQ, rx, main, typed, logVars, radioCnt>>
----------------------------------------------------------------------------
(* EvtQMain.                                                               *)

\* SendNowOrExit: refused when the queue is full; main, if it waits, is ready.
QFull == Len(evtQ) >= QLen
Send(msg) ==
    IF QFull THEN UNCHANGED <<evtQ, main>>
    ELSE /\ evtQ' = Append(evtQ, msg)
         /\ main' = IF main = "waiting" THEN "ready" ELSE main

\* rLevel1_t::ITask tells of a packet, at any time; with a full queue it is lost.
RadioPosts ==
    /\ radioCnt < MaxRadio
    /\ radioCnt' = radioCnt + 1
    /\ Send("RadioCmd")
    /\ UNCHANGED <<ringVars, cmdVars, CmdProcessInProgress, rx, hostVars, logVars>>
----------------------------------------------------------------------------
(* UartRx.                                                                 *)

\* Faulty variant: the write index has not wrapped yet.
GetRcvdBytesCntNoWrap == IF WIndx < RIndx THEN RxSz - RIndx ELSE WIndx - RIndx

\* GetRcvdBytesCnt: the distance from RIndx to the DMA's index.
GetRcvdBytesCnt == IF WIndx - RIndx < 0 THEN WIndx - RIndx + RxSz ELSE WIndx - RIndx

\* chThdSleepMilliseconds(UART_RX_POLLING_MS) is over.
RxWake ==
    /\ rx = "asleep"
    /\ rx' = "ready"
    /\ UNCHANGED <<ringVars, cmdVars, CmdProcessInProgress, evtQ, main, hostVars, logVars, radioCnt>>

\* Faulty variant: the task does not ask whether a command is being processed.
IRxTaskNotBusy ==
    /\ rx = "ready" /\ main # "running"
    /\ rx' = "loop"
    /\ UNCHANGED <<ringVars, cmdVars, CmdProcessInProgress, evtQ, main, hostVars, logVars, radioCnt>>

\* IRxTask begins: back to sleep if a command is being processed.
IRxTask ==
    /\ rx = "ready" /\ main # "running"
    /\ rx' = IF CmdProcessInProgress THEN "asleep" ELSE "loop"
    /\ UNCHANGED <<ringVars, cmdVars, CmdProcessInProgress, evtQ, main, hostVars, logVars, radioCnt>>

\* GetByte fails: the loop is over.
IRxTaskEnds ==
    /\ rx = "loop"
    /\ GetRcvdBytesCnt = 0
    /\ rx' = "asleep"
    /\ UNCHANGED <<ringVars, cmdVars, CmdProcessInProgress, evtQ, main, hostVars, logVars, radioCnt>>

\* The count of characters PutChar starts from: a completed command is reset.
CntNow == IF Completed THEN 0 ELSE Cnt

\* Faulty variant: no test for the end of the command buffer.
PutCharNoLimit(c) ==
    /\ Completed' = FALSE
    /\ Cnt' = CASE c = "BS" /\ CntNow > 0 -> CntNow - 1
                [] c \in Kept -> CntNow + 1
                [] OTHER -> CntNow
    /\ IString' = IF c \in Kept /\ CntNow < CmdSz
                  THEN [IString EXCEPT ![CntNow] = c] ELSE IString
    /\ UNCHANGED <<Name, saved, CmdProcessInProgress, evtQ, main, lineNo, accepted>>

\* Cmd_t::PutChar of a character that does not complete a line.
PutChar(c) ==
    /\ Completed' = FALSE
    /\ Cnt' = CASE c = "BS" /\ CntNow > 0 -> CntNow - 1
                [] c \in Kept /\ CntNow < CmdSz - 1 -> CntNow + 1
                [] OTHER -> CntNow
    /\ IString' = IF c \in Kept /\ CntNow < CmdSz - 1
                  THEN [IString EXCEPT ![CntNow] = c] ELSE IString
    /\ UNCHANGED <<Name, saved, CmdProcessInProgress, evtQ, main, lineNo, accepted>>

\* The first place from i on in str that has one of the characters cs.
Find(str, i, cs) == CHOOSE k \in i..(CmdSz - 1) :
                        str[k] \in cs /\ \A j \in i..(k - 1) : str[j] \notin cs

StringAt(str, i) == [k \in 1..(Find(str, i, {NUL}) - i) |-> str[i + k - 1]]

\* strtok from place i on: skip delimiters, end the word with a NUL, keep
\* where to go on.
strtok(str, i) ==
    LET none  == [str |-> str, tok |-> None, saved |-> None]
        start == Find(str, i, (Kept \ {"SP"}) \cup {NUL})
        end   == Find(str, start, {"SP", NUL})
    IN IF i = None \/ str[start] = NUL THEN none
       ELSE [str   |-> [str EXCEPT ![end] = NUL],
             tok   |-> start,
             saved |-> IF str[end] = NUL THEN None ELSE end + 1]

\* PutChar of the character that completes a line (pdrNewCmd).
PutLast ==
    LET t == strtok([IString EXCEPT ![CntNow] = NUL], 0) IN
    /\ IString' = t.str /\ Name' = t.tok /\ saved' = t.saved
    /\ Completed' = TRUE /\ Cnt' = CntNow
    /\ lineNo' = lineNo + 1
    /\ accepted' = IF QFull THEN accepted ELSE Append(accepted, typed[lineNo + 1])

\* Faulty variant: the flag is set whether or not the message was taken.
NewCmdAlwaysBusy ==
    /\ PutLast
    /\ Send("ShellCmd")
    /\ CmdProcessInProgress' = TRUE

\* What IRxTask does with a new command: the message, and the flag if the
\* message was taken.
NewCmd ==
    /\ PutLast
    /\ Send("ShellCmd")
    /\ CmdProcessInProgress' = ~QFull

\* One turn of the loop of IRxTask: GetByte, PutChar.
IRxTaskByte ==
    /\ rx = "loop"
    /\ GetRcvdBytesCnt # 0
    /\ RIndx' = (RIndx + 1) % RxSz
    /\ unread' = unread - 1
    /\ LET b == IRxBuf[RIndx] IN
       IF b \in Ends /\ CntNow # 0 THEN NewCmd ELSE PutChar(b)
    /\ UNCHANGED <<IRxBuf, WIndx, rx, hostVars, executed, radioCnt>>
----------------------------------------------------------------------------
(* The main thread.  It runs while UartRx does not.                        *)

MainRuns == rx # "loop"

\* Faulty variant: a word that is no number is taken for one.
GetNextAny(p) ==
    LET t == strtok(p.str, p.saved) IN
    IF ~p.ok THEN p
    ELSE [str |-> t.str, saved |-> t.saved, ok |-> t.tok # None,
          numbers |-> IF t.tok = None THEN <<>>
                      ELSE Append(p.numbers, StringAt(t.str, t.tok))]

\* GetNext after the parameters p, unless one of them failed (OnCmd returns).
\* With no word left Token is null, and the byte at address 0 is taken for the
\* word: the low byte of the initial stack pointer, 0 by rules_stacks.ld and
\* STM32L151x*.ld, so that the word is empty (retvEmpty).
GetNext(p) ==
    LET t    == strtok(p.str, p.saved)
        word == IF t.tok = None THEN <<>> ELSE StringAt(t.str, t.tok)
    IN IF ~p.ok THEN p
       ELSE [str |-> t.str, saved |-> t.saved, ok |-> word # <<>> /\ IsNumber(word),
             numbers |-> Append(p.numbers, word)]

\* What OnCmd finds in Cmd.  A null Name reads as the empty string, likewise.
CmdName == IF Name = None THEN <<>> ELSE StringAt(IString, Name)
CmdParams ==
    LET n == Takes(CmdName)
        p[k \in 0..n] == IF k > 0 THEN GetNext(p[k - 1])
                         ELSE [str |-> IString, saved |-> saved, ok |-> TRUE, numbers |-> <<>>]
    IN p[n]
CmdFrom(p) == [name |-> CmdName, ok |-> p.ok, numbers |-> IF p.ok THEN p.numbers ELSE <<>>]
Cmd == CmdFrom(CmdParams)

\* The command is carried out: it starts an effect, if it is one that does.
Carried ==
    /\ LET p == CmdParams IN
       /\ executed' = Append(executed, CmdFrom(p))
       /\ IString' = p.str /\ saved' = p.saved
    /\ UNCHANGED <<Cnt, Completed, Name>>
Starts == CmdName \in DOMAIN Params /\ CmdParams.ok

\* Fetch returns a message: the first in the queue.
Fetch(msg) ==
    /\ MainRuns
    /\ main \in {"ready", "running"}
    /\ evtQ # <<>> /\ Head(evtQ) = msg
    /\ evtQ' = Tail(evtQ)

\* Fetch finds nothing: main sleeps.
FetchSleeps ==
    /\ MainRuns
    /\ main = "running"
    /\ evtQ = <<>>
    /\ main' = "waiting"
    /\ UNCHANGED <<ringVars, cmdVars, CmdProcessInProgress, evtQ, rx, hostVars, logVars, radioCnt>>

\* evtIdRadioCmd: PercentToFade, which resumes the Effects thread, if that is
\* suspended, and puts main behind UartRx; SavePercent.
RadioCmd ==
    /\ Fetch("RadioCmd")
    /\ \E suspended \in BOOLEAN : main' = IF suspended THEN "inRadio" ELSE "running"
    /\ UNCHANGED <<ringVars, cmdVars, CmdProcessInProgress, rx, hostVars, logVars, radioCnt>>

RadioCmdEnds ==
    /\ MainRuns
    /\ main = "inRadio"
    /\ main' = "running"
    /\ UNCHANGED <<ringVars, cmdVars, CmdProcessInProgress, evtQ, rx, hostVars, logVars, radioCnt>>

\* Faulty variant: SignalCmdProcessed comes before the command is done.
OnCmdSignalsFirst ==
    /\ Fetch("ShellCmd")
    /\ Carried
    /\ \E suspended \in BOOLEAN :
       main' = IF Starts /\ suspended THEN "inCmd" ELSE "running"
    /\ CmdProcessInProgress' = FALSE
    /\ UNCHANGED <<ringVars, rx, hostVars, lineNo, accepted, radioCnt>>

\* evtIdShellCmd: OnCmd; SignalCmdProcessed, at once or, where the handler
\* resumes the Effects thread, when main runs again.
OnCmd ==
    /\ Fetch("ShellCmd")
    /\ Carried
    /\ \E suspended \in BOOLEAN :
       IF Starts /\ suspended
       THEN main' = "inCmd" /\ UNCHANGED CmdProcessInProgress
       ELSE main' = "running" /\ CmdProcessInProgress' = FALSE
    /\ UNCHANGED <<ringVars, rx, hostVars, lineNo, accepted, radioCnt>>

OnCmdEnds ==
    /\ MainRuns
    /\ main = "inCmd"
    /\ main' = "running"
    /\ CmdProcessInProgress' = FALSE
    /\ UNCHANGED <<ringVars, cmdVars, evtQ, rx, hostVars, logVars, radioCnt>>
----------------------------------------------------------------------------
Host == \E chars \in Lines : HostLine(chars)
UartRx == RxWake \/ IRxTask \/ IRxTaskByte \/ IRxTaskEnds
MainThread == FetchSleeps \/ RadioCmd \/ RadioCmdEnds \/ OnCmd \/ OnCmdEnds

Next == Host \/ DmaReceive \/ RadioPosts \/ UartRx \/ MainThread

Spec == Init /\ [][Next]_vars

(* Fairness.  A line that is begun is finished by the host.  UartRx comes  *)
(* back every 99 ms, and whenever it sleeps main runs if it is ready:      *)
(* strong fairness, as main is held back again and again for a moment.     *)
Fairness == WF_vars(DmaReceive) /\ WF_vars(UartRx) /\ SF_vars(MainThread)

FairSpec == Spec /\ Fairness
----------------------------------------------------------------------------
(* Properties.                                                             *)

Str == Char \cup {NUL}

TypeOK ==
    /\ IRxBuf \in [0..(RxSz - 1) -> Str]
    /\ WIndx \in 0..(RxSz - 1) /\ RIndx \in 0..(RxSz - 1) /\ unread \in 0..RxSz
    /\ IString \in [0..(CmdSz - 1) -> Str] /\ Cnt \in 0..(CmdSz - 1)
    /\ Name \in {None} \cup 0..(CmdSz - 1) /\ saved \in {None} \cup 0..(CmdSz - 1)
    /\ Completed \in BOOLEAN /\ CmdProcessInProgress \in BOOLEAN
    /\ evtQ \in Seq({"ShellCmd", "RadioCmd"}) /\ Len(evtQ) <= QLen
    /\ rx \in {"asleep", "ready", "loop"}
    /\ main \in {"waiting", "ready", "running", "inRadio", "inCmd"}
    /\ pending \in Seq(Char)
    /\ typed \in Seq(Commands) /\ accepted \in Seq(Commands)
    /\ executed \in Seq([name : Seq(Kept), ok : BOOLEAN, numbers : Seq(Seq(Kept))])
    /\ lineNo \in 0..Len(typed) /\ radioCnt \in 0..MaxRadio

\* "unprocessed bytes" (uart.h:37): GetRcvdBytesCnt counts the bytes received
\* and not read yet, as long as they fit in the buffer.
UnprocessedCounted == GetRcvdBytesCnt = unread

InQueue == {i \in DOMAIN evtQ : evtQ[i] = "ShellCmd"}

\* "Busy processing cmd" (uart.cpp:288): CmdProcessInProgress is set exactly
\* from the message to the end of the handler, so that one command at most is
\* under way, whatever the radio thread puts in the queue meanwhile.
BusyWhileProcessing ==
    /\ CmdProcessInProgress <=> InQueue # {} \/ main = "inCmd"
    /\ \A i, j \in InQueue : i = j
    /\ main = "inCmd" => InQueue = {}

\* The one Cmd_t holds what the message in the queue is about until main has
\* read it: UartRx does not write the next line into it.
CommandKept == InQueue # {} => Cmd = accepted[Len(executed) + 1]

\* The commands main executes are those the host typed, edited as typed and
\* cut into words, in their order, each once, one at a time, except those a
\* full queue refused; one with a number missing (GetNextString then reads
\* through a null pointer) or misspelt is not carried out, and no number of an
\* earlier line stands in for it.
Fifo == INSTANCE MsgFifo WITH Msg <- Commands, Cap <- 1,
                              in <- accepted, out <- executed
OneCommandAtATime == Fifo!Spec

\* Every line typed is executed or refused by a full queue, in the end: no
\* interleaving leaves the flag set with nobody to reset it.
EveryLineTaken ==
    \A n \in 1..MaxLines :
        (Len(typed) >= n) ~> (lineNo >= n /\ Len(executed) = Len(accepted)
                              /\ ~CmdProcessInProgress)
============================================================================
