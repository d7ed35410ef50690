------------------------------ MODULE Settings ------------------------------
(***************************************************************************)
(* The percentage and its copy in the EEPROM: main's start, what main does *)
(* with a percentage from the radio or the "Prc" command (main.cpp), and   *)
(* EE::Write32 over the Flash registers (kl_lib.cpp).  The percentage is   *)
(* shown before it is saved, the save may fail or run out of time with the *)
(* Flash still busy, and the power may go at any moment.                   *)
(***************************************************************************)
EXTENDS Integers

CONSTANTS Requests,       \* percentages that arrive
          Words,          \* what the EEPROM can hold, also after a cut-off write
          NoWrite,        \* no word is being programmed
          MaxRequests,    \* bound: so many requests come
          MaxLosses       \* bound: so often the power goes

ASSUME SettingsAssumption ==
    /\ Requests \subseteq Words /\ Words \subseteq Int /\ NoWrite \notin Words
    /\ MaxRequests \in Nat /\ MaxLosses \in Nat

InRange(p) == 0 <= p /\ p <= 100

VARIABLES
    pc,           \* where main is
    shown,        \* the percentage on the strip
    arg,          \* the percentage being saved
    status,       \* Write32's status; once idle, what main printed of the last save
    word,         \* the EEPROM word
    writing,      \* the word being programmed (BSY), or NoWrite
    SR,           \* error flags
    PELOCK,
    before,       \* history: the percentage saved and shown when the power went
    requests, losses

mainVars == <<pc, shown, arg, status>>
flash == <<word, writing, SR, PELOCK>>
bounds == <<requests, losses>>
vars == <<mainVars, flash, before, bounds>>

Init == /\ pc = "boot" /\ shown = 100 /\ arg = 0 /\ status = "none"
        /\ word \in Words /\ writing = NoWrite
        /\ SR \in {{}, {"option"}} /\ PELOCK = TRUE
        /\ before = NoWrite /\ requests = 0 /\ losses = 0
----------------------------------------------------------------------------
\* Faulty variant: the word is believed.
BootAnyWord ==
    /\ pc = "boot" /\ pc' = "idle"
    /\ shown' = word
    /\ UNCHANGED <<arg, status, flash, before, bounds>>

\* Faulty variant: 0 is taken for an empty EEPROM.
BootNoZero ==
    /\ pc = "boot" /\ pc' = "idle"
    /\ shown' = IF InRange(word) /\ word # 0 THEN word ELSE 100
    /\ UNCHANGED <<arg, status, flash, before, bounds>>

\* main(): EE::Read32, the test of the range, PercentToFade.
Boot ==
    /\ pc = "boot" /\ pc' = "idle"
    /\ shown' = IF InRange(word) THEN word ELSE 100
    /\ UNCHANGED <<arg, status, flash, before, bounds>>

\* PercentToFade, then SavePercent's test; out of range, neither does anything.
Request(p) ==
    /\ pc = "idle" /\ requests < MaxRequests
    /\ requests' = requests + 1
    /\ IF InRange(p) THEN shown' = p /\ arg' = p /\ pc' = "unlock"
                     ELSE UNCHANGED <<shown, arg, pc>>
    /\ UNCHANGED <<status, flash, before, losses>>

\* UnlockEEAndPECR: only WRPERR is cleared, and only when locked.
Unlock ==
    /\ pc = "unlock" /\ pc' = "ready"
    /\ PELOCK' = FALSE
    /\ SR' = IF PELOCK THEN SR \ {"WRPERR"} ELSE SR
    /\ UNCHANGED <<shown, arg, status, word, writing, before, bounds>>

\* GetStatus without retvBusy; OPTVERR and its like are never cleared.
GetStatus == IF "WRPERR" \in SR THEN "writeProtect"
             ELSE IF SR # {} THEN "fail" ELSE "ok"

\* WaitForLastOperation, and the store.  The wait may run out.
Ready ==
    /\ pc = "ready"
    /\ status' = IF writing = NoWrite THEN GetStatus ELSE "timeout"
    /\ IF status' = "ok" THEN pc' = "written" /\ writing' = arg
                         ELSE pc' = "lock" /\ UNCHANGED writing
    /\ UNCHANGED <<shown, arg, word, SR, PELOCK, before, bounds>>

\* Faulty variant: running out of time counts as success.
WrittenTimeoutOk ==
    /\ pc = "written" /\ pc' = "lock"
    /\ status' = GetStatus
    /\ UNCHANGED <<shown, arg, flash, before, bounds>>

\* The second WaitForLastOperation.
Written ==
    /\ pc = "written" /\ pc' = "lock"
    /\ status' = IF writing = NoWrite THEN GetStatus ELSE "timeout"
    /\ UNCHANGED <<shown, arg, flash, before, bounds>>

\* LockEEAndPECR; main prints the result.
Lock ==
    /\ pc = "lock" /\ pc' = "idle"
    /\ PELOCK' = TRUE
    /\ UNCHANGED <<shown, arg, status, word, writing, SR, before, bounds>>
----------------------------------------------------------------------------
\* The Flash is done.
FlashDone ==
    /\ writing # NoWrite
    /\ word' = writing /\ writing' = NoWrite
    /\ UNCHANGED <<mainVars, SR, PELOCK, before, bounds>>

\* The power goes and comes back; a word half written may read as anything.
PowerLoss ==
    /\ losses < MaxLosses /\ losses' = losses + 1
    /\ before' = IF pc = "idle" /\ status = "ok" THEN shown ELSE NoWrite
    /\ IF writing = NoWrite THEN UNCHANGED word ELSE word' \in Words
    /\ writing' = NoWrite /\ PELOCK' = TRUE /\ SR' \in {{}, {"option"}}
    /\ pc' = "boot" /\ status' = "none"
    /\ UNCHANGED <<shown, arg, requests>>

Next == \/ Boot \/ Unlock \/ Ready \/ Written \/ Lock \/ FlashDone \/ PowerLoss
        \/ \E p \in Requests : Request(p)

Spec == Init /\ [][Next]_vars
----------------------------------------------------------------------------
(* Properties.                                                             *)

TypeOK ==
    /\ pc \in {"boot", "idle", "unlock", "ready", "written", "lock"}
    /\ InRange(shown) /\ InRange(arg)
    /\ status \in {"none", "ok", "writeProtect", "fail", "timeout"}
    /\ word \in Words /\ writing \in Words \cup {NoWrite}
    /\ SR \subseteq {"option", "WRPERR"} /\ PELOCK \in BOOLEAN
    /\ before \in Words \cup {NoWrite}
    /\ requests \in 0..MaxRequests /\ losses \in 0..MaxLosses

\* What main reports as saved is in the EEPROM, nothing still being programmed
\* can replace it, and it is what the strip shows: a save that ran out of time
\* and ended later does not undo the next one (kl_lib.cpp:563-575).  And a
\* reported error is an error: the strip is ahead of the EEPROM only while the
\* save runs, after a reported failure, or after a restart from a bad word.
SavedIsKept ==
    pc = "idle" =>
        /\ status = "ok" => word = shown /\ writing = NoWrite
        /\ word # shown => status \in {"fail", "timeout"} \/ ~InRange(word)

\* After a restart the strip shows what it showed when the power went, if that
\* had been saved (main.cpp:55-60, 86).
RestartShowsSaved ==
    [][pc = "boot" /\ pc' = "idle" /\ before # NoWrite => shown' = before]_vars
============================================================================
