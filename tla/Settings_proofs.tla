-------------------------- MODULE Settings_proofs --------------------------
(***************************************************************************)
(* Proofs about the saved percentage for every set of percentages and of   *)
(* EEPROM words, every number of requests and every number of losses of    *)
(* power.                                                                  *)
(***************************************************************************)
EXTENDS Settings, TLAPS

\* Before main reads the word, nothing is being programmed, and the word is
\* the percentage that was saved and shown when the power went.
BootInv ==
    pc = "boot" => /\ status = "none" /\ writing = NoWrite
                   /\ before # NoWrite => word = before /\ InRange(before)

\* During Write32 the percentage being saved is the one shown.
SavingInv ==
    pc \in {"unlock", "ready", "written", "lock"} => arg = shown /\ arg \in Words

\* After the store, the Flash is programming that percentage or has done so.
StoredInv ==
    /\ pc = "written" => status = "ok" /\ writing \in {arg, NoWrite}
                         /\ (writing = NoWrite => word = arg)
    /\ pc = "lock" => /\ status \in {"ok", "fail", "timeout"}
                      /\ status = "ok" => writing = NoWrite /\ word = arg

\* Between two saves: after a start main shows the word, unless it is bad.
IdleInv ==
    pc = "idle" => /\ status \in {"none", "ok", "fail", "timeout"}
                   /\ status = "none" => writing = NoWrite /\ (word = shown \/ ~InRange(word))

\* What was saved stays saved.
KeptInv == pc = "idle" /\ status = "ok" => word = shown /\ writing = NoWrite

\* No write is refused as protected: UnlockEEAndPECR came before it.
NoProtection == "WRPERR" \notin SR

IInv == TypeOK /\ BootInv /\ SavingInv /\ StoredInv /\ IdleInv /\ KeptInv /\ NoProtection
----------------------------------------------------------------------------
LEMMA InitIInv == Init => IInv
  BY SettingsAssumption
  DEF Init, IInv, TypeOK, InRange, BootInv, SavingInv, StoredInv, IdleInv, KeptInv, NoProtection

\* One lemma for each step, as the parts of the invariant lean on each other.
LEMMA BootKeeps == IInv /\ Boot => IInv'
  BY SettingsAssumption
  DEF Boot, mainVars, flash, bounds, IInv, TypeOK, InRange, BootInv, SavingInv, StoredInv, IdleInv,
      KeptInv, NoProtection

LEMMA RequestKeeps == ASSUME NEW p \in Requests, IInv, Request(p) PROVE IInv'
  BY SettingsAssumption
  DEF Request, flash, IInv, TypeOK, InRange, BootInv, SavingInv, StoredInv, IdleInv, KeptInv,
      NoProtection

LEMMA UnlockKeeps == IInv /\ Unlock => IInv'
  BY SettingsAssumption
  DEF Unlock, bounds, IInv, TypeOK, BootInv, SavingInv, StoredInv, IdleInv, KeptInv,
      NoProtection

LEMMA ReadyKeeps == IInv /\ Ready => IInv'
  BY SettingsAssumption
  DEF Ready, GetStatus, bounds, IInv, TypeOK, BootInv, SavingInv, StoredInv, IdleInv, KeptInv,
      NoProtection

LEMMA WrittenKeeps == IInv /\ Written => IInv'
  BY SettingsAssumption
  DEF Written, GetStatus, flash, bounds, IInv, TypeOK, BootInv, SavingInv, StoredInv, IdleInv,
      KeptInv, NoProtection

LEMMA LockKeeps == IInv /\ Lock => IInv'
  BY SettingsAssumption
  DEF Lock, bounds, IInv, TypeOK, BootInv, SavingInv, StoredInv, IdleInv, KeptInv,
      NoProtection

LEMMA FlashDoneKeeps == IInv /\ FlashDone => IInv'
  BY SettingsAssumption
  DEF FlashDone, mainVars, bounds, IInv, TypeOK, BootInv, SavingInv, StoredInv, IdleInv,
      KeptInv, NoProtection

LEMMA PowerLossKeeps == IInv /\ PowerLoss => IInv'
  BY SettingsAssumption
  DEF PowerLoss, IInv, TypeOK, InRange, BootInv, SavingInv, StoredInv, IdleInv, KeptInv,
      NoProtection

LEMMA StutterKeeps == IInv /\ UNCHANGED vars => IInv'
  BY DEF vars, mainVars, flash, bounds, IInv, TypeOK, BootInv, SavingInv, StoredInv, IdleInv,
         KeptInv, NoProtection

LEMMA NextIInv == IInv /\ [Next]_vars => IInv'
  BY BootKeeps, RequestKeeps, UnlockKeeps, ReadyKeeps, WrittenKeeps, LockKeeps, FlashDoneKeeps,
     PowerLossKeeps, StutterKeeps
  DEF Next

\* In every state of every behaviour the invariant holds.
THEOREM InductiveInvariant == Spec => []IInv
  BY InitIInv, NextIInv, PTL DEF Spec
----------------------------------------------------------------------------
\* Every variable keeps its type; main never shows or saves a percentage out
\* of range (main.cpp:56, 116, 131).
THEOREM TypeCorrect == Spec => []TypeOK
  <1>1. IInv => TypeOK
    BY DEF IInv
  <1>2. QED
    BY <1>1, InductiveInvariant, PTL

\* What main reports as saved is in the EEPROM and on the strip, and no older
\* write is still on its way (kl_lib.cpp:563-575); the strip is ahead of the
\* EEPROM only after an error that was reported, or a word that was not a
\* percentage.
THEOREM SavedAlwaysKept == Spec => []SavedIsKept
  <1>1. IInv => SavedIsKept
    BY DEF IInv, KeptInv, IdleInv, SavedIsKept
  <1>2. QED
    BY <1>1, InductiveInvariant, PTL

\* A start after a loss of power shows what was saved and shown before it.
THEOREM RestartAlwaysShowsSaved == Spec => RestartShowsSaved
  <1>1. IInv /\ [Next]_vars =>
            [pc = "boot" /\ pc' = "idle" /\ before # NoWrite => shown' = before]_vars
    BY DEF IInv, BootInv, Next, Boot, Request, Unlock, Ready, Written, Lock, FlashDone, PowerLoss,
           mainVars
  <1>2. QED
    BY <1>1, InductiveInvariant, PTL DEF Spec, RestartShowsSaved
============================================================================
