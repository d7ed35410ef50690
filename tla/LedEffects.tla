---------------------------- MODULE LedEffects ----------------------------
(***************************************************************************)
(* The LED effects (sk6812.{h,cpp}).  The main thread requests pictures    *)
(* (EffAllTogetherSmoothly, EffAllTogetherNow, EffFadeOneByOne); the       *)
(* Effects thread moves the colours of the strip towards the picture, one  *)
(* unit at a time, and sleeps between two steps.  They share PCurrentEff,  *)
(* DesiredClr, ICurrentClr and the thread reference PThd, mostly without a *)
(* lock: what keeps them apart is that Effects runs at HIGHPRIO and main   *)
(* at NORMALPRIO on a single core, so that main runs only while Effects    *)
(* sleeps or is suspended, and may be interrupted anywhere.                *)
(* Time is left out: a sleep ends some time.                               *)
(***************************************************************************)
EXTENDS Colors

CONSTANTS Smooth,         \* smooth value of the running effect
          MaxRequests,    \* bound: so many pictures are requested in a behaviour
          FadeArgs        \* the pairs of thresholds the Fade command may bring

ASSUME LedEffectsAssumption ==
    Smooth \in Nat /\ MaxRequests \in Nat /\ FadeArgs \subseteq Int \X Int

Effect == {"null", "Smoothly", "FadeOneByOne"}

VARIABLES
    PCurrentEff,    \* the effect being processed
    PThd,           \* the Effects thread is suspended, waiting to be resumed
    DesiredClr,     \* the picture wanted
    ICurrentClr,    \* the picture reached
    epc,            \* where the Effects thread is
    mpc,            \* what the main thread is doing
    todo,           \* the assignments of main's loops still to be done: <<index, colour>>
    thr,            \* ThrLo and ThrHi of the SetupAndStart main is in
    outside,        \* history: a loop has written outside DesiredClr
    strip,          \* the picture the last frame showed
    goal,           \* history: the picture requested last
    requests        \* history: how many were requested

effVars  == <<PCurrentEff, PThd, epc>>
mainVars == <<mpc, todo, thr, outside, goal, requests>>
clrVars  == <<DesiredClr, ICurrentClr, strip>>
vars     == <<effVars, mainVars, clrVars>>

All(c) == [i \in Led |-> c]
Black == All(0)

\* LedEffectsInit: the new thread runs at once, finds no effect, is suspended.
Init ==
    /\ PCurrentEff = "null" /\ PThd = TRUE /\ epc = "suspended"
    /\ DesiredClr \in [Led -> Clr] /\ ICurrentClr = Black /\ strip = Black
    /\ mpc = "idle" /\ todo = <<>> /\ thr = <<0, 0>> /\ outside = FALSE
    /\ goal = Black /\ requests = 0
----------------------------------------------------------------------------
(* The Effects thread.                                                     *)

\* Where it is.  An assignment outside an array is undefined behaviour: after
\* one the model says nothing, and no thread has a step.
EffAt(pc) == ~outside /\ epc = pc

\* The top of the loop: is there an effect?
EffCheck ==
    /\ EffAt("check")
    /\ epc' = IF PCurrentEff = "null" THEN "suspend" ELSE "process"
    /\ UNCHANGED <<PCurrentEff, PThd, mainVars, clrVars>>

\* chThdSuspendS.
EffSuspend ==
    /\ EffAt("suspend")
    /\ epc' = "suspended"
    /\ PThd' = TRUE
    /\ UNCHANGED <<PCurrentEff, mainVars, clrVars>>

\* EffAllTogetherSmoothly_t::Process: the longest delay and one step for
\* every LED, then ISetCurrentColors; effEnd when no LED had to move.
EffProcess ==
    /\ EffAt("process")
    /\ ICurrentClr' = [i \in Led |-> Adjust(ICurrentClr[i], DesiredClr[i])]
    /\ strip' = ICurrentClr'
    /\ epc' = IF \A i \in Led : DelayToNextAdj(ICurrentClr[i], DesiredClr[i], Smooth) = 0
              THEN "end" ELSE "asleep"
    /\ UNCHANGED <<PCurrentEff, PThd, mainVars, DesiredClr>>

\* effEnd: no effect any more.
EffEnd ==
    /\ EffAt("end")
    /\ PCurrentEff' = "null"
    /\ epc' = "check"
    /\ UNCHANGED <<PThd, mainVars, clrVars>>

\* The delay is over; Process returns effInProgress.
EffWake ==
    /\ EffAt("asleep")
    /\ epc' = "check"
    /\ UNCHANGED <<PCurrentEff, PThd, mainVars, clrVars>>
----------------------------------------------------------------------------
(* The main thread.                                                        *)

\* Faulty variant: Effects has no priority over main.
MainRunsAnyTime == ~outside

\* Main runs only while the thread of higher priority does not.
MainRuns == ~outside /\ epc \in {"suspended", "asleep"}

\* chThdResumeS(&PThd): the thread, if suspended, runs at once.
ResumeS ==
    /\ PThd' = FALSE
    /\ epc' = IF PThd THEN "check" ELSE epc

Request(picture) ==
    /\ MainRuns
    /\ mpc = "idle"
    /\ requests < MaxRequests
    /\ requests' = requests + 1
    /\ goal' = picture

\* EffAllTogetherSmoothly_t::SetupAndStart, inside one chSysLock.
AllTogetherSmoothly(c) ==
    /\ Request(All(c))
    /\ DesiredClr' = All(c)
    /\ PCurrentEff' = "Smoothly"
    /\ ResumeS
    /\ UNCHANGED <<mpc, todo, thr, outside, ICurrentClr, strip>>

\* Faulty variant: the running effect is left in place.
AllTogetherNowKeepsEff(c) ==
    /\ Request(All(c))
    /\ mpc' = "now"
    /\ todo' = [k \in 1..LED_CNT |-> <<k - 1, c>>]
    /\ UNCHANGED <<thr, outside, effVars, clrVars>>

\* EffAllTogetherNow_t::SetupAndStart (smooth value 0), without a lock: no
\* effect, then the loop over ICurrentClr, then ISetCurrentColors.
AllTogetherNow(c) ==
    /\ Request(All(c))
    /\ PCurrentEff' = "null"
    /\ mpc' = "now"
    /\ todo' = [k \in 1..LED_CNT |-> <<k - 1, c>>]
    /\ UNCHANGED <<PThd, epc, thr, outside, clrVars>>

NowAssign ==
    /\ MainRuns
    /\ mpc = "now" /\ todo # <<>>
    /\ ICurrentClr' = [ICurrentClr EXCEPT ![Head(todo)[1]] = Head(todo)[2]]
    /\ todo' = Tail(todo)
    /\ UNCHANGED <<effVars, mpc, thr, outside, goal, requests, DesiredClr, strip>>

NowShow ==
    /\ MainRuns
    /\ mpc = "now" /\ todo = <<>>
    /\ strip' = ICurrentClr
    /\ mpc' = "idle"
    /\ UNCHANGED <<effVars, todo, thr, outside, goal, requests, DesiredClr, ICurrentClr>>

\* EffFadeOneByOne_t::SetupAndStart: the loops over DesiredClr, unlocked,
\* while an earlier effect may still be processed; then the start, locked.
FadeOneByOne(ThrLo, ThrHi) ==
    /\ Request(FadePicture(ThrLo, ThrHi))
    /\ mpc' = "fade"
    /\ todo' = FadeAssignments(ThrLo, ThrHi)
    /\ thr' = <<ThrLo, ThrHi>>
    /\ UNCHANGED <<outside, effVars, clrVars>>

\* One assignment of the loops.  Thresholds out of the strip take the first
\* and the second loop out of DesiredClr.
FadeAssign ==
    /\ MainRuns
    /\ mpc = "fade" /\ todo # <<>>
    /\ outside' = (Head(todo)[1] \notin Led)
    /\ DesiredClr' = [i \in Led |-> IF i = Head(todo)[1] THEN Head(todo)[2] ELSE DesiredClr[i]]
    /\ todo' = Tail(todo)
    /\ UNCHANGED <<effVars, mpc, thr, goal, requests, ICurrentClr, strip>>

\* Faulty variant: the new effect is set, and nobody is resumed.
FadeStartNoResume ==
    /\ MainRuns
    /\ mpc = "fade" /\ todo = <<>>
    /\ mpc' = "idle" /\ thr' = <<0, 0>>
    /\ PCurrentEff' = "FadeOneByOne"
    /\ UNCHANGED <<PThd, epc, todo, outside, goal, requests, clrVars>>

FadeStart ==
    /\ MainRuns
    /\ mpc = "fade" /\ todo = <<>>
    /\ mpc' = "idle" /\ thr' = <<0, 0>>
    /\ PCurrentEff' = "FadeOneByOne"
    /\ ResumeS
    /\ UNCHANGED <<todo, outside, goal, requests, clrVars>>
----------------------------------------------------------------------------
EffectsThread == EffCheck \/ EffSuspend \/ EffProcess \/ EffEnd \/ EffWake

MainThread ==
    \/ \E c \in Clr : AllTogetherSmoothly(c) \/ AllTogetherNow(c)
    \/ \E a \in FadeArgs : FadeOneByOne(a[1], a[2])
    \/ NowAssign \/ NowShow \/ FadeAssign \/ FadeStart

Next == EffectsThread \/ MainThread

Spec == Init /\ [][Next]_vars

(* Fairness.  The Effects thread has the highest priority and its sleeps   *)
(* end.  Main finishes what it has begun.  Nobody has to make a request.   *)
Fairness == WF_vars(EffectsThread)
            /\ WF_vars(NowAssign \/ NowShow \/ FadeAssign \/ FadeStart)

FairSpec == Spec /\ Fairness
----------------------------------------------------------------------------
(* Properties.                                                             *)

TypeOK ==
    /\ PCurrentEff \in Effect /\ PThd \in BOOLEAN
    /\ DesiredClr \in [Led -> Clr] /\ ICurrentClr \in [Led -> Clr]
    /\ strip \in [Led -> Clr] /\ goal \in [Led -> Clr]
    /\ epc \in {"check", "suspend", "suspended", "process", "end", "asleep"}
    /\ mpc \in {"idle", "now", "fade"}
    /\ todo \in Seq(Int \X Clr)
    /\ thr \in Int \X Int /\ outside \in BOOLEAN
    /\ requests \in 0..MaxRequests

\* Every index that SetupAndStart computes is in the strip, also where the
\* thresholds cross or the gradient begins or ends outside (sk6812.cpp:196),
\* but for one case: the parameters of the Fade command come from the host as
\* they are (main.cpp:159-163), and the first two loops go on to a lower
\* threshold beyond the strip and from an upper threshold before it.
StaysInStrip == outside => thr[1] > LED_CNT \/ thr[2] < 0

\* No request is lost: once Effects is suspended and main is done, the strip
\* shows the picture requested last.  The test of PCurrentEff and the suspend,
\* and the end of an effect and PCurrentEff = nullptr, are not locked
\* (sk6812.cpp:122-130); nor are main's loops.
RequestShown ==
    epc = "suspended" /\ mpc = "idle" =>
        PCurrentEff = "null" /\ ICurrentClr = goal /\ strip = goal

Distance(a, b) == IF a < b THEN b - a ELSE a - b

\* While main makes no request, no LED moves away from the requested picture:
\* a half-written DesiredClr of an older request never comes back.
NoFlicker ==
    [][mpc = "idle" /\ mpc' = "idle" /\ goal' = goal =>
         \A i \in Led : Distance(ICurrentClr'[i], goal[i]) <= Distance(ICurrentClr[i], goal[i])]_vars

\* When requests stop, the strip ends up showing the last one, and the Effects
\* thread sleeps until it is needed: it neither hangs with an effect that
\* nobody processes nor goes on for ever.  (Or a loop wrote outside DesiredClr.)
Settles == <>[](outside \/ (epc = "suspended" /\ strip = goal))
============================================================================
