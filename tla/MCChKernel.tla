----------------------------- MODULE MCChKernel -----------------------------
(* The threads of the firmware: main and UartRx at one priority, Effects   *)
(* and rLvl1 at a higher one, the idle thread; two thread references.      *)
EXTENDS ChKernel, TLC

CONSTANTS main, UartRx, Effects, rLvl1, idle

MCThread == {main, UartRx, Effects, rLvl1, idle}
MCPriority == idle :> 1 @@ main :> 2 @@ UartRx :> 2 @@ Effects :> 3 @@ rLvl1 :> 3

Symmetry == Permutations({Effects, rLvl1}) \cup Permutations(Ref)
============================================================================
