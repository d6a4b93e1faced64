------------------------- MODULE MC_WinDebugProcess -------------------------
(* Model-checking instance of WinDebugProcess: three thread ids (the main   *)
(* thread and two that the target or a break-in can create) and two        *)
(* breakpoint addresses.                                                    *)
EXTENDS WinDebugProcess, TLC

CONSTANTS t1, t2, t3, a1, a2

MCTids  == {t1, t2, t3}
MCAddrs == {a1, a2}

=============================================================================
