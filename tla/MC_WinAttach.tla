----------------------------- MODULE MC_WinAttach -----------------------------
(* WinAttach on three thread ids and one breakpoint address. *)
EXTENDS WinAttach, TLC

CONSTANTS t1, t2, t3, a1

MCTids  == {t1, t2, t3}
MCAddrs == {a1}
=============================================================================
