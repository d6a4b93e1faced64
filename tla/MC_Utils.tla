------------------------------ MODULE MC_Utils ------------------------------
(***************************************************************************)
(* The two utility headers checked side by side: Utils/Bits.h (this       *)
(* module extends Bits) and Utils/HexValues.h (instantiated as H).  They  *)
(* share no state; a step of the composition is a loop turn of one of    *)
(* them, so every pair of their states is reached.                       *)
(***************************************************************************)
EXTENDS Bits

CONSTANTS MaxLen

\* The longest string StringToHex is called on.
ASSUME HexMaxLenAssumption == MaxLen \in Nat

VARIABLES signedChar, str, i, hex, j, out

hexVars == <<signedChar, str, i, hex, j, out>>

H == INSTANCE HexValues

UtilsInit == Init /\ H!Init

UtilsNext ==
    \/ Next /\ UNCHANGED hexVars
    \/ H!Next /\ UNCHANGED vars

UtilsSpec == UtilsInit /\ [][UtilsNext]_<<vars, hexVars>>

\* HexToString(StringToHex(s)) gives back s for every char of either
\* signedness, the negative chars of a signed-char build included.
HexRoundTrip == H!RoundTrip

=============================================================================
