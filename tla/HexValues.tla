----------------------------- MODULE HexValues -----------------------------
(***************************************************************************)
(* Utils/HexValues.h: StringToHex and HexToString, one loop turn per step. *)
(* A char is its integer value; whether char is signed is decided by the   *)
(* build (it is on x86, it is not on ARM Linux), so every run chooses.     *)
(* Characters are ASCII codes: NibbleToHex and HexToNibble are modelled by *)
(* the codes they produce and accept.                                      *)
(***************************************************************************)
EXTENDS Integers, Sequences

CONSTANTS MaxLen

VARIABLES signedChar, str, i, hex, j, out

vars == <<signedChar, str, i, hex, j, out>>

\* The values of a char of either signedness.
CharValues(s) == IF s THEN -128..127 ELSE 0..255

\* static_cast<char>(v) of a value 0..255.
ToChar(s, v) == IF s /\ v > 127 THEN v - 256 ELSE v

\* "0123456789abcdef"[byte & 0xf]
NibbleToHex(byte) == LET n == byte % 16 IN IF n < 10 THEN 48 + n ELSE 87 + n

\* HexToNibble: '0'..'9', 'a'..'f', 'A'..'F'; any other char is
\* DS2_UNREACHABLE, which the decode loop below never reaches.
HexToNibble(ch) ==
    CASE ch \in 48..57  -> ch - 48
      [] ch \in 97..102 -> ch - 87
      [] ch \in 65..70  -> ch - 55

\* StringToHex is called on any string of up to MaxLen chars.
Init ==
    /\ signedChar \in BOOLEAN
    /\ str \in UNION {[1..k -> CharValues(signedChar)] : k \in 0..MaxLen}
    /\ i = 1
    /\ hex = <<>>
    /\ j = 1
    /\ out = <<>>

\* Mutant: the high nibble taken by n / 16, which truncates toward zero,
\* instead of the arithmetic shift n >> 4.
EncodeCharTruncating ==
    /\ i <= Len(str)
    /\ LET n == str[i]
           q == IF n < 0 THEN -((-n) \div 16) ELSE n \div 16
       IN  hex' = hex \o <<NibbleToHex(q % 256), NibbleToHex(n % 16)>>
    /\ i' = i + 1
    /\ UNCHANGED <<signedChar, str, j, out>>

\* One turn of StringToHex: n >> 4 (arithmetic, i.e. floor division) and
\* n & 15, each cast to uint8_t and written as a hex digit.
EncodeChar ==
    /\ i <= Len(str)
    /\ LET n == str[i]
       IN  hex' = hex \o <<NibbleToHex((n \div 16) % 256), NibbleToHex(n % 16)>>
    /\ i' = i + 1
    /\ UNCHANGED <<signedChar, str, j, out>>

\* One turn of HexToString on the encoded string (of even length, as its
\* DS2ASSERT requires): two digits make one char.
DecodePair ==
    /\ i > Len(str)
    /\ j < Len(hex)
    /\ out' = Append(out, ToChar(signedChar,
                 (HexToNibble(hex[j]) * 16 + HexToNibble(hex[j + 1])) % 256))
    /\ j' = j + 2
    /\ UNCHANGED <<signedChar, str, i, hex>>

Next == EncodeChar \/ DecodePair

Spec == Init /\ [][Next]_vars

\* HexToString(StringToHex(s)) = s for every string s, whichever the
\* signedness of char: a negative char is encoded by its two's-complement
\* byte and decoded back to the same value.
RoundTrip == i > Len(str) /\ j >= Len(hex) => out = str
=============================================================================
