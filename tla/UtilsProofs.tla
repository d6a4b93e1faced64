----------------------------- MODULE UtilsProofs -----------------------------
(***************************************************************************)
(* Proof that HexToString(StringToHex(s)) gives back s, for strings of    *)
(* any length and either signedness of char: the loop invariant of the    *)
(* two loops of Utils/HexValues.h, as H of MC_Utils runs them.             *)
(***************************************************************************)
EXTENDS MC_Utils, Sequences, TLAPS

ST == INSTANCE SequenceTheorems

\* HexToNibble reads back the digit NibbleToHex writes for the low four
\* bits of any value.
LEMMA NibbleRoundTrip ==
    ASSUME NEW v \in Int
    PROVE  H!HexToNibble(H!NibbleToHex(v)) = v % 16
<1> DEFINE n == v % 16
<1>1. n \in 0..15
  OBVIOUS
<1>2. CASE n < 10
  BY <1>1, <1>2 DEF H!NibbleToHex, H!HexToNibble
<1>3. CASE ~(n < 10)
  BY <1>1, <1>3 DEF H!NibbleToHex, H!HexToNibble
<1>4. QED
  BY <1>2, <1>3

\* One char of either signedness survives its two hex digits: the high
\* digit is (n >> 4) cast to uint8_t, the low one n & 0xf, and the decoded
\* byte is cast back to char.
LEMMA CharRoundTrip ==
    ASSUME NEW s \in BOOLEAN, NEW n \in H!CharValues(s)
    PROVE  H!ToChar(s, (H!HexToNibble(H!NibbleToHex((n \div 16) % 256)) * 16
                        + H!HexToNibble(H!NibbleToHex(n % 16))) % 256) = n
<1>1. n \in Int
  BY DEF H!CharValues
<1>2. /\ H!HexToNibble(H!NibbleToHex((n \div 16) % 256)) = ((n \div 16) % 256) % 16
      /\ H!HexToNibble(H!NibbleToHex(n % 16)) = (n % 16) % 16
  BY <1>1, NibbleRoundTrip
<1>3. (((((n \div 16) % 256) % 16) * 16) + ((n % 16) % 16)) % 256 = n % 256
  BY <1>1
<1>4. QED
  BY <1>2, <1>3 DEF H!ToChar, H!CharValues

(***************************************************************************)
(* The loop invariant.  StringToHex has encoded the first i - 1 chars, two *)
(* digits each; HexToString, which starts once the encoding is complete,   *)
(* has decoded one char per pair of digits read, each equal to the char   *)
(* it came from.                                                          *)
(***************************************************************************)
HexInv ==
    /\ signedChar \in BOOLEAN
    /\ str \in Seq(Int)
    /\ \A k \in 1..Len(str) : str[k] \in H!CharValues(signedChar)
    /\ i \in 1..(Len(str) + 1)
    /\ hex \in Seq(Int)
    /\ Len(hex) = 2 * (i - 1)
    /\ \A k \in 1..(i - 1) :
           /\ hex[2 * k - 1] = H!NibbleToHex((str[k] \div 16) % 256)
           /\ hex[2 * k] = H!NibbleToHex(str[k] % 16)
    /\ out \in Seq(Int)
    /\ j = 2 * Len(out) + 1
    /\ Len(out) <= i - 1
    /\ \A k \in 1..Len(out) : out[k] = str[k]

LEMMA HexInit == H!Init => HexInv
<1> SUFFICES ASSUME H!Init PROVE HexInv
  OBVIOUS
<1>1. PICK n \in 0..MaxLen : str \in [1..n -> H!CharValues(signedChar)]
  BY DEF H!Init
<1>2. H!CharValues(signedChar) \subseteq Int
  BY DEF H!CharValues
<1>3. /\ str \in Seq(Int)
      /\ Len(str) = n
  BY <1>1, <1>2
<1>4. \A k \in 1..Len(str) : str[k] \in H!CharValues(signedChar)
  BY <1>1, <1>3
<1>5. QED
  BY <1>3, <1>4 DEF H!Init, HexInv

\* What Append(s, a) is, as HexToString's push_back builds it.
LEMMA AppendOne ==
    ASSUME NEW s \in Seq(Int), NEW a \in Int
    PROVE  /\ Append(s, a) \in Seq(Int)
           /\ Len(Append(s, a)) = Len(s) + 1
           /\ \A k \in 1..Len(s) : Append(s, a)[k] = s[k]
           /\ Append(s, a)[Len(s) + 1] = a
OBVIOUS

\* A hex digit is a character code.
LEMMA NibbleIsInt ==
    ASSUME NEW v \in Int
    PROVE  H!NibbleToHex(v) \in Int
BY DEF H!NibbleToHex

LEMMA EncodeStep == HexInv /\ H!EncodeChar => HexInv'
<1> SUFFICES ASSUME HexInv, H!EncodeChar PROVE HexInv'
  OBVIOUS
<1> DEFINE n == str[i]
           hi == H!NibbleToHex((n \div 16) % 256)
           lo == H!NibbleToHex(n % 16)
<1>1. /\ i <= Len(str) /\ i' = i + 1 /\ hex' = hex \o <<hi, lo>>
      /\ UNCHANGED <<signedChar, str, j, out>>
  BY DEF H!EncodeChar
<1>2. /\ str \in Seq(Int) /\ i \in 1..(Len(str) + 1) /\ hex \in Seq(Int)
      /\ Len(hex) = 2 * (i - 1)
  BY ZenonT(60) DEF HexInv
<1>3. \A k \in 1..(i - 1) :
           /\ hex[2 * k - 1] = H!NibbleToHex((str[k] \div 16) % 256)
           /\ hex[2 * k] = H!NibbleToHex(str[k] % 16)
  BY ZenonT(60) DEF HexInv
<1>4. i \in 1..Len(str) /\ n \in Int
  <2>1. i \in 1..Len(str)
    BY <1>1, <1>2, SMTT(60)
  <2>2. QED
    BY <1>2, <2>1, SMTT(60) DEF n
<1>5. hi \in Int /\ lo \in Int
  <2>1. (n \div 16) % 256 \in Int /\ n % 16 \in Int
    BY <1>4
  <2>2. QED
    BY <2>1, NibbleIsInt, ZenonT(60)
<1> HIDE DEF n, hi, lo
<1>6. /\ hex' \in Seq(Int)
      /\ Len(hex') = Len(hex) + 2
      /\ \A k \in 1..Len(hex) : hex'[k] = hex[k]
      /\ hex'[Len(hex) + 1] = hi /\ hex'[Len(hex) + 2] = lo
  <2>1. /\ hex \o <<hi, lo>> \in Seq(Int)
        /\ Len(hex \o <<hi, lo>>) = Len(hex) + 2
        /\ \A k \in 1..Len(hex) : (hex \o <<hi, lo>>)[k] = hex[k]
        /\ (hex \o <<hi, lo>>)[Len(hex) + 1] = hi
        /\ (hex \o <<hi, lo>>)[Len(hex) + 2] = lo
    <3>1. <<hi, lo>> \in Seq(Int) /\ Len(<<hi, lo>>) = 2
      BY <1>5
    <3>2. /\ hex \o <<hi, lo>> \in Seq(Int)
          /\ Len(hex \o <<hi, lo>>) = Len(hex) + 2
          /\ \A k \in 1..Len(hex) + 2 : (hex \o <<hi, lo>>)[k] =
                IF k <= Len(hex) THEN hex[k] ELSE <<hi, lo>>[k - Len(hex)]
      BY <1>2, <3>1, ST!ConcatProperties
    <3>3. QED
      BY <1>2, <3>2
  <2>2. QED
    BY <1>1, <2>1, ZenonT(60)
<1>7. \A k \in 1..(i' - 1) :
           /\ hex'[2 * k - 1] = H!NibbleToHex((str'[k] \div 16) % 256)
           /\ hex'[2 * k] = H!NibbleToHex(str'[k] % 16)
  <2>1. \A k \in 1..i :
           /\ hex'[2 * k - 1] = H!NibbleToHex((str[k] \div 16) % 256)
           /\ hex'[2 * k] = H!NibbleToHex(str[k] % 16)
    <3> SUFFICES ASSUME NEW k \in 1..i
                 PROVE  /\ hex'[2 * k - 1] = H!NibbleToHex((str[k] \div 16) % 256)
                        /\ hex'[2 * k] = H!NibbleToHex(str[k] % 16)
      OBVIOUS
    <3>1. CASE k < i
      <4>1. 2 * k - 1 \in 1..Len(hex) /\ 2 * k \in 1..Len(hex)
        BY <1>2, <3>1
      <4>2. k \in 1..(i - 1)
        BY <1>2, <3>1
      <4>3. /\ hex[2 * k - 1] = H!NibbleToHex((str[k] \div 16) % 256)
            /\ hex[2 * k] = H!NibbleToHex(str[k] % 16)
        BY <1>3, <4>2, ZenonT(60)
      <4>4. hex'[2 * k - 1] = hex[2 * k - 1] /\ hex'[2 * k] = hex[2 * k]
        BY <1>6, <4>1, ZenonT(60)
      <4>5. QED
        BY <4>3, <4>4, ZenonT(60)
    <3>2. CASE k = i
      <4>1. 2 * k - 1 = Len(hex) + 1 /\ 2 * k = Len(hex) + 2
        BY <1>2, <3>2
      <4>2. hex'[2 * k - 1] = hi /\ hex'[2 * k] = lo
        BY <1>6, <4>1, SMTT(60)
      <4>3. str[k] = n
        BY <3>2 DEF n
      <4>4. QED
        BY <4>2, <4>3, ZenonT(60) DEF hi, lo
    <3>3. QED
      BY <3>1, <3>2, <1>2
  <2>2. 1..(i' - 1) = 1..i
    BY <1>1, <1>2
  <2>3. str' = str
    BY <1>1
  <2>4. QED
    <3> TAKE k \in 1..(i' - 1)
    <3>1. k \in 1..i
      BY <2>2, ZenonT(60)
    <3>2. /\ hex'[2 * k - 1] = H!NibbleToHex((str[k] \div 16) % 256)
          /\ hex'[2 * k] = H!NibbleToHex(str[k] % 16)
      BY <2>1, <3>1, ZenonT(60)
    <3>3. QED
      BY <3>2, <2>3, ZenonT(60)
<1>8. /\ i' \in 1..(Len(str') + 1)
      /\ Len(hex') = 2 * (i' - 1)
  BY <1>1, <1>2, <1>4, <1>6
<1>9. /\ Len(out) <= i - 1
      /\ Len(out') <= i' - 1
  <2>1. Len(out) <= i - 1 /\ out \in Seq(Int)
    BY ZenonT(60) DEF HexInv
  <2>2. QED
    BY <1>1, <1>2, <2>1
<1>10. QED
  BY <1>1, <1>6, <1>7, <1>8, <1>9, ZenonT(60) DEF HexInv

LEMMA DecodeStep == HexInv /\ H!DecodePair => HexInv'
<1> SUFFICES ASSUME HexInv, H!DecodePair PROVE HexInv'
  OBVIOUS
<1> DEFINE m == Len(out)
           c == H!ToChar(signedChar,
                   (H!HexToNibble(hex[j]) * 16 + H!HexToNibble(hex[j + 1])) % 256)
<1>1. /\ i > Len(str) /\ j < Len(hex) /\ out' = Append(out, c) /\ j' = j + 2
      /\ UNCHANGED <<signedChar, str, i, hex>>
  BY DEF H!DecodePair
<1> HIDE DEF c
<1>2. /\ str \in Seq(Int) /\ i \in 1..(Len(str) + 1)
      /\ Len(hex) = 2 * (i - 1)
      /\ out \in Seq(Int) /\ j = 2 * Len(out) + 1 /\ Len(out) <= i - 1
  BY ZenonT(60) DEF HexInv
<1>3. \A k \in 1..(i - 1) :
           /\ hex[2 * k - 1] = H!NibbleToHex((str[k] \div 16) % 256)
           /\ hex[2 * k] = H!NibbleToHex(str[k] % 16)
  BY ZenonT(60) DEF HexInv
<1>4. /\ m \in Nat /\ m + 1 \in 1..(i - 1) /\ m + 1 \in 1..Len(str)
      /\ j = 2 * (m + 1) - 1 /\ j + 1 = 2 * (m + 1)
      /\ i = Len(str) + 1
  <2>1. m \in Nat /\ Len(str) \in Nat
    BY <1>2 DEF m
  <2>2. i = Len(str) + 1
    <3>1. i > Len(str) /\ i \in 1..(Len(str) + 1)
      BY <1>1, <1>2, ZenonT(60)
    <3>2. QED
      BY <2>1, <3>1
  <2>3. 2 * m + 1 < 2 * (i - 1)
    BY <1>1, <1>2
  <2>4. QED
    BY <1>2, <2>1, <2>2, <2>3
<1> HIDE DEF m
<1>5. /\ hex[j] = H!NibbleToHex((str[m + 1] \div 16) % 256)
      /\ hex[j + 1] = H!NibbleToHex(str[m + 1] % 16)
  <2>1. /\ hex[2 * (m + 1) - 1] = H!NibbleToHex((str[m + 1] \div 16) % 256)
        /\ hex[2 * (m + 1)] = H!NibbleToHex(str[m + 1] % 16)
    BY <1>3, <1>4, ZenonT(60)
  <2>2. QED
    BY <1>4, <2>1, ZenonT(60)
<1>6. signedChar \in BOOLEAN /\ str[m + 1] \in H!CharValues(signedChar)
  <2>1. signedChar \in BOOLEAN /\ \A k \in 1..Len(str) : str[k] \in H!CharValues(signedChar)
    BY ZenonT(60) DEF HexInv
  <2>2. QED
    BY <1>4, <2>1, ZenonT(60)
<1>7. c = str[m + 1]
  <2>1. H!ToChar(signedChar,
          (H!HexToNibble(H!NibbleToHex((str[m + 1] \div 16) % 256)) * 16
           + H!HexToNibble(H!NibbleToHex(str[m + 1] % 16))) % 256) = str[m + 1]
    BY <1>6, CharRoundTrip
  <2>2. QED
    BY <1>5, <2>1, ZenonT(60) DEF c
<1>8. str[m + 1] \in Int
  BY <1>6 DEF H!CharValues
<1>9. /\ out' \in Seq(Int)
      /\ Len(out') = m + 1
      /\ \A k \in 1..m : out'[k] = out[k]
      /\ out'[m + 1] = str[m + 1]
  <2>1. out' = Append(out, str[m + 1])
    BY <1>1, <1>7
  <2>2. QED
    BY <1>2, <1>8, <2>1, AppendOne DEF m
<1>10. \A k \in 1..Len(out') : out'[k] = str'[k]
  <2>1. \A k \in 1..m : out[k] = str[k]
    BY ZenonT(60) DEF HexInv, m
  <2> SUFFICES ASSUME NEW k \in 1..(m + 1) PROVE out'[k] = str[k]
    BY <1>1, <1>9, ZenonT(60)
  <2>2. CASE k \in 1..m
    BY <1>9, <2>1, <2>2, ZenonT(60)
  <2>3. CASE k = m + 1
    BY <1>9, <2>3, ZenonT(60)
  <2>4. QED
    BY <1>4, <2>2, <2>3
<1>11. /\ j' = 2 * Len(out') + 1
       /\ Len(out') <= i' - 1
  BY <1>1, <1>2, <1>4, <1>9 DEF m
<1>12. QED
  BY <1>1, <1>3, <1>9, <1>10, <1>11, ZenonT(60) DEF HexInv

LEMMA HexStep == HexInv /\ [UtilsNext]_<<vars, hexVars>> => HexInv'
<1> SUFFICES ASSUME HexInv, [UtilsNext]_<<vars, hexVars>> PROVE HexInv'
  OBVIOUS
<1>1. CASE H!Next /\ UNCHANGED vars
  BY <1>1, EncodeStep, DecodeStep DEF H!Next
<1>2. CASE UNCHANGED hexVars
  BY <1>2 DEF HexInv, hexVars
<1>3. QED
  BY <1>1, <1>2 DEF UtilsNext, hexVars

\* StringToHex followed by HexToString is the identity on strings of every
\* length, for signed and unsigned char builds; see HexRoundTrip.
THEOREM HexRoundTripHolds == UtilsSpec => []HexRoundTrip
<1>1. UtilsInit => HexInv
  BY HexInit DEF UtilsInit
<1>2. HexInv => HexRoundTrip
  <2> SUFFICES ASSUME HexInv, i > Len(str), j >= Len(hex) PROVE out = str
    BY DEF HexRoundTrip, H!RoundTrip
  <2>1. Len(out) = Len(str)
    BY DEF HexInv
  <2>2. out \in Seq(Int) /\ str \in Seq(Int)
    BY DEF HexInv
  <2>3. DOMAIN out = DOMAIN str
    BY <2>1, <2>2
  <2>4. \A k \in 1..Len(out) : out[k] = str[k]
    BY DEF HexInv
  <2>5. \A k \in DOMAIN out : out[k] = str[k]
    BY <2>2, <2>4
  <2>6. QED
    BY <2>2, <2>3, <2>5, SMTT(60)
<1>3. QED
  BY <1>1, <1>2, HexStep, PTL DEF UtilsSpec

=============================================================================
