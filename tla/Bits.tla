-------------------------------- MODULE Bits --------------------------------
(***************************************************************************)
(* The multi-chunk bit utilities of Utils/Bits.h: the templates FFS<T> and *)
(* PopCount<T> apply the unsigned int builtins to a wider T one chunk of   *)
(* sizeof(unsigned int) * 8 bits at a time.  One step of this module is    *)
(* one turn of a template's loop.  ChunkBits stands for the width of       *)
(* unsigned int, Widths for the widths of the types T the templates are    *)
(* instantiated with.  A value is its bit pattern: MakeUnsigned and        *)
(* static_cast<unsigned int> of a signed T are taken modulo 2^width and    *)
(* 2^ChunkBits, which is what the conversions do for a negative number.    *)
(***************************************************************************)
EXTENDS Integers, FiniteSets

CONSTANTS ChunkBits, Widths, Ops

ASSUME BitsAssumption ==
    /\ ChunkBits \in Nat \ {0}
    /\ Widths \subseteq Nat \ {0}
    /\ Ops \subseteq {"ffs", "popcount"}

VARIABLES op, width, number, uNumber, acc, result

vars == <<op, width, number, uNumber, acc, result>>

\* The value of result while the template has not returned.
Running == -1

\* Bit i of n.
Bit(n, i) == (n \div 2^i) % 2

\* static_cast<unsigned int>(n): the low chunk.
LowChunk(n) == n % 2^ChunkBits

\* The builtins __builtin_ffs / _BitScanForward on one unsigned int:
\* one plus the index of the lowest set bit, 0 for 0.
ChunkFFS(c) ==
    IF c = 0 THEN 0
    ELSE CHOOSE i \in 1..ChunkBits :
             Bit(c, i - 1) = 1 /\ \A j \in 1..(i - 1) : Bit(c, j - 1) = 0

\* The builtins __builtin_popcount / _CountOneBits on one unsigned int.
ChunkPopCount(c) == Cardinality({i \in 0..(ChunkBits - 1) : Bit(c, i) = 1})

\* What FFS and PopCount of a w-bit number mean, bit by bit.
RefFFS(n, w) ==
    IF n = 0 THEN 0
    ELSE CHOOSE i \in 1..w :
             Bit(n, i - 1) = 1 /\ \A j \in 1..(i - 1) : Bit(n, j - 1) = 0

RefPopCount(n, w) == Cardinality({i \in 0..(w - 1) : Bit(n, i) = 1})

\* A call of FFS<T> or PopCount<T> on any value of any T.
Init ==
    /\ op \in Ops
    /\ width \in Widths
    /\ number \in 0..(2^width - 1)
    /\ uNumber = number
    /\ acc = 0
    /\ result = Running

\* Mutant: the second `uNumber >>= kHalfIntBits` is forgotten.
FFSTurnSingleShift ==
    /\ op = "ffs" /\ result = Running /\ uNumber > 0
    /\ LET ffs == acc + ChunkFFS(LowChunk(uNumber))
       IN  IF ffs # 0
             THEN result' = ffs /\ UNCHANGED <<uNumber, acc>>
             ELSE /\ uNumber' = uNumber \div 2^(ChunkBits \div 2)
                  /\ acc' = ffs + ChunkBits
                  /\ UNCHANGED result
    /\ UNCHANGED <<op, width, number>>

\* One turn of the FFS<T> loop: add the chunk's FFS; return when the sum is
\* not zero, else drop the chunk and count its bits.
FFSTurn ==
    /\ op = "ffs" /\ result = Running /\ uNumber > 0
    /\ LET ffs == acc + ChunkFFS(LowChunk(uNumber))
       IN  IF ffs # 0
             THEN result' = ffs /\ UNCHANGED <<uNumber, acc>>
             ELSE /\ uNumber' = uNumber \div 2^ChunkBits
                  /\ acc' = ffs + ChunkBits
                  /\ UNCHANGED result
    /\ UNCHANGED <<op, width, number>>

\* The FFS<T> loop ends without a set bit: return 0.
FFSExit ==
    /\ op = "ffs" /\ result = Running /\ uNumber = 0
    /\ result' = 0
    /\ UNCHANGED <<op, width, number, uNumber, acc>>

\* One turn of the PopCount<T> loop: count += PopCount of the low chunk of
\* `number` (the parameter, not the shifted uNumber), then drop a chunk.
PopCountTurn ==
    /\ op = "popcount" /\ result = Running /\ uNumber > 0
    /\ acc' = acc + ChunkPopCount(LowChunk(number))
    /\ uNumber' = uNumber \div 2^ChunkBits
    /\ UNCHANGED <<op, width, number, result>>

\* The PopCount<T> loop ends: return count.
PopCountExit ==
    /\ op = "popcount" /\ result = Running /\ uNumber = 0
    /\ result' = acc
    /\ UNCHANGED <<op, width, number, uNumber, acc>>

Next == FFSTurn \/ FFSExit \/ PopCountTurn \/ PopCountExit

Spec == Init /\ [][Next]_vars

\* FFS<T> returns one plus the index of the lowest set bit of its argument
\* (0 for 0), for every width of T it is instantiated with.
FFSCorrect ==
    op = "ffs" /\ result # Running => result = RefFFS(number, width)

\* PopCount<T> returns the number of set bits of its argument.
PopCountCorrect ==
    op = "popcount" /\ result # Running =>
        result = RefPopCount(number, width)
=============================================================================
