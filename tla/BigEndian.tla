------------------------------ MODULE BigEndian ------------------------------
(****************************************************************************)
(* The lengths that the streams carry in front of their data: unsigned      *)
(* integers in four bytes, the highest byte first.                          *)
(****************************************************************************)
EXTENDS Integers, Sequences

CONSTANT Radix   \* bound: how many values a byte has (256 in the code)

ASSUME RadixAssumption == Radix \in Nat \ {0, 1}

LengthBytes == 4
Lengths == 0..(Radix * (Radix * (Radix * Radix)) - 1)

\* What PutUint32 makes of a length, and Uint32 (or getUint32) of four bytes.
Bytes(n) ==
    LET up(m) == m \div Radix
    IN <<up(up(up(n))) % Radix, up(up(n)) % Radix, up(n) % Radix, n % Radix>>

Length(a, b, c, d) == ((a * Radix + b) * Radix + c) * Radix + d
=============================================================================
