------------------------------- MODULE Base64 -------------------------------
(***************************************************************************)
(* Base64::Encode and Decode.  A byte is 0..255; a character is the number *)
(* 0..63 it stands for, or Padding.  Encode is defined for two bytes and   *)
(* more, Decode for one quadruple and more: below that the code's unsigned *)
(* lengths wrap.                                                           *)
(***************************************************************************)
EXTENDS Naturals, Sequences

Padding == 64
Byte == 0 .. 255

Quadruple(a, b, c) ==
  <<a \div 4, (a % 4) * 16 + b \div 16, (b % 16) * 4 + c \div 64, c % 64>>

\* Mutant: the loop leaves the last triple out.
LoopEndsEarly(n) == n - 3

\* The loop takes a triple at i while i is below this.
LoopEnds(n) == n - 2

\* How many triples the loop takes: i is 0, 3, 6 and so on.
Triples(n) == (LoopEnds(n) + 2) \div 3

\* What is left behind the triples: nothing, one byte or two.
EncodeRest(d) ==
  LET n == Len(d)
      i == 3 * Triples(n)
  IN IF i >= n THEN <<>>
     ELSE IF i = n - 1 THEN <<d[i + 1] \div 4, (d[i + 1] % 4) * 16, Padding, Padding>>
     ELSE <<d[i + 1] \div 4, (d[i + 1] % 4) * 16 + d[i + 2] \div 16,
            (d[i + 2] % 16) * 4, Padding>>

Encode(d) ==
  [j \in 1 .. 4 * Triples(Len(d)) |->
     LET i == 3 * ((j - 1) \div 4)
     IN Quadruple(d[i + 1], d[i + 2], d[i + 3])[((j - 1) % 4) + 1]]
  \o EncodeRest(d)

Value(c) == IF c = Padding THEN 0 ELSE c

\* Mutant: only one '=' is looked for.
OutLenOne(s) == (Len(s) \div 4) * 3 - (IF s[Len(s)] = Padding THEN 1 ELSE 0)

OutLen(s) == (Len(s) \div 4) * 3 - (IF s[Len(s)] = Padding THEN 1 ELSE 0)
                                 - (IF s[Len(s) - 1] = Padding THEN 1 ELSE 0)

\* The 24 bits of the k-th quadruple of s.
Triple(s, k) == Value(s[4 * k - 3]) * 2^18 + Value(s[4 * k - 2]) * 2^12
                + Value(s[4 * k - 1]) * 2^6 + Value(s[4 * k])

\* The bytes of s, whose length is a multiple of 4.
Decode(s) ==
  [j \in 1 .. OutLen(s) |->
     (Triple(s, (j + 2) \div 3) \div 2^(8 * (2 - ((j - 1) % 3)))) % 256]

-----------------------------------------------------------------------------
(* RFC 4648: the bits of d, six at a time, filled with zeros and padding. *)

Bit(d, k) == IF k < 8 * Len(d) THEN (d[k \div 8 + 1] \div 2^(7 - (k % 8))) % 2 ELSE 0
Sextet(d, j) == Bit(d, 6 * j) * 32 + Bit(d, 6 * j + 1) * 16 + Bit(d, 6 * j + 2) * 8
                + Bit(d, 6 * j + 3) * 4 + Bit(d, 6 * j + 4) * 2 + Bit(d, 6 * j + 5)
Standard(d) ==
  [j \in 1 .. 4 * ((Len(d) + 2) \div 3) |->
     IF 6 * (j - 1) >= 8 * Len(d) THEN Padding ELSE Sextet(d, j - 1)]
=============================================================================
