-------------------------------- MODULE ZData --------------------------------
(* The obfuscated files of ZDataFile.hpp (extensions z00 to z99): byte i of  *)
(* the file is xored with bits 16 to 23 of the i-th state of a linear        *)
(* congruential generator.  Reading steps the generator with the position;   *)
(* seeking jumps it by repeated squaring.                                    *)
(*                                                                           *)
(* Xor acts on each bit alone, so a byte is one bit here.  The low bits of   *)
(* the generator do not depend on its high ones, so it is the code's, taken  *)
(* modulo a smaller Word, with the mask bit (Shift) moved down with it.      *)
EXTENDS Integers, Sequences

CONSTANTS
  Mul, Inc,   \* 22695477 and 1
  Seed0,      \* 32093
  Word,       \* 2^32
  Shift,      \* 2^16
  MaxLen      \* bound: jumps compared with steps

Bit == {0, 1}
Words == 0 .. Word - 1

Step(s) == (s * Mul + Inc) % Word
Mask(s) == (s \div Shift) % 2

\* The states from s on, one step at a time.
Seeds(s) ==
  LET g[n \in Nat] == IF n = 0 THEN s ELSE Step(g[n - 1]) IN g

\* seedAfter(): `count` steps at once.  A step is the affine map mul * s + add;
\* each turn of the loop squares the map and, where the bit of count is set,
\* adds it to what is applied to the seed.
Turn(t) ==
  LET odd == t.count % 2 = 1
  IN  IF t.count = 0 THEN t
      ELSE [count  |-> t.count \div 2,
            mul    |-> (t.mul * t.mul) % Word,
            add    |-> (t.add * (t.mul + 1)) % Word,
            accMul |-> IF odd THEN (t.accMul * t.mul) % Word ELSE t.accMul,
            accAdd |-> IF odd THEN (t.accAdd * t.mul + t.add) % Word ELSE t.accAdd]

Before(count) == [count |-> count, mul |-> Mul % Word, add |-> Inc % Word,
                  accMul |-> 1 % Word, accAdd |-> 0]

Turns(count) ==
  LET t[k \in Nat] == IF k = 0 THEN Before(count) ELSE Turn(t[k - 1]) IN t

\* After that many turns nothing is left of count.
SeedAfter(count) ==
  LET t == Turns(count)[count] IN (t.accMul * Seed0 + t.accAdd) % Word

\* What read() makes of the bytes it got when the state was s.
Decode(s, data) == [i \in DOMAIN data |-> (data[i] + Mask(Seeds(s)[i])) % 2]

\* The contents of an obfuscated file (and, xor being its own inverse, how such
\* a file is made).
Plain(data) == Decode(Seed0, data)

ASSUME WordAssumption == /\ Word \in Nat \ {0} /\ Shift \in Nat \ {0}
                         /\ Mul \in Nat /\ Inc \in Nat /\ Seed0 \in Words
                         /\ MaxLen \in Nat

\* Jumping and stepping agree, as far as the bound goes.
JumpIsSteps == \A n \in 0 .. MaxLen : SeedAfter(n) = Seeds(Seed0)[n]
=============================================================================
