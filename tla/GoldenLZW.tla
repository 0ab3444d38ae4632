------------------------------ MODULE GoldenLZW ------------------------------
(***************************************************************************)
(* The reference encoding of the test bench (encoding of Testbench.cpp),   *)
(* whose table has the words themselves as its keys.                       *)
(***************************************************************************)
EXTENDS Integers, Sequences

CONSTANT Radix   \* number of values of a byte (256), and the first code given out

GoldenStart(s) ==
  [table |-> [w \in {<<v>> : v \in 0 .. Radix - 1} |-> w[1]],
   p |-> <<s[1]>>, code |-> Radix, output |-> <<>>]

GoldenStep(g, c) ==
  LET word == g.p \o c IN
  IF word \in DOMAIN g.table THEN [g EXCEPT !.p = word]
  ELSE [table |-> [w \in DOMAIN g.table \cup {word} |->
                     IF w = word THEN g.code ELSE g.table[w]],
        p |-> c, code |-> g.code + 1,
        output |-> Append(g.output, g.table[g.p])]

Golden(s) ==
  LET state[n \in 0 .. Len(s)] ==
        IF n = 0 THEN GoldenStart(s)
        ELSE GoldenStep(state[n - 1], IF n < Len(s) THEN <<s[n + 1]>> ELSE <<>>)
      end == state[Len(s)]
  IN Append(end.output, end.table[end.p])
=============================================================================
