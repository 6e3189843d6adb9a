------------------------------ MODULE MCSha256 ------------------------------
(* Words of four bits: a message of up to two chunks and one word, written in *)
(* pieces of none, one, 13, 16 or 17 words, so that its end comes before, at  *)
(* and behind every boundary of the padding.                                  *)
EXTENDS Sha256

MCMix(a, b, c, d) == (a + 3 * b + 5 * c + 7 * d + 1) % 16
MCData(n) == (5 * n + n \div 16 + 3) % 16
MCGarbage == {[i \in 0 .. 15 |-> 7]}
=============================================================================
