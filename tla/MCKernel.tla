------------------------------ MODULE MCKernel ------------------------------
(* Information blocks with a command line of two or three words, the name of  *)
(* the loader, a map of two entries and an end tag, in low memory or in the   *)
(* second hole; maps with and without a hole, one hole that is too small, one *)
(* so long that its length is negative as an int; a padded tag before the end *)
(* tag; a stack that is clear or not.  The line that announces the map is     *)
(* longer than any line of an entry, as in the code (67 characters and 60).   *)
EXTENDS Kernel, TLC

E(base, length, type) == <<base, length, type, 0>>
MCTextLen == 55 :> {2} @@ 56 :> {7} @@ 57 :> {3, 5} @@ 58 :> {3, 6}
MCMaps ==
  { E(0, 28, 1) \o E(28, 5, 1), E(28, 3, 1) \o E(34, 22, 1),
    E(34, 22, 1) \o E(28, 5, 1), E(28, 5, 2) \o E(0, 28, 1) }

(* The words of an information block with a command line of c words. *)
Info(c, pad, entries) ==
  LET tags == <<1, c>> \o (IF c = 3 THEN <<9, pad>> ELSE << >>)
                \o <<2, 4, 40, 41>> \o <<6, 12, 4, 0>> \o entries \o <<0, 2>>
  IN <<2 + Len(tags), 0>> \o tags

Memory(at, words, rest) ==
  [a \in 0 .. 56 |-> IF a - at \in 0 .. Len(words) - 1 THEN words[a - at + 1]
                     ELSE IF a >= 28 THEN rest ELSE 0]

Boot(at, c, pad, entries, stack, rest) ==
  [magic |-> TRUE, rbx |-> at, mem |-> Memory(at, Info(c, pad, entries), rest),
   line |-> [i \in 1 .. 10 |-> stack], tail |-> IF rest = 0 THEN << >> ELSE <<60>>,
   kmem_base |-> IF stack = 0 THEN 0 ELSE 30, kmem_len |-> 9 * stack,
   tags |-> {at + 2, at + 2 + c + (c % 2)} \cup {at + 6 + c + (c % 2) + n : n \in {0, 12}},
   tag |-> at + (IF c = 3 THEN 10 ELSE 8), padded |-> c = 3]

MCBoots ==
  {Boot(at, 2, 0, m, stack, rest) : at \in {2, 34}, m \in MCMaps, stack \in {0, 1}, rest \in {0, 3}}
    \cup {Boot(2, 3, pad, m, 0, 0) : pad \in {0, 2}, m \in MCMaps}
    \cup {[Boot(2, 2, 0, E(0, 28, 1), 0, 0) EXCEPT !.magic = FALSE],
          [Boot(2, 2, 0, << >>, 0, 0) EXCEPT !.mem[2] = 4, !.tags = {4}, !.tag = 0],
          [Boot(2, 10, 0, << >>, 0, 0) EXCEPT !.mem = Memory(2, <<14, 0, 1, 10, 0, 0, 0, 0, 0, 0, 0, 0, 0, 2>>, 0),
                                              !.tags = {4, 14}, !.tag = 0],
          [Boot(2, 10, 0, << >>, 0, 0) EXCEPT !.mem = Memory(2, <<14, 0, 1, 9, 0, 0, 0, 0, 0, 0, 0, 0, 0, 2>>, 0),
                                              !.tags = {4, 14}, !.tag = 0, !.padded = TRUE]}
=============================================================================
