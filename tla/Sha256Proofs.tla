---------------------------- MODULE Sha256Proofs ----------------------------
(***************************************************************************)
(* The invariants of the streaming SHA-256, for every word, every length   *)
(* of the length, every mixing function, every message and every way to    *)
(* cut it into writes.                                                     *)
(***************************************************************************)
EXTENDS Sha256, SequenceTheorems, InductionLemmas

-----------------------------------------------------------------------------
(* The length *)

(* Cutting off the last word and reducing the rest. *)
LEMMA ModProduct ==
  ASSUME NEW x \in Nat, NEW B \in Nat \ {0}, NEW P \in Nat \ {0}
  PROVE  ((x \div B) % P) * B + (x % B) = x % (P * B)
<1> DEFINE q == x \div B
           r == x % B
           a == q \div P
           b == q % P
<1>1. q \in Nat /\ r \in 0 .. B - 1 /\ x = B * q + r
  OBVIOUS
<1>2. a \in Nat /\ b \in 0 .. P - 1 /\ q = P * a + b
  BY <1>1
<1> HIDE DEF q, r, a, b
<1>3. b * B + r \in 0 .. P * B - 1
  BY <1>1, <1>2
<1>4. x = (P * B) * a + (b * B + r)
  BY <1>1, <1>2
<1>5. P * B \in Nat \ {0}
  OBVIOUS
<1>6. \A m \in Nat \ {0} : \A y \in Nat, z \in 0 .. m - 1 : (m * y + z) % m = z
  OBVIOUS
<1>7. x % (P * B) = b * B + r
  BY <1>2, <1>3, <1>4, <1>5, <1>6
<1> QED  BY <1>7 DEF q, r, b

(* Scale divides a word, so the two shifts of the length fit together. *)
LEMMA ShiftScaled ==
  ASSUME NEW n \in Nat
  PROVE  n \div (Base \div Scale) = (n * Scale) \div Base
<1> DEFINE c == Base \div Scale
           q == n \div c
           r == n % c
<1>0. Base \in Nat \ {0} /\ Scale \in Nat \ {0} /\ Base % Scale = 0
  BY Sha256Assumption
<1>1. Base = Scale * c /\ c \in Nat
  BY <1>0
<1>2. c \in Nat \ {0}
  BY <1>0, <1>1
<1> HIDE DEF c
<1>3. q \in Nat /\ r \in 0 .. c - 1 /\ n = c * q + r
  BY <1>2
<1> HIDE DEF q, r
<1>4. n * Scale = Base * q + r * Scale
  BY <1>0, <1>1, <1>2, <1>3
<1>5. r * Scale \in 0 .. Base - 1
  BY <1>0, <1>1, <1>2, <1>3
<1>6. \A m \in Nat \ {0} : \A y \in Nat, z \in 0 .. m - 1 : (m * y + z) \div m = y
  OBVIOUS
<1>7. (n * Scale) \div Base = q
  BY <1>0, <1>3, <1>4, <1>5, <1>6
<1> QED  BY <1>7 DEF q, c

(* The shifts of the length, as the recursion defines them. *)
LEMMA ShiftedIs ==
  ASSUME NEW n \in Nat
  PROVE  /\ Shifted(n) \in [0 .. LenLen -> Nat]
         /\ Shifted(n)[0] = n \div (Base \div Scale)
         /\ \A k \in 1 .. LenLen : Shifted(n)[k] = Shifted(n)[k - 1] \div Base
<1> DEFINE a == n \div (Base \div Scale)
           D(f) == f = [k \in 0 .. LenLen |-> IF k = 0 THEN a ELSE f[k - 1] \div Base]
           G == [k \in 1 .. LenLen |-> [x \in Nat |-> x \div Base]]
           s == Shifted(n)
<1>0. Base \in Nat \ {0} /\ LenLen \in Nat
  BY Sha256Assumption DEF Chunk
<1>1. a \in Nat
  <2>1. (n * Scale) \div Base \in Nat
    BY Sha256Assumption
  <2> QED  BY <2>1, ShiftScaled
<1> HIDE DEF a
<1>2. G \in Step(LenLen, Nat)
  BY <1>0 DEF Step
<1>3. PICK f : IsIteration(f, LenLen, Nat, a, G)
  <2> HIDE DEF G
  <2> QED  BY <1>0, <1>1, <1>2, IterationExists
<1>4. f \in [0 .. LenLen -> Nat] /\ f[0] = a /\ \A k \in 1 .. LenLen : f[k] = f[k - 1] \div Base
  <2>1. f \in [0 .. LenLen -> Nat] /\ f[0] = a /\ \A k \in 1 .. LenLen : f[k] = G[k][f[k - 1]]
    <3> HIDE DEF G
    <3> QED  BY <1>3 DEF IsIteration
  <2>2. ASSUME NEW k \in 1 .. LenLen PROVE G[k][f[k - 1]] = f[k - 1] \div Base
    <3>1. f[k - 1] \in Nat
      <4>1. k - 1 \in 0 .. LenLen
        BY <1>0
      <4> QED  BY Zenon, <4>1, <2>1
    <3> QED  BY <3>1
  <2> QED  BY <2>1, <2>2
<1>5. D(f)
  <2>1. \A k \in 0 .. LenLen : k = 0 \/ k \in 1 .. LenLen
    BY <1>0
  <2>2. \A k \in 0 .. LenLen : f[k] = IF k = 0 THEN a ELSE f[k - 1] \div Base
    BY Zenon, <1>4, <2>1
  <2> QED  BY <2>2, <1>4
<1>6. s = CHOOSE g : D(g)
  BY DEF Shifted, a
<1>7. D(s)
  <2> HIDE DEF D, s
  <2> QED  BY Zenon, <1>5, <1>6
<1> HIDE DEF s
<1>8. s[0] = a /\ \A k \in 1 .. LenLen : s[k] = s[k - 1] \div Base
  <2>1. \A k \in 0 .. LenLen : s[k] = IF k = 0 THEN a ELSE s[k - 1] \div Base
    BY Zenon, <1>7
  <2> QED  BY <2>1, <1>0
<1>9. \A k \in 1 .. LenLen : s[k - 1] \in Nat => s[k] \in Nat
  BY <1>0, <1>8
<1>10. \A k \in 0 .. LenLen : s[k] \in Nat
  BY <1>0, <1>1, <1>8, <1>9, IterationPreserves
<1>11. s \in [0 .. LenLen -> Nat]
  BY <1>7, <1>10
<1> QED  BY <1>8, <1>11 DEF s, a

(* The powers of Base, whose last is Modulus. *)
IsPower(p) ==
  /\ p \in [0 .. LenLen -> Nat \ {0}]
  /\ p[0] = 1
  /\ \A k \in 1 .. LenLen : p[k] = p[k - 1] * Base

LEMMA ModulusIs == \E p : IsPower(p) /\ Modulus = p[LenLen]
<1> DEFINE N == Nat \ {0}
           D(f) == f = [k \in 0 .. LenLen |-> IF k = 0 THEN 1 ELSE f[k - 1] * Base]
           G == [k \in 1 .. LenLen |-> [x \in N |-> x * Base]]
           s == CHOOSE g : D(g)
<1>0. Base \in N /\ LenLen \in Nat
  BY Sha256Assumption DEF Chunk
<1>1. G \in Step(LenLen, N) /\ 1 \in N
  BY <1>0 DEF Step
<1>2. PICK f : IsIteration(f, LenLen, N, 1, G)
  <2> HIDE DEF G, N
  <2> QED  BY <1>0, <1>1, IterationExists
<1>3. f \in [0 .. LenLen -> N] /\ f[0] = 1 /\ \A k \in 1 .. LenLen : f[k] = f[k - 1] * Base
  <2>1. f \in [0 .. LenLen -> N] /\ f[0] = 1 /\ \A k \in 1 .. LenLen : f[k] = G[k][f[k - 1]]
    <3> HIDE DEF G
    <3> QED  BY <1>2 DEF IsIteration
  <2>2. ASSUME NEW k \in 1 .. LenLen PROVE G[k][f[k - 1]] = f[k - 1] * Base
    <3>1. f[k - 1] \in N
      <4>1. k - 1 \in 0 .. LenLen
        BY <1>0
      <4> QED  BY Zenon, <4>1, <2>1
    <3> QED  BY <3>1
  <2> QED  BY <2>1, <2>2
<1>4. D(f)
  <2>1. \A k \in 0 .. LenLen : k = 0 \/ k \in 1 .. LenLen
    BY <1>0
  <2>2. \A k \in 0 .. LenLen : f[k] = IF k = 0 THEN 1 ELSE f[k - 1] * Base
    BY Zenon, <1>3, <2>1
  <2> QED  BY <2>2, <1>3
<1>5. D(s)
  <2> HIDE DEF D
  <2> QED  BY Zenon, <1>4
<1>6. Modulus = s[LenLen]
  BY DEF Modulus
<1> HIDE DEF s
<1>7. s[0] = 1 /\ \A k \in 1 .. LenLen : s[k] = s[k - 1] * Base
  <2>1. \A k \in 0 .. LenLen : s[k] = IF k = 0 THEN 1 ELSE s[k - 1] * Base
    BY Zenon, <1>5
  <2> QED  BY <2>1, <1>0
<1>8. s[0] \in N /\ \A k \in 1 .. LenLen : s[k - 1] \in N => s[k] \in N
  BY <1>0, <1>7
<1>9. \A k \in 0 .. LenLen : s[k] \in N
  <2> HIDE DEF N
  <2> QED  BY <1>0, <1>8, IterationPreserves
<1>10. s \in [0 .. LenLen -> N]
  BY <1>5, <1>9
<1> QED  BY <1>6, <1>7, <1>10 DEF IsPower

(* The values of the beginnings of s, whose last is Value(s). *)
IsValue(f, s, n) ==
  /\ f \in [0 .. n -> Nat]
  /\ f[0] = 0
  /\ \A k \in 1 .. n : f[k] = f[k - 1] * Base + s[k]

LEMMA ValueIs ==
  ASSUME NEW n \in Nat, NEW s \in [1 .. n -> Nat], Len(s) = n
  PROVE  \E f : IsValue(f, s, n) /\ Value(s) = f[n]
<1> DEFINE D(f) == f = [k \in 0 .. Len(s) |-> IF k = 0 THEN 0 ELSE f[k - 1] * Base + s[k]]
           G == [k \in 1 .. n |-> [x \in Nat |-> x * Base + s[k]]]
           v == CHOOSE g : D(g)
<1>0. Base \in Nat \ {0}
  BY Sha256Assumption
<1>1. G \in Step(n, Nat) /\ 0 \in Nat
  BY <1>0 DEF Step
<1>2. PICK f : IsIteration(f, n, Nat, 0, G)
  <2> HIDE DEF G
  <2> QED  BY <1>0, <1>1, IterationExists
<1>3. f \in [0 .. n -> Nat] /\ f[0] = 0 /\ \A k \in 1 .. n : f[k] = f[k - 1] * Base + s[k]
  <2>1. f \in [0 .. n -> Nat] /\ f[0] = 0 /\ \A k \in 1 .. n : f[k] = G[k][f[k - 1]]
    <3> HIDE DEF G
    <3> QED  BY <1>2 DEF IsIteration
  <2>2. ASSUME NEW k \in 1 .. n PROVE G[k][f[k - 1]] = f[k - 1] * Base + s[k]
    <3>1. f[k - 1] \in Nat
      <4>1. k - 1 \in 0 .. n
        BY <1>0
      <4> QED  BY Zenon, <4>1, <2>1
    <3> QED  BY <3>1
  <2> QED  BY <2>1, <2>2
<1>4. D(f)
  <2>1. \A k \in 0 .. n : k = 0 \/ k \in 1 .. n
    BY <1>0
  <2>2. \A k \in 0 .. n : f[k] = IF k = 0 THEN 0 ELSE f[k - 1] * Base + s[k]
    BY Zenon, <1>3, <2>1
  <2> QED  BY <2>2, <1>3
<1>5. D(v)
  <2> HIDE DEF D
  <2> QED  BY Zenon, <1>4
<1>6. Value(s) = v[n]
  BY DEF Value
<1> HIDE DEF v
<1>7. v[0] = 0 /\ \A k \in 1 .. n : v[k] = v[k - 1] * Base + s[k]
  <2>1. \A k \in 0 .. n : v[k] = IF k = 0 THEN 0 ELSE v[k - 1] * Base + s[k]
    BY Zenon, <1>5
  <2> QED  BY <2>1, <1>0
<1>8. v[0] \in Nat /\ \A k \in 1 .. n : v[k - 1] \in Nat => v[k] \in Nat
  <2>1. \A k \in 1 .. n : s[k] \in Nat
    OBVIOUS
  <2>2. \A x, y \in Nat : x * Base + y \in Nat
    BY <1>0
  <2>3. 0 \in Nat
    OBVIOUS
  <2> QED  BY Zenon, <1>7, <2>1, <2>2, <2>3
<1>9. \A k \in 0 .. n : v[k] \in Nat
  BY <1>0, <1>8, IterationPreserves
<1>10. v \in [0 .. n -> Nat]
  BY <1>5, <1>9
<1> QED  BY <1>6, <1>7, <1>10 DEF IsValue

(* The words that sha_256_close writes are the length in bits, reduced to  *)
(* what they can hold: after the first i words the value is that of the    *)
(* length, shifted by the words to come, modulo the i-th power.            *)
LEMMA LengthValue ==
  ASSUME NEW n \in Nat, NEW s \in [1 .. LenLen -> Nat], Len(s) = LenLen,
         s[LenLen] = (n * Scale) % Base,
         \A i \in 1 .. LenLen - 1 : s[i] = Shifted(n)[LenLen - 1 - i] % Base
  PROVE  Value(s) = (n * Scale) % Modulus
<1>0. Base \in Nat \ {0} /\ LenLen \in Nat \ {0} /\ Scale \in Nat \ {0}
  BY Sha256Assumption DEF Chunk
<1>1. PICK p : IsPower(p) /\ Modulus = p[LenLen]
  BY ModulusIs
<1>2. PICK f : IsValue(f, s, LenLen) /\ Value(s) = f[LenLen]
  BY <1>0, ValueIs
<1> DEFINE x == Shifted(n)
<1>3. /\ x \in [0 .. LenLen -> Nat]
      /\ x[0] = n \div (Base \div Scale)
      /\ \A k \in 1 .. LenLen : x[k] = x[k - 1] \div Base
  BY ShiftedIs
<1> HIDE DEF x
<1> DEFINE S == {i \in 0 .. LenLen - 1 : f[i] = x[LenLen - 1 - i] % p[i]}
<1>4. 0 \in S
  <2>1. f[0] = 0 /\ p[0] = 1 /\ x[LenLen - 1] \in Nat
    BY <1>0, <1>1, <1>2, <1>3 DEF IsPower, IsValue
  <2>2. \A y \in Nat : y % 1 = 0
    OBVIOUS
  <2>3. LenLen - 1 - 0 = LenLen - 1 /\ 0 \in 0 .. LenLen - 1
    BY <1>0
  <2> QED  BY <2>1, <2>2, <2>3
<1>5. ASSUME NEW i \in 0 .. LenLen - 2, i \in S PROVE i + 1 \in S
  <2> DEFINE k == LenLen - 2 - i
  <2>1. /\ k \in 0 .. LenLen /\ k + 1 \in 1 .. LenLen /\ (k + 1) - 1 = k
        /\ i + 1 \in 1 .. LenLen /\ (i + 1) - 1 = i /\ i + 1 \in 1 .. LenLen - 1 /\ i \in 0 .. LenLen
        /\ LenLen - 1 - (i + 1) = k /\ LenLen - 1 - i = k + 1
    BY <1>0
  <2> HIDE DEF k
  <2>2. f[i] = x[k + 1] % p[i]
    BY <1>5, <2>1
  <2>3. f[i + 1] = f[i] * Base + s[i + 1]
    BY <1>2, <2>1 DEF IsValue
  <2>4. s[i + 1] = x[k] % Base
    BY <2>1 DEF x
  <2>5. x[k + 1] = x[k] \div Base /\ x[k] \in Nat
    BY <1>3, <2>1
  <2>6. p[i + 1] = p[i] * Base /\ p[i] \in Nat \ {0}
    BY <1>1, <2>1 DEF IsPower
  <2>7. ((x[k] \div Base) % p[i]) * Base + (x[k] % Base) = x[k] % (p[i] * Base)
    BY <1>0, <2>5, <2>6, ModProduct
  <2>8. f[i + 1] = x[k] % p[i + 1]
    BY Zenon, <2>2, <2>3, <2>4, <2>5, <2>6, <2>7
  <2>9. i + 1 \in 0 .. LenLen - 1
    BY <2>1, <1>0
  <2> QED  BY <2>1, <2>8, <2>9
<1> HIDE DEF S
<1>6. LenLen - 1 \in S
  <2> DEFINE M == LenLen - 1
  <2>1. M \in Nat /\ M - 1 = LenLen - 2
    BY <1>0
  <2>2. 0 .. M \subseteq S
    <3> HIDE DEF M
    <3>1. \A i \in 0 .. M - 1 : i \in S => i + 1 \in S
      BY <1>5, <2>1
    <3> QED  BY <1>4, <2>1, <3>1, BoundedInduction
  <2> QED  BY <2>1, <2>2
<1>7. f[LenLen - 1] = x[0] % p[LenLen - 1]
  <2>1. LenLen - 1 - (LenLen - 1) = 0
    BY <1>0
  <2> QED  BY <1>6, <2>1 DEF S
<1>8. f[LenLen] = f[LenLen - 1] * Base + ((n * Scale) % Base)
  BY <1>0, <1>2 DEF IsValue
<1>9. p[LenLen] = p[LenLen - 1] * Base /\ p[LenLen - 1] \in Nat \ {0}
  BY <1>0, <1>1 DEF IsPower
<1>10. x[0] = (n * Scale) \div Base /\ n * Scale \in Nat
  <2>1. n * Scale \in Nat
    BY <1>0
  <2> QED  BY Zenon, <2>1, <1>3, ShiftScaled
<1>11. (((n * Scale) \div Base) % p[LenLen - 1]) * Base + ((n * Scale) % Base)
         = (n * Scale) % (p[LenLen - 1] * Base)
  BY <1>0, <1>9, <1>10, ModProduct
<1> QED  BY Zenon, <1>1, <1>2, <1>7, <1>8, <1>9, <1>10, <1>11

-----------------------------------------------------------------------------
(* The invariant *)

(* The ring holds the last sixteen words that the rounds were given. *)
RingInv ==
  /\ RingIsTheSchedule
  /\ pc = "rounds" => \A k \in 1 .. t : k > t - Chunk => w[(k - 1) % Chunk] = used[k]

(* Where nothing is left to take; and a schedule is complete. *)
CountInv ==
  /\ total_len = Len(message)
  /\ pc \notin {"write", "rounds"} \/ (pc = "rounds" /\ ret # "write") => todo = << >>
  /\ \A i \in DOMAIN h : Len(h[i]) = Rounds

Stream == Consumed \o InHand
Starts(s) == \A i \in 1 .. Len(message) : s[i] = message[i]
Closing(next) == pc = next \/ (pc = "rounds" /\ ret = next)

(* The message, the mark and zeros to the end of a chunk that has no room  *)
(* for the length.                                                         *)
HalfPadded(s) ==
  /\ Len(s) - (Len(message) + 1) \in 0 .. LenLen - 1
  /\ Starts(s)
  /\ s[Len(message) + 1] = Mark
  /\ \A i \in Len(message) + 2 .. Len(s) : s[i] = 0

(* The message, the mark, zeros and the length. *)
Padded(s) ==
  /\ Len(s) - (Len(message) + 1 + LenLen) \in 0 .. Chunk - 1
  /\ Starts(s)
  /\ s[Len(message) + 1] = Mark
  /\ \A i \in Len(message) + 2 .. Len(s) - LenLen : s[i] = 0
  /\ \A i \in 0 .. LenLen - 1 : s[Len(s) - LenLen + 1 + i] = LengthWord(i)

CloseInv ==
  /\ Closing("final") => HalfPadded(Stream)
  /\ Closing("closed") => Padded(Stream)

IInv == TypeOK /\ RingInv /\ CountInv /\ NothingIsLost /\ CloseInv

-----------------------------------------------------------------------------
(* Types *)

LEMMA LengthWordType ==
  ASSUME TypeOK, NEW i \in 0 .. LenLen - 1
  PROVE  LengthWord(i) \in Word
<1>0. Base \in Nat \ {0} /\ LenLen \in Nat \ {0} /\ Scale \in Nat \ {0} /\ total_len \in Nat
  BY Sha256Assumption DEF Chunk, TypeOK
<1>1. \A x \in Nat : x % Base \in Word
  BY <1>0 DEF Word
<1>2. total_len * Scale \in Nat
  BY <1>0
<1>3. i # LenLen - 1 => Shifted(total_len)[LenLen - 2 - i] \in Nat
  <2>1. i # LenLen - 1 => LenLen - 2 - i \in 0 .. LenLen
    BY <1>0
  <2> QED  BY Zenon, <1>0, <2>1, ShiftedIs
<1> QED  BY Zenon, <1>1, <1>2, <1>3 DEF LengthWord

LEMMA FilledType ==
  ASSUME TypeOK, NEW s \in Seq(Word)
  PROVE  Filled(s) \in [Ring -> Word]
<1> SUFFICES ASSUME NEW i \in Ring, i - chunk_pos \in 0 .. Len(s) - 1
             PROVE  s[i - chunk_pos + 1] \in Word
  BY DEF Filled, TypeOK
<1>1. chunk_pos \in 0 .. Chunk - 1
  BY DEF TypeOK, chunk_pos, Chunk
<1> QED  BY <1>1 DEF Ring, Chunk

LEMMA MarkedType == TypeOK => Marked \in [Ring -> Word]
<1>1. <<Mark>> \in Seq(Word)
  BY Sha256Assumption
<1> QED  BY <1>1, FilledType DEF Marked

LEMMA FinalType ==
  ASSUME TypeOK, NEW c \in [Ring -> Word], NEW pos \in Nat
  PROVE  Final(c, pos) \in [Ring -> Word]
<1>0. LenLen \in 1 .. Chunk - 1 /\ 0 \in Word
  BY Sha256Assumption DEF Word
<1>1. \A i \in Ring : i >= Chunk - LenLen => LengthWord(i - (Chunk - LenLen)) \in Word
  <2> SUFFICES ASSUME NEW i \in Ring, i >= Chunk - LenLen
               PROVE  LengthWord(i - (Chunk - LenLen)) \in Word
    OBVIOUS
  <2>1. i - (Chunk - LenLen) \in 0 .. LenLen - 1
    BY <1>0 DEF Ring, Chunk
  <2> QED  BY <2>1, LengthWordType
<1>2. \A i \in Ring : (IF i < pos THEN c[i]
                  ELSE IF i < Chunk - LenLen THEN 0
                  ELSE LengthWord(i - (Chunk - LenLen))) \in Word
  BY <1>0, <1>1 DEF Ring, Chunk
<1> QED  BY <1>2 DEF Final

LEMMA SuffixType ==
  ASSUME NEW s \in Seq(Word), NEW n \in 0 .. Len(s)
  PROVE  /\ SubSeq(s, 1, n) \in Seq(Word) /\ Len(SubSeq(s, 1, n)) = n
         /\ \A i \in 1 .. n : SubSeq(s, 1, n)[i] = s[i]
         /\ SubSeq(s, n + 1, Len(s)) \in Seq(Word)
         /\ SubSeq(s, 1, n) \o SubSeq(s, n + 1, Len(s)) = s
<1>1. \A i \in 1 .. n : s[i] \in Word
  OBVIOUS
<1>2. \A i \in n + 1 .. Len(s) : s[i] \in Word
  OBVIOUS
<1>3. SubSeq(s, 1, n) \in Seq(Word) /\ Len(SubSeq(s, 1, n)) = n
  BY <1>1, SubSeqProperties
<1>4. \A i \in 1 .. n : SubSeq(s, 1, n)[i] = s[i]
  BY <1>1, SubSeqProperties
<1>5. SubSeq(s, n + 1, Len(s)) \in Seq(Word)
  BY <1>2, SubSeqProperties
<1>6. SubSeq(s, 1, n) \o SubSeq(s, n + 1, Len(s)) = SubSeq(s, 1, Len(s))
  <2>1. 1 \in 1 .. Len(s) + 1 /\ n \in 1 - 1 .. Len(s) /\ Len(s) \in n .. Len(s)
    OBVIOUS
  <2> QED  BY <2>1, ConcatAdjacentSubSeq
<1>7. SubSeq(s, 1, Len(s)) = s
  BY SubSeqFull
<1> QED  BY <1>3, <1>4, <1>5, <1>6, <1>7

LEMMA InitType == Init => TypeOK
<1> SUFFICES ASSUME Init PROVE TypeOK
  OBVIOUS
<1>1. chunk \in [Ring -> Word] /\ w \in [Ring -> Word] /\ block = chunk /\ MaxLen \in Nat
  BY Sha256Assumption DEF Init
<1> QED  BY <1>1 DEF Init, TypeOK, Chunk, Rounds

(* Starting on a chunk keeps the types. *)
LEMMA ConsumeType ==
  ASSUME TypeOK, NEW b \in [Ring -> Word], NEW next \in {"write", "final", "closed"}, Consume(b, next),
         message' \in Seq(Word), todo' \in Seq(Word), chunk' \in [Ring -> Word],
         space_left' \in 1 .. Chunk, total_len' \in 0 .. MaxLen
  PROVE  TypeOK'
BY DEF TypeOK, Consume, Rounds

LEMMA RingIndex == \A i \in Nat : i % Chunk \in Ring
BY DEF Ring, Chunk

LEMMA RingWordType ==
  ASSUME TypeOK, NEW j \in Ring
  PROVE  RingWord(j) \in Word
<1>0. (j + 1) % Chunk \in Ring /\ (j + 9) % Chunk \in Ring /\ (j + 14) % Chunk \in Ring
  BY RingIndex DEF Ring, Chunk
<1>1. /\ w[j] \in Word /\ w[(j + 1) % Chunk] \in Word /\ w[(j + 9) % Chunk] \in Word
      /\ w[(j + 14) % Chunk] \in Word /\ block[j] \in Word
  BY <1>0 DEF TypeOK
<1> QED  BY <1>1, Sha256Assumption DEF RingWord

LEMMA NextType == TypeOK /\ CountInv /\ [Next]_vars => TypeOK'
<1> SUFFICES ASSUME TypeOK, CountInv, [Next]_vars PROVE TypeOK'
  OBVIOUS
<1> USE DEF hasher, consume
<1>1. CASE UNCHANGED vars
  BY <1>1 DEF vars, TypeOK
<1>2. CASE sha_256_init
  BY <1>2, Sha256Assumption DEF sha_256_init, TypeOK, Chunk, Rounds
<1>3. CASE Round
  <2> DEFINE j == t % Chunk
  <2>1. j \in Ring /\ t + 1 \in 0 .. Rounds
    BY <1>3, RingIndex DEF Round, TypeOK, Rounds
  <2>2. RingWord(j) \in Word
    BY <2>1, RingWordType
  <2>3. w' \in [Ring -> Word] /\ used' \in Seq(Word)
    BY <1>3, <2>1, <2>2 DEF Round, TypeOK
  <2> QED  BY <1>3, <2>1, <2>3 DEF Round, TypeOK
<1>4. CASE EndRounds
  BY <1>4 DEF EndRounds, TypeOK
<1>5. ASSUME NEW n \in Sizes, Write(n) PROVE TypeOK'
  <2> DEFINE data == [i \in 1 .. n |-> Data(Len(message) + i)]
  <2>1. n \in Nat /\ Len(message) \in Nat /\ Len(message) + n <= MaxLen /\ MaxLen \in Nat
    BY <1>5, Sha256Assumption DEF Write, TypeOK
  <2>2. \A i \in 1 .. n : Data(Len(message) + i) \in Word
    BY <2>1, Sha256Assumption
  <2>3. data \in Seq(Word)
    BY <2>1, <2>2
  <2>4. /\ todo' = data /\ message' = message \o data /\ total_len' = total_len + n /\ pc' = "write"
        /\ UNCHANGED <<chunk, space_left, consume>>
    BY <1>5 DEF Write
  <2> HIDE DEF data
  <2>5. message' \in Seq(Word) /\ todo' \in Seq(Word)
    BY <2>3, <2>4 DEF TypeOK
  <2>6. total_len' \in 0 .. MaxLen
    BY <2>1, <2>4 DEF TypeOK, CountInv
  <2> QED  BY <2>4, <2>5, <2>6 DEF TypeOK
<1>6. CASE WriteDirect
  <2> DEFINE b == [i \in Ring |-> todo[i + 1]]
  <2>1. Len(todo) \in Nat /\ 16 \in 0 .. Len(todo)
    BY <1>6 DEF WriteDirect, TypeOK, Chunk
  <2>2. b \in [Ring -> Word]
    <3>1. \A i \in Ring : i + 1 \in 1 .. Len(todo)
      BY <2>1 DEF Ring, Chunk
    <3> QED  BY <3>1 DEF TypeOK
  <2>3. todo' \in Seq(Word)
    BY <1>6, <2>1, SuffixType DEF WriteDirect, TypeOK, Chunk
  <2>4. Consume(b, "write") /\ UNCHANGED <<message, chunk, space_left, total_len>>
    BY <1>6 DEF WriteDirect
  <2> HIDE DEF b
  <2> QED  BY <2>2, <2>3, <2>4, ConsumeType DEF TypeOK
<1>7. CASE WriteCopy
  <2> DEFINE n == IF Len(todo) < space_left THEN Len(todo) ELSE space_left
  <2>1. n \in 0 .. Len(todo) /\ space_left \in 1 .. Chunk /\ Len(todo) \in Nat /\ n <= space_left
    BY DEF TypeOK, Chunk
  <2>2. /\ chunk' = Filled(SubSeq(todo, 1, n)) /\ todo' = SubSeq(todo, n + 1, Len(todo))
        /\ UNCHANGED <<message, total_len>>
        /\ IF n = space_left
           THEN space_left' = Chunk /\ Consume(chunk', "write")
           ELSE space_left' = space_left - n /\ pc' = "write" /\ UNCHANGED consume
    BY <1>7 DEF WriteCopy
  <2> HIDE DEF n
  <2>3. SubSeq(todo, 1, n) \in Seq(Word) /\ todo' \in Seq(Word)
    BY <2>1, <2>2, SuffixType DEF TypeOK
  <2>4. chunk' \in [Ring -> Word]
    BY <2>2, <2>3, FilledType
  <2>5. CASE n = space_left
    <3>1. space_left' \in 1 .. Chunk /\ Consume(chunk', "write")
      BY <2>2, <2>5 DEF Chunk
    <3>2. message' \in Seq(Word) /\ total_len' \in 0 .. MaxLen
      BY <2>2 DEF TypeOK
    <3> QED  BY <2>3, <2>4, <3>1, <3>2, ConsumeType
  <2>6. CASE n # space_left
    BY <2>1, <2>2, <2>3, <2>4, <2>6 DEF TypeOK, Chunk
  <2> QED  BY <2>5, <2>6
<1>8. CASE WriteReturns
  BY <1>8 DEF WriteReturns, TypeOK
<1>9. CASE sha_256_close \/ CloseExtra
  <2>1. /\ UNCHANGED <<message, todo, space_left, total_len>>
        /\ \/ chunk' = [i \in Ring |-> IF i > chunk_pos THEN 0 ELSE Marked[i]]
           \/ chunk' = Final(Marked, chunk_pos + 1)
           \/ chunk' = Final(chunk, 0)
        /\ \E next \in {"final", "closed"} : Consume(chunk', next)
    BY <1>9 DEF sha_256_close, CloseExtra
  <2>2. chunk_pos \in Nat /\ 0 \in Word
    BY Sha256Assumption DEF TypeOK, chunk_pos, Chunk, Word
  <2>3. chunk' \in [Ring -> Word]
    <3>0. chunk_pos + 1 \in Nat /\ 0 \in Nat /\ chunk \in [Ring -> Word]
      BY <2>2 DEF TypeOK
    <3>1. Final(Marked, chunk_pos + 1) \in [Ring -> Word] /\ Final(chunk, 0) \in [Ring -> Word]
      BY <3>0, MarkedType, FinalType
    <3> QED  BY <2>1, <2>2, <3>1, MarkedType
  <2> QED  BY <2>1, <2>3, ConsumeType DEF TypeOK
<1> QED
  BY <1>1, <1>2, <1>3, <1>4, <1>5, <1>6, <1>7, <1>8, <1>9 DEF Next, Steps, sha_256_write

-----------------------------------------------------------------------------
(* The ring and the counts *)

(* A step that starts on a chunk, and one after which none is in hand. *)
LEMMA ConsumeRing ==
  ASSUME NEW b, NEW next, Consume(b, next)
  PROVE  RingInv'
<1>1. pc' = "rounds" /\ t' = 0 /\ used' = << >>
  BY DEF Consume
<1>2. Len(<< >>) = 0 /\ DOMAIN << >> = {} /\ 1 .. 0 = {}
  OBVIOUS
<1> QED  BY <1>1, <1>2 DEF RingInv, RingIsTheSchedule, ScheduleOf

LEMMA NoRing == pc' # "rounds" => RingInv'
BY DEF RingInv, RingIsTheSchedule

(* What the words of the ring are, seen from round t. *)
LEMMA RingOffsets ==
  ASSUME NEW n \in 16 .. 63
  PROVE  /\ (n - 16) % 16 = n % 16 /\ (n - 15) % 16 = ((n % 16) + 1) % 16
         /\ (n - 7) % 16 = ((n % 16) + 9) % 16 /\ (n - 2) % 16 = ((n % 16) + 14) % 16
OBVIOUS

LEMMA RingSlots ==
  ASSUME NEW n \in 0 .. 63, NEW k \in 1 .. n, k > n - 15
  PROVE  (k - 1) % 16 # n % 16
OBVIOUS

LEMMA RoundWord ==
  ASSUME TypeOK, RingInv, Round
  PROVE  RingWord(t % Chunk) =
           IF t < Chunk THEN block[t] ELSE Mix(used[t - 15], used[t - 14], used[t - 6], used[t - 1])
<1>0. t \in 0 .. 63
  BY DEF Round, Rounds, TypeOK
<1>1. CASE t < Chunk
  <2>1. t % Chunk = t
    BY <1>0, <1>1 DEF Chunk
  <2> QED  BY <1>1, <2>1 DEF RingWord
<1>2. CASE ~ (t < Chunk)
  <2>0. t \in 16 .. 63
    BY <1>0, <1>2 DEF Chunk
  <2>1. \A k \in 1 .. t : k > t - 16 => w[(k - 1) % 16] = used[k]
    BY DEF RingInv, Round, Chunk
  <2>2. /\ w[((t - 15) - 1) % 16] = used[t - 15] /\ w[((t - 14) - 1) % 16] = used[t - 14]
        /\ w[((t - 6) - 1) % 16] = used[t - 6] /\ w[((t - 1) - 1) % 16] = used[t - 1]
    <3>1. /\ t - 15 \in 1 .. t /\ t - 15 > t - 16 /\ t - 14 \in 1 .. t /\ t - 14 > t - 16
          /\ t - 6 \in 1 .. t /\ t - 6 > t - 16 /\ t - 1 \in 1 .. t /\ t - 1 > t - 16
      BY <2>0
    <3> QED  BY Zenon, <2>1, <3>1
  <2>3. (t - 15) - 1 = t - 16 /\ (t - 14) - 1 = t - 15 /\ (t - 6) - 1 = t - 7 /\ (t - 1) - 1 = t - 2
    BY <2>0
  <2>4. /\ w[t % 16] = used[t - 15] /\ w[((t % 16) + 1) % 16] = used[t - 14]
        /\ w[((t % 16) + 9) % 16] = used[t - 6] /\ w[((t % 16) + 14) % 16] = used[t - 1]
    BY Zenon, <2>0, <2>2, <2>3, RingOffsets
  <2> QED  BY <1>2, <2>4 DEF RingWord, Chunk
<1> QED  BY <1>1, <1>2

LEMMA RoundRing == TypeOK /\ RingInv /\ Round => RingInv'
<1> SUFFICES ASSUME TypeOK, RingInv, Round PROVE RingInv'
  OBVIOUS
<1> DEFINE x == RingWord(t % Chunk)
<1>0. /\ pc = "rounds" /\ pc' = "rounds" /\ t \in 0 .. 63 /\ t' = t + 1 /\ block' = block
      /\ w' = [w EXCEPT ![t % Chunk] = x] /\ used' = Append(used, x)
  BY DEF Round, Rounds, TypeOK
<1>1. x = IF t < Chunk THEN block[t] ELSE Mix(used[t - 15], used[t - 14], used[t - 6], used[t - 1])
  BY RoundWord
<1>2. t % Chunk \in Ring
  BY <1>0, RingIndex
<1>3. x \in Word
  BY <1>2, RingWordType
<1> HIDE DEF x
<1>4. used \in Seq(Word) /\ Len(used) = t /\ ScheduleOf(used, block)
  BY <1>0 DEF TypeOK, RingInv, RingIsTheSchedule
<1>5. /\ Len(used') = t + 1 /\ used'[t + 1] = x /\ DOMAIN used' = 1 .. t + 1
      /\ \A i \in 1 .. t : used'[i] = used[i]
  BY <1>0, <1>3, <1>4
<1>6. ScheduleOf(used', block')
  <2> SUFFICES ASSUME NEW i \in 1 .. t + 1
               PROVE  used'[i] = IF i <= Chunk THEN block[i - 1]
                        ELSE Mix(used'[i - 16], used'[i - 15], used'[i - 7], used'[i - 2])
    BY <1>0, <1>5 DEF ScheduleOf
  <2>0. (i <= t \/ i = t + 1) /\ (i <= Chunk \/ i > Chunk)
    BY <1>0 DEF Chunk
  <2>1. CASE i <= Chunk /\ i <= t
    <3>1. i \in 1 .. t /\ i \in DOMAIN used
      BY <1>0, <1>4, <2>1
    <3> QED  BY Zenon, <1>4, <1>5, <2>1, <3>1 DEF ScheduleOf
  <2>2. CASE i <= Chunk /\ i = t + 1
    BY <1>0, <1>1, <1>5, <2>2 DEF Chunk
  <2>3. CASE i > Chunk
    <3>1. /\ i - 16 \in 1 .. t /\ i - 15 \in 1 .. t /\ i - 7 \in 1 .. t /\ i - 2 \in 1 .. t
      BY <1>0, <2>3 DEF Chunk
    <3>2. CASE i <= t
      <4>1. used[i] = Mix(used[i - 16], used[i - 15], used[i - 7], used[i - 2])
        BY <1>0, <1>4, <2>3, <3>2 DEF ScheduleOf, Chunk
      <4> QED  BY <1>0, <1>5, <2>3, <3>1, <3>2, <4>1 DEF Chunk
    <3>3. CASE i = t + 1
      <4>1. /\ i - 16 = t - 15 /\ i - 15 = t - 14 /\ i - 7 = t - 6 /\ i - 2 = t - 1 /\ ~ (t < Chunk)
            /\ ~ (i <= Chunk)
        BY <1>0, <2>3, <3>3 DEF Chunk
      <4> QED  BY Zenon, <1>1, <1>5, <3>1, <3>3, <4>1
    <3> QED  BY Zenon, <2>0, <3>2, <3>3
  <2> QED  BY Zenon, <2>0, <2>1, <2>2, <2>3
<1>7. \A k \in 1 .. t + 1 : k > (t + 1) - Chunk => w'[(k - 1) % Chunk] = used'[k]
  <2> SUFFICES ASSUME NEW k \in 1 .. t + 1, k > (t + 1) - Chunk PROVE w'[(k - 1) % Chunk] = used'[k]
    OBVIOUS
  <2>0. w \in [Ring -> Word]
    BY DEF TypeOK
  <2>1. CASE k = t + 1
    <3>1. k - 1 = t
      BY <1>0, <2>1
    <3> QED  BY <1>0, <1>2, <1>5, <2>0, <2>1, <3>1
  <2>2. CASE k # t + 1
    <3>1. k \in 1 .. t /\ k > t - 15 /\ k > t - Chunk /\ k - 1 \in Nat
      BY <1>0, <2>2 DEF Chunk
    <3>2. (k - 1) % Chunk # t % Chunk
      BY <1>0, <3>1, RingSlots DEF Chunk
    <3>3. (k - 1) % Chunk \in Ring
      BY <3>1, RingIndex
    <3>4. w[(k - 1) % Chunk] = used[k]
      BY <1>0, <3>1 DEF RingInv
    <3> QED  BY <1>0, <1>5, <2>0, <3>1, <3>2, <3>3, <3>4
  <2> QED  BY <2>1, <2>2
<1> QED  BY <1>0, <1>5, <1>6, <1>7 DEF RingInv, RingIsTheSchedule

LEMMA NextRing == TypeOK /\ RingInv /\ [Next]_vars => RingInv'
<1> SUFFICES ASSUME TypeOK, RingInv, [Next]_vars PROVE RingInv'
  OBVIOUS
<1>1. CASE UNCHANGED vars
  BY <1>1 DEF vars, hasher, consume, RingInv, RingIsTheSchedule
<1>2. CASE Round
  BY <1>2, RoundRing
<1>3. CASE EndRounds \/ WriteReturns \/ sha_256_init \/ \E n \in Sizes : Write(n)
  <2>1. pc' # "rounds"
    BY <1>3 DEF EndRounds, WriteReturns, sha_256_init, Write, TypeOK
  <2> QED  BY <2>1, NoRing
<1>4. CASE WriteDirect \/ sha_256_close \/ CloseExtra
  BY <1>4, ConsumeRing DEF WriteDirect, sha_256_close, CloseExtra
<1>5. CASE WriteCopy
  <2>1. Consume(chunk', "write") \/ pc' = "write"
    BY <1>5 DEF WriteCopy
  <2> QED  BY <2>1, ConsumeRing, NoRing
<1> QED
  BY <1>1, <1>2, <1>3, <1>4, <1>5 DEF Next, Steps, sha_256_write

LEMMA NextCount == TypeOK /\ RingInv /\ CountInv /\ [Next]_vars => CountInv'
<1> SUFFICES ASSUME TypeOK, RingInv, CountInv, [Next]_vars PROVE CountInv'
  OBVIOUS
<1> USE DEF hasher, consume
<1>1. CASE UNCHANGED vars
  BY <1>1 DEF vars, CountInv
<1>2. CASE Round
  BY <1>2 DEF Round, CountInv
<1>3. CASE EndRounds
  <2>1. used \in Seq(Word) /\ Len(used) = Rounds /\ h' = Append(h, used) /\ h \in Seq(Seq(Word))
    BY <1>3 DEF EndRounds, TypeOK, RingInv, RingIsTheSchedule
  <2>2. \A i \in DOMAIN h' : Len(h'[i]) = Rounds
    BY <2>1 DEF CountInv
  <2>3. total_len' = Len(message')
    BY <1>3 DEF EndRounds, CountInv
  <2>4. pc' # "write" /\ pc' # "rounds" => todo' = << >>
    BY <1>3 DEF EndRounds, CountInv
  <2>5. pc' # "rounds"
    BY <1>3 DEF EndRounds, TypeOK
  <2> QED  BY <2>2, <2>3, <2>4, <2>5 DEF CountInv
<1>4. ASSUME NEW n \in Sizes, Write(n) PROVE CountInv'
  <2> DEFINE data == [i \in 1 .. n |-> Data(Len(message) + i)]
  <2>1. n \in Nat /\ Len(message) \in Nat /\ Len(message) + n <= MaxLen /\ MaxLen \in Nat
    BY <1>4, Sha256Assumption DEF Write, TypeOK
  <2>2. \A i \in 1 .. n : Data(Len(message) + i) \in Word
    BY <2>1, Sha256Assumption
  <2>3. data \in Seq(Word) /\ Len(data) = n
    BY <2>1, <2>2
  <2>4. message' = message \o data /\ total_len' = total_len + n /\ pc' = "write" /\ h' = h
    BY <1>4 DEF Write
  <2> HIDE DEF data
  <2>5. Len(message') = Len(message) + n
    <3>1. message \in Seq(Word)
      BY DEF TypeOK
    <3> QED  BY <2>3, <2>4, <3>1, ConcatProperties
  <2> QED  BY <2>4, <2>5 DEF CountInv
<1>5. CASE WriteDirect
  BY <1>5 DEF WriteDirect, Consume, CountInv
<1>6. CASE WriteCopy
  <2>1. /\ UNCHANGED <<message, total_len, h>>
        /\ pc' = "write" \/ (pc' = "rounds" /\ ret' = "write")
    BY <1>6 DEF WriteCopy, Consume
  <2> QED  BY <2>1 DEF CountInv
<1>7. CASE WriteReturns
  BY <1>7 DEF WriteReturns, CountInv
<1>8. CASE sha_256_close \/ CloseExtra
  <2>1. UNCHANGED <<message, todo, total_len, h>> /\ (pc = "open" \/ pc = "final")
    BY <1>8 DEF sha_256_close, CloseExtra, Consume
  <2> QED  BY <2>1 DEF CountInv
<1>9. CASE sha_256_init
  BY <1>9 DEF sha_256_init, CountInv
<1> QED
  BY <1>1, <1>2, <1>3, <1>4, <1>5, <1>6, <1>7, <1>8, <1>9 DEF Next, Steps, sha_256_write

-----------------------------------------------------------------------------
(* What was consumed, as a sequence *)

ConsumedOf(g) == [i \in 1 .. Chunk * Len(g) |-> g[1 + ((i - 1) \div Chunk)][1 + ((i - 1) % Chunk)]]
Words(b) == [i \in 1 .. Chunk |-> b[i - 1]]
BufferOf(c, left) == [i \in 1 .. Chunk - left |-> c[i - 1]]
Complete(g) == g \in Seq(Seq(Word)) /\ \A i \in 1 .. Len(g) : Len(g[i]) = Rounds

LEMMA SequenceForms ==
  /\ Consumed = ConsumedOf(h)
  /\ Buffered = BufferOf(chunk, space_left)
  /\ InHand = IF pc = "rounds" THEN Words(block) ELSE << >>
BY DEF Consumed, ConsumedOf, Buffered, BufferOf, InHand, Words, chunk_pos

LEMMA HistoryComplete == TypeOK /\ CountInv => Complete(h)
BY DEF TypeOK, CountInv, Complete

LEMMA Places ==
  ASSUME NEW n \in Nat, NEW i \in 1 .. 16 * n
  PROVE  1 + ((i - 1) \div 16) \in 1 .. n /\ 1 + ((i - 1) % 16) \in 1 .. 16
OBVIOUS

LEMMA LastPlaces ==
  ASSUME NEW n \in Nat, NEW i \in 16 * n + 1 .. 16 * n + 16
  PROVE  1 + ((i - 1) \div 16) = n + 1 /\ 1 + ((i - 1) % 16) = i - 16 * n
OBVIOUS

LEMMA ConsumedType ==
  ASSUME NEW g, Complete(g)
  PROVE  ConsumedOf(g) \in Seq(Word) /\ Len(ConsumedOf(g)) = 16 * Len(g)
<1>1. Len(g) \in Nat /\ 16 * Len(g) \in Nat
  BY DEF Complete
<1>2. ASSUME NEW i \in 1 .. 16 * Len(g)
      PROVE  g[1 + ((i - 1) \div 16)][1 + ((i - 1) % 16)] \in Word
  <2>1. 1 + ((i - 1) \div 16) \in 1 .. Len(g) /\ 1 + ((i - 1) % 16) \in 1 .. 16
    BY <1>1, Places
  <2> DEFINE u == g[1 + ((i - 1) \div 16)]
  <2>2. u \in Seq(Word) /\ Len(u) = 64
    BY <2>1 DEF Complete, Rounds
  <2> HIDE DEF u
  <2>3. 1 + ((i - 1) % 16) \in 1 .. Len(u)
    BY <2>1, <2>2
  <2>4. u[1 + ((i - 1) % 16)] \in Word
    BY <2>2, <2>3, ElementOfSeq
  <2> QED  BY <2>4 DEF u
<1> QED  BY <1>1, <1>2 DEF ConsumedOf, Chunk

LEMMA WordsType ==
  ASSUME NEW b \in [Ring -> Word]
  PROVE  Words(b) \in Seq(Word) /\ Len(Words(b)) = 16 /\ \A i \in 1 .. 16 : Words(b)[i] = b[i - 1]
<1>1. \A i \in 1 .. 16 : i - 1 \in Ring
  BY DEF Ring, Chunk
<1>2. \A i \in 1 .. 16 : b[i - 1] \in Word
  BY <1>1
<1> QED  BY <1>2 DEF Words, Chunk

LEMMA BufferType ==
  ASSUME NEW c \in [Ring -> Word], NEW left \in 1 .. Chunk
  PROVE  /\ BufferOf(c, left) \in Seq(Word) /\ Len(BufferOf(c, left)) = 16 - left
         /\ \A i \in 1 .. 16 - left : BufferOf(c, left)[i] = c[i - 1]
<1>1. \A i \in 1 .. 16 - left : i - 1 \in Ring
  BY DEF Ring, Chunk
<1>2. \A i \in 1 .. 16 - left : c[i - 1] \in Word
  BY <1>1
<1>3. 16 - left \in Nat
  BY DEF Chunk
<1> QED  BY <1>2, <1>3 DEF BufferOf, Chunk

(* s starts with the m elements of a and goes on with the k of b. *)
Joined(s, a, m, b, k) ==
  /\ \A i \in 1 .. m : s[i] = a[i]
  /\ \A i \in m + 1 .. m + k : s[i] = b[i - m]

LEMMA JoinedIf ==
  ASSUME NEW m \in Nat, NEW k \in Nat, NEW a, NEW b, NEW s,
         \A i \in 1 .. m + k : s[i] = IF i <= m THEN a[i] ELSE b[i - m]
  PROVE  Joined(s, a, m, b, k)
BY DEF Joined

LEMMA ConcatIs ==
  ASSUME NEW a \in Seq(Word), NEW b \in Seq(Word)
  PROVE  /\ a \o b \in Seq(Word) /\ Len(a \o b) = Len(a) + Len(b)
         /\ Joined(a \o b, a, Len(a), b, Len(b))
<1> DEFINE m == Len(a)
           k == Len(b)
           s == a \o b
<1>1. /\ s \in Seq(Word) /\ Len(s) = m + k
      /\ \A i \in 1 .. m + k : s[i] = IF i <= m THEN a[i] ELSE b[i - m]
  BY Zenon, ConcatProperties
<1>2. m \in Nat /\ k \in Nat
  OBVIOUS
<1> HIDE DEF m, k, s
<1>3. Joined(s, a, m, b, k)
  BY <1>1, <1>2, JoinedIf
<1> QED  BY <1>1, <1>3 DEF m, k, s

(* The schedule of a chunk adds the chunk to what was consumed. *)
LEMMA ConsumedAppend ==
  ASSUME NEW g, Complete(g), NEW b \in [Ring -> Word], NEW u \in Seq(Word), Len(u) = Rounds,
         \A i \in 1 .. 16 : u[i] = b[i - 1]
  PROVE  ConsumedOf(Append(g, u)) = ConsumedOf(g) \o Words(b)
<1> DEFINE gu == Append(g, u)
           n == Len(g)
<1>1. /\ g \in Seq(Seq(Word)) /\ n \in Nat /\ gu \in Seq(Seq(Word)) /\ Len(gu) = n + 1
      /\ \A k \in 1 .. n : gu[k] = g[k]
      /\ gu[n + 1] = u
  BY DEF Complete
<1> HIDE DEF gu
<1>2. Complete(gu)
  <2>1. \A k \in 1 .. n : Len(g[k]) = Rounds
    BY DEF Complete
  <2> HIDE DEF n
  <2>2. \A k \in 1 .. n + 1 : k \in 1 .. n \/ k = n + 1
    <3>1. n \in Nat
      BY <1>1
    <3> QED  BY <3>1
  <2>3. \A k \in 1 .. n + 1 : Len(gu[k]) = Rounds
    BY Zenon, <1>1, <2>1, <2>2
  <2> QED  BY Zenon, <1>1, <2>3 DEF Complete
<1> DEFINE L == ConsumedOf(gu)
           R == ConsumedOf(g) \o Words(b)
<1>3. L \in Seq(Word) /\ Len(L) = 16 * (n + 1)
  BY <1>1, <1>2, ConsumedType
<1> DEFINE m == 16 * n
<1>4. R \in Seq(Word) /\ Len(R) = m + 16 /\ Joined(R, ConsumedOf(g), m, Words(b), 16)
  <2>1. ConsumedOf(g) \in Seq(Word) /\ Len(ConsumedOf(g)) = m
    BY ConsumedType
  <2>2. Words(b) \in Seq(Word) /\ Len(Words(b)) = 16
    BY WordsType
  <2> HIDE DEF m
  <2> QED  BY <2>1, <2>2, ConcatIs
<1> HIDE DEF n
<1>5. ASSUME NEW i \in 1 .. m PROVE L[i] = R[i]
  <2>1. 1 + ((i - 1) \div 16) \in 1 .. n
    BY <1>1, Places
  <2>2. i \in 1 .. 16 * (n + 1)
    BY <1>1
  <2>3. L[i] = gu[1 + ((i - 1) \div 16)][1 + ((i - 1) % 16)]
    BY <1>1, <2>2 DEF ConsumedOf, Chunk
  <2>4. R[i] = g[1 + ((i - 1) \div 16)][1 + ((i - 1) % 16)]
    <3>1. R[i] = ConsumedOf(g)[i]
      BY Zenon, <1>4, <1>5 DEF Joined
    <3> HIDE DEF R
    <3> QED  BY <3>1 DEF ConsumedOf, Chunk, n
  <2> QED  BY <1>1, <2>1, <2>3, <2>4
<1>6. ASSUME NEW i \in m + 1 .. m + 16 PROVE L[i] = R[i]
  <2>1. 1 + ((i - 1) \div 16) = n + 1 /\ 1 + ((i - 1) % 16) = i - 16 * n
    BY <1>1, LastPlaces
  <2>2. i \in 1 .. 16 * (n + 1) /\ i - m \in 1 .. 16
    BY <1>1
  <2>3. L[i] = gu[1 + ((i - 1) \div 16)][1 + ((i - 1) % 16)]
    BY <1>1, <2>2 DEF ConsumedOf, Chunk
  <2>4. L[i] = u[i - m]
    BY <1>1, <2>1, <2>3
  <2> HIDE DEF m
  <2>5. R[i] = Words(b)[i - m]
    BY Zenon, <1>4, <1>6 DEF Joined
  <2> HIDE DEF R
  <2>6. R[i] = b[(i - m) - 1]
    BY <2>2, <2>5, WordsType
  <2> QED  BY <2>2, <2>4, <2>6
<1> HIDE DEF L, R
<1>7. Len(L) = Len(R) /\ \A i \in 1 .. Len(L) : i \in 1 .. m \/ i \in m + 1 .. m + 16
  BY <1>1, <1>3, <1>4
<1> HIDE DEF m
<1>8. \A i \in 1 .. Len(L) : L[i] = R[i]
  BY <1>5, <1>6, <1>7
<1>9. L = R
  BY <1>3, <1>4, <1>7, <1>8, SeqEqual
<1> QED  BY <1>9 DEF L, R, gu

(* The words that are copied into the buffer follow the ones in it. *)
LEMMA FilledIs ==
  ASSUME TypeOK, NEW s \in Seq(Word), Len(s) <= space_left
  PROVE  /\ Filled(s) \in [Ring -> Word]
         /\ \A i \in 0 .. chunk_pos - 1 : Filled(s)[i] = chunk[i]
         /\ \A i \in 1 .. Len(s) : Filled(s)[chunk_pos + i - 1] = s[i]
<1>0. chunk_pos \in 0 .. 15 /\ Len(s) \in Nat /\ chunk_pos + Len(s) <= 16
  BY DEF TypeOK, chunk_pos, Chunk
<1>1. Filled(s) \in [Ring -> Word]
  BY FilledType
<1>2. ASSUME NEW i \in 0 .. chunk_pos - 1 PROVE Filled(s)[i] = chunk[i]
  <2>1. i \in Ring /\ ~ (i - chunk_pos \in 0 .. Len(s) - 1)
    BY <1>0 DEF Ring, Chunk
  <2> QED  BY <2>1 DEF Filled
<1>3. ASSUME NEW i \in 1 .. Len(s) PROVE Filled(s)[chunk_pos + i - 1] = s[i]
  <2> DEFINE k == chunk_pos + i - 1
  <2>1. k \in Ring /\ k - chunk_pos \in 0 .. Len(s) - 1 /\ k - chunk_pos + 1 = i
    BY <1>0 DEF Ring, Chunk
  <2> HIDE DEF k
  <2>2. Filled(s)[k] = s[k - chunk_pos + 1]
    BY <2>1 DEF Filled
  <2> QED  BY <2>1, <2>2 DEF k
<1> QED  BY <1>1, <1>2, <1>3

LEMMA CopyAppends ==
  ASSUME TypeOK, NEW s \in Seq(Word), Len(s) <= space_left
  PROVE  /\ Len(s) < space_left => BufferOf(Filled(s), space_left - Len(s)) = Buffered \o s
         /\ Len(s) = space_left => Words(Filled(s)) = Buffered \o s
<1>0. /\ chunk \in [Ring -> Word] /\ space_left \in 1 .. 16 /\ space_left \in 1 .. Chunk
      /\ chunk_pos = 16 - space_left /\ Len(s) \in Nat
  BY DEF TypeOK, chunk_pos, Chunk
<1>1. /\ Buffered \in Seq(Word) /\ Len(Buffered) = chunk_pos
      /\ \A i \in 1 .. chunk_pos : Buffered[i] = chunk[i - 1]
  BY <1>0, SequenceForms, BufferType
<1> DEFINE R == Buffered \o s
<1>2. /\ R \in Seq(Word) /\ Len(R) = chunk_pos + Len(s)
      /\ \A i \in 1 .. chunk_pos + Len(s) :
            R[i] = IF i <= chunk_pos THEN Buffered[i] ELSE s[i - chunk_pos]
  BY <1>1, ConcatProperties
<1> HIDE DEF R
<1>3. ASSUME NEW i \in 1 .. chunk_pos + Len(s) PROVE Filled(s)[i - 1] = R[i]
  <2>1. CASE i <= chunk_pos
    <3>1. i - 1 \in 0 .. chunk_pos - 1 /\ i \in 1 .. chunk_pos
      BY <1>0, <2>1
    <3> QED  BY <1>1, <1>2, <2>1, <3>1, FilledIs
  <2>2. CASE ~ (i <= chunk_pos)
    <3>1. i - chunk_pos \in 1 .. Len(s) /\ chunk_pos + (i - chunk_pos) - 1 = i - 1
      BY <1>0, <2>2
    <3>2. Filled(s)[chunk_pos + (i - chunk_pos) - 1] = s[i - chunk_pos]
      BY <3>1, FilledIs
    <3> QED  BY <1>2, <2>2, <3>1, <3>2
  <2> QED  BY <2>1, <2>2
<1>4. Filled(s) \in [Ring -> Word]
  BY FilledType
<1>5. ASSUME Len(s) < space_left PROVE BufferOf(Filled(s), space_left - Len(s)) = R
  <2> DEFINE L == BufferOf(Filled(s), space_left - Len(s))
  <2>1. space_left - Len(s) \in 1 .. Chunk /\ 16 - (space_left - Len(s)) = chunk_pos + Len(s)
    <3> DEFINE k == Len(s)
               pos == chunk_pos
    <3>1. k \in Nat /\ k < space_left /\ space_left \in 1 .. 16 /\ pos = 16 - space_left
      BY <1>0, <1>5
    <3> HIDE DEF k, pos
    <3>2. space_left - k \in 1 .. 16 /\ 16 - (space_left - k) = pos + k
      BY <3>1
    <3> QED  BY <3>2 DEF k, pos, Chunk
  <2>2. L \in Seq(Word) /\ Len(L) = chunk_pos + Len(s) /\ \A i \in 1 .. chunk_pos + Len(s) : L[i] = Filled(s)[i - 1]
    BY <1>4, <2>1, BufferType
  <2> HIDE DEF L
  <2>3. \A i \in 1 .. Len(L) : L[i] = R[i]
    BY Zenon, <1>3, <2>2
  <2>4. L = R
    BY <1>2, <2>2, <2>3, SeqEqual
  <2> QED  BY <2>4 DEF L
<1>6. ASSUME Len(s) = space_left PROVE Words(Filled(s)) = R
  <2> DEFINE L == Words(Filled(s))
  <2>1. chunk_pos + Len(s) = 16
    BY <1>0, <1>6
  <2>2. L \in Seq(Word) /\ Len(L) = 16 /\ \A i \in 1 .. 16 : L[i] = Filled(s)[i - 1]
    BY <1>4, WordsType
  <2> HIDE DEF L
  <2>3. R \in Seq(Word) /\ Len(R) = 16 /\ \A i \in 1 .. 16 : Filled(s)[i - 1] = R[i]
    BY Zenon, <1>2, <1>3, <2>1
  <2>4. \A i \in 1 .. Len(L) : L[i] = R[i]
    BY Zenon, <2>2, <2>3
  <2>5. L = R
    BY <2>2, <2>3, <2>4, SeqEqual
  <2> QED  BY <2>5 DEF L
<1> QED  BY <1>5, <1>6 DEF R

-----------------------------------------------------------------------------
(* Nothing is lost *)

(* The parts of the message, all of words. *)
LEMMA PartTypes ==
  ASSUME TypeOK, CountInv
  PROVE  /\ ConsumedOf(h) \in Seq(Word) /\ Words(block) \in Seq(Word) /\ InHand \in Seq(Word)
         /\ Buffered \in Seq(Word) /\ todo \in Seq(Word) /\ message \in Seq(Word)
<1>1. ConsumedOf(h) \in Seq(Word)
  BY HistoryComplete, ConsumedType
<1>2. Words(block) \in Seq(Word)
  BY WordsType DEF TypeOK
<1>3. InHand \in Seq(Word)
  BY <1>2, SequenceForms
<1>4. Buffered \in Seq(Word)
  BY SequenceForms, BufferType DEF TypeOK
<1> QED  BY <1>1, <1>2, <1>3, <1>4 DEF TypeOK

LEMMA EmptyJoins == \A s \in Seq(Word) : s \o << >> = s /\ << >> \o s = s
BY ConcatEmptySeq

LEMMA JoinAssociative ==
  ASSUME NEW a \in Seq(Word), NEW b \in Seq(Word), NEW c \in Seq(Word)
  PROVE  (a \o b) \o c = a \o (b \o c)
BY ConcatAssociative

(* A chunk that went through its rounds goes over to what was consumed. *)
LEMMA EndRoundsStream ==
  ASSUME TypeOK, RingInv, CountInv, EndRounds
  PROVE  Consumed' = Consumed \o InHand
<1>0. pc = "rounds" /\ t = 64 /\ h' = Append(h, used)
  BY DEF EndRounds, Rounds
<1>1. used \in Seq(Word) /\ Len(used) = Rounds /\ ScheduleOf(used, block) /\ block \in [Ring -> Word]
  BY <1>0 DEF TypeOK, RingInv, RingIsTheSchedule, Rounds
<1>2. \A i \in 1 .. 16 : used[i] = block[i - 1]
  <2>1. \A i \in 1 .. 16 : i \in DOMAIN used /\ i <= Chunk
    BY <1>1 DEF Rounds, Chunk
  <2> QED  BY Zenon, <1>1, <2>1 DEF ScheduleOf
<1>3. ConsumedOf(Append(h, used)) = ConsumedOf(h) \o Words(block)
  BY <1>1, <1>2, HistoryComplete, ConsumedAppend
<1>4. Consumed' = ConsumedOf(h')
  BY DEF Consumed, ConsumedOf
<1> QED  BY <1>0, <1>3, <1>4, SequenceForms

(* Nothing of a message was there when a hash began. *)
LEMMA EmptyMessage ==
  ASSUME pc' = "open", message' = << >>, todo' = << >>, h' = << >>, space_left' = Chunk
  PROVE  NothingIsLost'
<1>1. Consumed' = << >>
  BY DEF Consumed, Chunk
<1>2. InHand' = << >>
  BY DEF InHand
<1>3. Buffered' = << >>
  BY DEF Buffered, chunk_pos, Chunk
<1>4. << >> \o << >> = << >>
  OBVIOUS
<1> QED  BY <1>1, <1>2, <1>3, <1>4 DEF NothingIsLost

LEMMA NextLost == TypeOK /\ RingInv /\ CountInv /\ NothingIsLost /\ [Next]_vars => NothingIsLost'
<1> SUFFICES ASSUME TypeOK, RingInv, CountInv, NothingIsLost, [Next]_vars PROVE NothingIsLost'
  OBVIOUS
<1> DEFINE C == Consumed
           B == Buffered
<1>0. C \in Seq(Word) /\ InHand \in Seq(Word) /\ B \in Seq(Word) /\ todo \in Seq(Word) /\ message \in Seq(Word)
  BY PartTypes, SequenceForms
<1>a. pc = "open" \/ pc = "write" => InHand = << >> /\ (C \o B) \o todo = message
  BY <1>0, EmptyJoins DEF NothingIsLost, InHand
<1>b. /\ Consumed' = ConsumedOf(h') /\ Buffered' = BufferOf(chunk', space_left')
      /\ InHand' = IF pc' = "rounds" THEN Words(block') ELSE << >>
  BY DEF Consumed, ConsumedOf, Buffered, BufferOf, InHand, Words, chunk_pos
<1>c. h' = h => Consumed' = C
  BY <1>b, SequenceForms
<1>d. chunk' = chunk /\ space_left' = space_left => Buffered' = B
  BY <1>b, SequenceForms
<1> USE DEF hasher, consume
<1>1. CASE UNCHANGED vars
  BY <1>1 DEF vars, NothingIsLost, Consumed, InHand, Buffered, chunk_pos
<1>2. CASE Round
  BY <1>2 DEF Round, NothingIsLost, Consumed, InHand, Buffered, chunk_pos
<1>3. CASE EndRounds
  <2> SUFFICES ASSUME ret = "write" PROVE Consumed' \o InHand' \o Buffered' \o todo' = message'
    BY <1>3 DEF EndRounds, NothingIsLost, TypeOK
  <2>1. Consumed' = C \o InHand
    BY <1>3, EndRoundsStream
  <2>2. InHand' = << >> /\ Buffered' = B /\ todo' = todo /\ message' = message
    BY <1>3, <1>b, <1>d DEF EndRounds, TypeOK
  <2>3. ((C \o InHand) \o B) \o todo = message
    BY <1>3 DEF EndRounds, NothingIsLost
  <2>4. C \o InHand \in Seq(Word)
    BY <1>0, ConcatIs
  <2> QED  BY <2>1, <2>2, <2>3, <2>4, EmptyJoins
<1>4. ASSUME NEW n \in Sizes, Write(n) PROVE NothingIsLost'
  <2> DEFINE data == [i \in 1 .. n |-> Data(Len(message) + i)]
  <2>1. /\ pc = "open" /\ pc' = "write" /\ message' = message \o data /\ todo' = data /\ h' = h
        /\ chunk' = chunk /\ space_left' = space_left
    BY <1>4 DEF Write
  <2>2. todo = << >>
    BY <2>1 DEF CountInv
  <2>3. C \o B \in Seq(Word)
    BY <1>0, ConcatIs
  <2> HIDE DEF data
  <2>4. C \o B = message
    BY <1>a, <2>1, <2>2, <2>3, EmptyJoins
  <2>5. Consumed' = C /\ InHand' = << >> /\ Buffered' = B
    BY <1>b, <1>c, <1>d, <2>1
  <2>6. ((C \o << >>) \o B) \o data = message \o data
    BY <1>0, <2>4, EmptyJoins
  <2> QED  BY <2>1, <2>5, <2>6 DEF NothingIsLost
<1>5. CASE WriteDirect
  <2> DEFINE b == [i \in Ring |-> todo[i + 1]]
             A == SubSeq(todo, 1, 16)
             T == SubSeq(todo, 16 + 1, Len(todo))
  <2>1. /\ pc = "write" /\ space_left = 16 /\ 16 \in 0 .. Len(todo) /\ block' = b /\ pc' = "rounds"
        /\ todo' = T /\ UNCHANGED <<message, chunk, space_left, h>>
    BY <1>5 DEF WriteDirect, Consume, TypeOK, Chunk
  <2>2. /\ A \in Seq(Word) /\ Len(A) = 16 /\ T \in Seq(Word) /\ A \o T = todo
        /\ \A i \in 1 .. 16 : A[i] = todo[i]
    BY <1>0, <2>1, SuffixType
  <2>3. b \in [Ring -> Word] /\ \A i \in 1 .. 16 : b[i - 1] = todo[i]
    <3>1. \A i \in Ring : i + 1 \in 1 .. Len(todo)
      BY <2>1 DEF Ring, Chunk
    <3>2. \A i \in 1 .. 16 : i - 1 \in Ring /\ (i - 1) + 1 = i
      BY DEF Ring, Chunk
    <3>3. \A i \in Ring : todo[i + 1] \in Word /\ b[i] = todo[i + 1]
      BY <1>0, <3>1, ElementOfSeq
    <3>4. \A i \in 1 .. 16 : b[i - 1] = todo[i]
      BY Zenon, <3>2, <3>3
    <3> QED  BY <3>3, <3>4
  <2> HIDE DEF b, A, T
  <2>4. Words(b) = A
    <3>1. /\ Words(b) \in Seq(Word) /\ Len(Words(b)) = 16
          /\ \A i \in 1 .. 16 : Words(b)[i] = A[i]
      BY <2>2, <2>3, WordsType
    <3> QED  BY <2>2, <3>1, SeqEqual
  <2>5. B = << >>
    <3>1. B = [i \in 1 .. 0 |-> chunk[i - 1]]
      BY <2>1, SequenceForms DEF BufferOf, Chunk
    <3> QED  BY <3>1
  <2>6. Consumed' = C /\ InHand' = A /\ Buffered' = B
    BY <1>b, <1>c, <1>d, <2>1, <2>4
  <2>7. C \o (A \o T) = message
    BY <1>0, <1>a, <2>1, <2>2, <2>5, EmptyJoins
  <2>8. (C \o A) \o T = message /\ C \o A \in Seq(Word)
    <3> HIDE DEF C
    <3>1. C \o A \in Seq(Word)
      BY <1>0, <2>2, ConcatIs
    <3>0. C \in Seq(Word) /\ A \in Seq(Word) /\ T \in Seq(Word)
      BY <1>0, <2>2
    <3>2. (C \o A) \o T = C \o (A \o T)
      BY <3>0, JoinAssociative
    <3> QED  BY Zenon, <2>7, <3>1, <3>2
  <2>9. ((C \o A) \o << >>) \o T = message
    BY <2>8, EmptyJoins
  <2> QED  BY <2>1, <2>5, <2>6, <2>9 DEF NothingIsLost
<1>6. CASE WriteCopy
  <2> DEFINE n == IF Len(todo) < space_left THEN Len(todo) ELSE space_left
             A == SubSeq(todo, 1, n)
             T == SubSeq(todo, n + 1, Len(todo))
  <2>1. /\ pc = "write" /\ chunk' = Filled(A) /\ todo' = T /\ UNCHANGED <<message, h>>
        /\ IF n = space_left
           THEN space_left' = Chunk /\ pc' = "rounds" /\ block' = chunk'
           ELSE space_left' = space_left - n /\ pc' = "write"
    BY <1>6 DEF WriteCopy, Consume
  <2>2. n \in 0 .. Len(todo) /\ n <= space_left
    BY <1>0 DEF TypeOK
  <2> HIDE DEF n
  <2>3. A \in Seq(Word) /\ Len(A) = n /\ T \in Seq(Word) /\ A \o T = todo
    BY <1>0, <2>2, SuffixType
  <2> HIDE DEF A, T
  <2>4. (C \o B) \o (A \o T) = message
    BY <1>a, <2>1, <2>3
  <2>5. (C \o (B \o A)) \o T = message
    <3> HIDE DEF B, C
    <3>1. (C \o B) \o (A \o T) = (C \o (B \o A)) \o T
      <4>1. C \in Seq(Word) /\ B \in Seq(Word) /\ A \in Seq(Word) /\ T \in Seq(Word)
        BY <1>0, <2>3
      <4>2. C \o B \in Seq(Word)
        BY <4>1, ConcatIs
      <4>3. (C \o B) \o A = C \o (B \o A)
        BY <4>1, JoinAssociative
      <4> DEFINE P == C \o B
      <4> HIDE DEF P
      <4>4. P \in Seq(Word) /\ P \o A = C \o (B \o A)
        BY <4>2, <4>3 DEF P
      <4>5. (P \o A) \o T = P \o (A \o T)
        BY <4>1, <4>4, JoinAssociative
      <4> QED  BY <4>4, <4>5 DEF P
    <3> QED  BY Zenon, <2>4, <3>1
  <2>6. B \o A \in Seq(Word) /\ C \o (B \o A) \in Seq(Word)
    BY <1>0, <2>3, ConcatIs
  <2>7. Consumed' = C
    BY <1>c, <2>1
  <2>8. CASE n = space_left
    <3>1. Words(Filled(A)) = B \o A
      BY <2>2, <2>3, <2>8, CopyAppends
    <3>2. InHand' = B \o A
      BY <1>b, <2>1, <2>8, <3>1
    <3>3. Buffered' = << >>
      <4>1. Buffered' = [i \in 1 .. 0 |-> chunk'[i - 1]]
        BY <1>b, <2>1, <2>8 DEF BufferOf, Chunk
      <4> QED  BY <4>1
    <3>4. ((C \o (B \o A)) \o << >>) \o T = message
      BY <2>5, <2>6, EmptyJoins
    <3> QED  BY <2>1, <2>7, <3>2, <3>3, <3>4 DEF NothingIsLost
  <2>9. CASE n # space_left
    <3>1. BufferOf(Filled(A), space_left - n) = B \o A
      <4>0. Len(A) <= space_left
        BY <2>2, <2>3
      <4>1. Len(A) < space_left
        BY <1>0, <2>2, <2>3, <2>9 DEF TypeOK
      <4>2. BufferOf(Filled(A), space_left - Len(A)) = B \o A
        BY Zenon, <2>3, <4>1, <4>0, CopyAppends
      <4> QED  BY <2>3, <4>2
    <3>2. InHand' = << >> /\ Buffered' = B \o A
      BY <1>b, <2>1, <2>9, <3>1
    <3>3. ((C \o << >>) \o (B \o A)) \o T = message
      BY <1>0, <2>5, EmptyJoins
    <3> QED  BY <2>1, <2>7, <3>2, <3>3 DEF NothingIsLost
  <2> QED  BY <2>8, <2>9
<1>7. CASE WriteReturns
  BY <1>7 DEF WriteReturns, NothingIsLost, Consumed, InHand, Buffered, chunk_pos
<1>8. CASE sha_256_close \/ CloseExtra
  BY <1>8 DEF sha_256_close, CloseExtra, Consume, NothingIsLost
<1>9. CASE sha_256_init
  BY <1>9, EmptyMessage DEF sha_256_init
<1> QED
  BY <1>1, <1>2, <1>3, <1>4, <1>5, <1>6, <1>7, <1>8, <1>9 DEF Next, Steps, sha_256_write

-----------------------------------------------------------------------------
(* The padding *)

(* When all was taken, the message is what was consumed and the buffer; a  *)
(* chunk that has the buffer in front goes on after it.                    *)
LEMMA AfterMessage ==
  ASSUME TypeOK, CountInv, NothingIsLost, pc = "open", NEW c \in [Ring -> Word],
         \A i \in 0 .. chunk_pos - 1 : c[i] = chunk[i]
  PROVE  LET s == Consumed \o Words(c)
             n == Len(message)
         IN  /\ n \in Nat /\ Len(s) = n + space_left
             /\ Starts(s)
             /\ \A k \in chunk_pos .. 15 : s[n + 1 + (k - chunk_pos)] = c[k]
<1> DEFINE C == Consumed
           B == Buffered
           s == C \o Words(c)
           n == Len(message)
           m == 16 * Len(h)
           pos == chunk_pos
<1>0. pos \in 0 .. 15 /\ space_left = 16 - pos /\ space_left \in 1 .. 16
  BY DEF TypeOK, chunk_pos, Chunk
<1>1. C \in Seq(Word) /\ Len(C) = m /\ m \in Nat
  BY HistoryComplete, ConsumedType, SequenceForms DEF TypeOK
<1>2. B \in Seq(Word) /\ Len(B) = pos /\ \A i \in 1 .. pos : B[i] = chunk[i - 1]
  <2>1. chunk \in [Ring -> Word] /\ space_left \in 1 .. Chunk
    BY DEF TypeOK
  <2>2. 16 - space_left = pos
    BY <1>0
  <2> QED  BY <2>1, <2>2, SequenceForms, BufferType
<1>3. Words(c) \in Seq(Word) /\ Len(Words(c)) = 16 /\ \A i \in 1 .. 16 : Words(c)[i] = c[i - 1]
  BY WordsType
<1>4. C \o B = message
  <2>1. todo = << >> /\ InHand = << >>
    BY DEF CountInv, InHand
  <2>2. ((C \o << >>) \o B) \o << >> = message
    BY <2>1 DEF NothingIsLost
  <2>3. C \o B \in Seq(Word)
    BY <1>1, <1>2, ConcatIs
  <2> QED  BY <1>1, <2>2, <2>3, EmptyJoins
<1> HIDE DEF C, B, m, pos
<1>5. n = m + pos /\ Joined(message, C, m, B, pos)
  <2>1. Len(C \o B) = Len(C) + Len(B) /\ Joined(C \o B, C, Len(C), B, Len(B))
    BY <1>1, <1>2, ConcatIs
  <2> QED  BY <1>1, <1>2, <1>4, <2>1
<1>6. Len(s) = m + 16 /\ Joined(s, C, m, Words(c), 16)
  BY <1>1, <1>3, ConcatIs
<1> HIDE DEF s, n
<1>7. \A i \in 1 .. m : s[i] = message[i]
  BY <1>5, <1>6 DEF Joined
<1>8. ASSUME NEW i \in 1 .. pos PROVE s[m + i] = message[m + i]
  <2>1. /\ i \in 1 .. 16 /\ i - 1 \in 0 .. pos - 1
        /\ m + i \in m + 1 .. m + 16 /\ m + i \in m + 1 .. m + pos /\ (m + i) - m = i
    BY <1>0, <1>1
  <2>2. s[m + i] = Words(c)[i]
    BY Zenon, <1>6, <2>1 DEF Joined
  <2>3. message[m + i] = B[i]
    BY Zenon, <1>5, <2>1 DEF Joined
  <2>4. c[i - 1] = chunk[i - 1]
    BY <2>1 DEF pos
  <2> QED  BY Zenon, <1>2, <1>3, <2>1, <2>2, <2>3, <2>4
<1>9. \A i \in 1 .. n : s[i] = message[i]
  <2> SUFFICES ASSUME NEW i \in 1 .. n, ~ (i \in 1 .. m) PROVE s[i] = message[i]
    BY <1>7
  <2>1. i - m \in 1 .. pos /\ m + (i - m) = i
    BY <1>0, <1>1, <1>5
  <2>2. s[m + (i - m)] = message[m + (i - m)]
    BY <1>8, <2>1
  <2> QED  BY <2>1, <2>2
<1>10. ASSUME NEW k \in pos .. 15 PROVE s[n + 1 + (k - pos)] = c[k]
  <2>1. /\ k + 1 \in 1 .. 16 /\ n + 1 + (k - pos) = m + (k + 1) /\ (k + 1) - 1 = k
        /\ m + (k + 1) \in m + 1 .. m + 16 /\ (m + (k + 1)) - m = k + 1
    BY <1>0, <1>1, <1>5
  <2>2. s[m + (k + 1)] = Words(c)[k + 1]
    BY Zenon, <1>6, <2>1 DEF Joined
  <2> QED  BY Zenon, <1>3, <2>1, <2>2
<1>11. n \in Nat /\ Len(s) = n + space_left
  BY <1>0, <1>1, <1>5, <1>6
<1> QED  BY <1>9, <1>10, <1>11 DEF Starts, s, n, C, pos

(* The buffer with the mark, and with the zeros and the length. *)
LEMMA MarkedIs ==
  ASSUME TypeOK
  PROVE  /\ \A i \in 0 .. chunk_pos - 1 : Marked[i] = chunk[i]
         /\ Marked[chunk_pos] = Mark
<1>1. <<Mark>> \in Seq(Word) /\ Len(<<Mark>>) = 1 /\ <<Mark>>[1] = Mark
  BY Sha256Assumption
<1>2. Len(<<Mark>>) <= space_left /\ chunk_pos + 1 - 1 = chunk_pos /\ 1 \in 1 .. Len(<<Mark>>)
  BY <1>1 DEF TypeOK, chunk_pos, Chunk
<1>3. Filled(<<Mark>>)[chunk_pos + 1 - 1] = Mark
  BY <1>1, <1>2, FilledIs
<1>4. \A i \in 0 .. chunk_pos - 1 : Filled(<<Mark>>)[i] = chunk[i]
  BY <1>1, <1>2, FilledIs
<1> QED  BY <1>2, <1>3, <1>4 DEF Marked

LEMMA FinalIs ==
  ASSUME TypeOK, NEW c \in [Ring -> Word], NEW pos \in 0 .. Chunk - LenLen
  PROVE  /\ \A i \in 0 .. pos - 1 : Final(c, pos)[i] = c[i]
         /\ \A i \in pos .. 15 - LenLen : Final(c, pos)[i] = 0
         /\ \A i \in 0 .. LenLen - 1 : Final(c, pos)[16 - LenLen + i] = LengthWord(i)
<1>0. LenLen \in 1 .. 15 /\ pos \in 0 .. 16 - LenLen
  BY Sha256Assumption DEF Chunk
<1>1. ASSUME NEW i \in 0 .. pos - 1 PROVE Final(c, pos)[i] = c[i]
  <2>1. i \in Ring /\ i < pos
    BY <1>0 DEF Ring, Chunk
  <2> QED  BY <2>1 DEF Final
<1>2. ASSUME NEW i \in pos .. 15 - LenLen PROVE Final(c, pos)[i] = 0
  <2>1. i \in Ring /\ ~ (i < pos) /\ i < Chunk - LenLen
    BY <1>0 DEF Ring, Chunk
  <2> QED  BY <2>1 DEF Final
<1>3. ASSUME NEW i \in 0 .. LenLen - 1 PROVE Final(c, pos)[16 - LenLen + i] = LengthWord(i)
  <2> DEFINE k == 16 - LenLen + i
  <2>1. k \in Ring /\ ~ (k < pos) /\ ~ (k < Chunk - LenLen) /\ k - (Chunk - LenLen) = i
    BY <1>0 DEF Ring, Chunk
  <2> HIDE DEF k
  <2>2. Final(c, pos)[k] = LengthWord(k - (Chunk - LenLen))
    BY <2>1 DEF Final
  <2> QED  BY <2>1, <2>2 DEF k
<1> QED  BY <1>1, <1>2, <1>3

(* The buffer has no room for the length after the mark. *)
LEMMA CloseHalf ==
  ASSUME TypeOK, CountInv, NothingIsLost, pc = "open", space_left - 1 < LenLen,
         NEW c \in [Ring -> Word], c = [i \in Ring |-> IF i > chunk_pos THEN 0 ELSE Marked[i]]
  PROVE  HalfPadded(Consumed \o Words(c))
<1> DEFINE s == Consumed \o Words(c)
           n == Len(message)
           pos == chunk_pos
<1>0. pos \in 0 .. 15 /\ space_left = 16 - pos /\ LenLen \in 1 .. 15 /\ pos \in Ring
  BY Sha256Assumption DEF TypeOK, chunk_pos, Chunk, Ring
<1>1. \A i \in 0 .. chunk_pos - 1 : c[i] = chunk[i]
  <2>1. \A i \in 0 .. pos - 1 : i \in Ring /\ ~ (i > pos)
    BY <1>0 DEF Ring, Chunk
  <2> QED  BY <2>1, MarkedIs
<1>2. c[pos] = Mark
  <2>1. ~ (pos > pos)
    BY <1>0
  <2> QED  BY <1>0, <2>1, MarkedIs
<1>3. \A i \in pos + 1 .. 15 : c[i] = 0
  <2>1. \A i \in pos + 1 .. 15 : i \in Ring /\ i > pos
    BY <1>0 DEF Ring, Chunk
  <2> QED  BY <2>1
<1>4. /\ n \in Nat /\ Len(s) = n + space_left /\ Starts(s)
      /\ \A k \in pos .. 15 : s[n + 1 + (k - pos)] = c[k]
  BY <1>1, AfterMessage
<1> HIDE DEF s, n, pos
<1>5. Len(s) - (n + 1) \in 0 .. LenLen - 1
  BY <1>0, <1>4
<1>6. s[n + 1] = Mark
  <2>1. n + 1 + (pos - pos) = n + 1 /\ pos \in pos .. 15
    BY <1>0, <1>4
  <2> QED  BY Zenon, <1>2, <1>4, <2>1
<1>7. ASSUME NEW i \in n + 2 .. Len(s) PROVE s[i] = 0
  <2> DEFINE k == pos + (i - n - 1)
  <2>1. k \in pos .. 15 /\ k \in pos + 1 .. 15 /\ n + 1 + (k - pos) = i
    BY <1>0, <1>4
  <2> HIDE DEF k
  <2> QED  BY Zenon, <1>3, <1>4, <2>1
<1> QED  BY <1>4, <1>5, <1>6, <1>7 DEF HalfPadded, s, n

(* The buffer has room for it. *)
LEMMA CloseWhole ==
  ASSUME TypeOK, CountInv, NothingIsLost, pc = "open", ~ (space_left - 1 < LenLen),
         NEW c \in [Ring -> Word], c = Final(Marked, chunk_pos + 1)
  PROVE  Padded(Consumed \o Words(c))
<1> DEFINE s == Consumed \o Words(c)
           n == Len(message)
           pos == chunk_pos
<1>0. pos \in 0 .. 15 /\ space_left = 16 - pos /\ LenLen \in 1 .. 15 /\ pos + 1 \in 0 .. 16 - LenLen
  BY Sha256Assumption DEF TypeOK, chunk_pos, Chunk
<1>a. /\ \A i \in 0 .. (pos + 1) - 1 : c[i] = Marked[i]
      /\ \A i \in pos + 1 .. 15 - LenLen : c[i] = 0
      /\ \A i \in 0 .. LenLen - 1 : c[16 - LenLen + i] = LengthWord(i)
  <2>1. pos + 1 \in 0 .. Chunk - LenLen
    BY <1>0 DEF Chunk
  <2>2. Marked \in [Ring -> Word]
    BY MarkedType
  <2> QED  BY <2>1, <2>2, FinalIs
<1>1. \A i \in 0 .. chunk_pos - 1 : c[i] = chunk[i]
  <2>1. \A i \in 0 .. pos - 1 : i \in 0 .. (pos + 1) - 1
    BY <1>0
  <2> QED  BY <1>a, <2>1, MarkedIs
<1>2. c[pos] = Mark
  <2>1. pos \in 0 .. (pos + 1) - 1
    BY <1>0
  <2> QED  BY <1>a, <2>1, MarkedIs
<1>4. /\ n \in Nat /\ Len(s) = n + space_left /\ Starts(s)
      /\ \A k \in pos .. 15 : s[n + 1 + (k - pos)] = c[k]
  BY <1>1, AfterMessage
<1> HIDE DEF s, n, pos
<1>5. Len(s) - (n + 1 + LenLen) \in 0 .. Chunk - 1
  BY <1>0, <1>4 DEF Chunk
<1>6. s[n + 1] = Mark
  <2>1. n + 1 + (pos - pos) = n + 1 /\ pos \in pos .. 15
    BY <1>0, <1>4
  <2> QED  BY Zenon, <1>2, <1>4, <2>1
<1>7. ASSUME NEW i \in n + 2 .. Len(s) - LenLen PROVE s[i] = 0
  <2> DEFINE k == pos + (i - n - 1)
  <2>1. k \in pos .. 15 /\ k \in pos + 1 .. 15 - LenLen /\ n + 1 + (k - pos) = i
    BY <1>0, <1>4
  <2> HIDE DEF k
  <2> QED  BY Zenon, <1>a, <1>4, <2>1
<1>8. ASSUME NEW i \in 0 .. LenLen - 1 PROVE s[Len(s) - LenLen + 1 + i] = LengthWord(i)
  <2> DEFINE k == 16 - LenLen + i
  <2>1. k \in pos .. 15 /\ n + 1 + (k - pos) = Len(s) - LenLen + 1 + i
    BY <1>0, <1>4
  <2>2. c[k] = LengthWord(i)
    BY <1>a, <1>8
  <2> HIDE DEF k
  <2> QED  BY Zenon, <1>4, <2>1, <2>2
<1> QED  BY <1>4, <1>5, <1>6, <1>7, <1>8 DEF Padded, s, n

(* The length has a chunk of its own. *)
LEMMA CloseRest ==
  ASSUME TypeOK, CountInv, HalfPadded(Consumed), NEW c \in [Ring -> Word], c = Final(chunk, 0)
  PROVE  Padded(Consumed \o Words(c))
<1> DEFINE C == Consumed
           s == C \o Words(c)
           n == Len(message)
           m == 16 * Len(h)
<1>0. LenLen \in 1 .. 15 /\ n \in Nat
  BY Sha256Assumption DEF TypeOK, Chunk
<1>1. C \in Seq(Word) /\ Len(C) = m /\ m \in Nat
  BY HistoryComplete, ConsumedType, SequenceForms DEF TypeOK
<1>2. Words(c) \in Seq(Word) /\ Len(Words(c)) = 16 /\ \A i \in 1 .. 16 : Words(c)[i] = c[i - 1]
  BY WordsType
<1>3. /\ \A i \in 0 .. 15 - LenLen : c[i] = 0
      /\ \A i \in 0 .. LenLen - 1 : c[16 - LenLen + i] = LengthWord(i)
  <2>1. 0 \in 0 .. Chunk - LenLen /\ chunk \in [Ring -> Word]
    BY <1>0 DEF Chunk, TypeOK
  <2> QED  BY <2>1, FinalIs
<1>4. /\ m - (n + 1) \in 0 .. LenLen - 1 /\ C[n + 1] = Mark
      /\ \A i \in 1 .. n : C[i] = message[i]
      /\ \A i \in n + 2 .. m : C[i] = 0
  BY <1>1 DEF HalfPadded, Starts
<1> HIDE DEF C, m, n
<1>5. Len(s) = m + 16 /\ Joined(s, C, m, Words(c), 16)
  BY <1>1, <1>2, ConcatIs
<1> HIDE DEF s
<1>6. \A i \in 1 .. m : s[i] = C[i]
  BY <1>5 DEF Joined
<1>7. ASSUME NEW k \in 0 .. 15 PROVE s[m + 1 + k] = c[k]
  <2>1. m + 1 + k \in m + 1 .. m + 16 /\ (m + 1 + k) - m = k + 1 /\ k + 1 \in 1 .. 16 /\ (k + 1) - 1 = k
    BY <1>1
  <2>2. s[m + 1 + k] = Words(c)[k + 1]
    BY Zenon, <1>5, <2>1 DEF Joined
  <2> QED  BY Zenon, <1>2, <2>1, <2>2
<1>8. Len(s) - (n + 1 + LenLen) \in 0 .. Chunk - 1
  BY <1>0, <1>1, <1>4, <1>5 DEF Chunk
<1>9. (\A i \in 1 .. n : s[i] = message[i]) /\ s[n + 1] = Mark
  <2>1. n + 1 \in 1 .. m /\ \A i \in 1 .. n : i \in 1 .. m
    BY <1>0, <1>1, <1>4
  <2> QED  BY <1>4, <1>6, <2>1
<1>10. ASSUME NEW i \in n + 2 .. Len(s) - LenLen PROVE s[i] = 0
  <2>1. CASE i <= m
    <3>1. i \in 1 .. m /\ i \in n + 2 .. m
      BY <1>0, <1>1, <2>1
    <3> QED  BY <1>4, <1>6, <3>1
  <2>2. CASE ~ (i <= m)
    <3> DEFINE k == i - m - 1
    <3>1. k \in 0 .. 15 /\ k \in 0 .. 15 - LenLen /\ m + 1 + k = i
      BY <1>0, <1>1, <1>4, <1>5, <2>2
    <3> HIDE DEF k
    <3> QED  BY Zenon, <1>3, <1>7, <3>1
  <2> QED  BY <2>1, <2>2
<1>11. ASSUME NEW i \in 0 .. LenLen - 1 PROVE s[Len(s) - LenLen + 1 + i] = LengthWord(i)
  <2> DEFINE k == 16 - LenLen + i
  <2>1. k \in 0 .. 15 /\ m + 1 + k = Len(s) - LenLen + 1 + i
    BY <1>0, <1>1, <1>5
  <2>2. c[k] = LengthWord(i)
    BY <1>3, <1>11
  <2> HIDE DEF k
  <2> QED  BY Zenon, <1>7, <2>1, <2>2
<1> QED  BY <1>8, <1>9, <1>10, <1>11 DEF Padded, Starts, s, n, C

(* Only the message and its length matter to the padding. *)
LEMMA PaddingPrime ==
  ASSUME UNCHANGED <<message, total_len>>, NEW s, Stream' = s
  PROVE  (HalfPadded(s) => HalfPadded(Stream)') /\ (Padded(s) => Padded(Stream)')
<1>1. \A i : LengthWord(i)' = LengthWord(i)
  BY DEF LengthWord
<1>2. Starts(s) => Starts(Stream)'
  BY DEF Starts
<1> QED  BY <1>1, <1>2 DEF HalfPadded, Padded

LEMMA NextClose == IInv /\ [Next]_vars => CloseInv'
<1> SUFFICES ASSUME IInv, [Next]_vars PROVE CloseInv'
  OBVIOUS
<1>0. TypeOK /\ RingInv /\ CountInv /\ NothingIsLost /\ CloseInv
  BY DEF IInv
<1> USE DEF hasher, consume
<1>a. Consumed \in Seq(Word) /\ InHand \in Seq(Word)
  BY <1>0, PartTypes, SequenceForms
<1>b. ASSUME NEW b, block' = b, pc' = "rounds", h' = h PROVE Stream' = Consumed \o Words(b)
  BY <1>b DEF Stream, Consumed, InHand, Words
<1>c. chunk' \in [Ring -> Word]
  BY <1>0, NextType DEF TypeOK
<1>1. CASE UNCHANGED vars
  <2>1. UNCHANGED <<message, total_len, pc, ret>> /\ Stream' = Stream
    BY <1>1 DEF vars, Stream, Consumed, InHand
  <2> QED  BY <1>0, <2>1, PaddingPrime DEF CloseInv, Closing
<1>2. CASE Round
  <2>1. UNCHANGED <<message, total_len, pc, ret>> /\ Stream' = Stream
    BY <1>2 DEF Round, Stream, Consumed, InHand
  <2> QED  BY <1>0, <2>1, PaddingPrime DEF CloseInv, Closing
<1>3. CASE EndRounds
  <2>1. UNCHANGED <<message, total_len, ret>> /\ pc = "rounds" /\ pc' = ret
    BY <1>3 DEF EndRounds
  <2>2. Consumed' = Consumed \o InHand /\ InHand' = << >>
    BY <1>0, <1>3, EndRoundsStream DEF EndRounds, InHand, TypeOK
  <2>3. Consumed \o InHand \in Seq(Word)
    BY <1>a, ConcatIs
  <2>4. Stream' = Stream
    BY <2>2, <2>3, EmptyJoins DEF Stream
  <2>5. ret \in {"write", "final", "closed"}
    BY <1>0 DEF TypeOK
  <2> QED  BY <1>0, <2>1, <2>4, <2>5, PaddingPrime DEF CloseInv, Closing
<1>4. CASE WriteDirect \/ WriteCopy \/ WriteReturns \/ sha_256_init \/ \E n \in Sizes : Write(n)
  <2>1. pc' \in {"open", "write"} \/ (pc' = "rounds" /\ ret' = "write")
    BY <1>4 DEF WriteDirect, WriteCopy, WriteReturns, sha_256_init, Write, Consume
  <2> QED  BY <2>1 DEF CloseInv, Closing
<1>5. CASE sha_256_close
  <2>1. /\ pc = "open" /\ UNCHANGED <<message, total_len, h>> /\ block' = chunk' /\ pc' = "rounds"
        /\ IF space_left - 1 < LenLen
           THEN /\ chunk' = [i \in Ring |-> IF i > chunk_pos THEN 0 ELSE Marked[i]]
                /\ ret' = "final"
           ELSE chunk' = Final(Marked, chunk_pos + 1) /\ ret' = "closed"
    BY <1>5 DEF sha_256_close, Consume
  <2>2. Stream' = Consumed \o Words(chunk')
    BY <1>b, <2>1
  <2>3. CASE space_left - 1 < LenLen
    <3>1. HalfPadded(Consumed \o Words(chunk'))
      BY <1>0, <1>c, <2>1, <2>3, CloseHalf
    <3> QED  BY <2>1, <2>2, <2>3, <3>1, PaddingPrime DEF CloseInv, Closing
  <2>4. CASE ~ (space_left - 1 < LenLen)
    <3>1. Padded(Consumed \o Words(chunk'))
      BY <1>0, <1>c, <2>1, <2>4, CloseWhole
    <3> QED  BY <2>1, <2>2, <2>4, <3>1, PaddingPrime DEF CloseInv, Closing
  <2> QED  BY <2>3, <2>4
<1>6. CASE CloseExtra
  <2>1. /\ pc = "final" /\ UNCHANGED <<message, total_len, h>> /\ block' = chunk' /\ pc' = "rounds"
        /\ chunk' = Final(chunk, 0) /\ ret' = "closed"
    BY <1>6 DEF CloseExtra, Consume
  <2>2. Stream' = Consumed \o Words(chunk')
    BY <1>b, <2>1
  <2>3. Stream = Consumed
    BY <1>a, <2>1, EmptyJoins DEF Stream, InHand
  <2>4. HalfPadded(Consumed)
    BY <1>0, <2>1, <2>3 DEF CloseInv, Closing
  <2>5. Padded(Consumed \o Words(chunk'))
    BY <1>0, <1>c, <2>1, <2>4, CloseRest
  <2> QED  BY <2>1, <2>2, <2>5, PaddingPrime DEF CloseInv, Closing
<1> QED
  BY <1>1, <1>2, <1>3, <1>4, <1>5, <1>6 DEF Next, Steps, sha_256_write

-----------------------------------------------------------------------------
(* The theorems *)

LEMMA InitIInv == Init => IInv
<1> SUFFICES ASSUME Init PROVE IInv
  OBVIOUS
<1>1. TypeOK
  BY InitType
<1>2. RingInv /\ CountInv /\ CloseInv
  BY DEF Init, RingInv, RingIsTheSchedule, CountInv, CloseInv, Closing
<1>3. NothingIsLost
  <2>1. pc = "open" /\ message = << >> /\ todo = << >> /\ h = << >> /\ space_left = Chunk
    BY DEF Init
  <2>2. Consumed = << >>
    BY <2>1 DEF Consumed, Chunk
  <2>3. InHand = << >>
    BY <2>1 DEF InHand
  <2>4. Buffered = << >>
    BY <2>1 DEF Buffered, chunk_pos, Chunk
  <2>5. << >> \o << >> = << >>
    OBVIOUS
  <2> QED  BY <2>1, <2>2, <2>3, <2>4, <2>5 DEF NothingIsLost
<1> QED  BY <1>1, <1>2, <1>3 DEF IInv

LEMMA NextIInv == IInv /\ [Next]_vars => IInv'
BY NextType, NextRing, NextCount, NextLost, NextClose DEF IInv

LEMMA PaddedIsClosed == IInv => ClosesWithThePadding
<1> SUFFICES ASSUME IInv, pc = "closed" PROVE ClosesWithThePadding
  BY DEF ClosesWithThePadding
<1>0. TypeOK /\ CountInv /\ CloseInv
  BY DEF IInv
<1> DEFINE C == Consumed
           n == Len(message)
           m == Len(C)
           s == SubSeq(C, m - LenLen + 1, m)
<1>1. C \in Seq(Word) /\ message \in Seq(Word) /\ n \in Nat /\ m \in Nat /\ LenLen \in 1 .. 15 /\ total_len = n
  BY <1>0, PartTypes, SequenceForms, Sha256Assumption DEF Chunk, CountInv
<1>2. Padded(C)
  <2>1. Stream = C
    BY <1>1, EmptyJoins DEF Stream, InHand
  <2> QED  BY <1>0, <2>1 DEF CloseInv, Closing
<1>3. /\ m - (n + 1 + LenLen) \in 0 .. Chunk - 1
      /\ \A i \in 1 .. n : C[i] = message[i]
      /\ C[n + 1] = Mark
      /\ \A i \in n + 2 .. m - LenLen : C[i] = 0
      /\ \A i \in 0 .. LenLen - 1 : C[m - LenLen + 1 + i] = LengthWord(i)
  BY <1>2 DEF Padded, Starts
<1> HIDE DEF C
<1>4. n <= m - LenLen /\ LenLen <= m
  <2>1. m - (n + 1 + LenLen) \in 0 .. 15
    BY <1>3 DEF Chunk
  <2> HIDE DEF m, n
  <2> QED  BY <1>1, <2>1
<1>5. SubSeq(C, 1, n) = message
  <2>1. n \in 0 .. Len(C)
    BY <1>1, <1>4
  <2>2. /\ SubSeq(C, 1, n) \in Seq(Word) /\ Len(SubSeq(C, 1, n)) = n
        /\ \A i \in 1 .. n : SubSeq(C, 1, n)[i] = C[i]
    BY <1>1, <2>1, SuffixType
  <2>3. \A i \in 1 .. n : SubSeq(C, 1, n)[i] = message[i]
    BY <1>3, <2>2
  <2> QED  BY <1>1, <2>2, <2>3, SeqEqual
<1>6. /\ s \in [1 .. LenLen -> Nat] /\ Len(s) = LenLen
      /\ \A i \in 1 .. LenLen : s[i] = LengthWord(i - 1)
  <2>1. \A i \in m - LenLen + 1 .. m : C[i] \in Word
    BY <1>1, <1>4
  <2>2. /\ s \in Seq(Word) /\ Len(s) = LenLen
        /\ \A i \in 1 .. LenLen : s[i] = C[(m - LenLen + 1) + i - 1]
    <3>1. m - LenLen + 1 \in Int /\ m \in Int /\ m - LenLen + 1 <= m + 1 /\ m - (m - LenLen + 1) + 1 = LenLen
      BY <1>1, <1>4
    <3> QED  BY <2>1, <3>1, SubSeqProperties
  <2>3. \A i \in 1 .. LenLen : i - 1 \in 0 .. LenLen - 1 /\ (m - LenLen + 1) + i - 1 = m - LenLen + 1 + (i - 1)
    BY <1>1
  <2> HIDE DEF s, m
  <2>4. \A i \in 1 .. LenLen : s[i] = LengthWord(i - 1)
    BY Zenon, <1>3, <2>2, <2>3
  <2>5. s \in [1 .. LenLen -> Word] /\ Word \subseteq Nat
    <3>1. s \in [1 .. LenLen -> Word]
      BY Zenon, <2>2, LenProperties
    <3>2. Word \subseteq Nat
      BY Sha256Assumption DEF Word
    <3> QED  BY <3>1, <3>2
  <2> QED  BY <2>2, <2>4, <2>5
<1> HIDE DEF s
<1>7. Value(s) = (n * Scale) % Modulus
  <2>1. LenLen \in 1 .. LenLen /\ \A i \in 1 .. LenLen - 1 : i \in 1 .. LenLen
    BY <1>1
  <2>2. s[LenLen] = (n * Scale) % Base
    BY <1>1, <1>6, <2>1 DEF LengthWord
  <2>3. ASSUME NEW i \in 1 .. LenLen - 1 PROVE s[i] = Shifted(n)[LenLen - 1 - i] % Base
    <3>1. i \in 1 .. LenLen /\ i - 1 # LenLen - 1 /\ LenLen - 2 - (i - 1) = LenLen - 1 - i
      BY <1>1
    <3>2. s[i] = LengthWord(i - 1)
      BY <1>6, <3>1
    <3>3. LengthWord(i - 1) = Shifted(n)[LenLen - 2 - (i - 1)] % Base
      BY Zenon, <1>1, <3>1 DEF LengthWord
    <3> QED  BY Zenon, <3>1, <3>2, <3>3
  <2> QED  BY <1>1, <1>6, <2>2, <2>3, LengthValue
<1> QED  BY <1>3, <1>5, <1>7 DEF ClosesWithThePadding, C, s

LEMMA Sha256Invariant == Spec => []IInv
BY InitIInv, NextIInv, PTL DEF Spec

(* The hasher's fields and arrays hold what their types say: space_left    *)
(* never falls to 0, so that there is always room for the mark             *)
(* (sha256.c:196-240).                                                     *)
THEOREM Sha256TypeCorrect == Spec => []TypeOK
<1>1. IInv => TypeOK
  BY DEF IInv
<1> QED  BY <1>1, Sha256Invariant, PTL

(* The rounds are given the schedule of SHA-256, out of a ring of sixteen  *)
(* words (sha256.c:86-116).                                                *)
THEOREM RingKeepsTheSchedule == Spec => []RingIsTheSchedule
<1>1. IInv => RingIsTheSchedule
  BY DEF IInv, RingInv
<1> QED  BY <1>1, Sha256Invariant, PTL

(* However a message is cut into writes, no word of it is lost, doubled or *)
(* moved (sha256.c:196-220).                                               *)
THEOREM WritesLoseNothing == Spec => []NothingIsLost
<1>1. IInv => NothingIsLost
  BY DEF IInv
<1> QED  BY <1>1, Sha256Invariant, PTL

(* What a closed hash consumed is the message with the padding of SHA-256, *)
(* for every width of a word and of the length (sha256.c:224-260).         *)
THEOREM ClosedIsPadded == Spec => []ClosesWithThePadding
BY PaddedIsClosed, Sha256Invariant, PTL
=============================================================================
