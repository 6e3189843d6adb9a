------------------------------- MODULE Sha256 -------------------------------
(***************************************************************************)
(* The streaming SHA-256 of the loader (sha256.c): a message comes in      *)
(* pieces of any length, is cut into chunks, padded and closed, and every  *)
(* chunk is expanded into a schedule that is kept in a ring of 16 words.   *)
(*                                                                         *)
(* Everything is counted in words: a chunk is 16 of them, and the length   *)
(* at its end takes LenLen.  What the rounds do with the words of a        *)
(* schedule is left out: h is the list of the schedules they were given.   *)
(***************************************************************************)
EXTENDS Integers, Sequences

CONSTANTS
  Base,           \* the number of values of a word
  Scale,          \* the number of bits that the length counts for a unit of data
  Mark,           \* the word with the one-bit that ends the message
  LenLen,         \* TOTAL_LEN_LEN
  Mix(_, _, _, _),          \* how a word of the schedule comes from four earlier ones
  Data(_),        \* the n-th word of the message
  Sizes,          \* how many words are written at a time
  MaxLen,         \* how long a message may get
  Garbage         \* what an uninitialised array may hold

Word == 0 .. Base - 1
Chunk == 16       \* SIZE_OF_SHA_256_CHUNK
Rounds == 64
Ring == 0 .. Chunk - 1

ASSUME Sha256Assumption ==
  /\ Base \in Nat \ {0} /\ Scale \in Nat \ {0} /\ Base % Scale = 0
  /\ Mark \in Word \ {0}
  /\ LenLen \in 1 .. Chunk - 1
  /\ Sizes \subseteq Nat /\ MaxLen \in Nat
  /\ Garbage \subseteq [Ring -> Word]
  /\ \A n \in 1 .. MaxLen : Data(n) \in Word
  /\ \A a, b, c, d \in Word : Mix(a, b, c, d) \in Word

VARIABLES
  pc,
  message,        \* all that was written
  todo,           \* what sha_256_write has yet to take: p and len
  chunk,          \* the buffer, and
  space_left,     \*   how much of it is free
  total_len,
  ret,            \* where the caller of consume_chunk goes on
  block,          \* the chunk that it works on
  w, t,           \* its ring, and the number of the round
  used,           \* the words that the rounds were given
  h               \* the schedules of the chunks before

hasher == <<chunk, space_left, total_len>>
consume == <<ret, block, w, t, used, h>>
vars == <<pc, message, todo, hasher, consume>>

chunk_pos == Chunk - space_left

Init ==
  /\ pc = "open"
  /\ message = << >> /\ todo = << >>
  /\ chunk \in Garbage /\ space_left = Chunk /\ total_len = 0
  /\ ret = "write" /\ block = chunk /\ w \in Garbage /\ t = 0 /\ used = << >> /\ h = << >>

(* The next message: the array of the hasher is on the stack and holds     *)
(* what the one before left in it.                                         *)
sha_256_init ==
  /\ pc = "closed"
  /\ pc' = "open"
  /\ message' = << >> /\ todo' = << >>
  /\ space_left' = Chunk /\ total_len' = 0
  /\ t' = 0 /\ used' = << >> /\ h' = << >>
  /\ UNCHANGED <<chunk, ret, block, w>>

-----------------------------------------------------------------------------
(* consume_chunk *)

(* The chunk b is consumed, and then the caller goes on at next.  Nothing  *)
(* but the rounds runs until then.                                         *)
Consume(b, next) ==
  /\ block' = b
  /\ t' = 0 /\ used' = << >>
  /\ pc' = "rounds" /\ ret' = next
  /\ UNCHANGED <<w, h>>

BugRingWord(j) ==
  IF t < Chunk THEN block[j]
  ELSE Mix(w[j], w[(j + 1) % Chunk], w[(j + 9) % Chunk], w[(j + 15) % Chunk])
RingWord(j) ==
  IF t < Chunk THEN block[j]
  ELSE Mix(w[j], w[(j + 1) % Chunk], w[(j + 9) % Chunk], w[(j + 14) % Chunk])

Round ==
  /\ pc = "rounds" /\ t < Rounds
  /\ LET j == t % Chunk IN
       /\ w' = [w EXCEPT ![j] = RingWord(j)]
       /\ used' = Append(used, RingWord(j))
  /\ t' = t + 1
  /\ UNCHANGED <<pc, message, todo, hasher, ret, block, h>>

EndRounds ==
  /\ pc = "rounds" /\ t = Rounds
  /\ h' = Append(h, used)
  /\ pc' = ret
  /\ UNCHANGED <<message, todo, hasher, ret, block, w, t, used>>

-----------------------------------------------------------------------------
(* sha_256_write *)

Write(n) ==
  /\ pc = "open"
  /\ Len(message) + n <= MaxLen
  /\ LET data == [i \in 1 .. n |-> Data(Len(message) + i)] IN
       /\ todo' = data
       /\ message' = message \o data
  /\ total_len' = total_len + n
  /\ pc' = "write"
  /\ UNCHANGED <<chunk, space_left, consume>>

BugWriteDirect ==
  /\ pc = "write"
  /\ Len(todo) >= Chunk
  /\ Consume([i \in Ring |-> todo[i + 1]], "write")
  /\ todo' = SubSeq(todo, Chunk + 1, Len(todo))
  /\ UNCHANGED <<message, hasher>>
WriteDirect ==
  /\ pc = "write"
  /\ space_left = Chunk /\ Len(todo) >= Chunk
  /\ Consume([i \in Ring |-> todo[i + 1]], "write")
  /\ todo' = SubSeq(todo, Chunk + 1, Len(todo))
  /\ UNCHANGED <<message, hasher>>

(* The buffer with the words of s from chunk_pos on. *)
Filled(s) ==
  [i \in Ring |-> IF i - chunk_pos \in 0 .. Len(s) - 1 THEN s[i - chunk_pos + 1] ELSE chunk[i]]

BugWriteCopy ==
  /\ pc = "write" /\ todo # << >>
  /\ ~ (space_left = Chunk /\ Len(todo) >= Chunk)
  /\ LET n == IF Len(todo) < space_left THEN Len(todo) ELSE space_left IN
       /\ chunk' = Filled(SubSeq(todo, 1, n))
       /\ todo' = SubSeq(todo, n + 1, Len(todo))
       /\ space_left' = space_left - n
       /\ IF n = space_left
          THEN Consume(chunk', "write")
          ELSE pc' = "write" /\ UNCHANGED consume
  /\ UNCHANGED <<message, total_len>>
BugShortCopy ==
  /\ pc = "write" /\ todo # << >>
  /\ ~ (space_left = Chunk /\ Len(todo) >= Chunk)
  /\ LET n == IF Len(todo) < space_left THEN Len(todo) ELSE space_left - 1 IN
       /\ chunk' = Filled(SubSeq(todo, 1, n))
       /\ todo' = SubSeq(todo, n + 1, Len(todo))
       /\ space_left' = space_left - n
  /\ UNCHANGED <<pc, message, total_len, consume>>
WriteCopy ==
  /\ pc = "write" /\ todo # << >>
  /\ ~ (space_left = Chunk /\ Len(todo) >= Chunk)
  /\ LET n == IF Len(todo) < space_left THEN Len(todo) ELSE space_left IN
       /\ chunk' = Filled(SubSeq(todo, 1, n))
       /\ todo' = SubSeq(todo, n + 1, Len(todo))
       /\ IF n = space_left
          THEN space_left' = Chunk /\ Consume(chunk', "write")
          ELSE space_left' = space_left - n /\ pc' = "write" /\ UNCHANGED consume
  /\ UNCHANGED <<message, total_len>>

WriteReturns ==
  /\ pc = "write" /\ todo = << >>
  /\ pc' = "open"
  /\ UNCHANGED <<message, todo, hasher, consume>>

sha_256_write == WriteDirect \/ WriteCopy \/ WriteReturns

-----------------------------------------------------------------------------
(* sha_256_close *)

(* The length n as the loop over its words shifts it to the right. *)
Shifted(n) ==
  LET len[k \in 0 .. LenLen] == IF k = 0 THEN n \div (Base \div Scale) ELSE len[k - 1] \div Base
  IN len

(* The length in bits, its last word first: a shift to the left for that   *)
(* word, shifts to the right for the others.                               *)
LengthWord(i) ==
  IF i = LenLen - 1 THEN (total_len * Scale) % Base
  ELSE Shifted(total_len)[LenLen - 2 - i] % Base

(* The buffer from pos on: zeros, then the length. *)
Final(c, pos) ==
  [i \in Ring |-> IF i < pos THEN c[i]
                  ELSE IF i < Chunk - LenLen THEN 0
                  ELSE LengthWord(i - (Chunk - LenLen))]

Marked == Filled(<<Mark>>)

BugClose ==
  /\ pc = "open"
  /\ IF space_left < LenLen
     THEN /\ chunk' = [i \in Ring |-> IF i > chunk_pos THEN 0 ELSE Marked[i]]
          /\ Consume(chunk', "final")
     ELSE /\ chunk' = Final(Marked, chunk_pos + 1)
          /\ Consume(chunk', "closed")
  /\ UNCHANGED <<message, todo, space_left, total_len>>
sha_256_close ==
  /\ pc = "open"
  /\ IF space_left - 1 < LenLen
     THEN /\ chunk' = [i \in Ring |-> IF i > chunk_pos THEN 0 ELSE Marked[i]]
          /\ Consume(chunk', "final")
     ELSE /\ chunk' = Final(Marked, chunk_pos + 1)
          /\ Consume(chunk', "closed")
  /\ UNCHANGED <<message, todo, space_left, total_len>>

(* The extra chunk, when the length did not fit. *)
CloseExtra ==
  /\ pc = "final"
  /\ chunk' = Final(chunk, 0)
  /\ Consume(chunk', "closed")
  /\ UNCHANGED <<message, todo, space_left, total_len>>

-----------------------------------------------------------------------------
Steps == Round \/ EndRounds \/ sha_256_write \/ CloseExtra
Next == (\E n \in Sizes : Write(n)) \/ sha_256_close \/ sha_256_init \/ Steps

(* A call that was made runs to its end. *)
Spec == Init /\ [][Next]_vars /\ WF_vars(Steps)

-----------------------------------------------------------------------------
(* Properties *)

TypeOK ==
  /\ pc \in {"open", "write", "rounds", "final", "closed"} /\ ret \in {"write", "final", "closed"}
  /\ message \in Seq(Word) /\ todo \in Seq(Word)
  /\ chunk \in [Ring -> Word] /\ space_left \in 1 .. Chunk /\ total_len \in 0 .. MaxLen
  /\ block \in [Ring -> Word] /\ w \in [Ring -> Word]
  /\ t \in 0 .. Rounds /\ used \in Seq(Word) /\ h \in Seq(Seq(Word))

(* The words that the rounds are given are the schedule of SHA-256, all 64 *)
(* of it: the chunk, then every word from the ones 16, 15, 7 and 2 before, *)
(* though the ring only ever has 16 (sha256.c:86-116).                     *)
ScheduleOf(s, b) ==
  \A i \in DOMAIN s :
    s[i] = IF i <= Chunk THEN b[i - 1] ELSE Mix(s[i - 16], s[i - 15], s[i - 7], s[i - 2])
RingIsTheSchedule == pc = "rounds" => Len(used) = t /\ ScheduleOf(used, block)

(* The chunks that were consumed, one after the other. *)
Consumed == [i \in 1 .. Chunk * Len(h) |-> h[1 + (i - 1) \div Chunk][1 + ((i - 1) % Chunk)]]
InHand == IF pc = "rounds" THEN [i \in 1 .. Chunk |-> block[i - 1]] ELSE << >>
Buffered == [i \in 1 .. chunk_pos |-> chunk[i - 1]]

(* However a message is cut into writes, what was consumed, what is in the *)
(* buffer and what is still to be taken are together the message, in order *)
(* and each word once (sha256.c:196-220).                                  *)
NothingIsLost ==
  pc \in {"open", "write"} \/ (pc = "rounds" /\ ret = "write") =>
    Consumed \o InHand \o Buffered \o todo = message

(* The number that the words of s are, the first the highest, and the      *)
(* first number that needs more words than the length has.                 *)
Value(s) == LET f[i \in 0 .. Len(s)] == IF i = 0 THEN 0 ELSE f[i - 1] * Base + s[i] IN f[Len(s)]
Modulus == LET f[i \in 0 .. LenLen] == IF i = 0 THEN 1 ELSE f[i - 1] * Base IN f[LenLen]

(* A closed hash consumed the message, the mark, fewer zeros than a chunk, *)
(* and the length in bits, nothing of what was in the buffer before, also  *)
(* when the length needs a chunk of its own (sha256.c:224-260).            *)
ClosesWithThePadding ==
  pc = "closed" =>
    LET n == Len(message)
        m == Len(Consumed)
    IN /\ m - (n + 1 + LenLen) \in 0 .. Chunk - 1
       /\ SubSeq(Consumed, 1, n) = message
       /\ Consumed[n + 1] = Mark
       /\ \A i \in n + 2 .. m - LenLen : Consumed[i] = 0
       /\ Value(SubSeq(Consumed, m - LenLen + 1, m)) = (n * Scale) % Modulus

(* Every write and every close returns. *)
CallsReturn == pc \notin {"open", "closed"} ~> pc \in {"open", "closed"}
=============================================================================
