----------------------------- MODULE KernelProofs -----------------------------
(***************************************************************************)
(* Proofs about Kernel, for every memory, every information block that is  *)
(* laid out as LaidOut says, every length of the texts and of the lines,   *)
(* and whatever was on the stack.                                          *)
(***************************************************************************)
EXTENDS Kernel, InductionLemmas, SequenceTheorems

-------------------------------------------------------------------------------
(* Boots, texts and strings. *)

\* The fields of a boot.
LEMMA BootFacts ==
  ASSUME NEW b \in Boots
  PROVE  /\ b.rbx \in Addr /\ b.mem \in [Addr -> Nat] /\ b.line \in [1 .. LineSize -> Nat]
         /\ b.kmem_base \in Nat /\ b.kmem_len \in Nat /\ b.tail \in Seq(Nat)
         /\ b.tags \subseteq Addr /\ b.tag \in Addr
         /\ Top \in Nat /\ LineSize \in Nat /\ Width \in Nat /\ LowLimit \in Nat
<1>1. b \in [magic : BOOLEAN, rbx : Addr, mem : [Addr -> Nat],
             line : [1 .. LineSize -> Nat], tail : Seq(Nat),
             kmem_base : Addr, kmem_len : Nat,
             tags : SUBSET Addr, tag : Addr, padded : BOOLEAN]
      BY KernelAssumption
<1>2. Top \in Nat /\ LineSize \in Nat /\ Width \in Nat /\ LowLimit \in Nat
      BY KernelAssumption
<1>3. Addr \subseteq Nat
      BY <1>2 DEF Addr
<1> QED BY <1>1, <1>2, <1>3

\* A formatted message is a string of characters.
LEMMA TextFacts ==
  ASSUME NEW kind \in {InfoAt, Iterating, Entry, Hole}, NEW text \in Formatted(kind)
  PROVE  text \in Seq(Nat)
<1>1. PICK n \in TextLen[kind] : text = [i \in 1 .. n |-> kind]
      BY DEF Formatted
<1>2. n \in Nat
      BY KernelAssumption
<1>3. kind \in Nat
      BY DEF InfoAt, Iterating, Entry, Hole
<1> QED BY <1>1, <1>2, <1>3

\* The other messages.
LEMMA Literals ==
  /\ <<Banner>> \in Seq(Nat) /\ <<Panic>> \in Seq(Nat)
  /\ <<Missing>> \in Seq(Nat) /\ <<NoHole>> \in Seq(Nat)
BY DEF Banner, Panic, Missing, NoHole

\* snprintf keeps the size of its buffer.
LEMMA SnprintfFacts ==
  ASSUME NEW n \in Nat, NEW b \in [1 .. n -> Nat], NEW limit \in Nat, NEW text \in Seq(Nat)
  PROVE  /\ snprintf(b, limit, text) \in [1 .. n -> Nat]
         /\ \A i \in 1 .. n : snprintf(b, limit, text)[i] =
              IF i <= Len(text) /\ i <= limit THEN text[i] ELSE b[i]
<1>1. Len(text) \in Nat /\ \A i \in 1 .. Len(text) : text[i] \in Nat
      BY LenProperties
<1>2. \A i \in 1 .. n : i <= Len(text) => text[i] \in Nat
      BY <1>1
<1>3. snprintf(b, limit, text) = [i \in 1 .. n |-> IF i <= Len(text) /\ i <= limit THEN text[i] ELSE b[i]]
      BY DEF snprintf
<1> QED BY <1>2, <1>3

\* The characters up to the first NUL, or to the end of what follows.
LEMMA UpToNulFacts ==
  ASSUME NEW n \in Nat, NEW b \in [1 .. n -> Nat], NEW tail \in Seq(Nat)
  PROVE  UpToNul(b, tail) \in Seq(Nat)
<1> DEFINE nul == {i \in 1 .. n : b[i] = 0}
<1>1. UpToNul(b, tail) = IF nul = {} THEN b \o tail ELSE SubSeq(b, 1, Min(nul) - 1)
      BY DEF UpToNul
<1>2. b \in Seq(Nat) /\ Len(b) = n
      OBVIOUS
<1>3. CASE nul = {}
  <2>1. b \o tail \in Seq(Nat)
        BY <1>2, ConcatProperties
  <2> QED BY <1>1, <1>3, <2>1
<1>4. CASE nul # {}
  <2>1. nul \subseteq Nat
        OBVIOUS
  <2>2. \E x \in nul : \A y \in nul : x <= y
        BY <1>4, <2>1, LeastNatural
  <2>3. Min(nul) \in nul
    <3> HIDE DEF nul
    <3> QED BY <2>2 DEF Min
  <2>4. Min(nul) \in 1 .. n
        BY <2>3
  <2> HIDE DEF nul
  <2>5. \A i \in 1 .. Min(nul) - 1 : b[i] \in Nat
        BY <2>4
  <2> QED BY <1>1, <1>4, <2>4, <2>5, SubSeqProperties
<1> QED BY <1>3, <1>4

\* A remainder is no larger than what was divided.
LEMMA Remainder ==
  ASSUME NEW x \in Nat, NEW w \in Nat, w > 0 PROVE x % w \in Nat /\ x % w <= x
<1>1. x % w \in 0 .. w - 1
      OBVIOUS
<1>2. CASE x < w
      BY <1>2
<1>3. CASE x >= w
      BY <1>1, <1>3
<1> QED BY <1>1, <1>2, <1>3

\* As an int a length is no longer.
LEMMA ToIntFacts ==
  ASSUME NEW n \in Nat PROVE ToInt(n) \in Int /\ ToInt(n) <= n
<1> DEFINE h == Width \div 2
<1>1. Width \in Nat /\ Width > 0
      BY KernelAssumption
<1>2. h \in Nat
      BY <1>1
<1> HIDE DEF h
<1>3. (n + h) % Width \in Nat /\ (n + h) % Width <= n + h
      BY <1>1, <1>2, Remainder
<1>4. ToInt(n) = ((n + h) % Width) - h
      BY DEF ToInt, h
<1> QED BY <1>2, <1>3, <1>4

\* The lesser of two numbers.
LEMMA MinOfTwo ==
  ASSUME NEW x \in Int, NEW y \in Int
  PROVE  Min({x, y}) \in Int /\ Min({x, y}) <= x /\ Min({x, y}) <= y
<1>1. \E z \in {x, y} : \A w \in {x, y} : z <= w
      OBVIOUS
<1>2. Min({x, y}) \in {x, y} /\ \A w \in {x, y} : Min({x, y}) <= w
      BY <1>1 DEF Min
<1> QED BY <1>2
-------------------------------------------------------------------------------
(* The invariant. *)

Words ==
  /\ boot \in Boots
  /\ pc \in {"uart_init", "check", "size", "seek", "failed", "entry", "choose",
             "hole", "clear", "returned"}
  /\ mem \in [Addr -> Nat] /\ line \in [1 .. LineSize -> Nat]
  /\ map \in Addr /\ p \in Nat
  /\ kmem_base \in Nat /\ kmem_len \in Nat

\* The serial line: nothing is lost, and the register holds one word.
UartInv ==
  /\ out \in Seq(Nat) /\ thr \in Seq(Nat) /\ wire \in Seq(Nat) /\ puts \in Seq(Nat)
  /\ Len(thr) <= 1
  /\ WireIsWhatWasPrinted

BootEnd == boot.rbx + boot.mem[boot.rbx]

\* Up to the search the memory is as the loader left it, and the search stays
\* among the tags; without padding it meets every one of them up to the map.
SeekInv ==
  /\ pc \in {"uart_init", "check", "size", "seek"} =>
       mem = boot.mem /\ map = 0 /\ kmem_base = boot.kmem_base
  /\ pc \notin {"uart_init", "check", "returned"} => boot.magic /\ boot.rbx # 0
  /\ pc = "seek" =>
       /\ p >= boot.rbx + 2
       /\ ~ boot.padded => /\ p \in boot.tags \cup {BootEnd}
                           /\ boot.tag # 0 => p <= boot.tag

\* The loop over the entries stays in the map, whose header does not change.
MapInv ==
  pc \in {"entry", "choose"} =>
    /\ map \in boot.rbx + 2 .. BootEnd - 1
    /\ boot.mem[map] = MBI_MEMORY_MAP
    /\ mem[map + 1] = boot.mem[map + 1] /\ mem[map + 2] = boot.mem[map + 2]
    /\ p >= map + 4
    /\ pc = "choose" => p < map + boot.mem[map + 1]

\* The loop comes to one entry after the other.
PlaceInv ==
  pc \in {"entry", "choose"} => \E n \in 0 .. p : p = map + 4 + n * boot.mem[map + 2]

\* The memory when the first hole was marked as reserved, and the memory when
\* the loop is done, which has marked nothing if the context named a pool.
Marked == [boot.mem EXCEPT ![Min(Holes) + 2] = Reserved]
Chosen == IF boot.kmem_base = 0 /\ kmem_base # 0 THEN Marked ELSE boot.mem

IsFirstHole == Holes # {} /\ IsPool(Min(Holes))

\* The pool is the first hole that the loop passed, or what the context named.
PoolInv ==
  pc \in {"entry", "choose"} =>
    /\ mem = Chosen
    /\ boot.kmem_base # 0 => kmem_base = boot.kmem_base
    /\ boot.kmem_base = 0 =>
         /\ kmem_base = 0 => \A q \in Holes : q >= p
         /\ kmem_base # 0 => IsFirstHole /\ Min(Holes) < p

\* After the loop only the pool is written to.
DoneInv ==
  /\ pc \in {"hole", "clear"} =>
       /\ map # 0 /\ kmem_base # 0
       /\ boot.kmem_base = 0 => IsFirstHole
       /\ \A a \in Addr : ~ InPool(a) => mem[a] = Chosen[a]
  /\ pc = "failed" => mem = boot.mem /\ (map # 0 => kmem_base = 0 /\ Holes = {})
  /\ pc = "returned" =>
       /\ map = 0 \/ kmem_base = 0 => mem = boot.mem
       /\ map # 0 /\ kmem_base # 0 =>
            /\ boot.kmem_base = 0 => IsFirstHole
            /\ \A a \in Addr : mem[a] = IF InPool(a) THEN 0 ELSE Chosen[a]

IInv ==
  /\ Words /\ UartInv /\ SeekInv /\ MapInv /\ FindsAnAlignedMap
  /\ PlaceInv /\ PoolInv /\ DoneInv
-------------------------------------------------------------------------------
(* What the actions read. *)

\* The layout of the information of a boot that is looked at.
LEMMA LayoutFacts ==
  ASSUME Words, SeekInv, pc \notin {"uart_init", "check", "returned"}
  PROVE  /\ LaidOut(boot)
         /\ \A q \in boot.rbx + 2 .. BootEnd - 1 :
              boot.mem[q] = MBI_MEMORY_MAP =>
                q + 3 <= Top /\ q + boot.mem[q + 1] + 1 <= Top /\ boot.mem[q + 2] > 0
         /\ boot.rbx \in Nat /\ boot.mem[boot.rbx] \in Nat /\ BootEnd \in Nat /\ BootEnd <= Top
         /\ Top \in Nat
<1>1. boot \in Boots /\ boot.magic /\ boot.rbx # 0
      BY DEF Words, SeekInv
<1>2. LaidOut(boot) /\ MapsFit(boot)
      BY <1>1, KernelAssumption
<1>3. boot.rbx \in Addr /\ boot.mem \in [Addr -> Nat] /\ Top \in Nat
      BY <1>1, BootFacts
<1>4. BootEnd <= Top
      BY <1>2 DEF LaidOut, BootEnd
<1>5. boot.rbx \in Nat /\ boot.mem[boot.rbx] \in Nat
      BY <1>3 DEF Addr
<1>6. BootEnd \in Nat
      BY <1>5 DEF BootEnd
<1>7. \A q \in boot.rbx + 2 .. BootEnd - 1 :
        boot.mem[q] = MBI_MEMORY_MAP =>
          q + 3 <= Top /\ q + boot.mem[q + 1] + 1 <= Top /\ boot.mem[q + 2] > 0
  <2>1. MapsFit(boot)
        BY <1>2
  <2>2. \A q \in boot.rbx + 2 .. boot.rbx + boot.mem[boot.rbx] - 1 :
          boot.mem[q] = MBI_MEMORY_MAP =>
            q + 3 <= Top /\ q + boot.mem[q + 1] + 1 <= Top /\ boot.mem[q + 2] > 0
        BY ONLY <2>1 DEF MapsFit
  <2>3. BootEnd = boot.rbx + boot.mem[boot.rbx]
        BY DEF BootEnd
  <2>4. BootEnd - 1 = boot.rbx + (boot.mem[boot.rbx] - 1)
        BY <1>5, <2>3
  <2> QED BY ONLY <2>2, <2>4, Zenon
<1> QED BY <1>2, <1>3, <1>4, <1>5, <1>6, <1>7

\* The search reads words of the information.
LEMMA SeekFacts ==
  ASSUME Words, SeekInv, pc = "seek"
  PROVE  /\ mem = boot.mem /\ InfoEnd = BootEnd /\ p \in Nat /\ p >= boot.rbx + 2
         /\ p < BootEnd => /\ p \in boot.rbx + 2 .. BootEnd - 1
                           /\ p \in Addr /\ p + 1 \in Addr /\ mem[p] \in Nat /\ mem[p + 1] \in Nat
                           /\ mem[p] = MBI_MEMORY_MAP =>
                                p + 2 \in Addr /\ mem[p + 2] \in Nat /\ mem[p + 2] > 0
<1>1. mem = boot.mem /\ p >= boot.rbx + 2 /\ p \in Nat /\ mem \in [Addr -> Nat]
      BY DEF SeekInv, Words
<1>2. /\ boot.rbx \in Nat /\ BootEnd \in Nat /\ BootEnd <= Top /\ Top \in Nat
      /\ \A q \in boot.rbx + 2 .. BootEnd - 1 :
           boot.mem[q] = MBI_MEMORY_MAP =>
             q + 3 <= Top /\ q + boot.mem[q + 1] + 1 <= Top /\ boot.mem[q + 2] > 0
      BY LayoutFacts
<1>3. InfoEnd = BootEnd
      BY <1>1 DEF InfoEnd, BootEnd
<1>4. ASSUME p < BootEnd
      PROVE  p \in boot.rbx + 2 .. BootEnd - 1 /\ p \in Addr /\ p + 1 \in Addr
      BY <1>1, <1>2, <1>4 DEF Addr
<1>5. ASSUME p < BootEnd, mem[p] = MBI_MEMORY_MAP
      PROVE  p + 2 \in Addr /\ mem[p + 2] > 0
  <2>1. p + 3 <= Top /\ mem[p + 2] > 0
        BY <1>1, <1>2, <1>4, <1>5
  <2> QED BY <1>1, <1>2, <2>1 DEF Addr
<1> QED BY <1>1, <1>3, <1>4, <1>5

\* The loop over the map reads its header and whole entries.
LEMMA MapFacts ==
  ASSUME Words, SeekInv, MapInv, pc \in {"entry", "choose"}
  PROVE  /\ map \in Nat /\ map # 0 /\ p \in Nat /\ Top \in Nat
         /\ map \in Addr /\ map + 1 \in Addr /\ map + 2 \in Addr
         /\ boot.mem[map + 1] \in Nat /\ boot.mem[map + 2] \in Nat /\ boot.mem[map + 2] > 0
         /\ mem[map + 1] = boot.mem[map + 1] /\ mem[map + 2] = boot.mem[map + 2]
         /\ MapEnd = map + boot.mem[map + 1]
         /\ MapEnd + 1 <= Top
         /\ \A q \in Nat : q < MapEnd => q \in Addr /\ q + 1 \in Addr /\ q + 2 \in Addr
<1>1. /\ map \in boot.rbx + 2 .. BootEnd - 1 /\ boot.mem[map] = MBI_MEMORY_MAP
      /\ mem[map + 1] = boot.mem[map + 1] /\ mem[map + 2] = boot.mem[map + 2]
      BY DEF MapInv
<1>2. /\ boot.rbx \in Nat /\ BootEnd \in Nat /\ BootEnd <= Top /\ Top \in Nat
      /\ \A q \in boot.rbx + 2 .. BootEnd - 1 :
           boot.mem[q] = MBI_MEMORY_MAP =>
             q + 3 <= Top /\ q + boot.mem[q + 1] + 1 <= Top /\ boot.mem[q + 2] > 0
      BY LayoutFacts
<1>3. map + 3 <= Top /\ map + boot.mem[map + 1] + 1 <= Top /\ boot.mem[map + 2] > 0
      BY <1>1, <1>2
<1>4. map \in Nat /\ map # 0 /\ map \in Addr /\ map + 1 \in Addr /\ map + 2 \in Addr
      BY <1>1, <1>2, <1>3 DEF Addr
<1>5. boot.mem[map + 1] \in Nat /\ boot.mem[map + 2] \in Nat
      BY <1>4, BootFacts DEF Words
<1>6. MapEnd = map + boot.mem[map + 1]
      BY <1>1 DEF MapEnd, TagSize
<1>7. \A q \in Nat : q < MapEnd => q \in Addr /\ q + 1 \in Addr /\ q + 2 \in Addr
      BY <1>2, <1>3, <1>4, <1>5, <1>6 DEF Addr
<1> QED BY <1>1, <1>2, <1>3, <1>4, <1>5, <1>6, <1>7 DEF Words

\* The string at an address.
LEMMA StringAtFacts ==
  ASSUME Words, NEW a \in Nat PROVE StringAt(a) \in Seq(Nat)
<1>0. Top \in Nat /\ mem \in [Addr -> Nat] /\ << >> \in Seq(Nat)
      BY BootFacts, EmptySeq DEF Words
<1> DEFINE b == [k \in 1 .. Top + 1 - a |-> mem[a + k - 1]]
<1>1. CASE a <= Top
  <2>1. Top + 1 - a \in Nat
        BY <1>0, <1>1
  <2>2. \A k \in 1 .. Top + 1 - a : mem[a + k - 1] \in Nat
    <3>1. \A k \in 1 .. Top + 1 - a : a + k - 1 \in Addr
          BY <1>0, <1>1 DEF Addr
    <3> QED BY <1>0, <3>1
  <2>3. b \in [1 .. Top + 1 - a -> Nat]
        BY <2>2
  <2> HIDE DEF b
  <2>4. UpToNul(b, << >>) \in Seq(Nat)
        BY <1>0, <2>1, <2>3, UpToNulFacts
  <2> QED BY <2>4 DEF StringAt, b
<1>2. CASE ~(a <= Top)
  <2>1. 1 .. Top + 1 - a = 1 .. 0
        BY <1>0, <1>2
  <2>2. b \in [1 .. 0 -> Nat]
        BY <2>1
  <2> HIDE DEF b
  <2>3. UpToNul(b, << >>) \in Seq(Nat)
        BY <1>0, <2>2, UpToNulFacts
  <2> QED BY <2>3 DEF StringAt, b
<1> QED BY <1>1, <1>2
-------------------------------------------------------------------------------
(* The steps. *)

\* The line stays a line, whatever is printed into it, and what is given to
\* uart_puts is a string.
LEMMA LineSteps ==
  ASSUME Words, NEW b \in [1 .. LineSize -> Nat], NEW text \in Seq(Nat)
  PROVE  /\ snprintf(b, LineSize, text) \in [1 .. LineSize -> Nat]
         /\ StringOf(snprintf(b, LineSize, text)) \in Seq(Nat)
<1>1. LineSize \in Nat /\ boot.tail \in Seq(Nat)
      BY BootFacts DEF Words
<1>2. snprintf(b, LineSize, text) \in [1 .. LineSize -> Nat]
      BY <1>1, SnprintfFacts
<1>3. UpToNul(snprintf(b, LineSize, text), boot.tail) \in Seq(Nat)
      BY <1>1, <1>2, UpToNulFacts
<1> QED BY <1>2, <1>3 DEF StringOf

\* The words of the memory of a step that does not print.
LEMMA WordsStep ==
  ASSUME IInv, [Next]_vars
  PROVE  /\ Words'
         /\ (\E s \in Seq(Nat) : uart_puts(s)) \/ uart_putc \/ Transmit \/ UNCHANGED uart
<1>0. Words /\ SeekInv /\ MapInv
      BY DEF IInv
<1>a. /\ boot \in Boots /\ mem \in [Addr -> Nat] /\ line \in [1 .. LineSize -> Nat]
      /\ map \in Addr /\ p \in Nat /\ kmem_base \in Nat /\ kmem_len \in Nat
      BY <1>0 DEF Words
<1>b. boot.line \in [1 .. LineSize -> Nat] /\ boot.rbx \in Nat
      BY <1>a, BootFacts DEF Addr
<1> DEFINE Prints == \E s \in Seq(Nat) : uart_puts(s)
<1>1. CASE kmain_Init \/ kmain_NoMultiboot \/ kmain_TooSmall \/ kmain_Fails \/ SeekMissing \/ kinit_NoHole
  <2>1. /\ pc' \in {"check", "returned", "failed"}
        /\ UNCHANGED <<boot, mem, line, p, map, kmem_base, kmem_len>>
        BY <1>1 DEF kmain_Init, kmain_NoMultiboot, kmain_TooSmall, kmain_Fails, SeekMissing, kinit_NoHole,
           Say, ctx
  <2>2. Prints
        BY <1>1, Literals DEF kmain_Init, kmain_NoMultiboot, kmain_TooSmall, kmain_Fails, SeekMissing,
           kinit_NoHole, Say
  <2> QED BY <1>0, <2>1, <2>2 DEF Words
<1>2. CASE kmain_Multiboot
  <2>0. PICK text \in Formatted(InfoAt) :
          LET l == snprintf(line, LineSize, text) IN
          Say("check", StringOf(l), "size") /\ line' = ClearLine(l)
        BY <1>2 DEF kmain_Multiboot
  <2> DEFINE l == snprintf(line, LineSize, text)
  <2>1. /\ uart_puts(StringOf(l)) /\ line' = ClearLine(l) /\ pc' = "size"
        /\ UNCHANGED <<boot, mem, p, map, kmem_base, kmem_len>>
        BY <1>2, <2>0 DEF kmain_Multiboot, Say, ctx
  <2>2. text \in Seq(Nat)
        BY TextFacts
  <2>3. l \in [1 .. LineSize -> Nat] /\ StringOf(l) \in Seq(Nat)
        BY <1>0, <1>a, <2>2, LineSteps
  <2> HIDE DEF l
  <2>4. line' \in [1 .. LineSize -> Nat]
        BY <2>1, <2>3 DEF ClearLine
  <2>5. Words'
        BY <1>0, <2>1, <2>4 DEF Words
  <2> QED BY <2>1, <2>3, <2>5
<1>3. CASE kmain_kinit
  <2>1. /\ UNCHANGED <<boot, mem, map, kmem_base, kmem_len>> /\ UNCHANGED uart
        /\ p' = boot.rbx + 2 /\ line' = boot.line /\ pc' = "seek"
        BY <1>3 DEF kmain_kinit, ctx
  <2> QED BY <1>0, <1>b, <2>1 DEF Words
<1>4. CASE SeekNext
  <2>1. /\ UNCHANGED <<boot, pc, mem, line, map, kmem_base, kmem_len>> /\ UNCHANGED uart
        /\ p' = p + mem[p + 1] /\ pc = "seek" /\ p < InfoEnd
        BY <1>4 DEF SeekNext, ctx, TagSize
  <2>2. mem[p + 1] \in Nat
        BY <1>0, <2>1, SeekFacts
  <2>3. p' \in Nat
        BY <1>a, <2>1, <2>2
  <2> QED BY <1>0, <2>1, <2>3 DEF Words
<1>5. CASE SeekFound
  <2>0. PICK text \in Formatted(Iterating) :
          LET l == snprintf(line, LineSize, text) IN
          Say("seek", StringOf(l), "entry") /\ line' = l
        BY <1>5 DEF SeekFound
  <2> DEFINE l == snprintf(line, LineSize, text)
  <2>1. /\ UNCHANGED <<boot, mem, kmem_base, kmem_len>>
        /\ map' = p /\ p' = p + 4 /\ line' = l /\ uart_puts(StringOf(l)) /\ pc' = "entry"
        /\ pc = "seek" /\ p < InfoEnd
        BY <1>5, <2>0 DEF SeekFound, Say
  <2>2. p \in Addr /\ text \in Seq(Nat)
        BY <1>0, <2>1, SeekFacts, TextFacts
  <2>3. l \in [1 .. LineSize -> Nat] /\ StringOf(l) \in Seq(Nat)
        BY <1>0, <1>a, <2>2, LineSteps
  <2> HIDE DEF l
  <2>4. Words'
        BY <1>0, <1>a, <2>1, <2>2, <2>3 DEF Words
  <2> QED BY <2>1, <2>3, <2>4
<1>6. CASE kinit_SayEntry
  <2>0. PICK text \in Formatted(Entry) :
          LET l == snprintf(ClearLine(line), LineSize, text) IN
          Say("entry", StringOf(l), "choose") /\ line' = l
        BY <1>6 DEF kinit_SayEntry
  <2> DEFINE l == snprintf(ClearLine(line), LineSize, text)
  <2>1. /\ UNCHANGED <<boot, mem, p, map, kmem_base, kmem_len>>
        /\ line' = l /\ uart_puts(StringOf(l)) /\ pc' = "choose"
        BY <1>6, <2>0 DEF kinit_SayEntry, Say, ctx
  <2>3. text \in Seq(Nat)
        BY TextFacts
  <2>4. ClearLine(line) \in [1 .. LineSize -> Nat]
        BY <1>a DEF ClearLine
  <2>5. l \in [1 .. LineSize -> Nat] /\ StringOf(l) \in Seq(Nat)
        BY <1>0, <2>3, <2>4, LineSteps
  <2> HIDE DEF l
  <2>6. Words'
        BY <1>0, <2>1, <2>5 DEF Words
  <2> QED BY <2>1, <2>5, <2>6
<1>7. CASE kinit_PassEntry \/ kinit_TakeEntry
  <2>1. /\ UNCHANGED <<boot, line, map>> /\ UNCHANGED uart
        /\ p' = p + mem[map + 2] /\ pc' = "entry" /\ pc = "choose"
        BY <1>7 DEF kinit_PassEntry, kinit_TakeEntry, ctx, EntrySize
  <2>2. mem[map + 2] \in Nat
        BY <1>0, <2>1, MapFacts
  <2>3. p' \in Nat
        BY <1>a, <2>1, <2>2
  <2>4. p \in Addr /\ p + 1 \in Addr /\ p + 2 \in Addr
        BY <1>0, <1>a, <2>1, MapFacts DEF MapInv
  <2>5. kmem_base' \in Nat /\ kmem_len' \in Nat
        BY <1>7, <1>a, <2>4 DEF kinit_PassEntry, kinit_TakeEntry, ctx, Base, Length
  <2>6. mem' \in [Addr -> Nat]
        BY <1>7, <1>a, <2>4 DEF kinit_PassEntry, kinit_TakeEntry, Reserved
  <2> QED BY <1>0, <2>1, <2>3, <2>5, <2>6 DEF Words
<1>8. CASE kinit_WriteHole
  <2>0. PICK text \in Formatted(Hole) :
          mem' = [a \in Addr |->
                    IF a - kmem_base \in 0 .. Min({ToInt(kmem_len), Len(text)}) - 1
                    THEN text[a - kmem_base + 1] ELSE mem[a]]
        BY <1>8 DEF kinit_WriteHole
  <2> DEFINE m == Min({ToInt(kmem_len), Len(text)})
  <2>1. /\ UNCHANGED <<boot, line, p, map, kmem_base, kmem_len>> /\ UNCHANGED uart /\ pc' = "hole"
        BY <1>8 DEF kinit_WriteHole, ctx
  <2>2. text \in Seq(Nat)
        BY TextFacts
  <2>3. ToInt(kmem_len) \in Int
        BY <1>a, ToIntFacts
  <2>4. Len(text) \in Nat /\ \A k \in 1 .. Len(text) : text[k] \in Nat
        BY <2>2, LenProperties
  <2>5. m \in Int /\ m <= Len(text)
    <3>1. Len(text) \in Int
          BY <2>4
    <3> QED BY ONLY <2>3, <3>1, MinOfTwo, Zenon
  <2> HIDE DEF m
  <2>6. \A a \in Addr : a - kmem_base \in 0 .. m - 1 => a - kmem_base + 1 \in 1 .. Len(text)
        BY <2>4, <2>5
  <2>7. mem' \in [Addr -> Nat]
        BY <1>a, <2>0, <2>4, <2>6 DEF m
  <2> QED BY <1>0, <2>1, <2>7 DEF Words
<1>9. CASE kinit_SayHole
  <2>1. /\ UNCHANGED <<boot, mem, line, p, map, kmem_base, kmem_len>> /\ pc' = "clear"
        /\ uart_puts(StringAt(kmem_base))
        BY <1>9 DEF kinit_SayHole, Say, ctx
  <2>2. StringAt(kmem_base) \in Seq(Nat)
        BY <1>0, <1>a, StringAtFacts
  <2> QED BY <1>0, <2>1, <2>2 DEF Words
<1>10. CASE kinit_ClearPool
  <2>1. /\ UNCHANGED <<boot, line, p, map, kmem_base, kmem_len>> /\ UNCHANGED uart /\ pc' = "returned"
        /\ mem' = [a \in Addr |-> IF InPool(a) THEN 0 ELSE mem[a]]
        BY <1>10 DEF kinit_ClearPool, ctx
  <2>2. mem' \in [Addr -> Nat]
        BY <1>a, <2>1
  <2> QED BY <1>0, <2>1, <2>2 DEF Words
<1>11. CASE uart_putc \/ Transmit \/ UNCHANGED vars
  <2>1. UNCHANGED <<boot, pc, mem, line, p, map, kmem_base, kmem_len>>
        BY <1>11 DEF uart_putc, Transmit, vars, ctx
  <2>2. uart_putc \/ Transmit \/ UNCHANGED uart
        BY <1>11 DEF vars
  <2> QED BY <1>0, <2>1, <2>2 DEF Words
<1> QED BY <1>1, <1>2, <1>3, <1>4, <1>5, <1>6, <1>7, <1>8, <1>9, <1>10, <1>11
        DEF Next, Run, kmain, kinit, multiboot2_seek_tag

\* Three strings in a row.
LEMMA Associates ==
  ASSUME NEW a \in Seq(Nat), NEW b \in Seq(Nat), NEW c \in Seq(Nat)
  PROVE  (a \o b) \o c = a \o (b \o c)
BY ConcatAssociative

\* The words that were printed are on the wire, in the register, or to be sent.
LEMMA UartStep ==
  ASSUME IInv, [Next]_vars PROVE UartInv'
<1>0. /\ out \in Seq(Nat) /\ thr \in Seq(Nat) /\ wire \in Seq(Nat) /\ puts \in Seq(Nat)
      /\ Len(thr) <= 1 /\ wire \o thr \o out = puts
      BY DEF IInv, UartInv, WireIsWhatWasPrinted
<1>1. ASSUME NEW s \in Seq(Nat), uart_puts(s) PROVE UartInv'
  <2>1. out = << >> /\ out' = s /\ puts' = puts \o s /\ thr' = thr /\ wire' = wire
        BY <1>1 DEF uart_puts
  <2>2. wire \o thr \in Seq(Nat) /\ puts \o s \in Seq(Nat)
        BY <1>0, ConcatProperties
  <2>3. wire \o thr = puts
        BY <1>0, <2>1, <2>2, ConcatEmptySeq
  <2> QED BY <1>0, <2>1, <2>2, <2>3 DEF UartInv, WireIsWhatWasPrinted
<1>2. CASE uart_putc
  <2>1. out # << >> /\ thr = << >> /\ thr' = <<Head(out)>> /\ out' = Tail(out) /\ wire' = wire /\ puts' = puts
        BY <1>2 DEF uart_putc
  <2>2. Head(out) \in Nat /\ Tail(out) \in Seq(Nat)
        BY <1>0, <2>1, HeadTailProperties
  <2>3. <<Head(out)>> \in Seq(Nat) /\ Len(<<Head(out)>>) = 1
        BY <2>2
  <2>4. <<Head(out)>> \o Tail(out) = out
        BY <1>0, <2>1
  <2>5. wire \o << >> = wire
        BY <1>0, ConcatEmptySeq
  <2>6. (wire \o <<Head(out)>>) \o Tail(out) = wire \o (<<Head(out)>> \o Tail(out))
    <3>1. wire \in Seq(Nat) /\ Tail(out) \in Seq(Nat) /\ <<Head(out)>> \in Seq(Nat)
          BY <1>0, <2>2, <2>3
    <3> QED BY ONLY <3>1, Associates, Zenon
  <2>7. wire \o <<Head(out)>> \o Tail(out) = puts
        BY ONLY <1>0, <2>1, <2>4, <2>5, <2>6
  <2>8. /\ out' \in Seq(Nat) /\ thr' \in Seq(Nat) /\ wire' \in Seq(Nat) /\ puts' \in Seq(Nat)
        /\ Len(thr') <= 1
        BY <1>0, <2>1, <2>2, <2>3
  <2>9. wire' \o thr' \o out' = puts'
        BY ONLY <2>1, <2>7
  <2> QED BY ONLY <2>8, <2>9 DEF UartInv, WireIsWhatWasPrinted
<1>3. CASE Transmit
  <2>1. wire' = wire \o thr /\ thr' = << >> /\ out' = out /\ puts' = puts
        BY <1>3 DEF Transmit
  <2>2. wire \o thr \in Seq(Nat) /\ << >> \in Seq(Nat) /\ Len(<< >>) = 0
        BY <1>0, ConcatProperties, EmptySeq
  <2>3. (wire \o thr) \o << >> = wire \o thr
        BY <2>2, ConcatEmptySeq
  <2> QED BY <1>0, <2>1, <2>2, <2>3 DEF UartInv, WireIsWhatWasPrinted
<1>4. CASE UNCHANGED uart
      BY <1>0, <1>4 DEF uart, UartInv, WireIsWhatWasPrinted
<1> QED BY <1>1, <1>2, <1>3, <1>4, WordsStep

\* The tags of a boot without padding: the search that stands at one comes to
\* the next one, and does not pass the map.
LEMMA TagFacts ==
  ASSUME Words, SeekInv, pc \notin {"uart_init", "check", "returned"}
  PROVE  /\ boot.rbx + 2 \in boot.tags \cup {BootEnd}
         /\ \A q \in boot.tags :
              /\ q \in Nat /\ boot.mem[q + 1] \in Nat
              /\ q \in boot.rbx + 2 .. BootEnd - 1
              /\ boot.mem[q] = MBI_MEMORY_MAP <=> q = boot.tag
         /\ ~ boot.padded => \A q \in boot.tags :
              /\ q + boot.mem[q + 1] \in boot.tags \cup {BootEnd}
              /\ \A t \in boot.tags : q < t => q + boot.mem[q + 1] <= t
         /\ boot.tag # 0 => boot.tag \in boot.tags
<1>1. LaidOut(boot) /\ boot.rbx \in Nat /\ BootEnd \in Nat /\ BootEnd <= Top /\ Top \in Nat
      BY LayoutFacts
<1>2. /\ boot.rbx + 2 \in boot.tags \cup {BootEnd}
      /\ \A q \in boot.tags :
          /\ q \in boot.rbx + 2 .. BootEnd - 1
          /\ \A t \in boot.tags : q < t => q + boot.mem[q + 1] + (boot.mem[q + 1] % 2) <= t
          /\ q + boot.mem[q + 1] + (boot.mem[q + 1] % 2) \in boot.tags \cup {BootEnd}
          /\ boot.mem[q] = MBI_MEMORY_MAP <=> q = boot.tag
      /\ boot.tag # 0 => boot.tag \in boot.tags
      /\ ~ boot.padded => \A q \in boot.tags : boot.mem[q + 1] % 2 = 0
      BY ONLY <1>1 DEF LaidOut, BootEnd
<1>3. boot.mem \in [Addr -> Nat]
      BY BootFacts DEF Words
<1>4. \A q \in boot.tags : q \in Nat /\ q + 1 \in Addr
      BY ONLY <1>1, <1>2 DEF Addr
<1>5. \A q \in boot.tags : boot.mem[q + 1] \in Nat
      BY <1>3, <1>4
<1>6. ASSUME ~ boot.padded, NEW q \in boot.tags
      PROVE  /\ q + boot.mem[q + 1] \in boot.tags \cup {BootEnd}
             /\ \A t \in boot.tags : q < t => q + boot.mem[q + 1] <= t
  <2>1. boot.mem[q + 1] % 2 = 0 /\ q \in Nat /\ boot.mem[q + 1] \in Nat
        BY <1>2, <1>4, <1>5, <1>6
  <2>2. q + boot.mem[q + 1] + (boot.mem[q + 1] % 2) = q + boot.mem[q + 1]
        BY ONLY <2>1
  <2>3. /\ q + boot.mem[q + 1] + (boot.mem[q + 1] % 2) \in boot.tags \cup {BootEnd}
        /\ \A t \in boot.tags : q < t => q + boot.mem[q + 1] + (boot.mem[q + 1] % 2) <= t
        BY ONLY <1>2, <1>6
  <2> QED BY ONLY <2>2, <2>3
<1> QED BY ONLY <1>2, <1>4, <1>5, <1>6

\* The search stays among the tags.
LEMMA SeekStep ==
  ASSUME IInv, [Next]_vars PROVE SeekInv'
<1>0. Words /\ SeekInv
      BY DEF IInv
<1>1. CASE kmain_Init \/ kmain_Multiboot
  <2>1. /\ pc \in {"uart_init", "check"} /\ UNCHANGED <<boot, mem, map, kmem_base>>
        /\ pc' = "check" \/ (pc' = "size" /\ boot.magic /\ boot.rbx # 0)
        BY <1>1 DEF kmain_Init, kmain_Multiboot, Say, ctx
  <2> QED BY <1>0, <2>1 DEF SeekInv
<1>2. CASE kmain_NoMultiboot \/ kmain_TooSmall \/ kmain_Fails \/ kinit_ClearPool
  <2>1. pc' = "returned"
        BY <1>2 DEF kmain_NoMultiboot, kmain_TooSmall, kmain_Fails, kinit_ClearPool, Say
  <2> QED BY <2>1 DEF SeekInv
<1>3. CASE kmain_kinit
  <2>1. /\ pc = "size" /\ pc' = "seek" /\ p' = boot.rbx + 2 /\ UNCHANGED <<boot, mem, map, kmem_base>>
        BY <1>3 DEF kmain_kinit, ctx
  <2>2. /\ boot.rbx + 2 \in boot.tags \cup {BootEnd}
        /\ boot.tag # 0 => boot.tag \in boot.rbx + 2 .. BootEnd - 1
        BY <1>0, <2>1, TagFacts
  <2>3. boot.rbx + 2 >= boot.rbx + 2 /\ (boot.tag # 0 => boot.rbx + 2 <= boot.tag)
    <3>1. boot.rbx \in Nat /\ BootEnd \in Nat
          BY <1>0, <2>1, LayoutFacts
    <3> QED BY ONLY <2>2, <3>1
  <2> QED BY <1>0, <2>1, <2>2, <2>3 DEF SeekInv, BootEnd
<1>4. CASE SeekNext
  <2>1. /\ pc = "seek" /\ pc' = "seek" /\ p' = p + mem[p + 1] /\ p < InfoEnd /\ mem[p] # MBI_MEMORY_MAP
        /\ UNCHANGED <<boot, mem, map, kmem_base>>
        BY <1>4 DEF SeekNext, ctx, TagType, TagSize
  <2>2. /\ mem = boot.mem /\ p < BootEnd /\ p \in Nat /\ mem[p + 1] \in Nat /\ p >= boot.rbx + 2
        /\ boot.rbx \in Nat /\ BootEnd \in Nat
        BY <1>0, <2>1, SeekFacts, LayoutFacts
  <2>3. p' >= boot.rbx + 2
        BY ONLY <2>1, <2>2
  <2>4. ASSUME ~ boot.padded
        PROVE  /\ p + mem[p + 1] \in boot.tags \cup {BootEnd}
               /\ boot.tag # 0 => p + mem[p + 1] <= boot.tag
    <3>1. p \in boot.tags /\ (boot.tag # 0 => p <= boot.tag)
          BY <1>0, <2>1, <2>2, <2>4 DEF SeekInv
    <3>2. /\ p # boot.tag
          /\ p + mem[p + 1] \in boot.tags \cup {BootEnd}
          /\ \A t \in boot.tags : p < t => p + mem[p + 1] <= t
          BY <1>0, <2>1, <2>2, <2>4, <3>1, TagFacts
    <3>3. ASSUME boot.tag # 0 PROVE boot.tag \in boot.tags /\ boot.tag \in Nat
          BY <1>0, <2>1, <3>3, TagFacts
    <3>4. ASSUME boot.tag # 0 PROVE p < boot.tag
          BY ONLY <2>2, <3>1, <3>2, <3>3, <3>4
    <3> QED BY ONLY <3>2, <3>3, <3>4
  <2> QED BY <1>0, <2>1, <2>3, <2>4 DEF SeekInv, BootEnd
<1>5. CASE SeekMissing \/ SeekFound \/ kinit_SayEntry \/ kinit_PassEntry \/ kinit_TakeEntry
           \/ kinit_NoHole \/ kinit_WriteHole \/ kinit_SayHole
  <2>1. /\ pc \in {"seek", "entry", "choose", "hole"}
        /\ pc' \in {"failed", "entry", "choose", "hole", "clear"}
        /\ boot' = boot
        BY <1>5 DEF SeekMissing, SeekFound, kinit_SayEntry, kinit_PassEntry, kinit_TakeEntry,
           kinit_NoHole, kinit_WriteHole, kinit_SayHole, Say
  <2> QED BY <1>0, <2>1 DEF SeekInv
<1>6. CASE uart_putc \/ Transmit \/ UNCHANGED vars
  <2>1. UNCHANGED <<boot, pc, mem, p, map, kmem_base>>
        BY <1>6 DEF uart_putc, Transmit, vars, ctx
  <2> QED BY <1>0, <2>1 DEF SeekInv, BootEnd
<1> QED BY <1>1, <1>2, <1>3, <1>4, <1>5, <1>6 DEF Next, Run, kmain, kinit, multiboot2_seek_tag

\* The loop stays in the map.
LEMMA MapStep ==
  ASSUME IInv, [Next]_vars PROVE MapInv'
<1>0. Words /\ SeekInv /\ MapInv
      BY DEF IInv
<1>1. CASE SeekFound
  <2>1. /\ pc = "seek" /\ pc' = "entry" /\ map' = p /\ p' = p + 4 /\ p < InfoEnd
        /\ mem[p] = MBI_MEMORY_MAP /\ UNCHANGED <<boot, mem>>
        BY <1>1 DEF SeekFound, Say, TagType
  <2>2. mem = boot.mem /\ p \in boot.rbx + 2 .. BootEnd - 1 /\ p \in Nat
        BY <1>0, <2>1, SeekFacts
  <2>3. p' >= map' + 4
        BY ONLY <2>1, <2>2
  <2> QED BY <2>1, <2>2, <2>3 DEF MapInv, BootEnd
<1>2. CASE kinit_SayEntry
  <2>1. pc = "entry" /\ pc' = "choose" /\ p < MapEnd /\ UNCHANGED <<boot, mem, map, p>>
        BY <1>2 DEF kinit_SayEntry, Say, ctx
  <2>2. p < map + boot.mem[map + 1]
        BY <1>0, <2>1, MapFacts
  <2> QED BY <1>0, <2>1, <2>2 DEF MapInv, BootEnd
<1>3. CASE kinit_PassEntry \/ kinit_TakeEntry
  <2>1. /\ pc = "choose" /\ pc' = "entry" /\ p' = p + mem[map + 2] /\ UNCHANGED <<boot, map>>
        /\ mem' = mem \/ mem' = [mem EXCEPT ![p + 2] = Reserved]
        BY <1>3 DEF kinit_PassEntry, kinit_TakeEntry, ctx, EntrySize
  <2>2. /\ map \in Nat /\ p \in Nat /\ p >= map + 4 /\ mem[map + 2] \in Nat
        /\ map + 1 \in Addr /\ map + 2 \in Addr /\ mem \in [Addr -> Nat]
        BY <1>0, <2>1, MapFacts DEF MapInv, Words
  <2>3. p' >= map + 4 /\ p + 2 # map + 1 /\ p + 2 # map + 2
        BY ONLY <2>1, <2>2
  <2>4. mem'[map + 1] = mem[map + 1] /\ mem'[map + 2] = mem[map + 2]
        BY <2>1, <2>2, <2>3
  <2> QED BY <1>0, <2>1, <2>3, <2>4 DEF MapInv, BootEnd
<1>4. CASE kmain \/ SeekNext \/ SeekMissing \/ kinit_NoHole \/ kinit_WriteHole \/ kinit_SayHole \/ kinit_ClearPool
  <2>1. pc' \notin {"entry", "choose"}
        BY <1>4 DEF kmain, kmain_Init, kmain_NoMultiboot, kmain_Multiboot, kmain_TooSmall, kmain_kinit,
           kmain_Fails, SeekNext, SeekMissing, kinit_NoHole, kinit_WriteHole, kinit_SayHole,
           kinit_ClearPool, Say
  <2> QED BY <2>1 DEF MapInv
<1>5. CASE uart_putc \/ Transmit \/ UNCHANGED vars
  <2>1. UNCHANGED <<boot, pc, mem, p, map>>
        BY <1>5 DEF uart_putc, Transmit, vars, ctx
  <2> QED BY <1>0, <2>1 DEF MapInv, BootEnd
<1> QED BY <1>1, <1>2, <1>3, <1>4, <1>5 DEF Next, Run, kinit, multiboot2_seek_tag

\* The search ends at the map.
LEMMA AlignedStep ==
  ASSUME IInv, [Next]_vars PROVE FindsAnAlignedMap'
<1>0. Words /\ SeekInv /\ FindsAnAlignedMap
      BY DEF IInv
<1>1. CASE SeekMissing
  <2>1. pc = "seek" /\ p >= InfoEnd /\ UNCHANGED <<boot, map>>
        BY <1>1 DEF SeekMissing, Say, ctx
  <2>2. map = 0 /\ p >= BootEnd /\ p \in Nat /\ BootEnd \in Nat
        BY <1>0, <2>1, SeekFacts, LayoutFacts DEF SeekInv
  <2>3. ASSUME ~ boot.padded, boot.tag # 0 PROVE FALSE
    <3>1. p <= boot.tag
          BY <1>0, <2>1, <2>3 DEF SeekInv
    <3>2. boot.tag \in boot.rbx + 2 .. BootEnd - 1 /\ boot.tag \in Nat
          BY <1>0, <2>1, <2>3, TagFacts
    <3>3. boot.tag < BootEnd
      <4>1. boot.rbx \in Nat
            BY <1>0, <2>1, LayoutFacts
      <4> QED BY ONLY <2>2, <3>2, <4>1
    <3> QED BY ONLY <2>2, <3>1, <3>2, <3>3
  <2> QED BY <2>1, <2>2, <2>3 DEF FindsAnAlignedMap
<1>2. CASE SeekFound
  <2>1. pc = "seek" /\ p < InfoEnd /\ mem[p] = MBI_MEMORY_MAP /\ boot' = boot /\ map' = p
        BY <1>2 DEF SeekFound, Say, TagType
  <2>2. mem = boot.mem /\ p < BootEnd
        BY <1>0, <2>1, SeekFacts
  <2>3. ASSUME ~ boot.padded PROVE p = boot.tag
    <3>1. p \in boot.tags
      <4>1. p \in boot.tags \cup {BootEnd}
            BY <1>0, <2>1, <2>3 DEF SeekInv
      <4>2. p # BootEnd
            BY <1>0, <2>1, <2>2, SeekFacts, LayoutFacts
      <4> QED BY ONLY <4>1, <4>2
    <3> QED BY <1>0, <2>1, <2>2, <3>1, TagFacts
  <2> QED BY <2>1, <2>3 DEF FindsAnAlignedMap
<1>3. CASE kmain \/ SeekNext \/ kinit_ClearPool
  <2>1. /\ UNCHANGED <<boot, map>>
        /\ pc' \in {"uart_init", "check", "size", "seek", "returned"}
        BY <1>3 DEF kmain, kmain_Init, kmain_NoMultiboot, kmain_Multiboot, kmain_TooSmall, kmain_kinit,
           kmain_Fails, SeekNext, kinit_ClearPool, Say, ctx
  <2> QED BY <2>1 DEF FindsAnAlignedMap
<1>4. CASE kinit_SayEntry \/ kinit_PassEntry \/ kinit_TakeEntry \/ kinit_NoHole \/ kinit_WriteHole \/ kinit_SayHole
  <2>1. UNCHANGED <<boot, map>> /\ pc \in {"entry", "choose", "hole"}
        BY <1>4 DEF kinit_SayEntry, kinit_PassEntry, kinit_TakeEntry, kinit_NoHole, kinit_WriteHole,
           kinit_SayHole, Say, ctx
  <2> QED BY <1>0, <2>1 DEF FindsAnAlignedMap
<1>5. CASE uart_putc \/ Transmit \/ UNCHANGED vars
  <2>1. UNCHANGED <<boot, pc, map>>
        BY <1>5 DEF uart_putc, Transmit, vars, ctx
  <2> QED BY <1>0, <2>1 DEF FindsAnAlignedMap
<1> QED BY <1>1, <1>2, <1>3, <1>4, <1>5 DEF Next, Run, kinit, multiboot2_seek_tag

\* The entries of the map lie at multiples of their size: between two of them
\* that follow each other there is none.
LEMMA EntryOrder ==
  ASSUME NEW e \in Nat, NEW m \in Nat, NEW n \in Nat, NEW a \in Nat, a + n * e < a + m * e
  PROVE  a + n * e + e <= a + m * e
<1>1. n * e \in Nat /\ m * e \in Nat /\ n * e < m * e
      OBVIOUS
<1>2. CASE m <= n
  <2>1. \E d \in Nat : n = m + d
    <3>1. n - m \in Nat /\ n = m + (n - m)
          BY <1>2
    <3> QED BY <3>1
  <2>2. PICK d \in Nat : n = m + d
        BY <2>1
  <2>3. n * e = m * e + d * e /\ d * e \in Nat
        BY <2>2
  <2> QED BY ONLY <1>1, <2>3
<1>3. CASE n < m
  <2>1. PICK d \in Nat : m = n + 1 + d
    <3>1. m - (n + 1) \in Nat /\ m = n + 1 + (m - (n + 1))
          BY <1>3
    <3> QED BY <3>1
  <2>2. m * e = n * e + e + d * e /\ d * e \in Nat
        BY <2>1
  <2> QED BY ONLY <1>1, <2>2
<1> QED BY <1>2, <1>3

\* The first hole is one, and there is none before it.
LEMMA FirstHole ==
  ASSUME Words, Holes # {}
  PROVE  Min(Holes) \in Holes /\ Min(Holes) \in Nat /\ \A q \in Holes : Min(Holes) <= q
<1>1. Holes \subseteq Nat
      BY BootFacts DEF Holes, Entries, Addr
<1>2. \E x \in Holes : \A y \in Holes : x <= y
      BY <1>1, LeastNatural
<1>3. Min(Holes) \in Holes /\ \A q \in Holes : Min(Holes) <= q
      BY <1>2 DEF Min
<1> QED BY <1>1, <1>3

\* The loop over the map that was found comes to its entries in turn.
LEMMA LoopFacts ==
  ASSUME Words, SeekInv, MapInv, PlaceInv, pc \in {"entry", "choose"}
  PROVE  /\ pc = "choose" => p \in Entries
         /\ \A q \in Entries : q \in Nat /\ q < MapEnd /\ q \in Addr /\ q + 1 \in Addr /\ q + 2 \in Addr
         /\ \A q \in Entries : q > p => q >= p + boot.mem[map + 2]
         /\ \A q \in Entries : q < p => q + boot.mem[map + 2] <= p
<1> DEFINE e == boot.mem[map + 2]
           a == map + 4
<1>1. /\ map \in Nat /\ map # 0 /\ p \in Nat /\ Top \in Nat /\ e \in Nat /\ e > 0
      /\ MapEnd = map + boot.mem[map + 1] /\ boot.mem[map + 1] \in Nat
      /\ \A q \in Nat : q < MapEnd => q \in Addr /\ q + 1 \in Addr /\ q + 2 \in Addr
      BY MapFacts
<1>2. PICK n \in 0 .. p : p = a + n * e
      BY DEF PlaceInv
<1>3. \A q : q \in Entries <=> q \in Addr /\ q < MapEnd /\ \E m \in Addr : q = a + m * e
      BY <1>1 DEF Entries
<1> HIDE DEF e
<1>4. a \in Nat /\ n \in Nat /\ n <= p
      BY <1>1, <1>2
<1> HIDE DEF a
<1>5. ASSUME pc = "choose" PROVE p \in Entries
  <2>1. p < MapEnd
        BY <1>1, <1>5 DEF MapInv
  <2>2. p \in Addr
        BY <1>1, <2>1
  <2>3. n \in Addr
        BY ONLY <1>4, <1>1, <2>2 DEF Addr
  <2> QED BY <1>2, <1>3, <2>1, <2>2, <2>3
<1>6. \A q \in Entries : q \in Nat /\ q < MapEnd /\ q \in Addr /\ q + 1 \in Addr /\ q + 2 \in Addr
  <2>1. \A q \in Entries : q \in Nat /\ q < MapEnd
        BY ONLY <1>3, <1>1 DEF Addr
  <2> QED BY ONLY <1>1, <2>1
<1>7. ASSUME NEW q \in Entries PROVE (q > p => q >= p + e) /\ (q < p => q + e <= p)
  <2>1. PICK m \in Addr : q = a + m * e
        BY <1>3
  <2>2. m \in Nat
        BY <1>1 DEF Addr
  <2>3. q \in Nat /\ a + n * e \in Nat /\ a + m * e \in Nat
    <3>1. a + n * e \in Nat /\ a + m * e \in Nat
          BY ONLY <1>1, <1>4, <2>2
    <3> QED BY ONLY <2>1, <3>1
  <2>4. ASSUME q > p PROVE q >= p + e
    <3>1. a + n * e < a + m * e
          BY ONLY <1>2, <2>1, <2>3, <2>4
    <3>2. a + n * e + e <= a + m * e
          BY ONLY <1>1, <1>4, <2>2, <3>1, EntryOrder
    <3>3. p + e <= q
          BY ONLY <1>2, <2>1, <3>2
    <3> QED BY ONLY <1>1, <2>3, <3>3
  <2>5. ASSUME q < p PROVE q + e <= p
    <3>1. a + m * e < a + n * e
          BY ONLY <1>2, <2>1, <2>5
    <3>2. a + m * e + e <= a + n * e
          BY ONLY <1>1, <1>4, <2>2, <3>1, EntryOrder
    <3> QED BY ONLY <1>2, <2>1, <3>2
  <2> QED BY ONLY <2>4, <2>5
<1> QED BY ONLY <1>5, <1>6, <1>7 DEF a, e

\* The loop comes to one entry after the other.
LEMMA PlaceStep ==
  ASSUME IInv, [Next]_vars PROVE PlaceInv'
<1>0. Words /\ SeekInv /\ MapInv /\ PlaceInv
      BY DEF IInv
<1>1. CASE SeekFound
  <2>1. /\ pc = "seek" /\ map' = p /\ p' = p + 4 /\ p < InfoEnd /\ mem[p] = MBI_MEMORY_MAP /\ boot' = boot
        BY <1>1 DEF SeekFound, Say, TagType
  <2>2. mem = boot.mem /\ p \in Nat /\ mem[p + 2] \in Nat
        BY <1>0, <2>1, SeekFacts DEF SeekInv
  <2>3. 0 \in 0 .. p' /\ p' = map' + 4 + 0 * boot.mem[map' + 2]
        BY <2>1, <2>2
  <2>4. \E n \in 0 .. p' : p' = map' + 4 + n * boot.mem[map' + 2]
        BY ONLY <2>3
  <2> QED BY <2>1, <2>4 DEF PlaceInv
<1>2. CASE kinit_PassEntry \/ kinit_TakeEntry
  <2> DEFINE e == boot.mem[map + 2]
             a == map + 4
  <2>1. pc = "choose" /\ p' = p + mem[map + 2] /\ UNCHANGED <<boot, map>>
        BY <1>2 DEF kinit_PassEntry, kinit_TakeEntry, ctx, EntrySize
  <2>2. mem[map + 2] = e /\ e \in Nat /\ e > 0 /\ p \in Nat /\ a \in Nat
        BY <1>0, <2>1, MapFacts
  <2>3. PICK n \in 0 .. p : p = a + n * e
        BY <1>0, <2>1 DEF PlaceInv
  <2> HIDE DEF e, a
  <2>4. n \in Nat /\ n + 1 <= p + e
        BY ONLY <2>2, <2>3
  <2>5. (n + 1) * e = n * e + e /\ n * e \in Nat
        BY ONLY <2>2, <2>4
  <2>6. p + e = a + (n + 1) * e
        BY ONLY <2>2, <2>3, <2>5
  <2>7. n + 1 \in 0 .. p + e
        BY ONLY <2>2, <2>4
  <2>8. \E k \in 0 .. p' : p' = a + k * e
        BY ONLY <2>1, <2>2, <2>6, <2>7
  <2> QED BY <2>1, <2>8 DEF PlaceInv, a, e
<1>3. CASE kmain \/ SeekNext \/ SeekMissing \/ kinit_NoHole \/ kinit_WriteHole \/ kinit_SayHole \/ kinit_ClearPool
  <2>1. pc' \notin {"entry", "choose"}
        BY <1>3 DEF kmain, kmain_Init, kmain_NoMultiboot, kmain_Multiboot, kmain_TooSmall, kmain_kinit,
           kmain_Fails, SeekNext, SeekMissing, kinit_NoHole, kinit_WriteHole, kinit_SayHole,
           kinit_ClearPool, Say
  <2> QED BY <2>1 DEF PlaceInv
<1>4. CASE kinit_SayEntry
  <2>1. pc = "entry" /\ UNCHANGED <<boot, map, p>>
        BY <1>4 DEF kinit_SayEntry, Say, ctx
  <2> QED BY <1>0, <2>1 DEF PlaceInv
<1>5. CASE uart_putc \/ Transmit \/ UNCHANGED vars
  <2>1. UNCHANGED <<boot, pc, p, map>>
        BY <1>5 DEF uart_putc, Transmit, vars, ctx
  <2> QED BY <1>0, <2>1 DEF PlaceInv
<1> QED BY <1>1, <1>2, <1>3, <1>4, <1>5 DEF Next, Run, kinit, multiboot2_seek_tag

\* The holes are those of the boot and of the map that was found.
LEMMA SameHoles ==
  ASSUME boot' = boot, map' = map
  PROVE  /\ Holes' = Holes /\ Marked' = Marked
         /\ kmem_base' = kmem_base => Chosen' = Chosen
         /\ kmem_base' = kmem_base /\ kmem_len' = kmem_len =>
              (IsFirstHole' <=> IsFirstHole) /\ \A a \in Addr : InPool(a)' <=> InPool(a)
<1>1. Holes' = Holes
      BY DEF Holes, Entries
<1>2. Marked' = Marked
      BY <1>1 DEF Marked
<1>3. ASSUME kmem_base' = kmem_base PROVE Chosen' = Chosen
      BY <1>2, <1>3 DEF Chosen
<1>4. ASSUME kmem_base' = kmem_base, kmem_len' = kmem_len
      PROVE  (IsFirstHole' <=> IsFirstHole) /\ \A a \in Addr : InPool(a)' <=> InPool(a)
      BY <1>1, <1>4 DEF IsFirstHole, IsPool, InPool
<1> QED BY <1>1, <1>2, <1>3, <1>4

\* The pool is the first hole that the loop passed.
LEMMA PoolStep ==
  ASSUME IInv, [Next]_vars PROVE PoolInv'
<1>0. Words /\ SeekInv /\ MapInv /\ PlaceInv /\ PoolInv
      BY DEF IInv
<1>1. CASE SeekFound
  <2>1. /\ pc = "seek" /\ map' = p /\ p' = p + 4 /\ p < InfoEnd /\ mem[p] = MBI_MEMORY_MAP
        /\ UNCHANGED <<boot, mem, kmem_base, kmem_len>>
        BY <1>1 DEF SeekFound, Say, TagType
  <2>2. mem = boot.mem /\ p \in Nat /\ mem[p + 2] \in Nat /\ kmem_base = boot.kmem_base
        BY <1>0, <2>1, SeekFacts DEF SeekInv
  <2>3. \A q \in Holes' : q >= p + 4
    <3>1. SUFFICES ASSUME NEW q \in Holes' PROVE q >= p + 4
          OBVIOUS
    <3>2. PICK m \in Addr : q = p + 4 + m * boot.mem[p + 2]
          BY <2>1 DEF Holes, Entries
    <3>3. m \in Nat /\ m * mem[p + 2] \in Nat
          BY <1>0, <2>2, BootFacts DEF Addr, Words
    <3> QED BY <2>2, <3>2, <3>3
  <2>4. Chosen' = boot.mem
        BY <2>1, <2>2 DEF Chosen
  <2> QED BY <2>1, <2>2, <2>3, <2>4 DEF PoolInv
<1>2. CASE kinit_SayEntry
  <2>1. pc = "entry" /\ UNCHANGED <<boot, mem, map, p, kmem_base, kmem_len>>
        BY <1>2 DEF kinit_SayEntry, Say, ctx
  <2>2. Holes' = Holes /\ Chosen' = Chosen /\ (IsFirstHole' <=> IsFirstHole)
        BY <2>1, SameHoles
  <2> QED BY <1>0, <2>1, <2>2 DEF PoolInv
<1>3. CASE kinit_PassEntry
  <2>1. /\ pc = "choose" /\ p' = p + mem[map + 2]
        /\ kmem_base # 0 \/ ~ Suitable(p)
        /\ UNCHANGED <<boot, mem, map, kmem_base, kmem_len>>
        BY <1>3 DEF kinit_PassEntry, ctx, EntrySize
  <2>2. mem[map + 2] = boot.mem[map + 2] /\ boot.mem[map + 2] \in Nat /\ boot.mem[map + 2] > 0 /\ p \in Nat
        BY <1>0, <2>1, MapFacts
  <2>3. mem = Chosen /\ (boot.kmem_base # 0 => kmem_base = boot.kmem_base)
        BY <1>0, <2>1 DEF PoolInv
  <2>4. ASSUME boot.kmem_base = 0, kmem_base = 0 PROVE \A q \in Holes : q >= p'
    <3>1. mem = boot.mem /\ \A q \in Holes : q >= p
          BY <1>0, <2>1, <2>3, <2>4 DEF PoolInv, Chosen
    <3>2. p \notin Holes
          BY <2>1, <2>4, <3>1 DEF Holes, Suitable, Base, Type, Length
    <3>3. ASSUME NEW q \in Holes PROVE q >= p'
      <4>1. q \in Entries /\ q >= p /\ q # p
            BY <3>1, <3>2 DEF Holes
      <4>2. q \in Nat
            BY <1>0, <2>1, <4>1, LoopFacts
      <4>3. q > p
            BY ONLY <2>2, <4>1, <4>2
      <4> QED BY <1>0, <2>1, <2>2, <4>1, <4>3, LoopFacts
    <3> QED BY <3>3
  <2>5. ASSUME boot.kmem_base = 0, kmem_base # 0 PROVE IsFirstHole /\ Min(Holes) < p'
    <3>1. IsFirstHole /\ Min(Holes) < p
          BY <1>0, <2>1, <2>5 DEF PoolInv
    <3>2. Min(Holes) \in Nat
          BY <1>0, <3>1, FirstHole DEF IsFirstHole
    <3>3. Min(Holes) < p'
          BY ONLY <2>1, <2>2, <3>1, <3>2
    <3> QED BY <3>1, <3>3
  <2>6. Holes' = Holes /\ Chosen' = Chosen /\ (IsFirstHole' <=> IsFirstHole)
        BY <2>1, SameHoles
  <2> QED BY <2>1, <2>3, <2>4, <2>5, <2>6 DEF PoolInv
<1>4. CASE kinit_TakeEntry
  <2>1. /\ pc = "choose" /\ p' = p + mem[map + 2]
        /\ kmem_base = 0 /\ Suitable(p)
        /\ kmem_base' = mem[p] /\ kmem_len' = mem[p + 1] /\ mem' = [mem EXCEPT ![p + 2] = Reserved]
        /\ UNCHANGED <<boot, map>>
        BY <1>4 DEF kinit_TakeEntry, EntrySize, Base, Length
  <2>2. mem[map + 2] = boot.mem[map + 2] /\ boot.mem[map + 2] \in Nat /\ boot.mem[map + 2] > 0 /\ p \in Nat
        BY <1>0, <2>1, MapFacts
  <2>3. boot.kmem_base = 0 /\ mem = boot.mem /\ \A q \in Holes : q >= p
        BY <1>0, <2>1 DEF PoolInv, Chosen
  <2>4. p \in Entries
        BY <1>0, <2>1, LoopFacts
  <2>5. p \in Holes
        BY <2>1, <2>3, <2>4 DEF Holes, Suitable, Base, Type, Length
  <2>6. Min(Holes) = p
    <3>1. Min(Holes) \in Holes /\ Min(Holes) \in Nat /\ Min(Holes) <= p
          BY <1>0, <2>5, FirstHole
    <3>2. Min(Holes) >= p
          BY <2>3, <3>1
    <3> QED BY ONLY <2>2, <3>1, <3>2
  <2>7. kmem_base' # 0
    <3>1. p \in Addr
          BY <2>4 DEF Entries
    <3>2. mem[p] >= LowLimit /\ LowLimit \in Nat /\ LowLimit > 0 /\ mem[p] \in Nat
          BY <1>0, <2>1, <3>1, KernelAssumption DEF Suitable, Base, Words
    <3> QED BY ONLY <2>1, <3>2
  <2>8. Holes' = Holes /\ Marked' = Marked
        BY <2>1, SameHoles
  <2>9. mem' = Chosen'
        BY <2>1, <2>3, <2>6, <2>7, <2>8 DEF Marked, Chosen
  <2>10. IsFirstHole' /\ Min(Holes') < p'
    <3>1. p < p'
          BY ONLY <2>1, <2>2
    <3> QED BY <2>1, <2>3, <2>5, <2>6, <2>8, <3>1 DEF IsFirstHole, IsPool
  <2> QED BY <2>1, <2>3, <2>7, <2>9, <2>10 DEF PoolInv
<1>5. CASE kmain \/ SeekNext \/ SeekMissing \/ kinit_NoHole \/ kinit_WriteHole \/ kinit_SayHole \/ kinit_ClearPool
  <2>1. pc' \notin {"entry", "choose"}
        BY <1>5 DEF kmain, kmain_Init, kmain_NoMultiboot, kmain_Multiboot, kmain_TooSmall, kmain_kinit,
           kmain_Fails, SeekNext, SeekMissing, kinit_NoHole, kinit_WriteHole, kinit_SayHole,
           kinit_ClearPool, Say
  <2> QED BY <2>1 DEF PoolInv
<1>6. CASE uart_putc \/ Transmit \/ UNCHANGED vars
  <2>1. UNCHANGED <<boot, pc, mem, p, map, kmem_base, kmem_len>>
        BY <1>6 DEF uart_putc, Transmit, vars, ctx
  <2>2. Holes' = Holes /\ Chosen' = Chosen /\ (IsFirstHole' <=> IsFirstHole)
        BY <2>1, SameHoles
  <2> QED BY <1>0, <2>1, <2>2 DEF PoolInv
<1> QED BY <1>1, <1>2, <1>3, <1>4, <1>5, <1>6 DEF Next, Run, kinit, multiboot2_seek_tag

\* What is written to the pool as a report stays in the pool.
LEMMA ReportFacts ==
  ASSUME Words, kinit_WriteHole
  PROVE  \A a \in Addr : ~ InPool(a) => mem'[a] = mem[a]
<1>1. PICK text \in Formatted(Hole) :
        mem' = [a \in Addr |->
                  IF a - kmem_base \in 0 .. Min({ToInt(kmem_len), Len(text)}) - 1
                  THEN text[a - kmem_base + 1] ELSE mem[a]]
      BY DEF kinit_WriteHole
<1> DEFINE m == Min({ToInt(kmem_len), Len(text)})
<1>2. kmem_base \in Nat /\ kmem_len \in Nat
      BY DEF Words
<1>3. text \in Seq(Nat) /\ Len(text) \in Nat
      BY TextFacts, LenProperties
<1>4. ToInt(kmem_len) \in Int /\ ToInt(kmem_len) <= kmem_len
      BY <1>2, ToIntFacts
<1>5. m \in Int /\ m <= ToInt(kmem_len)
  <2>1. Len(text) \in Int /\ ToInt(kmem_len) \in Int
        BY <1>3, <1>4
  <2> QED BY ONLY <2>1, MinOfTwo, Zenon
<1>6. mem' = [a \in Addr |-> IF a - kmem_base \in 0 .. m - 1 THEN text[a - kmem_base + 1] ELSE mem[a]]
      BY <1>1
<1> HIDE DEF m
<1>7. m <= kmem_len
      BY ONLY <1>2, <1>4, <1>5
<1>8. \A a \in Addr : a - kmem_base \in 0 .. m - 1 => a - kmem_base \in 0 .. kmem_len - 1
      BY ONLY <1>2, <1>5, <1>7
<1> QED BY <1>6, <1>8 DEF InPool

\* After the loop only the pool is written to.
LEMMA DoneStep ==
  ASSUME IInv, [Next]_vars PROVE DoneInv'
<1>0. Words /\ SeekInv /\ MapInv /\ PlaceInv /\ PoolInv /\ DoneInv
      BY DEF IInv
<1>1. CASE SeekMissing
  <2>1. pc = "seek" /\ pc' = "failed" /\ UNCHANGED <<boot, mem, map>>
        BY <1>1 DEF SeekMissing, Say, ctx
  <2>2. map = 0 /\ mem = boot.mem
        BY <1>0, <2>1 DEF SeekInv
  <2> QED BY <2>1, <2>2 DEF DoneInv
<1>2. CASE kinit_NoHole
  <2>1. /\ pc = "entry" /\ pc' = "failed" /\ p >= MapEnd /\ kmem_base = 0
        /\ UNCHANGED <<boot, mem, map, kmem_base, kmem_len>>
        BY <1>2 DEF kinit_NoHole, Say, ctx
  <2>2. boot.kmem_base = 0 /\ mem = boot.mem /\ \A q \in Holes : q >= p
        BY <1>0, <2>1 DEF PoolInv, Chosen
  <2>3. Holes = {}
    <3>1. \A q \in Holes : q \in Nat /\ q < MapEnd
          BY <1>0, <2>1, LoopFacts DEF Holes
    <3>2. p \in Nat /\ MapEnd \in Nat
          BY <1>0, <2>1, MapFacts
    <3>3. \A q \in Holes : FALSE
          BY ONLY <2>1, <2>2, <3>1, <3>2
    <3> QED BY <3>3
  <2>4. Holes' = Holes
        BY <2>1, SameHoles
  <2> QED BY <2>1, <2>2, <2>3, <2>4 DEF DoneInv
<1>3. CASE kinit_WriteHole
  <2>1. pc = "entry" /\ pc' = "hole" /\ kmem_base # 0 /\ UNCHANGED <<boot, map, kmem_base, kmem_len>>
        BY <1>3 DEF kinit_WriteHole, ctx
  <2>2. map # 0
        BY <1>0, <2>1, MapFacts
  <2>3. mem = Chosen /\ (boot.kmem_base = 0 => IsFirstHole)
        BY <1>0, <2>1 DEF PoolInv
  <2>4. \A a \in Addr : ~ InPool(a) => mem'[a] = Chosen[a]
        BY <1>0, <1>3, <2>3, ReportFacts
  <2>5. Chosen' = Chosen /\ (IsFirstHole' <=> IsFirstHole) /\ \A a \in Addr : InPool(a)' <=> InPool(a)
        BY <2>1, SameHoles
  <2> QED BY <2>1, <2>2, <2>3, <2>4, <2>5 DEF DoneInv
<1>4. CASE kinit_SayHole
  <2>1. pc = "hole" /\ pc' = "clear" /\ UNCHANGED <<boot, mem, map, kmem_base, kmem_len>>
        BY <1>4 DEF kinit_SayHole, Say, ctx
  <2>2. Chosen' = Chosen /\ (IsFirstHole' <=> IsFirstHole) /\ \A a \in Addr : InPool(a)' <=> InPool(a)
        BY <2>1, SameHoles
  <2> QED BY <1>0, <2>1, <2>2 DEF DoneInv
<1>5. CASE kinit_ClearPool
  <2>1. /\ pc = "clear" /\ pc' = "returned" /\ UNCHANGED <<boot, map, kmem_base, kmem_len>>
        /\ mem' = [a \in Addr |-> IF InPool(a) THEN 0 ELSE mem[a]]
        BY <1>5 DEF kinit_ClearPool, ctx
  <2>2. /\ map # 0 /\ kmem_base # 0 /\ (boot.kmem_base = 0 => IsFirstHole)
        /\ \A a \in Addr : ~ InPool(a) => mem[a] = Chosen[a]
        BY <1>0, <2>1 DEF DoneInv
  <2>3. \A a \in Addr : mem'[a] = IF InPool(a) THEN 0 ELSE Chosen[a]
        BY <2>1, <2>2
  <2>4. Chosen' = Chosen /\ (IsFirstHole' <=> IsFirstHole) /\ \A a \in Addr : InPool(a)' <=> InPool(a)
        BY <2>1, SameHoles
  <2> QED BY <2>1, <2>2, <2>3, <2>4 DEF DoneInv
<1>6. CASE kmain_NoMultiboot \/ kmain_TooSmall \/ kmain_Fails
  <2>1. /\ pc \in {"check", "size", "failed"} /\ pc' = "returned"
        /\ UNCHANGED <<boot, mem, map, kmem_base, kmem_len>>
        BY <1>6 DEF kmain_NoMultiboot, kmain_TooSmall, kmain_Fails, Say, ctx
  <2>2. mem = boot.mem /\ (map = 0 \/ kmem_base = 0)
        BY <1>0, <2>1 DEF SeekInv, DoneInv
  <2> QED BY <2>1, <2>2 DEF DoneInv
<1>7. CASE kmain_Init \/ kmain_Multiboot \/ kmain_kinit \/ SeekNext \/ SeekFound \/ kinit_SayEntry
           \/ kinit_PassEntry \/ kinit_TakeEntry
  <2>1. pc' \notin {"hole", "clear", "failed", "returned"}
        BY <1>7 DEF kmain_Init, kmain_Multiboot, kmain_kinit, SeekNext, SeekFound, kinit_SayEntry,
           kinit_PassEntry, kinit_TakeEntry, Say
  <2> QED BY <2>1 DEF DoneInv
<1>8. CASE uart_putc \/ Transmit \/ UNCHANGED vars
  <2>1. UNCHANGED <<boot, pc, mem, map, kmem_base, kmem_len>>
        BY <1>8 DEF uart_putc, Transmit, vars, ctx
  <2>2. /\ Holes' = Holes /\ Chosen' = Chosen /\ (IsFirstHole' <=> IsFirstHole)
        /\ \A a \in Addr : InPool(a)' <=> InPool(a)
        BY <2>1, SameHoles
  <2> QED BY <1>0, <2>1, <2>2 DEF DoneInv
<1> QED BY <1>1, <1>2, <1>3, <1>4, <1>5, <1>6, <1>7, <1>8 DEF Next, Run, kmain, kinit, multiboot2_seek_tag

\* What the marked memory differs in.
LEMMA ChosenFacts ==
  ASSUME Words, boot.kmem_base = 0 /\ kmem_base # 0 => IsFirstHole,
         NEW a \in Addr, Chosen[a] # boot.mem[a]
  PROVE  /\ boot.kmem_base = 0 /\ Chosen[a] = Reserved
         /\ \E q \in Holes : a = q + 2 /\ IsPool(q)
<1>1. boot.kmem_base = 0 /\ kmem_base # 0 /\ Chosen = Marked
      BY DEF Chosen
<1>2. a = Min(Holes) + 2 /\ Marked[a] = Reserved
      BY <1>1, BootFacts DEF Marked, Words
<1>3. Min(Holes) \in Holes /\ IsPool(Min(Holes))
      BY <1>1, FirstHole DEF IsFirstHole
<1> QED BY <1>1, <1>2, <1>3

LEMMA InitIInv == Init => IInv
<1> SUFFICES ASSUME Init PROVE IInv
    OBVIOUS
<1>1. /\ boot \in Boots /\ pc = "uart_init" /\ mem = boot.mem /\ line = boot.line /\ map = 0 /\ p = 0
      /\ kmem_base = boot.kmem_base /\ kmem_len = boot.kmem_len
      /\ out = << >> /\ thr = << >> /\ wire = << >> /\ puts = << >>
      BY DEF Init
<1>2. Words
  <2>1. /\ boot.mem \in [Addr -> Nat] /\ boot.line \in [1 .. LineSize -> Nat] /\ 0 \in Addr
        /\ boot.kmem_base \in Nat /\ boot.kmem_len \in Nat
    <3>1. Top \in Nat /\ 0 \in Addr
          BY KernelAssumption DEF Addr
    <3> QED BY <1>1, <3>1, BootFacts
  <2> QED BY <1>1, <2>1 DEF Words
<1>3. UartInv
  <2>1. << >> \in Seq(Nat) /\ Len(<< >>) = 0
        BY EmptySeq
  <2>2. << >> \o << >> = << >>
        BY <2>1, ConcatEmptySeq
  <2> QED BY <1>1, <2>1, <2>2 DEF UartInv, WireIsWhatWasPrinted
<1>4. SeekInv /\ MapInv /\ PlaceInv /\ FindsAnAlignedMap /\ PoolInv /\ DoneInv
      BY <1>1 DEF SeekInv, MapInv, PlaceInv, FindsAnAlignedMap, PoolInv, DoneInv
<1> QED BY <1>2, <1>3, <1>4 DEF IInv

LEMMA NextIInv == IInv /\ [Next]_vars => IInv'
<1> SUFFICES ASSUME IInv, [Next]_vars PROVE IInv'
    OBVIOUS
<1> QED BY WordsStep, UartStep, SeekStep, MapStep, AlignedStep, PlaceStep, PoolStep, DoneStep DEF IInv

LEMMA AlwaysIInv == Spec => []IInv
BY InitIInv, NextIInv, PTL DEF Spec

-------------------------------------------------------------------------------
(* The theorems. *)

\* The kernel only ever reads words of its memory, and the register of the line
\* never holds more than one word (main.c:81-208, uart.c:66-74).
THEOREM KernelTypeCorrect == Spec => []TypeOK
<1>1. IInv => TypeOK
      BY DEF IInv, Words, UartInv, TypeOK
<1> QED BY <1>1, AlwaysIInv, PTL

\* Whatever the kernel prints, and however long the hardware takes for every
\* word, all of it goes over the line once and in order (uart.c:65-87).
THEOREM PrintedIsSent == Spec => []WireIsWhatWasPrinted
<1>1. IInv => WireIsWhatWasPrinted
      BY DEF IInv, UartInv
<1> QED BY <1>1, AlwaysIInv, PTL

\* Among tags whose sizes need no padding, multiboot2_seek_tag finds the memory
\* map of every information block, or there is none (multiboot.c:9-27).  It says
\* nothing of blocks with a tag that needs padding.
THEOREM AlignedMapIsFound == Spec => []FindsAnAlignedMap
<1>1. IInv => FindsAnAlignedMap
      BY DEF IInv
<1> QED BY <1>1, AlwaysIInv, PTL

\* When the context starts out as zeros, the pool of kinit is the first entry of
\* the map found that can be one, and kinit only gives up when there is none;
\* padding or not (main.c:166-198).
THEOREM PoolIsFirst == Spec => []PoolIsTheFirstHole
<1>1. ASSUME IInv PROVE PoolIsTheFirstHole
  <2>1. DoneInv
        BY <1>1 DEF IInv
  <2> QED BY ONLY <2>1 DEF DoneInv, IsFirstHole, PoolIsTheFirstHole
<1> QED BY <1>1, AlwaysIInv, PTL

\* For every context, zeros or not, and every tag that the search takes for the
\* map, the kernel never writes outside the pool of its context and the type of
\* the entry it took the pool from, and it returns with the pool cleared
\* (main.c:127, 178-205).
THEOREM OnlyPoolWritten == Spec => []OnlyThePoolIsWritten
<1>1. ASSUME IInv PROVE OnlyThePoolIsWritten
  <2>0. Words /\ SeekInv /\ PoolInv /\ DoneInv
        BY <1>1 DEF IInv
  <2>1. CASE pc \in {"uart_init", "check", "size", "seek", "failed"}
    <3>1. mem = boot.mem
          BY <2>0, <2>1 DEF SeekInv, DoneInv
    <3> QED BY <2>1, <3>1 DEF OnlyThePoolIsWritten
  <2>2. CASE pc \in {"entry", "choose"}
    <3>1. mem = Chosen /\ (boot.kmem_base = 0 /\ kmem_base # 0 => IsFirstHole)
          BY <2>0, <2>2 DEF PoolInv
    <3> QED BY <2>0, <2>2, <3>1, ChosenFacts DEF OnlyThePoolIsWritten
  <2>3. CASE pc \in {"hole", "clear"}
    <3>1. /\ kmem_base # 0 /\ (boot.kmem_base = 0 /\ kmem_base # 0 => IsFirstHole)
          /\ \A a \in Addr : ~ InPool(a) => mem[a] = Chosen[a]
          BY <2>0, <2>3 DEF DoneInv
    <3> QED BY <2>0, <2>3, <3>1, ChosenFacts DEF OnlyThePoolIsWritten
  <2>4. CASE pc = "returned"
    <3>1. CASE map = 0 \/ kmem_base = 0
      <4>1. mem = boot.mem
            BY <2>0, <2>4, <3>1 DEF DoneInv
      <4> QED BY <3>1, <4>1 DEF OnlyThePoolIsWritten
    <3>2. CASE map # 0 /\ kmem_base # 0
      <4>1. /\ boot.kmem_base = 0 /\ kmem_base # 0 => IsFirstHole
            /\ \A a \in Addr : mem[a] = IF InPool(a) THEN 0 ELSE Chosen[a]
            BY <2>0, <2>4, <3>2 DEF DoneInv
      <4> QED BY <2>0, <3>2, <4>1, ChosenFacts DEF OnlyThePoolIsWritten
    <3> QED BY <3>1, <3>2
  <2> QED BY <2>0, <2>1, <2>2, <2>3, <2>4 DEF Words
<1> QED BY <1>1, AlwaysIInv, PTL
=============================================================================
