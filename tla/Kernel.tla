------------------------------- MODULE Kernel -------------------------------
(***************************************************************************)
(* The start of the CrOwS kernel (kernel/core/main.c): kmain looks at the  *)
(* Multiboot information it was started with, kinit seeks the memory map   *)
(* in it, takes the first hole in the map as its pool and clears it, and   *)
(* both report on the serial line, whose register the hardware empties in  *)
(* its own time.                                                           *)
(*                                                                         *)
(* Memory is a function from addresses to words: a field of a structure is *)
(* a word, a tag starts at an even address, and a character is a word too, *)
(* of which NUL is 0.  Addresses from 2^32 on are those from Width on.     *)
(*                                                                         *)
(* A message is its kind and its length: all its characters are the number *)
(* of the kind, and what snprintf makes of the numbers in it only decides  *)
(* how many there are.                                                     *)
(***************************************************************************)
EXTENDS Integers, Sequences, FiniteSets, FiniteSetsExt, SequencesExt

CONSTANTS
  Top,            \* the last address
  Width,          \* 2^32, scaled down
  LowLimit,       \* 2 MiB: the kernel is below it
  MinPool,        \* 1 MiB
  MinInfo,        \* expected_minimum_multiboot_info_size
  LineSize,       \* the size of message and memmap_line
  TextLen,        \* how long the text of each formatted message may be
  Boots           \* the ways to start: the registers, the memory, what is on the
                  \* stack; and where the loader put its tags and the map, and
                  \* whether there is a tag that needs padding

Addr == 0 .. Top

\* The messages; the last four are formatted.
Banner == 51
Panic == 52
Missing == 53
NoHole == 54
InfoAt == 55
Iterating == 56
Entry == 57
Hole == 58

MBI_MEMORY_MAP == 6

(* The information of the loader: a tag follows another at the next even   *)
(* address up to the end, and one of them may be the map.                  *)
LaidOut(b) ==
  LET End     == b.rbx + b.mem[b.rbx]
      Size(q) == b.mem[q + 1]
  IN /\ End <= Top
     /\ b.rbx + 2 \in b.tags \cup {End}
     /\ \A q \in b.tags :
          /\ q \in b.rbx + 2 .. End - 1
          /\ \A t \in b.tags : q < t => q + Size(q) + (Size(q) % 2) <= t
          /\ q + Size(q) + (Size(q) % 2) \in b.tags \cup {End}
          /\ b.mem[q] = MBI_MEMORY_MAP <=> q = b.tag
     /\ b.tag # 0 => b.tag \in b.tags
     /\ ~ b.padded => \A q \in b.tags : Size(q) % 2 = 0

(* Whatever in the information can be taken for a map lies in memory.      *)
MapsFit(b) ==
  \A q \in b.rbx + 2 .. b.rbx + b.mem[b.rbx] - 1 :
    b.mem[q] = MBI_MEMORY_MAP => /\ q + 3 <= Top /\ q + b.mem[q + 1] + 1 <= Top
                                 /\ b.mem[q + 2] > 0

ASSUME KernelAssumption ==
  /\ {Top, Width, LowLimit, MinPool, MinInfo, LineSize} \subseteq Nat
  /\ Width > 2 /\ LowLimit > 0
  /\ TextLen \in [{InfoAt, Iterating, Entry, Hole} -> SUBSET Nat]
  /\ Boots \subseteq [magic : BOOLEAN, rbx : Addr, mem : [Addr -> Nat],
                      line : [1 .. LineSize -> Nat], tail : Seq(Nat),
                      kmem_base : Addr, kmem_len : Nat,
                      tags : SUBSET Addr, tag : Addr, padded : BOOLEAN]
  /\ \A b \in Boots : b.magic /\ b.rbx # 0 => LaidOut(b) /\ MapsFit(b)

VARIABLES
  boot,           \* how the kernel was started
  pc,
  mem,            \* the memory
  line,           \* message, then memmap_line
  map,            \* mem_map: the tag of the memory map
  p,              \* the cursor of multiboot2_seek_tag and of the loop over the map
  kmem_base, kmem_len,      \* the pool, in kernel_ctx
  out,            \* the rest of the string that uart_puts has to send
  thr,            \* the transmitter holding register: a word, or none
  wire,           \* what went over the line
  puts            \* every string that was given to uart_puts

ctx  == <<map, kmem_base, kmem_len>>
uart == <<out, thr, wire, puts>>
vars == <<boot, pc, mem, line, p, ctx, uart>>

Free == 1
Reserved == 2

(* The fields of a tag, of the map and of an entry. *)
TagType(q)   == mem[q]
TagSize(q)   == mem[q + 1]
EntrySize(q) == mem[q + 2]
Base(q)      == mem[q]
Length(q)    == mem[q + 1]
Type(q)      == mem[q + 2]

Init ==
  /\ boot \in Boots
  /\ pc = "uart_init"
  /\ mem = boot.mem /\ line = boot.line
  /\ map = 0 /\ p = 0
  /\ kmem_base = boot.kmem_base /\ kmem_len = boot.kmem_len
  /\ out = << >> /\ thr = << >> /\ wire = << >> /\ puts = << >>

-----------------------------------------------------------------------------
(* Strings *)

(* A string ends before the first NUL; without one in the buffer it goes   *)
(* on with what follows on the stack.                                      *)
UpToNul(buffer, tail) ==
  LET nul == {i \in DOMAIN buffer : buffer[i] = 0}
  IN IF nul = {} THEN buffer \o tail ELSE SubSeq(buffer, 1, Min(nul) - 1)

StringOf(buffer) == UpToNul(buffer, boot.tail)
StringAt(a) == UpToNul([i \in 1 .. Top + 1 - a |-> mem[a + i - 1]], << >>)

(* A value as an int. *)
ToInt(n) == ((n + Width \div 2) % Width) - (Width \div 2)

(* What %X, %u and %d may make of a format. *)
Formatted(kind) == {[i \in 1 .. n |-> kind] : n \in TextLen[kind]}

(* snprintf writes as much of the text as the limit allows, and no NUL.    *)
snprintf(buffer, limit, text) ==
  [i \in DOMAIN buffer |-> IF i <= Len(text) /\ i <= limit THEN text[i] ELSE buffer[i]]

(* The loops that clear a line compute its length anew in every round, and *)
(* it is 0 as soon as the first character is gone.                         *)
ClearLine(buffer) == [buffer EXCEPT ![1] = 0]

-----------------------------------------------------------------------------
(* The serial line *)

(* uart_puts(s), and what follows when all of it was sent. *)
uart_puts(s) ==
  /\ out = << >>
  /\ out' = s
  /\ puts' = puts \o s
  /\ UNCHANGED <<thr, wire>>

BugPutc ==
  /\ out # << >>
  /\ thr' = <<Head(out)>>
  /\ out' = Tail(out)
  /\ UNCHANGED <<boot, pc, mem, line, p, ctx, wire, puts>>
BugQueuec ==
  /\ out # << >>
  /\ thr' = Append(thr, Head(out))
  /\ out' = Tail(out)
  /\ UNCHANGED <<boot, pc, mem, line, p, ctx, wire, puts>>
(* uart_putc waits until the register is empty. *)
uart_putc ==
  /\ out # << >>
  /\ thr = << >>
  /\ thr' = <<Head(out)>>
  /\ out' = Tail(out)
  /\ UNCHANGED <<boot, pc, mem, line, p, ctx, wire, puts>>

Transmit ==
  /\ thr # << >>
  /\ wire' = wire \o thr
  /\ thr' = << >>
  /\ UNCHANGED <<boot, pc, mem, line, p, ctx, out, puts>>

-----------------------------------------------------------------------------
(* kmain *)

(* A step of the kernel that prints s.  Nothing else happens before all of *)
(* an earlier string was sent.                                             *)
Say(at, s, next) ==
  /\ pc = at
  /\ uart_puts(s)
  /\ pc' = next

kmain_Init ==
  /\ Say("uart_init", <<Banner>>, "check")
  /\ UNCHANGED <<boot, mem, line, p, ctx>>

kmain_NoMultiboot ==
  /\ ~ boot.magic \/ boot.rbx = 0
  /\ Say("check", <<Panic>>, "returned")
  /\ UNCHANGED <<boot, mem, line, p, ctx>>

kmain_Multiboot ==
  /\ boot.magic /\ boot.rbx # 0
  /\ \E text \in Formatted(InfoAt) :
       LET l == snprintf(line, LineSize, text) IN
       Say("check", StringOf(l), "size") /\ line' = ClearLine(l)
  /\ UNCHANGED <<boot, mem, p, ctx>>

kmain_TooSmall ==
  /\ mem[boot.rbx] < MinInfo
  /\ Say("size", <<Panic>>, "returned")
  /\ UNCHANGED <<boot, mem, line, p, ctx>>

(* kinit starts to seek, and has a line of its own, on the stack as well.  *)
kmain_kinit ==
  /\ pc = "size" /\ out = << >>
  /\ mem[boot.rbx] >= MinInfo
  /\ p' = boot.rbx + 2
  /\ line' = boot.line
  /\ pc' = "seek"
  /\ UNCHANGED <<boot, mem, ctx, uart>>

kmain_Fails ==
  /\ Say("failed", <<Panic>>, "returned")
  /\ UNCHANGED <<boot, mem, line, p, ctx>>

kmain ==
  \/ kmain_Init \/ kmain_NoMultiboot \/ kmain_Multiboot
  \/ kmain_TooSmall \/ kmain_kinit \/ kmain_Fails

-----------------------------------------------------------------------------
(* multiboot2_seek_tag(MBI_MEMORY_MAP, info_tag) *)

InfoEnd == boot.rbx + mem[boot.rbx]

BugSeekNext ==
  /\ pc = "seek" /\ p < InfoEnd
  /\ TagType(p) # MBI_MEMORY_MAP
  /\ p' = p + 2 + TagSize(p)
  /\ UNCHANGED <<boot, pc, mem, line, ctx, uart>>
SeekNext ==
  /\ pc = "seek" /\ p < InfoEnd
  /\ TagType(p) # MBI_MEMORY_MAP
  /\ p' = p + TagSize(p)
  /\ UNCHANGED <<boot, pc, mem, line, ctx, uart>>

SeekMissing ==
  /\ p >= InfoEnd
  /\ Say("seek", <<Missing>>, "failed")
  /\ UNCHANGED <<boot, mem, line, p, ctx>>

(* The tag was found: kinit reports it and begins with its first entry.    *)
SeekFound ==
  /\ p < InfoEnd /\ TagType(p) = MBI_MEMORY_MAP
  /\ map' = p
  /\ p' = p + 4
  /\ \E text \in Formatted(Iterating) :
       LET l == snprintf(line, LineSize, text) IN
       Say("seek", StringOf(l), "entry") /\ line' = l
  /\ UNCHANGED <<boot, mem, kmem_base, kmem_len>>

multiboot2_seek_tag == SeekNext \/ SeekMissing \/ SeekFound

-----------------------------------------------------------------------------
(* kinit *)

MapEnd == map + TagSize(map)

kinit_SayEntry ==
  /\ p < MapEnd
  /\ \E text \in Formatted(Entry) :
       LET l == snprintf(ClearLine(line), LineSize, text) IN
       Say("entry", StringOf(l), "choose") /\ line' = l
  /\ UNCHANGED <<boot, mem, p, ctx>>

BugSuitable(q) == Base(q) >= LowLimit /\ Length(q) >= MinPool
Suitable(q) == Base(q) >= LowLimit /\ Type(q) = Free /\ Length(q) >= MinPool

(* An entry is passed over when there is a pool already. *)
kinit_PassEntry ==
  /\ pc = "choose" /\ out = << >>
  /\ kmem_base # 0 \/ ~ Suitable(p)
  /\ p' = p + EntrySize(map)
  /\ pc' = "entry"
  /\ UNCHANGED <<boot, mem, line, ctx, uart>>

kinit_TakeEntry ==
  /\ pc = "choose" /\ out = << >>
  /\ kmem_base = 0 /\ Suitable(p)
  /\ kmem_base' = Base(p) /\ kmem_len' = Length(p)
  /\ mem' = [mem EXCEPT ![p + 2] = Reserved]
  /\ p' = p + EntrySize(map)
  /\ pc' = "entry"
  /\ UNCHANGED <<boot, line, map, uart>>

kinit_NoHole ==
  /\ p >= MapEnd /\ kmem_base = 0
  /\ Say("entry", <<NoHole>>, "failed")
  /\ UNCHANGED <<boot, mem, line, p, ctx>>

InPool(a) == a - kmem_base \in 0 .. kmem_len - 1

(* The pool is written to, printed from, and cleared.  The limit is an     *)
(* int: a pool of 2 GiB is none.                                           *)
kinit_WriteHole ==
  /\ pc = "entry" /\ out = << >>
  /\ p >= MapEnd /\ kmem_base # 0
  /\ \E text \in Formatted(Hole) :
     mem' = [a \in Addr |->
               IF a - kmem_base \in 0 .. Min({ToInt(kmem_len), Len(text)}) - 1
               THEN text[a - kmem_base + 1] ELSE mem[a]]
  /\ pc' = "hole"
  /\ UNCHANGED <<boot, line, p, ctx, uart>>

kinit_SayHole ==
  /\ Say("hole", StringAt(kmem_base), "clear")
  /\ UNCHANGED <<boot, mem, line, p, ctx>>

BugClearPool ==
  /\ pc = "clear" /\ out = << >>
  /\ mem' = [a \in Addr |-> IF a - kmem_base \in 0 .. kmem_len THEN 0 ELSE mem[a]]
  /\ pc' = "returned"
  /\ UNCHANGED <<boot, line, p, ctx, uart>>
kinit_ClearPool ==
  /\ pc = "clear" /\ out = << >>
  /\ mem' = [a \in Addr |-> IF InPool(a) THEN 0 ELSE mem[a]]
  /\ pc' = "returned"
  /\ UNCHANGED <<boot, line, p, ctx, uart>>

kinit ==
  \/ multiboot2_seek_tag
  \/ kinit_SayEntry \/ kinit_PassEntry \/ kinit_TakeEntry
  \/ kinit_NoHole \/ kinit_WriteHole \/ kinit_SayHole \/ kinit_ClearPool

-----------------------------------------------------------------------------
Run == kmain \/ kinit \/ uart_putc
Next == Run \/ Transmit

(* The processor runs on, and the hardware sends what is in its register.  *)
Spec == Init /\ [][Next]_vars /\ WF_vars(Run) /\ WF_vars(Transmit)

-----------------------------------------------------------------------------
(* Properties *)

TypeOK ==
  /\ boot \in Boots
  /\ pc \in {"uart_init", "check", "size", "seek", "failed", "entry", "choose",
             "hole", "clear", "returned"}
  /\ mem \in [Addr -> Nat] /\ line \in [1 .. LineSize -> Nat]
  /\ map \in Addr /\ p \in Nat
  /\ kmem_base \in Nat /\ kmem_len \in Nat
  /\ Len(thr) <= 1

(* The entries of the map that was found, as the loader wrote them, and    *)
(* those that can be the pool.                                             *)
Entries == {q \in Addr : /\ map # 0 /\ q < map + boot.mem[map + 1]
                         /\ \E n \in Addr : q = map + 4 + n * boot.mem[map + 2]}
Holes == {q \in Entries : /\ boot.mem[q] >= LowLimit
                          /\ boot.mem[q + 1] >= MinPool
                          /\ boot.mem[q + 2] = Free}
IsPool(q) == kmem_base = boot.mem[q] /\ kmem_len = boot.mem[q + 1]

(* Among tags that need no padding the search finds the memory map, that   *)
(* tag and no other, or there is none.                                     *)
FindsAnAlignedMap ==
  ~ boot.padded /\ pc \notin {"uart_init", "check", "size", "seek", "returned"} => map = boot.tag

(* "Find a physical memory hole to use for kmalloc calls" (main.c:147): if  *)
(* the loader provided a map, kinit finds it among the tags, whatever      *)
(* padding they need, and comes to clear a hole of it, whatever was on the *)
(* stack, or gives up because there is none.                               *)
UsesAHoleOfTheMap ==
  pc = "seek" /\ boot.tag # 0 ~>
    /\ map = boot.tag
    /\ IF Holes = {} THEN pc = "failed" ELSE pc = "clear" /\ \E q \in Holes : IsPool(q)

(* With a context that starts out as zeros, the pool is the first entry of *)
(* the map found that is free, from 2 MiB on and 1 MiB long, although an   *)
(* entry is changed while the loop goes on (main.c:178-192), and kinit     *)
(* only gives up when there is none.                                       *)
PoolIsTheFirstHole ==
  boot.kmem_base = 0 /\ map # 0 =>
    /\ pc \in {"hole", "clear"} => Holes # {} /\ IsPool(Min(Holes))
    /\ pc = "failed" => Holes = {}

(* However the kernel was started, also with garbage for a context and     *)
(* with tags that need padding, it writes to nothing but the pool that its *)
(* context names and, if it took the pool from the map, the type of that   *)
(* entry; and when kinit is done the pool is clear.  The report in it is   *)
(* limited by an int, and the pool may hold the map (main.c:191-204).      *)
OnlyThePoolIsWritten ==
  /\ \A a \in Addr : mem[a] # boot.mem[a] =>
       \/ kmem_base # 0 /\ InPool(a)
       \/ /\ boot.kmem_base = 0 /\ mem[a] = Reserved
          /\ \E q \in Holes : a = q + 2 /\ IsPool(q)
  /\ pc = "returned" /\ map # 0 /\ kmem_base # 0 => \A a \in Addr : InPool(a) => mem[a] = 0

(* Every character given to uart_puts goes over the line, once and in      *)
(* order, however long the hardware takes for each (uart.c:65-87).         *)
WireIsWhatWasPrinted == wire \o thr \o out = puts

(* Without padded tags the kernel returns, and all it said was sent.       *)
KmainReturns == ~ boot.padded ~> (pc = "returned" /\ wire = puts)
=============================================================================
