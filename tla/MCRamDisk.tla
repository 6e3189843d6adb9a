----------------------------- MODULE MCRamDisk -----------------------------
(* An address space of 16 bytes with blocks of two: a disk of two blocks in   *)
(* the middle, one of a single block that ends with the address space, and    *)
(* requests that have to be refused.  The transfers meet both ends of a disk, *)
(* go past its end, and are so far out that the number of their last block    *)
(* wraps around.                                                              *)
EXTENDS RamDisk

MCImages == {[a \in 0 .. 15 |-> 0]}

Request(base, size) == [base |-> base, size |-> size, type |-> TRUE, path |-> TRUE]
MCCalls ==
  {Request(4, 4), Request(14, 2), Request(14, 4), Request(4, 3),
   [Request(4, 4) EXCEPT !.type = FALSE]}

Descriptor(start, pages) == [start |-> start, pages |-> pages]
MCMaps ==
  {<<Descriptor(0, 1), Descriptor(4, 1)>>, <<Descriptor(0, 1)>>}

Query(op, lba, bytes) ==
  [op |-> op, media |-> 0, lba |-> lba, bytes |-> bytes, buffer |-> TRUE,
   value |-> 1, event |-> bytes = 2]
MCQueries ==
  {Query("read", 0, 4), Query("read", 1, 4),
   Query("write", 0, 2), Query("write", 1, 4), Query("write", 15, 4), Query("write", 0, 3),
   [Query("write", 0, 2) EXCEPT !.media = 1], [Query("read", 0, 0) EXCEPT !.buffer = FALSE]}
============================================================================
