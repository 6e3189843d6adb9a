------------------------------ MODULE RamDisk ------------------------------
(***************************************************************************)
(* The RAM disk driver of the MFTAH loader (ramdisk.c, acpi.c): loading    *)
(* it, registering memory as a disk step by step, with every step that can *)
(* fail, publishing the disk to ACPI, and Block I/O on the disks, which    *)
(* the firmware may use from the moment the protocols are installed, in    *)
(* the middle of a registration too.                                       *)
(*                                                                         *)
(* An address is a number below Limit, and arithmetic on addresses, sizes  *)
(* and block numbers wraps around at Limit, as it does at 2^64.            *)
(***************************************************************************)
EXTENDS Integers, Sequences

CONSTANTS
  Limit,          \* 2^64, scaled down
  Block,          \* RAM_DISK_BLOCK_SIZE
  Page,           \* EFI_PAGE_SIZE
  Value,          \* the values of a byte
  Images,         \* what the memory may hold at the start
  Calls,          \* the registrations that callers ask for: base, size, whether
                  \* RamDiskType and DevicePath are given
  Maps,           \* the lists of descriptors the memory map may have
  MaxGrowth,      \* how many descriptors other allocations may add to it
  Queries         \* the reads and writes that Block I/O is asked for

Addr == 0 .. Limit - 1

(* The memory that can be a disk. *)
Disk ==
  {c \in Calls : /\ c.type /\ c.path /\ c.size > 0
                 /\ c.size % Block = 0 /\ c.base + c.size <= Limit}

SizeOf == [d \in Disk |-> d.size]
Elsewhere == {a \in Addr : \A d \in Disk : a - d.base \notin 0 .. d.size - 1}

(* Callers register memory of their own: no two disks overlap.  The size   *)
(* of a block is a power of two, as 2^64 is.                               *)
ASSUME RamDiskAssumption ==
  /\ {Limit, Block, Page} \subseteq Nat \ {0} /\ MaxGrowth \in Nat
  /\ Block > 1 /\ Limit % Block = 0
  /\ Images \subseteq [Addr -> Value]
  /\ Calls \subseteq [base : Addr, size : Addr, type : BOOLEAN, path : BOOLEAN]
  /\ Maps \subseteq Seq([start : Addr, pages : 0 .. Limit])
  /\ Queries \subseteq [op : {"read", "write"}, media : Nat, lba : Addr, bytes : Addr,
                        buffer : BOOLEAN, value : Value, event : BOOLEAN]
  /\ \A c, d \in Disk : c = d \/ c.base + c.size <= d.base \/ d.base + d.size <= c.base

VARIABLES
  pc,
  call,           \* the registration in progress, or the last one
  status,         \* what the last registration returned
  held,           \* what it acquired and has not given back: pool memory, and the
                  \* protocols that it installed
  handles,        \* the handles that its device path and Block I/O are installed on:
                  \* the private data of every registered disk
  dangling,       \* the disks whose protocols stay installed after they are freed
  mem,            \* the bytes of the memory
  reply,          \* the last Block I/O request and its answer
  map, growth,    \* the memory map, and by how much it has grown during the call
  mapSize,        \* MemoryMapSize
  acpi            \* the tables installed through gAcpiTableProtocol

regVars == <<call, status, held, handles, dangling>>
nfitVars == <<mapSize, acpi>>
vars == <<pc, regVars, mem, reply, map, growth, nfitVars>>

UINT64_MAX == Limit - 1
Wrap(n) == n % Limit

NoCall == [base |-> 0, size |-> 0, type |-> FALSE, path |-> FALSE]

Init ==
  /\ pc = "acpi"
  /\ call = NoCall /\ status = "none" /\ held = {}
  /\ handles = << >> /\ dangling = {}
  /\ mem \in Images
  /\ reply = [query |-> [op |-> "none"], status |-> "none", data |-> << >>, signalled |-> FALSE]
  /\ map \in Maps /\ growth = 0
  /\ mapSize = 0 /\ acpi = << >>

-----------------------------------------------------------------------------
(* Loading the drivers *)

(* EnvironmentInitialize panics when the ACPI table protocol is not there, *)
(* or when the protocol of the driver cannot be installed.                 *)
AcpiLoadDriver ==
  /\ pc = "acpi"
  /\ pc' \in {"driver", "panic"}
  /\ UNCHANGED <<regVars, mem, reply, map, growth, nfitVars>>

RDEntryPoint ==
  /\ pc = "driver"
  /\ pc' \in {"idle", "panic"}
  /\ UNCHANGED <<regVars, mem, reply, map, growth, nfitVars>>

-----------------------------------------------------------------------------
(* Registering a disk *)

(* The checks of RamDiskRegister, in their order. *)
BugCheck(c) ==
  IF c.size = 0 \/ ~ c.type \/ ~ c.path THEN "NOT_FOUND"
  ELSE IF c.size % Block # 0 THEN "BAD_BUFFER_SIZE"
  ELSE IF c.size >= UINT64_MAX THEN "INVALID_PARAMETER"
  ELSE "SUCCESS"
RegisterCheck(c) ==
  IF c.size = 0 \/ ~ c.type \/ ~ c.path THEN "NOT_FOUND"
  ELSE IF c.size % Block # 0 THEN "BAD_BUFFER_SIZE"
  ELSE IF c.size >= UINT64_MAX \/ c.base > (UINT64_MAX - c.size) + 1 THEN "INVALID_PARAMETER"
  ELSE "SUCCESS"

(* The device path ends in a node with the first and the last address. *)
DevicePath(c) == <<c.base, Wrap(c.base + c.size - 1)>>

RamDiskInitBlockIo(c) ==
  [StartingAddr |-> c.base, Size |-> c.size,
   MediaId |-> 0, ReadOnly |-> FALSE, BlockSize |-> Block,
   LastBlock |-> Wrap(c.size + Block - 1) \div Block - 1]

RegisterCall(c) ==
  /\ pc = "idle"
  /\ call' = c
  /\ held' = {}
  /\ LET s == RegisterCheck(c) IN
       \/ s # "SUCCESS" /\ status' = s /\ UNCHANGED pc
       \/ s = "SUCCESS" /\ status' = "none" /\ pc' = "private"
  /\ growth' = 0 /\ mapSize' = 0
  /\ UNCHANGED <<handles, dangling, mem, reply, map, acpi>>

(* A step of the registration that allocates what and goes on at next, or  *)
(* fails and goes on at otherwise.                                         *)
Allocate(at, what, next, otherwise) ==
  /\ pc = at
  /\ \/ held' = held \cup {what} /\ pc' = next /\ UNCHANGED status
     \/ UNCHANGED held /\ status' = "OUT_OF_RESOURCES" /\ pc' = otherwise
  /\ UNCHANGED <<call, handles, dangling, mem, reply, map, growth>>

AllocatePrivateData == Allocate("private", "private", "node", "idle") /\ UNCHANGED nfitVars
AllocateDevNode     == Allocate("node", "node", "path", "error") /\ UNCHANGED nfitVars
AppendDevicePathNode == Allocate("path", "path", "install", "error") /\ UNCHANGED nfitVars

(* The firmware refuses a device path that is on a handle already, unless  *)
(* the installed one was freed and may no longer look like it.             *)
InstallProtocols ==
  /\ pc = "install"
  /\ \/ /\ \A c \in DOMAIN handles : DevicePath(c) # DevicePath(call)
        /\ handles' = [c \in DOMAIN handles \cup {call} |->
                        IF c = call THEN RamDiskInitBlockIo(c) ELSE handles[c]]
        /\ held' = held \cup {"protocols"}
        /\ pc' = "connect" /\ UNCHANGED status
     \/ /\ \/ /\ \E c \in DOMAIN handles \cup dangling : DevicePath(c) = DevicePath(call)
              /\ status' = "ALREADY_STARTED"
           \/ status' = "OUT_OF_RESOURCES"
        /\ pc' = "error" /\ UNCHANGED <<handles, held>>
  /\ UNCHANGED <<call, dangling, mem, reply, map, growth, nfitVars>>

(* On success the node, which the path holds a copy of, is freed. *)
ConnectController ==
  /\ pc = "connect"
  /\ \/ /\ held' = held \ {"node"}
        /\ pc' = "size" /\ UNCHANGED status
     \/ /\ pc' = "error" /\ status' \in {"NOT_FOUND", "OUT_OF_RESOURCES"} /\ UNCHANGED held
  /\ UNCHANGED <<call, handles, dangling, mem, reply, map, growth, nfitVars>>

(* Everything that was allocated is freed.  When the protocols were        *)
(* installed they stay, and lead to private data that is gone.             *)
ErrorExit ==
  /\ pc = "error"
  /\ held' = held \ {"node", "path", "private"}
  /\ IF "protocols" \in held
     THEN /\ dangling' = dangling \cup {call}
          /\ handles' = [c \in DOMAIN handles \ {call} |-> handles[c]]
     ELSE UNCHANGED <<handles, dangling>>
  /\ pc' = "idle"
  /\ UNCHANGED <<call, status, mem, reply, map, growth, nfitVars>>

-----------------------------------------------------------------------------
(* Publishing a disk to ACPI *)

Return(s) == status' = s /\ pc' = "idle"

MapNeed == Len(map) + growth

(* GetMemoryMap without a buffer only tells the size. *)
GetMemoryMapSize ==
  /\ pc = "size"
  /\ mapSize' = MapNeed
  /\ pc' = "map"
  /\ UNCHANGED <<regVars, mem, reply, map, growth, acpi>>

AllocateMemoryMap == Allocate("map", "map", "getmap", "idle") /\ UNCHANGED nfitVars

BugGetMemoryMap ==
  /\ pc = "getmap"
  /\ IF mapSize < MapNeed
     THEN /\ mapSize' = MapNeed
          /\ pc' = "map" /\ UNCHANGED <<status, held>>
     ELSE /\ \/ pc' = "search" /\ UNCHANGED <<held, status>>
             \/ held' = held \ {"map"} /\ Return("INVALID_PARAMETER")
          /\ mapSize' = MapNeed
  /\ UNCHANGED <<call, handles, dangling, mem, reply, map, growth, acpi>>
BugRetryGetMemoryMap ==
  /\ pc = "getmap"
  /\ IF mapSize < MapNeed
     THEN /\ held' = held \ {"map"} /\ UNCHANGED mapSize
          /\ pc' = "map" /\ UNCHANGED status
     ELSE /\ \/ pc' = "search" /\ UNCHANGED <<held, status>>
             \/ held' = held \ {"map"} /\ Return("INVALID_PARAMETER")
          /\ mapSize' = MapNeed
  /\ UNCHANGED <<call, handles, dangling, mem, reply, map, growth, acpi>>
(* The map may have outgrown the buffer: then the size is told again.      *)
GetMemoryMap ==
  /\ pc = "getmap"
  /\ IF mapSize < MapNeed
     THEN /\ mapSize' = MapNeed /\ held' = held \ {"map"}
          /\ pc' = "map" /\ UNCHANGED status
     ELSE /\ \/ pc' = "search" /\ UNCHANGED <<held, status>>
             \/ held' = held \ {"map"} /\ Return("INVALID_PARAMETER")
          /\ mapSize' = MapNeed
  /\ UNCHANGED <<call, handles, dangling, mem, reply, map, growth, acpi>>

BugCovers(d, c) == d.start <= c.base
(* The descriptor the disk lies in. *)
Covers(d, c) ==
  /\ d.start <= c.base
  /\ Wrap(d.start + d.pages * Page) >= Wrap(c.base + c.size)

SearchMemoryMap ==
  /\ pc = "search"
  /\ held' = held \ {"map"}
  /\ IF \E i \in DOMAIN map : Covers(map[i], call)
     THEN pc' = "ssdt" /\ UNCHANGED status
     ELSE Return("NOT_FOUND")
  /\ UNCHANGED <<call, handles, dangling, mem, reply, map, growth, nfitVars>>

(* InstallAcpiTable, which may refuse the table. *)
Install(table, next) ==
  \/ acpi' = Append(acpi, table) /\ next
  \/ acpi' = acpi /\ Return("OUT_OF_RESOURCES")

RamDiskPublishSsdt ==
  /\ pc = "ssdt"
  /\ Install([kind |-> "SSDT"], pc' = "nfit" /\ UNCHANGED status)
  /\ UNCHANGED <<call, held, handles, dangling, mem, reply, map, growth, mapSize>>

AllocateNfit == Allocate("nfit", "nfit", "table", "idle") /\ UNCHANGED nfitVars

PublishNfit ==
  /\ pc = "table"
  /\ Install([kind |-> "NFIT", base |-> handles[call].StartingAddr, length |-> handles[call].Size],
             Return("SUCCESS"))
  /\ held' = held \ {"nfit"}
  /\ UNCHANGED <<call, handles, dangling, mem, reply, map, growth, mapSize>>

RamDiskPublishNfit ==
  \/ GetMemoryMapSize \/ AllocateMemoryMap \/ GetMemoryMap \/ SearchMemoryMap
  \/ RamDiskPublishSsdt \/ AllocateNfit \/ PublishNfit

RegisterStep ==
  \/ AllocatePrivateData \/ AllocateDevNode \/ AppendDevicePathNode
  \/ InstallProtocols \/ ConnectController \/ ErrorExit
  \/ RamDiskPublishNfit

(* Unregistering is left incomplete in the code: without a path it returns *)
(* INVALID_PARAMETER; with one it names a handle that carries nothing to   *)
(* uninstall, and returns success.  Either way nothing changes.            *)
RamDiskUnregister ==
  /\ pc = "idle"
  /\ UNCHANGED vars

(* Other users of the firmware allocate pool memory and split descriptors. *)
(* It only matters between the calls that read the map.                    *)
MapGrows ==
  /\ pc \in {"map", "getmap"} /\ growth < MaxGrowth
  /\ growth' = growth + 1
  /\ UNCHANGED <<pc, regVars, mem, reply, map, nfitVars>>

-----------------------------------------------------------------------------
(* Block I/O *)

BugTransferCheck(p, q) ==
  IF q.media # p.MediaId THEN "MEDIA_CHANGED"
  ELSE IF ~ q.buffer THEN "INVALID_PARAMETER"
  ELSE IF q.bytes = 0 THEN "SUCCESS"
  ELSE IF q.bytes % p.BlockSize # 0 THEN "BAD_BUFFER_SIZE"
  ELSE IF Wrap(q.lba + q.bytes \div p.BlockSize - 1) > p.LastBlock THEN "INVALID_PARAMETER"
  ELSE "SUCCESS"
(* The checks that reading and writing make, in their order. *)
TransferCheck(p, q) ==
  IF q.media # p.MediaId THEN "MEDIA_CHANGED"
  ELSE IF q.op = "write" /\ p.ReadOnly THEN "WRITE_PROTECTED"
  ELSE IF ~ q.buffer THEN "INVALID_PARAMETER"
  ELSE IF q.bytes = 0 THEN "SUCCESS"
  ELSE IF q.bytes % p.BlockSize # 0 THEN "BAD_BUFFER_SIZE"
  ELSE IF q.lba > p.LastBlock THEN "INVALID_PARAMETER"
  ELSE IF Wrap(q.lba + q.bytes \div p.BlockSize - 1) > p.LastBlock THEN "INVALID_PARAMETER"
  ELSE "SUCCESS"

Place(p, q) == Wrap(p.StartingAddr + q.lba * p.BlockSize)

(* The Ex calls signal the event of the token, if there is one, once the   *)
(* transfer is done.                                                       *)
Answer(q, s, data) ==
  reply' = [query |-> q, status |-> s, data |-> data, signalled |-> q.event /\ s = "SUCCESS"]

RamDiskBlkIoReadBlocks(c, q) ==
  /\ q.op = "read"
  /\ LET p == handles[c]
         s == TransferCheck(p, q)
     IN Answer(q, s, IF s = "SUCCESS"
                     THEN [i \in 0 .. q.bytes - 1 |-> mem[Wrap(Place(p, q) + i)]]
                     ELSE << >>)
  /\ UNCHANGED mem

RamDiskBlkIoWriteBlocks(c, q) ==
  /\ q.op = "write"
  /\ LET p == handles[c]
         s == TransferCheck(p, q)
     IN /\ mem' = IF s = "SUCCESS"
                  THEN [a \in Addr |-> IF Wrap(a - Place(p, q)) < q.bytes THEN q.value ELSE mem[a]]
                  ELSE mem
        /\ Answer(q, s, << >>)

(* Reset and FlushBlocks have nothing to do, FlushBlocksEx may signal.     *)
RamDiskBlkIoFlushBlocks(c) ==
  /\ \/ Answer([op |-> "flush", event |-> FALSE], "SUCCESS", << >>)
     \/ \E event \in BOOLEAN :
          Answer([op |-> "flush", event |-> event],
                 IF handles[c].ReadOnly THEN "WRITE_PROTECTED" ELSE "SUCCESS", << >>)
  /\ UNCHANGED mem

BlockIo(c) ==
  /\ pc # "panic" /\ c \in DOMAIN handles
  /\ \/ \E q \in Queries : RamDiskBlkIoReadBlocks(c, q) \/ RamDiskBlkIoWriteBlocks(c, q)
     \/ RamDiskBlkIoFlushBlocks(c)
  /\ UNCHANGED <<pc, regVars, map, growth, nfitVars>>

-----------------------------------------------------------------------------
Next ==
  \/ AcpiLoadDriver \/ RDEntryPoint
  \/ \E c \in Calls : RegisterCall(c)
  \/ RegisterStep
  \/ RamDiskUnregister
  \/ MapGrows
  \/ \E c \in Calls : BlockIo(c)

(* A call that was made runs to its end. *)
Spec == Init /\ [][Next]_vars /\ WF_vars(AcpiLoadDriver \/ RDEntryPoint \/ RegisterStep)

-----------------------------------------------------------------------------
(* Properties *)

Steps ==
  {"private", "node", "path", "install", "connect", "error",
   "size", "map", "getmap", "search", "ssdt", "nfit", "table"}

TypeOK ==
  /\ pc \in {"acpi", "driver", "idle", "panic"} \cup Steps
  /\ call \in Calls \cup {NoCall}
  /\ held \subseteq {"private", "node", "path", "protocols", "map", "nfit"}
  /\ DOMAIN handles \cup dangling \subseteq Disk
  /\ mem \in [Addr -> Value]
  /\ growth \in 0 .. MaxGrowth /\ mapSize \in 0 .. MapNeed

(* However a registration ends, after all of its eleven steps or by the    *)
(* failure of any of them, the only pool memory it leaves behind is the    *)
(* private data and the device path of a disk whose protocols are          *)
(* installed (the early returns, the ErrorExit of ramdisk.c:466-478 and    *)
(* the returns of RamDiskPublishNfit).  The loop that reads the memory map *)
(* never holds two buffers for it.                                         *)
PoolIsAccountedFor ==
  /\ pc = "map" => "map" \notin held
  /\ pc = "idle" =>
    /\ held \cap {"node", "map", "nfit"} = {}
    /\ "private" \in held <=> "path" \in held
    /\ "private" \in held => "protocols" \in held /\ call \in DOMAIN handles

(* An NFIT that the system will read from ACPI comes after the SSDT that   *)
(* declares its root device, describes a disk that is registered, and that *)
(* disk lies in one descriptor of the memory map, unless it ends at the    *)
(* end of the address space, where the sum in ramdisk.c:219-222 wraps.     *)
NfitDescribesADisk ==
  \A i \in DOMAIN acpi : acpi[i].kind = "NFIT" =>
    LET t == acpi[i] IN
    /\ \E j \in 1 .. i - 1 : acpi[j].kind = "SSDT"
    /\ \E c \in DOMAIN handles : t.base = c.base /\ t.length = c.size
    /\ t.base + t.length < Limit =>
         \E k \in DOMAIN map : /\ map[k].start <= t.base
                               /\ t.base + t.length <= map[k].start + map[k].pages * Page

(* A registration that returns an error has registered nothing (ramdisk.h: *)
(* "The RAM disk register operation fails due to resource limitation").    *)
FailureLeavesNothing ==
  pc = "idle" /\ status \notin {"none", "SUCCESS"} => held = {}

(* Block I/O implements independent block devices: transfers within a disk *)
(* read and write its own bytes, everything else is refused, no other      *)
(* memory is written, whatever the state of a registration, at the last    *)
(* block of a disk and where block numbers wrap around.                    *)
Devices == INSTANCE BlockDevices WITH
  Length  <- SizeOf,
  Refusal <- {"MEDIA_CHANGED", "INVALID_PARAMETER", "BAD_BUFFER_SIZE"},
  Medium  <- 0,
  present <- DOMAIN handles,
  content <- [d \in Disk |-> [i \in 0 .. d.size - 1 |-> mem[d.base + i]]],
  outside <- [a \in Elsewhere |-> mem[a]]
ImplementsBlockDevices == Devices!Spec

(* A registration returns, though the memory map grows while it is being   *)
(* read and the loop of ramdisk.c:188-207 starts over.                     *)
RegisterReturns == pc \in Steps ~> pc = "idle"
=============================================================================
